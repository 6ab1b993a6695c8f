------------------------- MODULE ReconstituteProof --------------------------
(***************************************************************************)
(* Proofs about the reconstitution of junctions: for every folder, any     *)
(* number of other folders and every order in which the junctions are      *)
(* replaced, wherever the function stops.                                  *)
(***************************************************************************)
EXTENDS Reconstitute, WellFoundedInduction, TLAPS

-----------------------------------------------------------------------------
(***************************************************************************)
(* Paths                                                                   *)
(***************************************************************************)

\* Of two paths above the same path, one is above the other.
LEMMA Comparable ==
    ASSUME NEW p \in Path, NEW r \in Path, NEW q \in Path, q \in Below(p), q \in Below(r)
    PROVE  p = r \/ Proper(p, r) \/ Proper(r, p)
<1>0. p \in Seq(STRING) /\ r \in Seq(STRING) /\ q \in Seq(STRING)
  BY ReconstituteAssumption
<1>1. /\ Len(p) \in Nat /\ Len(r) \in Nat /\ Len(q) \in Nat
      /\ Len(p) <= Len(q) /\ Len(r) <= Len(q)
  BY <1>0 DEF Below, Proper
<1>2. \A k \in 1..Len(p) : p[k] = q[k]
  BY <1>0, <1>1 DEF Below, Proper
<1>3. \A k \in 1..Len(r) : r[k] = q[k]
  BY <1>0, <1>1 DEF Below, Proper
<1>4. ASSUME NEW a \in Seq(STRING), NEW b \in Seq(STRING), Len(a) < Len(b),
             \A k \in 1..Len(a) : a[k] = b[k]
      PROVE  SubSeq(b, 1, Len(a)) = a
  <2>1. /\ SubSeq(b, 1, Len(a)) \in Seq(STRING) /\ Len(SubSeq(b, 1, Len(a))) = Len(a)
        /\ \A k \in 1..Len(a) : SubSeq(b, 1, Len(a))[k] = b[k]
    BY <1>4
  <2> QED BY <1>4, <2>1
<1>5. CASE Len(p) < Len(r)
  <2>1. \A k \in 1..Len(p) : p[k] = r[k] BY <1>1, <1>2, <1>3, <1>5
  <2> QED BY <1>0, <1>4, <1>5, <2>1 DEF Proper
<1>6. CASE Len(r) < Len(p)
  <2>1. \A k \in 1..Len(r) : r[k] = p[k] BY <1>1, <1>2, <1>3, <1>6
  <2> QED BY <1>0, <1>4, <1>6, <2>1 DEF Proper
<1>7. CASE Len(p) = Len(r)
  <2>1. \A k \in 1..Len(p) : p[k] = r[k] BY <1>1, <1>2, <1>3, <1>7
  <2> QED BY <1>0, <1>7, <2>1
<1> QED BY <1>1, <1>5, <1>6, <1>7

\* What is below a path below p is below p.
LEMMA BelowBelow ==
    ASSUME NEW p \in Path, NEW r \in Path, NEW q \in Path, Proper(p, r), q \in Below(r)
    PROVE  Proper(p, q)
<1>0. p \in Seq(STRING) /\ r \in Seq(STRING) /\ q \in Seq(STRING)
  BY ReconstituteAssumption
<1>1. /\ Len(p) \in Nat /\ Len(r) \in Nat /\ Len(q) \in Nat
      /\ Len(p) < Len(r) /\ Len(r) <= Len(q)
  BY <1>0 DEF Below, Proper
<1>2. \A k \in 1..Len(p) : p[k] = r[k] BY <1>0, <1>1 DEF Proper
<1>3. \A k \in 1..Len(r) : r[k] = q[k] BY <1>0, <1>1 DEF Below, Proper
<1>4. \A k \in 1..Len(p) : p[k] = q[k] BY <1>1, <1>2, <1>3
<1>5. /\ SubSeq(q, 1, Len(p)) \in Seq(STRING) /\ Len(SubSeq(q, 1, Len(p))) = Len(p)
      /\ \A k \in 1..Len(p) : SubSeq(q, 1, Len(p))[k] = q[k]
  BY <1>0, <1>1
<1>6. SubSeq(q, 1, Len(p)) = p BY <1>0, <1>4, <1>5
<1> QED BY <1>1, <1>6 DEF Proper

\* A path is not below itself.
LEMMA NotBelowItself ==
    ASSUME NEW p \in Path
    PROVE  ~Proper(p, p) /\ p \in Below(p)
<1>1. Len(p) \in Nat BY ReconstituteAssumption
<1> QED BY <1>1 DEF Proper, Below

\* A set of numbers has a least element.
LEMMA Least ==
    ASSUME NEW T, T \subseteq Nat, T # {}
    PROVE  \E x \in T : \A y \in T : x <= y
<1> DEFINE R == OpToRel(<, Nat)
<1>1. IsWellFoundedOn(R, Nat) BY NatLessThanWellFounded
<1>2. \A x, y \in Nat : y < x => <<y, x>> \in R BY DEF OpToRel
<1> HIDE DEF R
<1>3. PICK x \in T : \A y \in T : ~(<<y, x>> \in R) BY <1>1, WFMin
<1>4. \A y \in T : ~(y < x) BY <1>2, <1>3
<1>5. \A y \in T : y \in Nat /\ x \in Nat OBVIOUS
<1> QED BY <1>4, <1>5
-----------------------------------------------------------------------------
(***************************************************************************)
(* What a step changes                                                     *)
(***************************************************************************)

Typed ==
    /\ tree \in [Path -> Kind] /\ linked \in [Path -> Kind] /\ before \in Targets
    /\ folders \in Seq(Sources) /\ dirs \in Seq(SUBSET Path) /\ todo \subseteq Path
    /\ phase \in {"create", "copy"} => cur \in Path /\ from \in 1..Len(folders)

\* Links are the ones there were at the start; the junction that is being
\* replaced is gone, and lies in the folder itself or behind a link.
Standing ==
    /\ \A p \in Path : tree[p] \in Link => before.tree[p] = tree[p]
    /\ \A p \in Path : linked[p] = "junction" => before.linked[p] = "junction"
    /\ phase \in {"create", "copy"} =>
          \/ cur \in Junctions /\ tree[cur] # "junction"
          \/ Through(cur) /\ before.linked[cur] = "junction"

\* No link of the folder is below another one.
LEMMA Apart ==
    ASSUME Typed, NEW j \in Path, before.tree[j] \in Link, NEW r \in Path,
           before.tree[r] \in Link, NEW q \in Path, q \in Below(j), q \in Below(r)
    PROVE  j = r
<1>1. \A p, s \in Path : before.tree[p] \in Link /\ Proper(p, s) => before.tree[s] = "none"
  BY ReconstituteAssumption DEF Typed
<1>2. "none" \notin Link BY DEF Link
<1>3. ~Proper(j, r) /\ ~Proper(r, j) BY <1>1, <1>2
<1> QED BY <1>3, Comparable

\* No path leads to a junction of the folder through a link, nor to what is
\* below a junction that was replaced.
LEMMA Direct ==
    ASSUME Typed, Standing, NEW j \in Junctions
    PROVE  /\ ~Through(j)
           /\ tree[j] # "junction" => \A q \in Below(j) : ~Through(q)
<1>0. j \in Path /\ Below(j) \subseteq Path BY DEF Junctions, Below
<1>1. ASSUME NEW q \in Below(j), NEW r \in Path, Proper(r, q), tree[r] \in Link
      PROVE  r = j /\ tree[j] = "junction"
  <2>1. q \in Path /\ before.tree[r] = tree[r] BY <1>0, <1>1 DEF Standing
  <2>2. q \in Below(r) BY <1>1, <2>1 DEF Below
  <2>3. before.tree[j] = "junction" /\ before.tree[j] \in Link BY DEF Junctions, Link
  <2>4. r = j BY <1>0, <1>1, <2>1, <2>2, <2>3, Apart
  <2> QED BY <2>1, <2>3, <2>4
<1>2. ~Through(j) BY <1>0, <1>1, NotBelowItself DEF Through
<1> QED BY <1>1, <1>2 DEF Through

\* What lies behind a link is reached through it.
LEMMA Behind ==
    ASSUME NEW p \in Path, Through(p)
    PROVE  \A q \in Below(p) : Through(q)
<1> SUFFICES ASSUME NEW q \in Below(p) PROVE Through(q)
  OBVIOUS
<1>1. PICK r \in Path : Proper(r, p) /\ tree[r] \in Link BY DEF Through
<1>2. Proper(r, q) BY <1>1, BelowBelow DEF Below
<1> QED BY <1>1, <1>2 DEF Through

\* Where Put writes.
LEMMA PutsHere ==
    ASSUME Typed, NEW P, NEW k, Put(P, k), \A p \in P : ~Through(p)
    PROVE  /\ UNCHANGED linked
           /\ tree' = [p \in Path |-> IF p \in P THEN k[p] ELSE tree[p]]
<1>1. linked' = [p \in Path |-> linked[p]] BY DEF Put
<1>2. tree' = [p \in Path |-> IF p \in P THEN k[p] ELSE tree[p]] BY DEF Put
<1> QED BY <1>1, <1>2 DEF Typed

\* What is written to paths behind a link lands in the folder it points to.
LEMMA PutsBehind ==
    ASSUME Typed, NEW P, NEW k, Put(P, k), \A p \in P : Through(p)
    PROVE  /\ UNCHANGED tree
           /\ linked' = [p \in Path |-> IF p \in P THEN k[p] ELSE linked[p]]
<1>1. tree' = [p \in Path |-> tree[p]] BY DEF Put
<1>2. linked' = [p \in Path |-> IF p \in P THEN k[p] ELSE linked[p]] BY DEF Put
<1> QED BY <1>1, <1>2 DEF Typed

\* The three steps that write: in the folder, below a junction it had, or
\* behind one, below a junction there.
LEMMA RemoveLinkWrites ==
    ASSUME Typed, Standing, NEW d \in todo, RemoveLink(d)
    PROVE  \/ /\ d \in Junctions /\ UNCHANGED linked /\ tree[d] = "junction"
              /\ tree' = [p \in Path |-> IF p = d THEN "none" ELSE tree[p]]
           \/ /\ Through(d) /\ before.linked[d] = "junction" /\ UNCHANGED tree
              /\ linked' = [p \in Path |-> IF p \in Below(d) THEN "none" ELSE linked[p]]
<1>0. d \in Path BY DEF Typed
<1> DEFINE k == [p \in Path |-> "none"]
<1>1. CASE ~Through(d)
  <2>1. tree[d] = "junction" BY <1>1 DEF RemoveLink, IsJunction, Visible
  <2>2. Put({d}, k) BY <1>1 DEF RemoveLink
  <2>3. UNCHANGED linked /\ tree' = [p \in Path |-> IF p \in {d} THEN k[p] ELSE tree[p]]
    <3> HIDE DEF k
    <3> QED BY <1>1, <2>2, PutsHere
  <2>4. tree' = [p \in Path |-> IF p = d THEN "none" ELSE tree[p]] BY <2>3
  <2>5. d \in Junctions BY <1>0, <2>1 DEF Standing, Junctions, Link
  <2> QED BY <2>1, <2>3, <2>4, <2>5
<1>2. CASE Through(d)
  <2>1. linked[d] = "junction" BY <1>2 DEF RemoveLink, IsJunction, Visible
  <2>2. Put(Below(d), k) BY <1>2 DEF RemoveLink
  <2>3. UNCHANGED tree /\ linked' = [p \in Path |-> IF p \in Below(d) THEN k[p] ELSE linked[p]]
    <3> HIDE DEF k
    <3> QED BY <1>0, <1>2, <2>2, PutsBehind, Behind
  <2>4. linked' = [p \in Path |-> IF p \in Below(d) THEN "none" ELSE linked[p]] BY <2>3
  <2> QED BY <1>0, <1>2, <2>1, <2>3, <2>4 DEF Standing
<1> QED BY <1>1, <1>2

\* create_directory writes one node, at the junction removed before.
LEMMA CreateWrites ==
    ASSUME Typed, Standing, CreateDirectory
    PROVE  \/ /\ cur \in Junctions /\ tree[cur] # "junction" /\ UNCHANGED linked
              /\ tree' = [p \in Path |-> IF p = cur THEN "dir" ELSE tree[p]]
           \/ /\ Through(cur) /\ before.linked[cur] = "junction" /\ UNCHANGED tree
              /\ linked' = [p \in Path |-> IF p = cur THEN "dir" ELSE linked[p]]
<1>0. cur \in Path /\ phase = "create" BY DEF Typed, CreateDirectory
<1> DEFINE k == [p \in {cur} |-> "dir"]
<1>1. Put({cur}, k) BY DEF CreateDirectory
<1>2. CASE cur \in Junctions /\ tree[cur] # "junction"
  <2>1. UNCHANGED linked /\ tree' = [p \in Path |-> IF p \in {cur} THEN k[p] ELSE tree[p]]
    <3> HIDE DEF k
    <3> QED BY <1>1, <1>2, Direct, PutsHere
  <2>2. tree' = [p \in Path |-> IF p = cur THEN "dir" ELSE tree[p]] BY <2>1
  <2> QED BY <1>2, <2>1, <2>2
<1>3. CASE Through(cur) /\ before.linked[cur] = "junction"
  <2>1. UNCHANGED tree /\ linked' = [p \in Path |-> IF p \in {cur} THEN k[p] ELSE linked[p]]
    <3> HIDE DEF k
    <3> QED BY <1>1, <1>3, PutsBehind
  <2>2. linked' = [p \in Path |-> IF p = cur THEN "dir" ELSE linked[p]] BY <2>1
  <2> QED BY <1>3, <2>1, <2>2
<1> QED BY <1>0, <1>2, <1>3 DEF Standing

\* What CopyTree may write, and where.
New == Image(folders[from], cur)
Held == {q \in Below(cur) : New[q] # "none"}

\* copy writes what it makes of the other folder below the junction removed
\* before.
LEMMA CopyWrites ==
    ASSUME Typed, Standing, CopyTree
    PROVE  \E P \in SUBSET Held :
              /\ phase' = "replace" => P = Held /\ New[cur] # "none"
              /\ \/ /\ cur \in Junctions /\ tree[cur] # "junction" /\ UNCHANGED linked
                    /\ tree' = [p \in Path |-> IF p \in P THEN New[p] ELSE tree[p]]
                 \/ /\ Through(cur) /\ before.linked[cur] = "junction" /\ UNCHANGED tree
                    /\ linked' = [p \in Path |-> IF p \in P THEN New[p] ELSE linked[p]]
<1>0. cur \in Path /\ phase = "copy" BY DEF Typed, CopyTree
<1>1. PICK P \in SUBSET Held :
          /\ Put(P, New)
          /\ phase' = "replace" => P = Held /\ New[cur] # "none"
  <2>1. \/ /\ New[cur] # "none" /\ Put(Held, New)
        \/ /\ \E P \in SUBSET (Held \ {cur}) : Put(P, New)
           /\ phase' = "aborted"
    BY DEF CopyTree, Held, New
  <2> QED BY <2>1
<1>2. CASE cur \in Junctions /\ tree[cur] # "junction"
  <2>1. \A p \in P : ~Through(p) BY <1>2, Direct DEF Held
  <2>2. /\ UNCHANGED linked
        /\ tree' = [p \in Path |-> IF p \in P THEN New[p] ELSE tree[p]]
    BY <1>1, <2>1, PutsHere
  <2> QED BY <1>1, <1>2, <2>2
<1>3. CASE Through(cur) /\ before.linked[cur] = "junction"
  <2>1. \A p \in P : Through(p) BY <1>0, <1>3, Behind DEF Held
  <2>2. /\ UNCHANGED tree
        /\ linked' = [p \in Path |-> IF p \in P THEN New[p] ELSE linked[p]]
    BY <1>1, <2>1, PutsBehind
  <2> QED BY <1>1, <1>3, <2>2
<1> QED BY <1>0, <1>2, <1>3 DEF Standing
-----------------------------------------------------------------------------
(***************************************************************************)
(* What is kept                                                            *)
(***************************************************************************)

\* A folder is a function to kinds, and no copy is a link.
LEMMA SourceKinds ==
    ASSUME Typed, NEW n \in 1..Len(folders), NEW d \in Path
    PROVE  \A p \in Path : Image(folders[n], d)[p] \in Kind \ Link
<1>1. folders[n] \in Sources BY DEF Typed
<1>2. folders[n] \in [Path -> Kind \ Link] BY <1>1, ReconstituteAssumption
<1> QED BY <1>2 DEF Image, Kind, Link

\* Other steps write nothing.
LEMMA OtherSteps ==
    ASSUME [Next]_vars, ~ \E d \in todo : RemoveLink(d), ~CreateDirectory, ~CopyTree
    PROVE  /\ UNCHANGED <<tree, linked, cur, from>>
           /\ phase' \notin {"create", "copy"} \/ UNCHANGED phase
           /\ phase \in {"create", "copy", "aborted"} => phase' \in {phase, "aborted"}
BY DEF Next, List, Skip, Abort, End, Ended, vars

\* The folders and what was there never change, the listings only while they
\* are made.
LEMMA StepKeeps ==
    ASSUME [Next]_vars
    PROVE  /\ UNCHANGED <<folders, before>>
           /\ UNCHANGED dirs \/ (List /\ phase = "list")
BY DEF Next, List, Skip, RemoveLink, CreateDirectory, CopyTree, Abort, End, Ended, vars

\* Every step keeps the types.
LEMMA TypedNext == Typed /\ Standing /\ [Next]_vars => Typed'
<1> SUFFICES ASSUME Typed, Standing, [Next]_vars PROVE Typed'
  OBVIOUS
<1>0. UNCHANGED <<folders, before>> BY StepKeeps
<1>1. tree' \in [Path -> Kind] /\ linked' \in [Path -> Kind]
  <2>1. ASSUME NEW d \in todo, RemoveLink(d)
        PROVE  tree' \in [Path -> Kind] /\ linked' \in [Path -> Kind]
    BY <2>1, RemoveLinkWrites DEF Typed, Kind
  <2>2. CASE CreateDirectory
    BY <2>2, CreateWrites DEF Typed, Kind
  <2>3. CASE CopyTree
    <3>1. from \in 1..Len(folders) /\ cur \in Path BY <2>3 DEF CopyTree, Typed
    <3>2. \A p \in Path : New[p] \in Kind BY <3>1, SourceKinds DEF New
    <3> QED BY <2>3, <3>2, CopyWrites DEF Typed
  <2> QED BY <2>1, <2>2, <2>3, OtherSteps DEF Typed
<1>2. dirs' \in Seq(SUBSET Path)
  <2>1. CASE List
    <3>1. Listed \subseteq Path BY DEF Listed
    <3>2. \E l \in SUBSET Path : dirs' = Append(dirs, l)
      <4> DEFINE n == Len(dirs)
                 all == IF n = 0 THEN Listed ELSE {p \in Path : folders[n][p] = "dir"}
      <4>1. all \subseteq Path BY <3>1
      <4>2. \E l \in {all} \cup (IF "scan" \in Faults THEN SUBSET all ELSE {}) :
                dirs' = Append(dirs, l)
        BY <2>1 DEF List
      <4> HIDE DEF all
      <4> QED BY <4>1, <4>2
    <3> QED BY <3>2 DEF Typed
  <2> QED BY <2>1, StepKeeps DEF Typed
<1>3. todo' \subseteq Path
  <2>1. CASE List
    <3>1. todo' = {} \/ todo' = dirs'[1] BY <2>1 DEF List
    <3>2. Len(dirs') > 0 BY <2>1 DEF List, Typed
    <3> QED BY <1>2, <3>1, <3>2
  <2>2. CASE ~List
    BY <2>2 DEF Typed, Next, Skip, RemoveLink, CreateDirectory, CopyTree, Abort, End,
                Ended, vars
  <2> QED BY <2>1, <2>2
<1>4. phase' \in {"create", "copy"} => cur' \in Path /\ from' \in 1..Len(folders')
  <2>1. ASSUME NEW d \in todo, RemoveLink(d) PROVE cur' \in Path /\ from' \in 1..Len(folders)
    BY <2>1 DEF RemoveLink, Replacement, Typed
  <2>2. CASE CreateDirectory \/ CopyTree
    BY <1>0, <2>2 DEF CreateDirectory, CopyTree, Typed
  <2> QED BY <1>0, <2>1, <2>2, OtherSteps DEF Typed
<1> QED BY <1>0, <1>1, <1>2, <1>3, <1>4 DEF Typed

\* Links stay as they are or disappear, and never come back.
LEMMA StandingNext == Typed /\ Standing /\ [Next]_vars => Standing'
<1> SUFFICES ASSUME Typed, Standing, [Next]_vars PROVE Standing'
  OBVIOUS
<1>0. UNCHANGED before /\ Junctions' = Junctions BY StepKeeps DEF Junctions
<1>1. /\ \A p \in Path : tree'[p] \in Link => tree'[p] = tree[p]
      /\ \A p \in Path : linked'[p] = "junction" => linked[p] = "junction"
  <2>0. "none" \notin Link /\ "dir" \notin Link /\ "junction" \in Link BY DEF Link
  <2>1. ASSUME NEW d \in todo, RemoveLink(d)
        PROVE  /\ \A p \in Path : tree'[p] \in Link => tree'[p] = tree[p]
               /\ \A p \in Path : linked'[p] = "junction" => linked[p] = "junction"
    BY <2>0, <2>1, RemoveLinkWrites
  <2>2. CASE CreateDirectory BY <2>0, <2>2, CreateWrites
  <2>3. CASE CopyTree
    <3>1. from \in 1..Len(folders) /\ cur \in Path BY <2>3 DEF CopyTree, Typed
    <3>2. \A p \in Path : New[p] \notin Link BY <3>1, SourceKinds DEF New
    <3> QED BY <2>0, <2>3, <3>2, CopyWrites
  <2> QED BY <2>1, <2>2, <2>3, OtherSteps
<1>2. ASSUME phase' \in {"create", "copy"}
      PROVE  \/ cur' \in Junctions /\ tree'[cur'] # "junction"
             \/ Through(cur)' /\ before.linked[cur'] = "junction"
  <2>1. ASSUME NEW d \in todo, RemoveLink(d)
        PROVE  \/ cur' \in Junctions /\ tree'[cur'] # "junction"
               \/ Through(cur)' /\ before.linked[cur'] = "junction"
    <3>1. cur' = d /\ d \in Path BY <2>1 DEF RemoveLink, Typed
    <3> QED BY <2>1, <3>1, RemoveLinkWrites DEF Through
  <2>2. CASE CreateDirectory
    <3>1. cur' = cur /\ cur \in Path BY <2>2 DEF CreateDirectory, Typed
    <3> QED BY <2>2, <3>1, CreateWrites DEF Through
  <2>3. CASE CopyTree BY <1>2, <2>3 DEF CopyTree
  <2>4. CASE ~ (\E d \in todo : RemoveLink(d)) /\ ~CreateDirectory /\ ~CopyTree
    <3>1. UNCHANGED <<tree, cur>> /\ phase \in {"create", "copy"} BY <1>2, <2>4, OtherSteps
    <3>2. Through(cur)' = Through(cur) BY <3>1 DEF Through
    <3> QED BY <3>1, <3>2 DEF Standing
  <2> QED BY <2>1, <2>2, <2>3, <2>4
<1> QED BY <1>0, <1>1, <1>2 DEF Standing

\* At the start all junctions stand.
LEMMA StandingInit == Init => Typed /\ Standing
<1> SUFFICES ASSUME Init PROVE Typed /\ Standing
  OBVIOUS
<1>1. PICK t \in Targets : tree = t.tree /\ linked = t.linked /\ before = t BY DEF Init
<1>2. PICK n \in 0..MaxSources : folders \in [1..n -> Sources] BY DEF Init
<1>3. folders \in Seq(Sources)
  BY <1>2, ReconstituteAssumption
<1>4. tree \in [Path -> Kind] /\ linked \in [Path -> Kind] BY <1>1, ReconstituteAssumption
<1> QED BY <1>1, <1>3, <1>4 DEF Init, Typed, Standing, Junctions

\* Where a step writes.
LEMMA Confined ==
    ASSUME Typed, Standing, [Next]_vars
    PROVE  /\ UNCHANGED tree \/ (cur' \in Junctions /\ \A p \in Path \ Below(cur') : tree'[p] = tree[p])
           /\ UNCHANGED linked \/ (/\ cur' \in Path /\ before.linked[cur'] = "junction"
                                   /\ \A p \in Path \ Below(cur') : linked'[p] = linked[p])
<1>1. ASSUME NEW d \in todo, RemoveLink(d)
      PROVE  /\ UNCHANGED tree \/ (cur' \in Junctions /\ \A p \in Path \ Below(cur') : tree'[p] = tree[p])
             /\ UNCHANGED linked \/ (/\ cur' \in Path /\ before.linked[cur'] = "junction"
                                     /\ \A p \in Path \ Below(cur') : linked'[p] = linked[p])
  <2>1. cur' = d /\ d \in Path BY <1>1 DEF RemoveLink, Typed
  <2> QED BY <1>1, <2>1, RemoveLinkWrites, NotBelowItself
<1>2. CASE CreateDirectory
  <2>1. cur' = cur /\ cur \in Path BY <1>2 DEF CreateDirectory, Typed
  <2> QED BY <1>2, <2>1, CreateWrites, NotBelowItself
<1>3. CASE CopyTree
  <2>1. cur' = cur /\ cur \in Path /\ Held \subseteq Below(cur) BY <1>3 DEF CopyTree, Typed, Held
  <2> QED BY <1>3, <2>1, CopyWrites
<1> QED BY <1>1, <1>2, <1>3, OtherSteps

\* Only junctions, and what comes in their place, change in the first folder.
THEOREM OthersStay == Spec => []OthersKept
<1>1. Init => OthersKept BY DEF Init, OthersKept
<1>2. Typed /\ Standing /\ OthersKept /\ [Next]_vars => OthersKept'
  <2> SUFFICES ASSUME Typed, Standing, OthersKept, [Next]_vars,
                      NEW p \in Path, tree'[p] # before.tree[p]
               PROVE  \E j \in Junctions : p \in Below(j)
    BY StepKeeps DEF OthersKept, Junctions
  <2>1. CASE tree'[p] = tree[p] BY <2>1 DEF OthersKept
  <2>2. CASE tree'[p] # tree[p] BY <2>2, Confined
  <2> QED BY <2>1, <2>2
<1> QED BY <1>1, <1>2, StandingInit, TypedNext, StandingNext, PTL DEF Spec

\* The directories that junctions point to are not written through the
\* junction, except below another junction.
THEOREM LinkTargetsStay == Spec => []LinkTargetsKept
<1>1. Init => LinkTargetsKept BY DEF Init, LinkTargetsKept
<1>2. Typed /\ Standing /\ LinkTargetsKept /\ [Next]_vars => LinkTargetsKept'
  <2> SUFFICES ASSUME Typed, Standing, LinkTargetsKept, [Next]_vars,
                      NEW p \in Path, linked'[p] # before.linked[p]
               PROVE  \E q \in Path : before.linked[q] = "junction" /\ p \in Below(q)
    BY StepKeeps DEF LinkTargetsKept
  <2>1. CASE linked'[p] = linked[p] BY <2>1 DEF LinkTargetsKept
  <2>2. CASE linked'[p] # linked[p] BY <2>2, Confined
  <2> QED BY <2>1, <2>2
<1> QED BY <1>1, <1>2, StandingInit, TypedNext, StandingNext, PTL DEF Spec


-----------------------------------------------------------------------------
(***************************************************************************)
(* What comes in the place of a junction                                   *)
(***************************************************************************)

\* Nothing lies in the folder below a junction, nor below the place of the
\* one that is being replaced until the copy is made.
Under ==
    \A j \in Junctions :
        tree[j] = "junction" \/ (j = cur /\ phase \in {"create", "copy"}) =>
            \A q \in Path : Proper(j, q) => tree[q] = "none"

\* A step leaves alone what is below the junctions it is not about.
LEMMA OtherJunctionsKept ==
    ASSUME Typed, Standing, [Next]_vars, NEW j \in Junctions, cur' # j
    PROVE  \A q \in Below(j) : tree'[q] = tree[q]
<1> SUFFICES ASSUME NEW q \in Below(j), tree'[q] # tree[q] PROVE FALSE
  OBVIOUS
<1>1. q \in Path BY DEF Below
<1>2. cur' \in Junctions /\ q \in Below(cur') BY <1>1, Confined
<1>3. \A i \in Junctions : i \in Path /\ before.tree[i] \in Link BY DEF Junctions, Link
<1> QED BY <1>1, <1>2, <1>3, Apart

\* No step makes a junction.
LEMMA NoNewJunction ==
    ASSUME Typed, Standing, [Next]_vars
    PROVE  \A p \in Path : tree'[p] = "junction" => tree[p] = "junction"
<1>1. ASSUME NEW d \in todo, RemoveLink(d)
      PROVE  \A p \in Path : tree'[p] = "junction" => tree[p] = "junction"
  BY <1>1, RemoveLinkWrites
<1>2. CASE CreateDirectory BY <1>2, CreateWrites
<1>3. CASE CopyTree
  <2>1. from \in 1..Len(folders) /\ cur \in Path BY <1>3 DEF CopyTree, Typed
  <2>2. \A p \in Path : New[p] # "junction" BY <2>1, SourceKinds DEF New, Link
  <2> QED BY <1>3, <2>2, CopyWrites
<1> QED BY <1>1, <1>2, <1>3, OtherSteps

\* Only the removal of a junction, the new directory and the copy fill or
\* empty the place of one, and the place stays empty until the copy.
LEMMA UnderNext == Typed /\ Standing /\ Under /\ [Next]_vars => Under'
<1> SUFFICES ASSUME Typed, Standing, Under, [Next]_vars, NEW j \in Junctions,
                    tree'[j] = "junction" \/ (j = cur' /\ phase' \in {"create", "copy"}),
                    NEW q \in Path, Proper(j, q)
             PROVE  tree'[q] = "none"
  BY StepKeeps DEF Under, Junctions
<1>0. j \in Path /\ q \in Below(j) /\ q # j /\ j \in Below(j)
  BY NotBelowItself DEF Junctions, Below
<1>1. tree'[j] = "junction" => tree[j] = "junction" BY <1>0, NoNewJunction
<1>2. ASSUME NEW d \in todo, RemoveLink(d) PROVE tree'[q] = "none"
  <2>1. cur' = d BY <1>2 DEF RemoveLink
  <2>2. CASE /\ d \in Junctions /\ tree[d] = "junction"
             /\ tree' = [p \in Path |-> IF p = d THEN "none" ELSE tree[p]]
    BY <1>1, <2>1, <2>2 DEF Under
  <2>3. CASE Through(d) /\ UNCHANGED tree
    BY <1>1, <2>1, <2>3, Direct DEF Under
  <2> QED BY <1>2, <2>2, <2>3, RemoveLinkWrites
<1>3. CASE CreateDirectory
  <2>1. phase = "create" /\ cur' = cur BY <1>3 DEF CreateDirectory
  <2>2. tree[q] = "none" BY <1>1, <2>1 DEF Under
  <2>3. CASE j = cur BY <1>0, <1>3, <2>2, <2>3, CreateWrites
  <2>4. CASE j # cur BY <1>0, <2>1, <2>2, <2>4, OtherJunctionsKept
  <2> QED BY <2>3, <2>4
<1>4. CASE CopyTree
  <2>1. phase' \notin {"create", "copy"} /\ cur' = cur BY <1>4 DEF CopyTree
  <2>2. tree[j] = "junction" /\ tree[q] = "none" BY <1>1, <2>1 DEF Under
  <2>3. j # cur
    <3>1. cur \notin Junctions \/ tree[cur] # "junction"
      BY <1>4, CopyWrites, Direct
    <3> QED BY <2>2, <3>1
  <2> QED BY <1>0, <2>1, <2>2, <2>3, OtherJunctionsKept
<1>5. CASE ~ (\E d \in todo : RemoveLink(d)) /\ ~CreateDirectory /\ ~CopyTree
  <2>1. UNCHANGED <<tree, cur>> /\ (phase' \notin {"create", "copy"} \/ UNCHANGED phase)
    BY <1>5, OtherSteps
  <2> QED BY <2>1 DEF Under
<1> QED BY <1>2, <1>3, <1>4, <1>5

\* A copy that ends leaves what copy makes of the other folder.
LEMMA CopyMade ==
    ASSUME Typed, Standing, Under, CopyTree, phase' = "replace", cur \in Junctions
    PROVE  CopyOf(from, cur)'
<1>0. cur \in Path /\ phase = "copy" /\ UNCHANGED <<folders, from, cur>>
  BY DEF Typed, CopyTree
<1>1. /\ New[cur] # "none"
      /\ tree' = [p \in Path |-> IF p \in Held THEN New[p] ELSE tree[p]]
  BY CopyWrites, Direct
<1>2. ASSUME NEW q \in Below(cur) PROVE tree'[q] = New[q]
  <2>0. q \in Path BY DEF Below
  <2>1. CASE q \in Held BY <1>1, <2>0, <2>1
  <2>2. CASE q \notin Held
    <3>1. New[q] = "none" BY <2>2 DEF Held
    <3>2. Proper(cur, q) BY <1>1, <3>1 DEF Below
    <3>3. tree[q] = "none" BY <1>0, <2>0, <3>2 DEF Under
    <3> QED BY <1>1, <2>0, <2>2, <3>1, <3>3
  <2> QED BY <2>1, <2>2
<1>3. Below(cur') = Below(cur) BY <1>0
<1>4. folders[from][cur] # "none" BY <1>0, <1>1 DEF New, Image
<1> QED BY <1>0, <1>2, <1>3, <1>4 DEF CopyOf, New, Image

\* There are no other paths below a junction at the start.
LEMMA UnderInit == Init => Under
<1> SUFFICES ASSUME Init PROVE Under
  OBVIOUS
<1>1. PICK t \in Targets : tree = t.tree /\ before = t BY DEF Init
<1>2. \A j, q \in Path : tree[j] \in Link /\ Proper(j, q) => tree[q] = "none"
  BY <1>1, ReconstituteAssumption
<1> QED BY <1>1, <1>2 DEF Init, Under, Junctions, Link

\* Wherever the function stops, at most one junction is neither there nor
\* replaced by what copy makes of its path in another folder.
THEOREM AtMostOneHole == Spec => []OneHoleAtMost
<1>1. Init => OneHoleAtMost BY DEF Init, OneHoleAtMost, Junctions
<1>2. Typed /\ Standing /\ Under /\ OneHoleAtMost /\ [Next]_vars => OneHoleAtMost'
  <2> SUFFICES ASSUME Typed, Standing, Under, OneHoleAtMost, [Next]_vars, NEW j \in Junctions
               PROVE  \/ tree'[j] = "junction"
                      \/ \E i \in 1..Len(folders) : CopyOf(i, j)'
                      \/ j = cur' /\ phase' \in {"create", "copy", "aborted"}
    BY StepKeeps DEF OneHoleAtMost, Junctions
  <2>0. j \in Path /\ j \in Below(j) BY NotBelowItself DEF Junctions
  <2>1. UNCHANGED folders BY StepKeeps
  <2>2. ASSUME \A q \in Below(j) : tree'[q] = tree[q]
        PROVE  /\ tree[j] = "junction" => tree'[j] = "junction"
               /\ \A i \in 1..Len(folders) : CopyOf(i, j) => CopyOf(i, j)'
    BY <2>0, <2>1, <2>2 DEF CopyOf
  <2>3. ASSUME NEW d \in todo, RemoveLink(d)
        PROVE  \/ tree'[j] = "junction"
               \/ \E i \in 1..Len(folders) : CopyOf(i, j)'
               \/ j = cur' /\ phase' \in {"create", "copy", "aborted"}
    <3>1. phase = "replace" /\ phase' = "create" BY <2>3 DEF RemoveLink
    <3>2. CASE cur' # j BY <2>2, <3>1, <3>2, OtherJunctionsKept DEF OneHoleAtMost
    <3> QED BY <3>1, <3>2
  <2>4. CASE CreateDirectory
    <3>1. cur' = cur /\ phase' = "copy" BY <2>4 DEF CreateDirectory
    <3>2. CASE cur' # j BY <2>2, <3>1, <3>2, OtherJunctionsKept DEF OneHoleAtMost
    <3> QED BY <3>1, <3>2
  <2>5. CASE CopyTree
    <3>1. cur' = cur /\ phase' \in {"replace", "aborted"} /\ from' = from
          /\ from \in 1..Len(folders)
      BY <2>5 DEF CopyTree, Typed
    <3>2. CASE cur' # j BY <2>2, <3>1, <3>2, OtherJunctionsKept DEF OneHoleAtMost
    <3>3. CASE j = cur /\ phase' = "replace"
      <4>1. CopyOf(from, cur)' BY <2>5, <3>3, CopyMade
      <4>2. CopyOf(from, j)' BY <3>1, <3>3, <4>1 DEF CopyOf
      <4> QED BY <3>1, <4>2
    <3> QED BY <3>1, <3>2, <3>3
  <2>6. CASE ~ (\E d \in todo : RemoveLink(d)) /\ ~CreateDirectory /\ ~CopyTree
    <3>1. /\ UNCHANGED <<tree, cur>>
          /\ phase \in {"create", "copy", "aborted"} => phase' \in {phase, "aborted"}
      BY <2>6, OtherSteps
    <3> QED BY <2>2, <3>1 DEF OneHoleAtMost
  <2> QED BY <2>3, <2>4, <2>5, <2>6
<1> QED BY <1>1, <1>2, StandingInit, UnderInit, TypedNext, StandingNext, UnderNext, PTL
        DEF Spec


-----------------------------------------------------------------------------
(***************************************************************************)
(* The order of replacement                                                *)
(***************************************************************************)

\* A walk finds nothing that is not there, and every folder is walked before
\* the loop starts.
Walked ==
    /\ phase = "list" => Len(dirs) <= Len(folders)
    /\ phase \in {"replace", "create", "copy", "end"} => Len(dirs) = Len(folders) + 1
    /\ \A i \in 1..Len(folders) :
          i + 1 <= Len(dirs) => \A p \in dirs[i + 1] : p \in Path /\ folders[i][p] = "dir"

\* The junction is what ReplacedInOrder says of it at the end.
Resolved(j) ==
    IF Matches(j) = {} THEN tree[j] = "junction"
    ELSE \E i \in Matches(j) : (\A k \in Matches(j) : i <= k) /\ CopyOf(i, j)

\* The loop has dealt with every junction it has passed, stands at one of
\* those it has not, and has changed no other one of these.
Settled ==
    /\ phase = "list" => \A j \in Junctions : tree[j] = "junction"
    /\ phase \in {"create", "copy"} => cur \in todo /\ from \in Replacement(cur)
    /\ phase \in {"replace", "create", "copy"} =>
          \A j \in Junctions \cap todo :
              tree[j] = "junction" \/ (j = cur /\ phase # "replace")
    /\ phase \in {"replace", "create", "copy", "end"} /\ Complete =>
          \A j \in (Junctions \cap dirs[1]) \ todo : Resolved(j)
    /\ phase = "end" => todo = {}

\* Every walk adds one listing.
LEMMA WalkedNext == Typed /\ Walked /\ [Next]_vars => Walked'
<1> SUFFICES ASSUME Typed, Walked, [Next]_vars PROVE Walked'
  OBVIOUS
<1>0. UNCHANGED folders BY StepKeeps
<1>1. CASE List
  <2> DEFINE n == Len(dirs)
             all == IF n = 0 THEN Listed ELSE {p \in Path : folders[n][p] = "dir"}
  <2>0. n \in Nat /\ Len(folders) \in Nat BY DEF Typed
  <2>1. phase = "list" /\ n <= Len(folders) BY <1>1 DEF List, Walked
  <2>2. PICK l \in SUBSET all : dirs' = Append(dirs, l)
    <3>1. \E l \in {all} \cup (IF "scan" \in Faults THEN SUBSET all ELSE {}) :
              dirs' = Append(dirs, l)
      BY <1>1 DEF List
    <3> HIDE DEF all
    <3> QED BY <3>1
  <2>3. phase' = IF n = Len(folders) THEN "replace" ELSE "list" BY <1>1 DEF List
  <2>4. Len(dirs') = n + 1 /\ dirs'[n + 1] = l /\ \A i \in 1..n : dirs'[i] = dirs[i]
    <3>1. dirs \in Seq(SUBSET Path) /\ all \subseteq Path BY DEF Typed, Listed
    <3>2. l \in SUBSET Path BY <3>1
    <3> HIDE DEF all
    <3> QED BY <2>2, <3>1, <3>2
  <2>5. ASSUME NEW i \in 1..Len(folders), i + 1 <= Len(dirs'), NEW p \in dirs'[i + 1]
        PROVE  p \in Path /\ folders[i][p] = "dir"
    <3>1. CASE i = n
      <4>1. all = {q \in Path : folders[i][q] = "dir"} BY <2>0, <3>1
      <4>2. p \in l BY <2>4, <2>5, <3>1
      <4> HIDE DEF all
      <4> QED BY <4>1, <4>2
    <3>2. CASE i # n
      <4>1. i + 1 \in 1..n BY <2>0, <2>4, <2>5, <3>2
      <4> QED BY <2>4, <2>5, <4>1 DEF Walked
    <3> QED BY <3>1, <3>2
  <2> HIDE DEF n, all
  <2> QED BY <1>0, <2>0, <2>1, <2>3, <2>4, <2>5 DEF Walked
<1>2. CASE ~List
  <2>1. UNCHANGED dirs BY <1>2, StepKeeps
  <2>2. phase' = "list" => phase = "list"
    BY <1>2 DEF Next, Skip, RemoveLink, CreateDirectory, CopyTree, Abort, End, Ended, vars
  <2>3. phase' \in {"replace", "create", "copy", "end"} =>
            phase \in {"replace", "create", "copy", "end"}
    BY <1>2 DEF Next, Skip, RemoveLink, CreateDirectory, CopyTree, Abort, End, Ended, vars
  <2> QED BY <1>0, <2>1, <2>2, <2>3 DEF Walked
<1> QED BY <1>1, <1>2

\* After complete walks a folder lists the path of a junction, or its name at
\* the top, if and only if it has it.
LEMMA ListedMatches ==
    ASSUME Typed, Walked, Complete, phase \in {"replace", "create", "copy", "end"},
           NEW j \in Path, NEW i \in 1..Len(folders)
    PROVE  i \in Matches(j) <=> (j \in dirs[i + 1] \/ <<j[Len(j)]>> \in dirs[i + 1])
<1>1. i + 1 <= Len(dirs) BY DEF Typed, Walked
<1>2. \A p \in dirs[i + 1] : p \in Path /\ folders[i][p] = "dir" BY <1>1 DEF Walked
<1>3. \A p \in Path : folders[i][p] = "dir" => p \in dirs[i + 1] BY DEF Complete
<1> QED BY <1>2, <1>3 DEF Matches

\* A junction that the loop finds no replacement for has none.
LEMMA NoReplacement ==
    ASSUME Typed, Walked, Complete, phase \in {"replace", "create", "copy", "end"},
           NEW j \in Path, Replacement(j) = {}
    PROVE  Matches(j) = {}
<1> SUFFICES ASSUME Matches(j) # {} PROVE FALSE
  OBVIOUS
<1>0. Matches(j) \subseteq 1..Len(folders) /\ Len(folders) \in Nat BY DEF Matches, Typed
<1>1. PICK x \in Matches(j) : \A y \in Matches(j) : x <= y
  <2>1. Matches(j) \subseteq Nat BY <1>0
  <2> QED BY <2>1, Least
<1>2. ASSUME NEW k \in 1..x - 1 PROVE k \in 1..Len(folders) /\ k \notin Matches(j)
  BY <1>0, <1>1
<1>3. x \in Replacement(j) BY <1>0, <1>1, <1>2, ListedMatches DEF Replacement
<1> QED BY <1>3

\* The folder chosen for a junction is the first that has it.
LEMMA FirstMatch ==
    ASSUME Typed, Walked, Complete, phase \in {"replace", "create", "copy", "end"},
           NEW j \in Path, NEW i \in Replacement(j)
    PROVE  i \in Matches(j) /\ \A k \in Matches(j) : i <= k
<1>0. Matches(j) \subseteq 1..Len(folders) /\ Len(folders) \in Nat BY DEF Matches, Typed
<1>1. /\ i \in 1..Len(folders)
      /\ j \in dirs[i + 1] \/ <<j[Len(j)]>> \in dirs[i + 1]
      /\ \A k \in 1..i - 1 : j \notin dirs[k + 1] /\ <<j[Len(j)]>> \notin dirs[k + 1]
  BY DEF Replacement
<1>2. i \in Matches(j) BY <1>1, ListedMatches
<1>3. ASSUME NEW k \in Matches(j) PROVE i <= k
  <2>1. k \in 1..Len(folders) BY <1>0
  <2>2. j \in dirs[k + 1] \/ <<j[Len(j)]>> \in dirs[k + 1] BY <2>1, ListedMatches
  <2> QED BY <1>1, <2>1, <2>2
<1> QED BY <1>2, <1>3

\* A junction stays resolved while nothing below it changes.
LEMMA ResolvedKept ==
    ASSUME UNCHANGED folders, NEW j \in Path, Resolved(j),
           \A q \in Below(j) : tree'[q] = tree[q]
    PROVE  Resolved(j)'
<1>1. tree'[j] = tree[j] BY NotBelowItself
<1>2. Matches(j)' = Matches(j) BY DEF Matches
<1>3. \A i : CopyOf(i, j) => CopyOf(i, j)' BY DEF CopyOf
<1> QED BY <1>1, <1>2, <1>3 DEF Resolved

\* After the last listing the loop has every directory before it.
LEMMA SettledList == Settled /\ List => Settled'
<1> SUFFICES ASSUME Settled, List PROVE Settled'
  OBVIOUS
<1>1. /\ UNCHANGED <<tree, before>> /\ Junctions' = Junctions
      /\ phase = "list" /\ phase' \in {"list", "replace"}
      /\ phase' = "replace" => todo' = dirs'[1]
  BY DEF List, Junctions
<1> QED BY <1>1 DEF Settled

\* The junction the loop stands at is removed, the others are not touched.
LEMMA SettledRemove ==
    ASSUME Typed, Standing, Settled, NEW d \in todo, RemoveLink(d)
    PROVE  Settled'
<1>0. [Next]_vars BY DEF Next
<1>1. /\ UNCHANGED <<folders, dirs, todo, before>> /\ Junctions' = Junctions
      /\ phase = "replace" /\ phase' = "create" /\ cur' = d /\ from' \in Replacement(d)
  BY DEF RemoveLink, Junctions
<1>2. Replacement(cur)' = Replacement(d) BY <1>1 DEF Replacement
<1>3. Complete' = Complete BY <1>1 DEF Complete
<1>4. ASSUME NEW j \in Junctions, j # d
      PROVE  j \in Path /\ tree'[j] = tree[j] /\ \A q \in Below(j) : tree'[q] = tree[q]
  BY <1>0, <1>1, <1>4, OtherJunctionsKept, NotBelowItself DEF Junctions
<1>5. Complete => \A j \in (Junctions \cap dirs[1]) \ todo : Resolved(j)'
  BY <1>1, <1>4, ResolvedKept DEF Settled
<1> QED BY <1>1, <1>2, <1>3, <1>4, <1>5 DEF Settled

\* The new directory changes nothing else.
LEMMA SettledCreate ==
    ASSUME Typed, Standing, Settled, CreateDirectory
    PROVE  Settled'
<1>0. [Next]_vars BY DEF Next
<1>1. /\ UNCHANGED <<folders, dirs, todo, before, cur, from>> /\ Junctions' = Junctions
      /\ phase = "create" /\ phase' = "copy"
  BY DEF CreateDirectory, Junctions
<1>2. Replacement(cur)' = Replacement(cur) BY <1>1 DEF Replacement
<1>3. Complete' = Complete BY <1>1 DEF Complete
<1>4. ASSUME NEW j \in Junctions, j # cur
      PROVE  j \in Path /\ tree'[j] = tree[j] /\ \A q \in Below(j) : tree'[q] = tree[q]
  BY <1>0, <1>1, <1>4, OtherJunctionsKept, NotBelowItself DEF Junctions
<1>5. cur \in todo BY <1>1 DEF Settled
<1>6. Complete => \A j \in (Junctions \cap dirs[1]) \ todo : Resolved(j)'
  BY <1>1, <1>4, <1>5, ResolvedKept DEF Settled
<1> QED BY <1>1, <1>2, <1>3, <1>4, <1>6 DEF Settled

\* A complete copy resolves the junction; an incomplete one ends the process.
LEMMA SettledCopy ==
    ASSUME Typed, Standing, Under, Walked, Settled, CopyTree
    PROVE  Settled'
<1>0. [Next]_vars BY DEF Next
<1>1. /\ UNCHANGED <<folders, dirs, before, cur, from>> /\ Junctions' = Junctions
      /\ phase = "copy" /\ cur \in Path
      /\ \/ phase' = "replace" /\ todo' = todo \ {cur}
         \/ phase' = "aborted"
  BY DEF CopyTree, Junctions, Typed
<1>2. CASE phase' = "aborted" BY <1>2 DEF Settled
<1>3. CASE phase' = "replace"
  <2>1. Complete' = Complete BY <1>1 DEF Complete
  <2>2. ASSUME NEW j \in Junctions, j # cur
        PROVE  j \in Path /\ tree'[j] = tree[j] /\ \A q \in Below(j) : tree'[q] = tree[q]
    BY <1>0, <1>1, <2>2, OtherJunctionsKept, NotBelowItself DEF Junctions
  <2>3. cur \in todo /\ from \in Replacement(cur) BY <1>1 DEF Settled
  <2>4. ASSUME Complete, NEW j \in (Junctions \cap dirs[1]) \ todo'
        PROVE  Resolved(j)'
    <3>1. CASE j # cur BY <1>1, <1>3, <2>2, <2>4, <3>1, ResolvedKept DEF Settled
    <3>2. CASE j = cur
      <4>1. from \in Matches(cur) /\ \A k \in Matches(cur) : from <= k
        BY <1>1, <2>3, <2>4, FirstMatch
      <4>2. CopyOf(from, cur)' BY <1>3, <2>4, <3>2, CopyMade
      <4>3. CopyOf(from, j)' BY <1>1, <3>2, <4>2 DEF CopyOf
      <4>4. Matches(j)' = Matches(cur) BY <1>1, <3>2 DEF Matches
      <4> QED BY <1>1, <4>1, <4>3, <4>4 DEF Resolved
    <3> QED BY <3>1, <3>2
  <2> QED BY <1>1, <1>3, <2>1, <2>2, <2>4 DEF Settled
<1> QED BY <1>1, <1>2, <1>3

\* A junction is passed over only when no folder can replace it.
LEMMA SettledSkip ==
    ASSUME Typed, Standing, Walked, Settled, NEW d \in todo, Skip(d)
    PROVE  Settled'
<1>1. /\ UNCHANGED <<tree, folders, dirs, before>> /\ Junctions' = Junctions
      /\ phase = "replace" /\ phase' = "replace" /\ todo' = todo \ {d}
      /\ ~IsJunction(d) \/ Replacement(d) = {}
  BY DEF Skip, Junctions
<1>2. Complete' = Complete BY <1>1 DEF Complete
<1>3. ASSUME Complete, NEW j \in (Junctions \cap dirs[1]) \ todo' PROVE Resolved(j)'
  <2>0. j \in Path BY DEF Junctions
  <2>1. Resolved(j)
    <3>1. CASE j # d BY <1>1, <1>3, <3>1 DEF Settled
    <3>2. CASE j = d
      <4>1. tree[d] = "junction" BY <1>1, <3>2 DEF Settled
      <4>2. IsJunction(d) BY <3>2, <4>1, Direct DEF IsJunction, Visible
      <4> QED BY <1>1, <1>3, <2>0, <3>2, <4>1, <4>2, NoReplacement DEF Resolved
    <3> QED BY <3>1, <3>2
  <2> QED BY <1>1, <2>0, <2>1, ResolvedKept
<1> QED BY <1>1, <1>2, <1>3 DEF Settled

\* No step undoes what is settled.
LEMMA SettledNext == Typed /\ Standing /\ Under /\ Walked /\ Settled /\ [Next]_vars => Settled'
<1> SUFFICES ASSUME Typed, Standing, Under, Walked, Settled, [Next]_vars PROVE Settled'
  OBVIOUS
<1>1. CASE Abort BY <1>1 DEF Abort, Settled
<1>2. CASE End \/ Ended \/ UNCHANGED vars
  <2>1. /\ UNCHANGED <<tree, folders, dirs, before, cur, from, todo>> /\ Junctions' = Junctions
        /\ UNCHANGED phase \/ (phase = "replace" /\ todo = {} /\ phase' = "end")
    BY <1>2 DEF End, Ended, vars, Junctions
  <2>2. Complete' = Complete /\ Replacement(cur)' = Replacement(cur)
    BY <2>1 DEF Complete, Replacement
  <2>3. \A j \in Junctions : Resolved(j) => Resolved(j)'
    BY <2>1, ResolvedKept DEF Junctions
  <2> QED BY <2>1, <2>2, <2>3 DEF Settled
<1> QED BY <1>1, <1>2, SettledList, SettledRemove, SettledCreate, SettledCopy, SettledSkip
        DEF Next

\* When the function returns and the walks were complete, each junction that
\* was listed is what copy makes of its path in the first folder that has the
\* directory or its name, and is left alone if none has.
THEOREM JunctionsReplaced == Spec => []ReplacedInOrder
<1>1. Init => Settled /\ Walked
  <2> SUFFICES ASSUME Init PROVE Settled /\ Walked
    OBVIOUS
  <2>1. Typed BY StandingInit
  <2> QED BY <2>1 DEF Init, Settled, Junctions, Walked, Typed
<1>2. Settled => ReplacedInOrder
  BY DEF Settled, ReplacedInOrder, Resolved
<1> QED BY <1>1, <1>2, StandingInit, UnderInit, TypedNext, StandingNext, UnderNext,
           WalkedNext, SettledNext, PTL DEF Spec
=============================================================================
