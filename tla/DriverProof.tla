---------------------------- MODULE DriverProof -----------------------------
(***************************************************************************)
(* Proofs about main and the formatting of times: for every command line,  *)
(* every disk, any number of files and any units.                          *)
(***************************************************************************)
EXTENDS Driver, TLAPS

-----------------------------------------------------------------------------
(***************************************************************************)
(* Types                                                                   *)
(***************************************************************************)

Kinds == {"none", "file", "dir"}

ArgsOK ==
    /\ argv \in Argv /\ i \in Nat \ {0} /\ set \subseteq Option /\ processors \in Int
    /\ sinodes \in Seq(Node \cup {NoNode})

DisksOK ==
    /\ disk \in [Node -> Kinds]
    /\ asked = [listed |-> asked.listed, disk |-> asked.disk, yes |-> asked.yes]
    /\ asked.listed \subseteq Node /\ asked.disk \in [Node -> Kinds]
    /\ rfiles \in Seq(Node) /\ rdirs \in Seq(Node)

CopyOK ==
    copy \in [at: {"none", "listing", "active", "joined", "finished"}, left: Nat,
              queued: Nat, late: Nat, toCopy: Nat, copied: Nat, failed: Nat,
              size: Nat, odd: BOOLEAN, undeleted: BOOLEAN, active: BOOLEAN, time: Nat]

Typed == ArgsOK /\ DisksOK /\ CopyOK

\* What a step makes of a list of paths is a list of paths.
LEMMA QueueType ==
    ASSUME NEW S, NEW s \in Seq(S)
    PROVE  /\ \A x \in S : Append(s, x) \in Seq(S)
           /\ s # <<>> => Tail(s) \in Seq(S)
OBVIOUS

\* An argument with the text of an option in it is taken for the option that
\* is tested first.
LEMMA TakenFirst ==
    ASSUME NEW w, w.has \subseteq Option, w.has # {}
    PROVE  \E k \in 1..9 : /\ Taken(w) = Order[k] /\ Order[k] \in w.has
                           /\ \A j \in 1..k - 1 : Order[j] \notin w.has
<1> DEFINE First(k) == Order[k] \in w.has /\ \A j \in 1..k - 1 : Order[j] \notin w.has
<1>1. Len(Order) = 9 BY DEF Order
<1>2. \E k \in 1..9 : First(k)
  <2>1. \E k \in 1..9 : Order[k] \in w.has BY DEF Order, Option
  <2> QED BY <2>1
<1>3. Taken(w) = Order[CHOOSE k \in 1..Len(Order) : First(k)] BY DEF Taken
<1> SUFFICES \E k \in 1..9 : Taken(w) = Order[k] /\ First(k)
  OBVIOUS
<1> HIDE DEF First
<1> DEFINE c == CHOOSE k \in 1..Len(Order) : First(k)
<1>4. c \in 1..9 /\ First(c) BY <1>1, <1>2
<1> QED BY <1>3, <1>4

\* The loop takes an argument for an option or for a path.
LEMMA TakenType ==
    ASSUME NEW w, w.has \subseteq Option
    PROVE  Taken(w) \in Option \cup {"path"}
<1>1. CASE w.has = {} BY <1>1 DEF Taken
<1>2. CASE w.has # {} BY <1>2, TakenFirst
<1> QED BY <1>1, <1>2

\* What the thread that copies leaves alone, and that it changes pc only by
\* ending the process.
LEMMA ThreadKeeps ==
    CopyThread => /\ UNCHANGED <<argv, i, set, processors, sinodes, disk, rfiles, rdirs,
                                 asked, found, todo, err, finished, shown>>
                  /\ UNCHANGED pc \/ (CopyListing /\ pc' = "terminated" /\ UNCHANGED copy)
BY DEF CopyThread, args, removing, searching, CopyListing, Sort, Work, DeleteFails, CopyJoined

\* The arguments are words.
LEMMA Words ==
    ASSUME ArgsOK, NEW k \in 1..Len(argv)
    PROVE  /\ argv[k].has \subseteq Option /\ argv[k].means \in Option \cup {"path"}
           /\ argv[k].node \in Node \cup {NoNode}
           /\ argv[k].num # NoNumber => argv[k].num \in Int
           /\ Len(argv) \in Nat
<1>1. argv \in Seq(Argument) BY DriverAssumption DEF ArgsOK
<1>2. argv[k] \in Argument BY <1>1
<1> QED BY <1>1, <1>2 DEF Argument

\* Every step of main and of the copying thread keeps the types.
LEMMA TypedNext == Typed /\ [Next]_vars => Typed'
<1> SUFFICES ASSUME Typed, [Next]_vars PROVE Typed'
  OBVIOUS
<1> USE DEF Typed
<1>1. ArgsOK'
  <2>1. CASE Parse
    <3>1. i \in 1..Len(argv)
      <4>1. Len(argv) \in Nat BY DriverAssumption DEF ArgsOK
      <4> QED BY <2>1, <4>1 DEF Parse, ArgsOK
    <3>2. Taken(argv[i]) \in Option \cup {"path"} BY <3>1, Words, TakenType
    <3> QED BY <2>1, <3>1, <3>2, Words DEF Parse, ArgsOK
  <2>2. CASE ~Parse
    <3>1. /\ UNCHANGED <<argv, processors>> /\ (UNCHANGED sinodes \/ sinodes' = <<>>)
          /\ UNCHANGED <<i, set>> \/ ParseEnd \/ Classify
      BY <2>2, ThreadKeeps
         DEF Next, Main, World, StatusThrows, Usage, ParseEnd, Classify, Dispatch, SearchStart, SearchStep,
             SearchEnd, Remove, Reconstitute, CopyStart, MonitorRead, MonitorPrint,
             FinalPrint, Confirm, Disturb, args, vars
    <3>2. sinodes' \in Seq(Node \cup {NoNode})
      <4>1. <<>> \in Seq(Node \cup {NoNode}) OBVIOUS
      <4> QED BY <3>1, <4>1 DEF ArgsOK
    <3> QED BY <3>1, <3>2 DEF ArgsOK, ParseEnd, Classify, Option
  <2> QED BY <2>1, <2>2
<1>2. DisksOK'
  <2>1. CASE Classify
    <3>1. sinodes[i] \in Node \cup {NoNode} BY <2>1 DEF Classify, ArgsOK
    <3>2. CASE Exists(sinodes[i])
      <4>1. sinodes[i] \in Node BY <3>1, <3>2 DEF Exists
      <4>2. asked' = [asked EXCEPT !.listed = @ \cup {sinodes[i]}] BY <2>1, <3>2 DEF Classify
      <4>3. /\ asked' = [listed |-> asked'.listed, disk |-> asked'.disk, yes |-> asked'.yes]
            /\ asked'.listed \subseteq Node /\ asked'.disk = asked.disk
        BY <4>1, <4>2 DEF DisksOK
      <4>4. /\ rfiles' = rfiles \/ rfiles' = Append(rfiles, sinodes[i])
            /\ rdirs' = rdirs \/ rdirs' = Append(rdirs, sinodes[i])
        BY <2>1, <3>2 DEF Classify
      <4> QED BY <2>1, <4>1, <4>3, <4>4, QueueType DEF Classify, DisksOK
    <3>3. CASE ~Exists(sinodes[i])
      BY <2>1, <3>3 DEF Classify, DisksOK, removing
    <3> QED BY <3>2, <3>3
  <2>2. ASSUME NEW n \in Node, Disturb(n) PROVE DisksOK'
    BY <2>2 DEF Disturb, DisksOK, Kinds
  <2>3. ASSUME NEW a \in {"y", "Y", "n", ""}, Confirm(a) PROVE DisksOK'
    <3>1. /\ asked' = [listed |-> asked'.listed, disk |-> asked'.disk, yes |-> asked'.yes]
          /\ asked'.listed = asked.listed /\ asked'.disk = asked.disk
      BY <2>3 DEF Confirm, DisksOK
    <3> QED BY <2>3, <3>1 DEF Confirm, DisksOK
  <2>4. CASE Remove
    <3>1. UNCHANGED asked BY <2>4 DEF Remove
    <3>2. /\ rfiles' = rfiles \/ (rfiles # <<>> /\ rfiles' = Tail(rfiles))
          /\ rdirs' = rdirs \/ (rdirs # <<>> /\ rdirs' = Tail(rdirs))
      BY <2>4 DEF Remove
    <3>3. disk' \in [Node -> Kinds]
      BY <2>4 DEF Remove, DisksOK, Kinds
    <3> QED BY <3>1, <3>2, <3>3, QueueType DEF DisksOK
  <2>5. CASE UNCHANGED <<disk, rfiles, rdirs, asked>> BY <2>5 DEF DisksOK
  <2> QED BY <2>1, <2>2, <2>3, <2>4, <2>5, ThreadKeeps
          DEF Next, Main, World, StatusThrows, Usage, Parse, ParseEnd, Dispatch, SearchStart, SearchStep,
              SearchEnd, Reconstitute, CopyStart, MonitorRead, MonitorPrint, FinalPrint,
              removing, vars
<1>3. CopyOK'
  <2>1. CASE CopyThread
    <3>1. CASE CopyListing BY <3>1, DriverAssumption DEF CopyListing, CopyOK
    <3>2. CASE Sort
      <4>1. CASE copy.left > 0 /\ copy' = [copy EXCEPT !.left = @ - 1, !.queued = @ + 1,
                                                        !.late = @ + 1]
        <5>1. copy.left - 1 \in Nat /\ copy.queued + 1 \in Nat /\ copy.late + 1 \in Nat
          BY <4>1 DEF CopyOK
        <5> QED BY <4>1, <5>1 DEF CopyOK
      <4>2. ASSUME copy.late > 0, NEW o \in BOOLEAN,
                   copy' = [copy EXCEPT !.late = @ - 1, !.toCopy = @ + 1, !.odd = @ \/ o]
            PROVE  CopyOK'
        <5>1. /\ copy.late - 1 \in Nat /\ copy.toCopy + 1 \in Nat
              /\ (copy.odd \/ o) \in BOOLEAN
          BY <4>2 DEF CopyOK
        <5> QED BY <4>2, <5>1 DEF CopyOK
      <4> QED BY <3>2, <4>1, <4>2 DEF Sort
    <3>3. CASE Work
      <4>1. /\ copy.queued - 1 \in Nat /\ copy.copied + 1 \in Nat
            /\ copy.failed + 1 \in Nat
        <5>1. copy.queued > 0 BY <3>3 DEF Work
        <5> QED BY <5>1 DEF CopyOK
      <4>2. ASSUME NEW o \in BOOLEAN,
                   copy' = [copy EXCEPT !.queued = @ - 1, !.copied = @ + 1, !.odd = @ \/ o]
            PROVE  CopyOK'
        <5>1. (copy.odd \/ o) \in BOOLEAN BY DEF CopyOK
        <5> QED BY <4>1, <4>2, <5>1 DEF CopyOK
      <4>3. CASE copy' = [copy EXCEPT !.queued = @ - 1, !.failed = @ + 1]
        BY <4>1, <4>3 DEF CopyOK
      <4> QED BY <3>3, <4>2, <4>3 DEF Work
    <3>4. CASE CopyJoined BY <3>4 DEF CopyJoined, CopyOK
    <3>5. CASE CopyEnd BY <3>5 DEF CopyEnd, CopyOK
    <3>6. CASE DeleteFails BY <3>6 DEF DeleteFails, CopyOK
    <3> QED BY <2>1, <3>1, <3>2, <3>3, <3>4, <3>5, <3>6 DEF CopyThread
  <2>2. CASE CopyStart BY <2>2 DEF CopyStart, CopyOK
  <2>3. CASE UNCHANGED copy BY <2>3 DEF CopyOK
  <2> QED BY <2>1, <2>2, <2>3
          DEF Next, Main, World, StatusThrows, Usage, Parse, ParseEnd, Classify, Dispatch, SearchStart,
              SearchStep, SearchEnd, Remove, Reconstitute, MonitorRead, MonitorPrint,
              FinalPrint, Confirm, Disturb, vars
<1> QED BY <1>1, <1>2, <1>3

\* main starts with well-typed variables.
LEMMA TypedInit == Init => Typed
BY DriverAssumption DEF Init, Typed, ArgsOK, DisksOK, CopyOK, Kinds
-----------------------------------------------------------------------------
(***************************************************************************)
(* Times                                                                   *)
(***************************************************************************)

\* What a field takes of n: whole units, and at most one unit is left.
LEMMA FieldTakes ==
    ASSUME NEW n \in Nat, NEW unit \in Nat \ {0}
    PROVE  /\ Field(n, unit) \in Nat /\ Field(n, unit) * unit \in Nat
           /\ Field(n, unit) * unit <= n
           /\ n - Field(n, unit) * unit \in Nat
           /\ n - Field(n, unit) * unit <= unit
           /\ n = Field(n, unit) * unit + (n - Field(n, unit) * unit)
<1>1. /\ n \div unit \in Nat /\ (n \div unit) * unit \in Nat
      /\ (n \div unit) * unit <= n /\ n < (n \div unit) * unit + unit
  OBVIOUS
<1>2. CASE n > unit BY <1>1, <1>2 DEF Field
<1>3. CASE ~(n > unit) BY <1>3 DEF Field
<1> QED BY <1>2, <1>3

\* FormatTimeNS loses nothing, and every field stays within its unit.
LEMMA FormatTimeNSExact ==
    ASSUME NEW n \in Nat
    PROVE  LET f == FormatTimeNS(n)
           IN  /\ TotalNS(f) = n
               /\ f[2] * Second <= Minute /\ f[3] * Milli <= Second
               /\ f[4] * Micro <= Milli /\ f[5] <= Micro
               /\ f[2] * Second = Minute => f[3] + f[4] + f[5] = 0
<1> DEFINE m  == Field(n, Minute)
           r1 == n - m * Minute
           s  == Field(r1, Second)
           r2 == r1 - s * Second
           ms == Field(r2, Milli)
           r3 == r2 - ms * Milli
           us == Field(r3, Micro)
           r4 == r3 - us * Micro
<1>0. FormatTimeNS(n) = <<m, s, ms, us, r4>> BY DEF FormatTimeNS
<1>u. Minute \in Nat \ {0} /\ Second \in Nat \ {0} /\ Milli \in Nat \ {0} /\ Micro \in Nat \ {0}
  BY UnitAssumption
<1>1. m * Minute \in Nat /\ r1 \in Nat /\ r1 <= Minute /\ n = m * Minute + r1
  BY <1>u, FieldTakes
<1>2. s * Second \in Nat /\ r2 \in Nat /\ r2 <= Second /\ r1 = s * Second + r2
  <2> HIDE DEF r1
  <2> QED BY <1>1, <1>u, FieldTakes
<1>3. ms * Milli \in Nat /\ r3 \in Nat /\ r3 <= Milli /\ r2 = ms * Milli + r3 /\ ms \in Nat
  <2> HIDE DEF r2
  <2> QED BY <1>2, <1>u, FieldTakes
<1>4. us * Micro \in Nat /\ r4 \in Nat /\ r4 <= Micro /\ r3 = us * Micro + r4 /\ us \in Nat
  <2> HIDE DEF r3
  <2> QED BY <1>3, <1>u, FieldTakes
<1> HIDE DEF m, r1, s, r2, ms, r3, us, r4
<1>5. TotalNS(<<m, s, ms, us, r4>>) = m * Minute + s * Second + ms * Milli + us * Micro + r4
  BY DEF TotalNS
<1>6. TotalNS(<<m, s, ms, us, r4>>) = n BY <1>1, <1>2, <1>3, <1>4, <1>5
<1>7. s * Second <= Minute BY <1>1, <1>2, UnitAssumption
<1>8. ms * Milli <= Second BY <1>2, <1>3, UnitAssumption
<1>9. us * Micro <= Milli BY <1>3, <1>4, UnitAssumption
<1>10. ASSUME s * Second = Minute PROVE ms + us + r4 = 0
  <2>1. r2 = 0 BY <1>1, <1>2, <1>10, UnitAssumption
  <2>2. ms = 0 /\ r3 = 0 BY <1>3, <2>1, UnitAssumption
  <2>3. us = 0 /\ r4 = 0 BY <1>4, <2>2, UnitAssumption
  <2> QED BY <2>2, <2>3
<1> QED BY <1>0, <1>4, <1>6, <1>7, <1>8, <1>9, <1>10

\* A unit is at least one microsecond.
LEMMA UnitsInMicro ==
    /\ Minute \div Micro \in Nat \ {0} /\ Second \div Micro \in Nat \ {0}
    /\ Milli \div Micro \in Nat \ {0}
<1>1. \A n \in Nat \ {0}, u \in Nat \ {0} : n % u = 0 => n >= u
  OBVIOUS
<1>2. Milli >= Micro /\ Second >= Milli /\ Minute >= Second BY <1>1, UnitAssumption
<1>3. \A n \in Nat \ {0}, u \in Nat \ {0} : n >= u => n \div u \in Nat \ {0}
  OBVIOUS
<1> QED BY <1>2, <1>3, UnitAssumption

\* FormatTime loses nothing either.
LEMMA FormatTimeExact ==
    ASSUME NEW n \in Nat
    PROVE  Total(FormatTime(n)) = n
<1> DEFINE Mi == Minute \div Micro
           Se == Second \div Micro
           Ml == Milli \div Micro
           m  == Field(n, Mi)
           r1 == n - m * Mi
           s  == Field(r1, Se)
           r2 == r1 - s * Se
           ms == Field(r2, Ml)
           r3 == r2 - ms * Ml
<1>0. FormatTime(n) = <<m, s, ms, r3>> BY DEF FormatTime
<1>u. Mi \in Nat \ {0} /\ Se \in Nat \ {0} /\ Ml \in Nat \ {0} BY UnitsInMicro
<1>t. Total(<<m, s, ms, r3>>) = m * Mi + s * Se + ms * Ml + r3 BY DEF Total
<1> HIDE DEF Mi, Se, Ml
<1>1. m * Mi \in Nat /\ r1 \in Nat /\ n = m * Mi + r1 BY <1>u, FieldTakes
<1>2. s * Se \in Nat /\ r2 \in Nat /\ r1 = s * Se + r2
  <2> HIDE DEF r1
  <2>1. r1 \in Nat BY <1>1
  <2> QED BY <1>u, <2>1, FieldTakes
<1>3. ms * Ml \in Nat /\ r3 \in Nat /\ r2 = ms * Ml + r3
  <2> HIDE DEF r2
  <2>1. r2 \in Nat BY <1>2
  <2> QED BY <1>u, <2>1, FieldTakes
<1> HIDE DEF m, r1, s, r2, ms, r3
<1> QED BY <1>0, <1>t, <1>1, <1>2, <1>3

\* The fields printed for any time add up to it.
THEOREM TimesAddUp == Spec => []TimeExact
<1>1. Typed => TimeExact
  <2> SUFFICES ASSUME Typed PROVE TimeExact
    OBVIOUS
  <2>1. copy.time \in Nat BY DEF Typed, CopyOK
  <2>2. copy.time \div Micro \in Nat BY <2>1, UnitAssumption
  <2> QED BY <2>1, <2>2, FormatTimeNSExact, FormatTimeExact DEF TimeExact
<1> QED BY <1>1, TypedInit, TypedNext, PTL DEF Spec

-----------------------------------------------------------------------------
(***************************************************************************)
(* The totals                                                              *)
(***************************************************************************)

\* A file is with the sorters, queued, copied or failed; one that left the
\* sorters is announced or about to be.  main is past CopyStart once the thread
\* runs, and reads the totals last when the thread has ended.
Totals ==
    /\ copy.left + copy.late + copy.toCopy = NFiles
    /\ copy.left + copy.queued + copy.copied + copy.failed = NFiles
    /\ copy.at \in {"joined", "finished"} =>
          copy.left = 0 /\ copy.late = 0 /\ (processors > 0 => copy.queued = 0)
    /\ copy.at # "none" => pc \in {"monitor", "print", "join", "exit", "terminated"}

\* All bytes of the total are 100 percent of it.
LEMMA AllIsHundred ==
    ASSUME NEW x \in Nat \ {0}
    PROVE  (x * 100) \div x = 100
OBVIOUS

\* The last line main prints is right.
LEMMA FinalIsRight ==
    ASSUME Typed, Totals, FinalPrint
    PROVE  FinalReport'
<1>0. /\ copy.left \in Nat /\ copy.late \in Nat /\ copy.toCopy \in Nat /\ copy.queued \in Nat
      /\ copy.copied \in Nat /\ copy.failed \in Nat /\ copy.size \in Nat
      /\ processors \in Int /\ NFiles \in Nat
  BY DriverAssumption DEF Typed, CopyOK, ArgsOK
<1>1. /\ UNCHANGED <<copy, processors>> /\ copy.at = "finished"
      /\ err' = (copy.failed > 0 \/ copy.undeleted)
      /\ shown' = [copied |-> copy.copied, toCopy |-> copy.toCopy, percent |-> Percent]
  BY DEF FinalPrint, JoinCopy, PrintTotals, args
<1>2. /\ copy.toCopy = NFiles
      /\ processors > 0 => copy.copied + copy.failed = NFiles
  BY <1>0, <1>1 DEF Totals
<1>3. ASSUME copy.failed = 0, ~copy.odd, processors > 0, NFiles * copy.size > 0
      PROVE  Percent = 100
  <2>1. copy.copied = NFiles BY <1>0, <1>2, <1>3
  <2>2. NFiles * copy.size \in Nat \ {0} BY <1>0, <1>3
  <2>3. ~(copy.odd \/ copy.toCopy * copy.size = 0) BY <1>2, <1>3, <2>2
  <2>4. Percent = (copy.copied * copy.size * 100) \div (copy.toCopy * copy.size)
    BY <2>3, Zenon DEF Percent
  <2> QED BY <1>2, <2>1, <2>2, <2>4, AllIsHundred
<1>4. (processors < 1) \/ processors > 0 BY <1>0
<1>5. shown'.copied = copy.copied /\ shown'.toCopy = copy.toCopy /\ shown'.percent = Percent
  BY <1>1
<1>6. ASSUME ~err' PROVE copy.failed = 0 /\ ~copy.undeleted
  <2>1. ~(copy.failed > 0) /\ ~copy.undeleted BY <1>1, <1>6, Zenon
  <2> QED BY <1>0, <2>1
<1> QED BY <1>1, <1>2, <1>3, <1>4, <1>5, <1>6 DEF FinalReport

\* Nothing is announced or copied when main starts.
LEMMA TotalsInit == Init => Totals
BY DriverAssumption DEF Init, Totals

\* Every step moves a file from one of these numbers to another.
LEMMA TotalsNext == Typed /\ Totals /\ [Next]_vars => Totals'
<1> SUFFICES ASSUME Typed, Totals, [Next]_vars PROVE Totals'
  OBVIOUS
<1>0. /\ copy.left \in Nat /\ copy.late \in Nat /\ copy.toCopy \in Nat /\ copy.queued \in Nat
      /\ copy.copied \in Nat /\ copy.failed \in Nat /\ NFiles \in Nat
  BY DriverAssumption DEF Typed, CopyOK
<1>1. CASE CopyThread
  <2>0. UNCHANGED processors /\ (UNCHANGED pc \/ (pc' = "terminated" /\ UNCHANGED copy))
    BY <1>1, ThreadKeeps
  <2>1. CASE CopyListing BY <2>0, <2>1 DEF CopyListing, Totals, Typed, CopyOK
  <2>2. CASE Sort
    <3>0. copy.at = "active" BY <2>2 DEF Sort
    <3>1. CASE copy.left > 0 /\ copy' = [copy EXCEPT !.left = @ - 1, !.queued = @ + 1,
                                                     !.late = @ + 1]
      BY <1>0, <2>0, <3>0, <3>1 DEF Totals, Typed, CopyOK
    <3>2. ASSUME copy.late > 0, NEW o \in BOOLEAN,
                 copy' = [copy EXCEPT !.late = @ - 1, !.toCopy = @ + 1, !.odd = @ \/ o]
          PROVE  Totals'
      BY <1>0, <2>0, <3>0, <3>2 DEF Totals, Typed, CopyOK
    <3> QED BY <2>2, <3>1, <3>2 DEF Sort
  <2>3. CASE Work
    <3>0. copy.at = "active" /\ copy.queued > 0 BY <2>3 DEF Work
    <3>1. ASSUME NEW o \in BOOLEAN,
                 copy' = [copy EXCEPT !.queued = @ - 1, !.copied = @ + 1, !.odd = @ \/ o]
          PROVE  Totals'
      BY <1>0, <2>0, <3>0, <3>1 DEF Totals, Typed, CopyOK
    <3>2. CASE copy' = [copy EXCEPT !.queued = @ - 1, !.failed = @ + 1]
      BY <1>0, <2>0, <2>3, <3>2 DEF Work, Totals, Typed, CopyOK
    <3> QED BY <2>3, <3>1, <3>2 DEF Work
  <2>4. CASE CopyJoined BY <2>0, <2>4 DEF CopyJoined, Totals, Typed, CopyOK
  <2>5. CASE CopyEnd BY <2>0, <2>5 DEF CopyEnd, Totals, Typed, CopyOK
  <2>6. CASE DeleteFails BY <2>0, <2>6 DEF DeleteFails, Totals, Typed, CopyOK
  <2> QED BY <1>1, <2>1, <2>2, <2>3, <2>4, <2>5, <2>6 DEF CopyThread
<1>2. CASE CopyStart
  BY <1>2 DEF CopyStart, Totals, Typed, CopyOK, args
<1>3. CASE UNCHANGED copy /\ ~CopyThread /\ ~CopyStart
  <2>1. copy.at # "none" => pc' \in {"monitor", "print", "join", "exit", "terminated"}
    BY <1>3 DEF Next, Main, World, StatusThrows, Usage, Parse, ParseEnd, Classify, Dispatch, SearchStart,
                SearchStep, SearchEnd, Remove, RemoveError, Reconstitute, MonitorRead,
                MonitorPrint, FinalPrint, Confirm, Disturb, vars, Totals
  <2>2. copy.at # "none" => UNCHANGED processors
    BY <1>3 DEF Next, Main, World, StatusThrows, Usage, Parse, ParseEnd, Classify, Dispatch, SearchStart,
                SearchStep, SearchEnd, Remove, Reconstitute, MonitorRead, MonitorPrint,
                FinalPrint, Confirm, Disturb, vars, args, Totals
  <2> QED BY <1>3, <2>1, <2>2 DEF Totals
<1> QED BY <1>1, <1>2, <1>3
        DEF Next, Main, World, StatusThrows, Usage, Parse, ParseEnd, Classify, Dispatch, SearchStart,
            SearchStep, SearchEnd, Remove, Reconstitute, MonitorRead, MonitorPrint,
            FinalPrint, Confirm, Disturb, vars

\* The totals printed last are final and complete.
THEOREM FinalTotals == Spec => []FinalReport
<1>1. Init => FinalReport BY DEF Init, FinalReport
<1>2. Typed /\ Totals /\ FinalReport /\ [Next]_vars => FinalReport'
  <2> SUFFICES ASSUME Typed, Totals, FinalReport, [Next]_vars,
                      pc' = "exit", copy'.at # "none"
               PROVE  FinalReport'
    BY DEF FinalReport
  <2>1. CASE FinalPrint BY <2>1, FinalIsRight
  <2>2. CASE UNCHANGED vars
    BY <2>2 DEF vars, args, FinalReport
  <2>3. CASE ~FinalPrint /\ ~UNCHANGED vars
    <3>1. CASE copy.at = "none"
      BY <2>3, <3>1
         DEF Next, Main, World, StatusThrows, Usage, Parse, ParseEnd, Classify, Dispatch, SearchStart,
             SearchStep, SearchEnd, Remove, RemoveError, Reconstitute, CopyStart,
             MonitorRead, MonitorPrint, Confirm, Disturb, CopyThread, CopyListing, Sort,
             Work, DeleteFails, CopyJoined, CopyEnd, Typed, CopyOK
    <3>2. CASE copy.at # "none"
      <4>1. pc \in {"monitor", "print", "join", "exit", "terminated"} BY <3>2 DEF Totals
      <4>2. ~CopyThread \/ Ended BY <4>1, ThreadKeeps DEF Ended
      <4> QED BY <2>3, <4>1, <4>2
         DEF Next, Main, World, StatusThrows, Usage, Parse, ParseEnd, Classify, Dispatch, SearchStart,
             SearchStep, SearchEnd, Remove, RemoveError, Reconstitute, CopyStart,
             MonitorRead, MonitorPrint, Confirm, Disturb
    <3> QED BY <3>1, <3>2
  <2> QED BY <2>1, <2>2, <2>3
<1> QED BY <1>1, <1>2, TypedInit, TypedNext, TotalsInit, TotalsNext, PTL DEF Spec
-----------------------------------------------------------------------------
(***************************************************************************)
(* Removal                                                                 *)
(***************************************************************************)

\* y is in the list s.
On(s, y) == \E k \in 1..Len(s) : s[k] = y

\* What is in a list after push_back and after its first element is handled.
LEMMA ListChanges ==
    ASSUME NEW S, NEW s \in Seq(S), NEW y
    PROVE  /\ \A x \in S : On(Append(s, x), y) <=> y = x \/ On(s, y)
           /\ s # <<>> => /\ On(s, y) <=> y = Head(s) \/ On(Tail(s), y)
                          /\ Head(s) \in S
<1>1. ASSUME NEW x \in S PROVE On(Append(s, x), y) <=> y = x \/ On(s, y)
  <2>1. /\ Len(Append(s, x)) = Len(s) + 1 /\ Len(s) \in Nat
        /\ Append(s, x)[Len(s) + 1] = x
        /\ \A k \in 1..Len(s) : Append(s, x)[k] = s[k]
    OBVIOUS
  <2> QED BY <2>1 DEF On
<1>2. ASSUME s # <<>> PROVE (On(s, y) <=> y = Head(s) \/ On(Tail(s), y)) /\ Head(s) \in S
  <2>1. /\ Len(s) \in Nat \ {0} /\ Len(Tail(s)) = Len(s) - 1 /\ Head(s) = s[1]
        /\ \A k \in 1..Len(s) - 1 : Tail(s)[k] = s[k + 1]
        /\ s[1] \in S
    BY <1>2
  <2>2. ASSUME NEW k \in 1..Len(s), s[k] = y PROVE y = Head(s) \/ On(Tail(s), y)
    <3>1. CASE k = 1 BY <2>1, <2>2, <3>1
    <3>2. CASE k # 1
      <4>1. k - 1 \in 1..Len(Tail(s)) /\ Tail(s)[k - 1] = y BY <2>1, <2>2, <3>2
      <4> QED BY <4>1 DEF On
    <3> QED BY <3>1, <3>2
  <2>3. ASSUME NEW k \in 1..Len(Tail(s)), Tail(s)[k] = y PROVE On(s, y)
    <3>1. k + 1 \in 1..Len(s) /\ s[k + 1] = y BY <2>1, <2>3
    <3> QED BY <3>1 DEF On
  <2>4. On(s, Head(s)) BY <2>1 DEF On
  <2> QED BY <2>1, <2>2, <2>3, <2>4 DEF On
<1> QED BY <1>1, <1>2

\* Only the option loop and the end of the loop over the paths touch the list of
\* paths, and only that loop and the removal the lists of files and folders.
LEMMA ListsMove ==
    ASSUME [Next]_vars
    PROVE  /\ UNCHANGED sinodes \/ Parse \/ Dispatch
           /\ UNCHANGED <<rfiles, rdirs>> \/ Classify \/ Remove
           /\ UNCHANGED argv
BY ThreadKeeps
   DEF Next, Main, World, StatusThrows, Usage, Parse, ParseEnd, Classify, Dispatch, SearchStart,
       SearchStep, SearchEnd, Remove, Reconstitute, CopyStart, MonitorRead, MonitorPrint,
       FinalPrint, Confirm, Disturb, args, removing, vars

\* n was named on the command line.
Named(n) == \E k \in 1..Len(argv) : argv[k].node = n

\* Every path in a list was named.
NamedOnly == \A n \in Node : On(sinodes, n) \/ On(rfiles, n) \/ On(rdirs, n) => Named(n)

\* Parsing and sorting into files and folders add named paths only.
LEMMA NamedOnlyNext == Typed /\ NamedOnly /\ [Next]_vars => NamedOnly'
<1> SUFFICES ASSUME Typed, NamedOnly, [Next]_vars PROVE NamedOnly'
  OBVIOUS
<1>0. /\ sinodes \in Seq(Node \cup {NoNode}) /\ rfiles \in Seq(Node) /\ rdirs \in Seq(Node)
      /\ i \in Nat \ {0} /\ Len(argv) \in Nat /\ UNCHANGED argv
  BY DriverAssumption, ListsMove DEF Typed, ArgsOK, DisksOK
<1>1. CASE Parse
  <2>1. i \in 1..Len(argv) BY <1>0, <1>1 DEF Parse
  <2>2. argv[i].node \in Node \cup {NoNode} /\ Named(argv[i].node)
    BY <2>1, Words DEF Typed, Named
  <2>3. /\ sinodes' = sinodes \/ sinodes' = Append(sinodes, argv[i].node)
        /\ UNCHANGED <<rfiles, rdirs>>
    BY <1>1 DEF Parse, removing
  <2>4. ASSUME NEW n \in Node, On(sinodes', n) PROVE Named(n)
    <3>1. CASE sinodes' = sinodes BY <2>4, <3>1 DEF NamedOnly
    <3>2. CASE sinodes' = Append(sinodes, argv[i].node)
      <4>1. n = argv[i].node \/ On(sinodes, n) BY <1>0, <2>2, <2>4, <3>2, ListChanges
      <4> QED BY <2>2, <4>1 DEF NamedOnly
    <3> QED BY <2>3, <3>1, <3>2
  <2> QED BY <1>0, <2>3, <2>4 DEF NamedOnly, Named
<1>2. CASE Classify
  <2>1. /\ UNCHANGED sinodes
        /\ rfiles' = rfiles \/ (Exists(sinodes[i]) /\ rfiles' = Append(rfiles, sinodes[i]))
        /\ rdirs' = rdirs \/ (Exists(sinodes[i]) /\ rdirs' = Append(rdirs, sinodes[i]))
    BY <1>2 DEF Classify, removing
  <2>2. sinodes[i] \in Node \cup {NoNode} /\ On(sinodes, sinodes[i])
    BY <1>0, <1>2 DEF Classify, On
  <2>3. Exists(sinodes[i]) => sinodes[i] \in Node /\ Named(sinodes[i])
    BY <2>2 DEF Exists, NamedOnly
  <2>4. ASSUME NEW n \in Node, On(rfiles', n) \/ On(rdirs', n) PROVE Named(n)
    <3>1. ASSUME Exists(sinodes[i])
          PROVE  /\ On(Append(rfiles, sinodes[i]), n) => n = sinodes[i] \/ On(rfiles, n)
                 /\ On(Append(rdirs, sinodes[i]), n) => n = sinodes[i] \/ On(rdirs, n)
      BY <1>0, <2>3, <3>1, ListChanges
    <3> QED BY <2>1, <2>3, <2>4, <3>1 DEF NamedOnly
  <2> QED BY <1>0, <2>1, <2>4 DEF NamedOnly, Named
<1>3. CASE Remove
  <2>1. /\ UNCHANGED sinodes
        /\ rfiles' = rfiles \/ (rfiles # <<>> /\ rfiles' = Tail(rfiles))
        /\ rdirs' = rdirs \/ (rdirs # <<>> /\ rdirs' = Tail(rdirs))
    BY <1>3 DEF Remove, args
  <2>2. ASSUME NEW n \in Node, On(rfiles', n) \/ On(rdirs', n) PROVE Named(n)
    <3>1. /\ rfiles # <<>> /\ On(Tail(rfiles), n) => On(rfiles, n)
          /\ rdirs # <<>> /\ On(Tail(rdirs), n) => On(rdirs, n)
      BY <1>0, ListChanges
    <3> QED BY <2>1, <2>2, <3>1 DEF NamedOnly
  <2> QED BY <1>0, <2>1, <2>2 DEF NamedOnly, Named
<1>4. CASE UNCHANGED <<sinodes, rfiles, rdirs>>
  BY <1>0, <1>4 DEF NamedOnly, Named
<1>5. CASE Dispatch
  <2>1. sinodes' = <<>> /\ UNCHANGED <<rfiles, rdirs>> BY <1>5 DEF Dispatch, removing
  <2>2. \A n \in Node : ~On(<<>>, n) BY DEF On
  <2> QED BY <1>0, <2>1, <2>2 DEF NamedOnly, Named
<1> QED BY <1>1, <1>2, <1>3, <1>4, <1>5, ListsMove

\* Nothing is removed before the answer was yes.
Answered ==
    /\ pc = "remove" => asked.yes
    /\ asked.yes => pc \in {"remove", "exit", "terminated"}

\* The disk and the answer change only around the question.
LEMMA DiskMoves ==
    ASSUME [Next]_vars
    PROVE  \/ UNCHANGED <<disk, asked>> \/ Classify \/ Remove
           \/ \E a \in {"y", "Y", "n", ""} : Confirm(a)
           \/ \E n \in Node : Disturb(n)
BY ThreadKeeps
   DEF Next, Main, World, StatusThrows, Usage, Parse, ParseEnd, Dispatch, SearchStart,
       SearchStep, SearchEnd, Reconstitute, CopyStart, MonitorRead, MonitorPrint,
       FinalPrint, removing, vars

\* Only the confirmed question leads to the removal.
LEMMA AnsweredNext == Typed /\ Answered /\ [Next]_vars => Answered'
<1> SUFFICES ASSUME Typed, Answered, [Next]_vars PROVE Answered'
  OBVIOUS
<1>1. CASE Classify
  <2>1. asked'.yes = asked.yes /\ pc' = pc /\ pc = "classify"
    BY <1>1 DEF Classify, removing, Typed, DisksOK
  <2> QED BY <2>1 DEF Answered
<1>2. ASSUME NEW n \in Node, Disturb(n) PROVE Answered'
  <2>1. asked'.yes = asked.yes /\ pc' = pc
    BY <1>2 DEF Disturb, Typed, DisksOK
  <2> QED BY <2>1 DEF Answered
<1>3. ASSUME NEW a \in {"y", "Y", "n", ""}, Confirm(a) PROVE Answered'
  <2>1. asked'.yes <=> a \in {"y", "Y"} BY <1>3 DEF Confirm, Typed, DisksOK
  <2> QED BY <1>3, <2>1 DEF Confirm, Confirmed, Answered
<1>4. CASE Remove
  BY <1>4 DEF Remove, RemoveError, Answered
<1>5. CASE /\ UNCHANGED <<disk, asked>> /\ ~Remove
           /\ ~ \E a \in {"y", "Y", "n", ""} : Confirm(a)
  <2>1. pc' = "remove" => pc = "remove"
    BY <1>5, ThreadKeeps
       DEF Next, Main, World, StatusThrows, Usage, Parse, ParseEnd, Classify, Dispatch, SearchStart,
           SearchStep, SearchEnd, Reconstitute, CopyStart, MonitorRead, MonitorPrint,
           FinalPrint, Disturb, vars
  <2> QED BY <1>5, <2>1, ThreadKeeps
       DEF Next, Main, World, StatusThrows, Usage, Parse, ParseEnd, Classify, Dispatch, SearchStart,
           SearchStep, SearchEnd, Reconstitute, CopyStart, MonitorRead, MonitorPrint,
           FinalPrint, Confirm, Disturb, Answered, vars
<1> QED BY <1>1, <1>2, <1>3, <1>4, <1>5, DiskMoves

\* What a step of the removal takes from the disk is named or in a folder that
\* is.
LEMMA RemoveTakes ==
    ASSUME Typed, NamedOnly, Remove, NEW n \in Node, disk'[n] # disk[n]
    PROVE  \E k \in 1..Len(argv) : n \in Below(argv[k].node)
<1>0. rfiles \in Seq(Node) /\ rdirs \in Seq(Node) /\ disk \in [Node -> Kinds]
  BY DEF Typed, DisksOK
<1>1. CASE rfiles # <<>> /\ disk' = [disk EXCEPT ![Head(rfiles)] = "none"]
  <2>1. n = Head(rfiles) BY <1>0, <1>1
  <2>2. On(rfiles, n) BY <1>0, <1>1, <2>1, ListChanges
  <2> QED BY <2>2 DEF NamedOnly, Named, Below
<1>2. CASE rdirs # <<>> /\ \E P \in SUBSET Below(Head(rdirs)) :
              disk' = [q \in Node |-> IF q \in P THEN "none" ELSE disk[q]]
  <2>1. n \in Below(Head(rdirs)) BY <1>2
  <2>2. On(rdirs, Head(rdirs)) /\ Head(rdirs) \in Node BY <1>0, <1>2, ListChanges
  <2> QED BY <2>1, <2>2 DEF NamedOnly, Named
<1> QED BY <1>1, <1>2 DEF Remove

\* What disappears after the question was named, and the answer was yes.
THEOREM OnlyNamedRemoved == Spec => []RemovesOnlyNamed
<1>1. Init => NamedOnly /\ Answered /\ RemovesOnlyNamed
  BY DEF Init, NamedOnly, On, Answered, RemovesOnlyNamed
<1>2. Typed /\ NamedOnly /\ Answered /\ RemovesOnlyNamed /\ [Next]_vars => RemovesOnlyNamed'
  <2> SUFFICES ASSUME Typed, NamedOnly, Answered, RemovesOnlyNamed, [Next]_vars,
                      NEW n \in Node, disk'[n] # asked'.disk[n]
               PROVE  /\ asked'.yes
                      /\ \E k \in 1..Len(argv') : n \in Below(argv'[k].node)
    BY DEF RemovesOnlyNamed, Below
  <2>0. UNCHANGED argv BY ListsMove
  <2>1. CASE UNCHANGED <<disk, asked>> BY <2>0, <2>1 DEF RemovesOnlyNamed
  <2>2. CASE Classify
    <3>1. asked'.yes = asked.yes /\ asked'.disk = asked.disk /\ UNCHANGED disk
      BY <2>2 DEF Classify, removing, Typed, DisksOK
    <3> QED BY <2>0, <3>1 DEF RemovesOnlyNamed
  <2>3. CASE Remove
    <3>1. asked.yes /\ UNCHANGED asked BY <2>3 DEF Remove, Answered
    <3> QED BY <2>0, <2>3, <3>1, RemoveTakes DEF RemovesOnlyNamed
  <2>4. ASSUME NEW a \in {"y", "Y", "n", ""}, Confirm(a) PROVE FALSE
    <3>1. asked'.disk = asked.disk /\ UNCHANGED disk /\ pc = "confirm"
      BY <2>4 DEF Confirm, Typed, DisksOK
    <3> QED BY <3>1 DEF Answered, RemovesOnlyNamed
  <2>5. ASSUME NEW m \in Node, Disturb(m) PROVE FALSE
    BY <2>5 DEF Disturb, Typed, DisksOK
  <2> QED BY <2>1, <2>2, <2>3, <2>4, <2>5, DiskMoves
<1> QED BY <1>1, <1>2, TypedInit, TypedNext, NamedOnlyNext, AnsweredNext, PTL DEF Spec

\* Every path that was found is on a list until it is gone.
Remaining ==
    /\ pc \in {"start", "parse"} => asked.listed = {}
    /\ pc \in {"classify", "confirm"} =>
          \A n \in asked.listed : On(rfiles, n) \/ On(rdirs, n)
    /\ pc = "remove" =>
          \A n \in asked.listed : On(rfiles, n) \/ On(rdirs, n) \/ disk[n] = "none"

\* remove and remove_all take away what they are called for, or set err.
LEMMA RemainingRemove ==
    ASSUME Typed, Remaining, Remove
    PROVE  /\ pc' = "remove" =>
                 \A n \in asked.listed : On(rfiles', n) \/ On(rdirs', n) \/ disk'[n] = "none"
           /\ pc' = "exit" => err' \/ \A n \in asked.listed : disk'[n] = "none"
           /\ UNCHANGED asked /\ pc' \in {"remove", "exit"}
<1>0. /\ rfiles \in Seq(Node) /\ rdirs \in Seq(Node) /\ disk \in [Node -> Kinds]
      /\ asked.listed \subseteq Node /\ pc = "remove"
  BY DEF Typed, DisksOK, Remove
<1>1. CASE /\ rfiles # <<>> /\ disk' = [disk EXCEPT ![Head(rfiles)] = "none"]
           /\ rfiles' = Tail(rfiles) /\ UNCHANGED <<pc, err, rdirs>>
  <2>1. ASSUME NEW n \in asked.listed
        PROVE  On(rfiles', n) \/ On(rdirs', n) \/ disk'[n] = "none"
    <3>1. On(rfiles, n) => n = Head(rfiles) \/ On(Tail(rfiles), n) BY <1>0, <1>1, ListChanges
    <3> QED BY <1>0, <1>1, <3>1 DEF Remaining
  <2> QED BY <1>0, <1>1, <2>1 DEF Remove
<1>2. CASE /\ rdirs # <<>> /\ rdirs' = Tail(rdirs) /\ UNCHANGED <<pc, err, rfiles>>
           /\ disk' = [n \in Node |-> IF n \in Below(Head(rdirs)) THEN "none" ELSE disk[n]]
  <2>1. ASSUME NEW n \in asked.listed
        PROVE  On(rfiles', n) \/ On(rdirs', n) \/ disk'[n] = "none"
    <3>1. On(rdirs, n) => n = Head(rdirs) \/ On(Tail(rdirs), n) BY <1>0, <1>2, ListChanges
    <3> QED BY <1>0, <1>2, <3>1 DEF Remaining, Below
  <2> QED BY <1>0, <1>2, <2>1 DEF Remove
<1>3. CASE rfiles = <<>> /\ rdirs = <<>> /\ pc' = "exit" /\ UNCHANGED disk
  BY <1>0, <1>3 DEF Remaining, On, Remove
<1>4. CASE RemoveError BY <1>4 DEF RemoveError, Remove
<1> QED BY <1>1, <1>2, <1>3, <1>4 DEF Remove

\* Until everything is removed, the rest is still in the two lists.
LEMMA RemainingNext == Typed /\ Answered /\ Remaining /\ [Next]_vars => Remaining'
<1> SUFFICES ASSUME Typed, Answered, Remaining, [Next]_vars PROVE Remaining'
  OBVIOUS
<1>0. rfiles \in Seq(Node) /\ rdirs \in Seq(Node) /\ disk \in [Node -> Kinds]
  BY DEF Typed, DisksOK
<1>1. CASE Classify
  <2>1. pc' = "classify" /\ pc = "classify" /\ sinodes[i] \in Node \cup {NoNode}
    BY <1>1 DEF Classify, Typed, ArgsOK
  <2>2. CASE ~Exists(sinodes[i])
    BY <1>1, <2>1, <2>2 DEF Classify, removing, Remaining
  <2>3. CASE Exists(sinodes[i])
    <3>1. /\ asked'.listed = asked.listed \cup {sinodes[i]} /\ sinodes[i] \in Node
          /\ \/ rdirs' = Append(rdirs, sinodes[i]) /\ UNCHANGED rfiles
             \/ rfiles' = Append(rfiles, sinodes[i]) /\ UNCHANGED rdirs
      BY <1>1, <2>1, <2>3 DEF Classify, Exists, Typed, DisksOK
    <3>2. ASSUME NEW n \in asked'.listed PROVE On(rfiles', n) \/ On(rdirs', n)
      <4>1. n = sinodes[i] \/ On(rfiles, n) \/ On(rdirs, n) BY <2>1, <3>1, <3>2 DEF Remaining
      <4>2. /\ On(Append(rfiles, sinodes[i]), n) <=> n = sinodes[i] \/ On(rfiles, n)
            /\ On(Append(rdirs, sinodes[i]), n) <=> n = sinodes[i] \/ On(rdirs, n)
        BY <1>0, <3>1, ListChanges
      <4> QED BY <3>1, <4>1, <4>2
    <3> QED BY <2>1, <3>2 DEF Remaining
  <2> QED BY <2>2, <2>3
<1>2. ASSUME NEW m \in Node, Disturb(m) PROVE Remaining'
  <2>1. asked'.listed = asked.listed /\ UNCHANGED <<pc, rfiles, rdirs>> /\ pc = "confirm"
    BY <1>2 DEF Disturb, Typed, DisksOK
  <2> QED BY <2>1 DEF Remaining
<1>3. ASSUME NEW a \in {"y", "Y", "n", ""}, Confirm(a) PROVE Remaining'
  <2>1. /\ asked'.listed = asked.listed /\ UNCHANGED <<rfiles, rdirs>>
        /\ pc' \in {"remove", "exit"} /\ pc = "confirm"
    BY <1>3 DEF Confirm, Typed, DisksOK
  <2> QED BY <2>1 DEF Remaining
<1>4. CASE Remove
  BY <1>4, RemainingRemove DEF Remaining
<1>5. CASE /\ ~Classify /\ ~Remove /\ ~ \E a \in {"y", "Y", "n", ""} : Confirm(a)
           /\ ~ \E m \in Node : Disturb(m)
  <2>1. UNCHANGED <<disk, asked, rfiles, rdirs>> BY <1>5, DiskMoves, ListsMove
  <2>2. /\ pc' \in {"start", "parse"} => pc \in {"start", "parse"}
        /\ pc' \in {"classify", "confirm"} => pc \in {"parse", "classify", "confirm"}
        /\ pc' = "remove" => pc = "remove"
    BY <1>5, ThreadKeeps
       DEF Next, Main, World, StatusThrows, Usage, Parse, ParseEnd, Dispatch, SearchStart,
           SearchStep, SearchEnd, Reconstitute, CopyStart, MonitorRead, MonitorPrint,
           FinalPrint, vars
  <2> QED BY <2>1, <2>2 DEF Remaining
<1> QED BY <1>1, <1>2, <1>3, <1>4, <1>5

\* After a confirmed removal all is gone, or an error was printed.
THEOREM RemovalReported == Spec => []RemovedOrReported
<1>1. Init => Answered /\ Remaining /\ RemovedOrReported
  BY DEF Init, Answered, Remaining, RemovedOrReported
<1>2. Typed /\ Answered /\ Remaining /\ RemovedOrReported /\ [Next]_vars => RemovedOrReported'
  <2> SUFFICES ASSUME Typed, Answered, Remaining, RemovedOrReported, [Next]_vars,
                      pc' = "exit", asked'.yes
               PROVE  err' \/ \A n \in asked'.listed : disk'[n] = "none"
    BY DEF RemovedOrReported
  <2>1. CASE Remove BY <2>1, RemainingRemove
  <2>2. ASSUME NEW a \in {"y", "Y", "n", ""}, Confirm(a) PROVE FALSE
    <3>1. asked'.yes <=> a \in {"y", "Y"} BY <2>2 DEF Confirm, Typed, DisksOK
    <3> QED BY <2>2, <3>1 DEF Confirm, Confirmed
  <2>3. CASE UNCHANGED vars BY <2>3 DEF vars, removing, RemovedOrReported
  <2>4. CASE ~Remove /\ ~UNCHANGED vars /\ ~ \E a \in {"y", "Y", "n", ""} : Confirm(a)
    <3>1. pc \notin {"remove", "exit", "terminated"}
      BY <2>4, ThreadKeeps
         DEF Next, Main, World, StatusThrows, Usage, Parse, ParseEnd, Classify, Dispatch, SearchStart,
             SearchStep, SearchEnd, Reconstitute, CopyStart, MonitorRead, MonitorPrint,
             FinalPrint, JoinCopy, Disturb, Ended
    <3>2. UNCHANGED asked
      BY <2>4, <3>1, DiskMoves DEF Classify, Disturb
    <3> QED BY <3>1, <3>2 DEF Answered
  <2> QED BY <2>1, <2>2, <2>3, <2>4
<1> QED BY <1>1, <1>2, TypedInit, TypedNext, AnsweredNext, RemainingNext, PTL DEF Spec

-----------------------------------------------------------------------------
(***************************************************************************)
(* Search                                                                  *)
(***************************************************************************)

\* What the walk meets.
Walked == {n \in Inside[Input.node] : disk[n] # "none"}

\* The walk has found the matches among the entries it has met, and whoever
\* gets past the search did not ask for one.
SearchSoFar ==
    /\ pc = "start" => set = {}
    /\ pc \in {"start", "parse", "classify", "search"} => found = {}
    /\ pc \in {"confirm", "remove", "reconstitute", "copy", "monitor", "print", "join"} =>
          "-s" \notin set
    /\ pc = "walk" =>
          todo \subseteq Walked /\ found = (Walked \ todo) \cap Last.finds

\* Steps that are none of the search.
LEMMA NotSearching ==
    ASSUME [Next]_vars, ~SearchStart, ~ \E n \in todo : SearchStep(n), ~SearchEnd
    PROVE  /\ UNCHANGED found
           /\ pc' = "walk" => /\ pc = "walk" /\ UNCHANGED <<disk, todo>>
           /\ pc' = "exit" => pc # "walk" /\ pc # "search"
BY ThreadKeeps
   DEF Next, Main, World, StatusThrows, Usage, Parse, ParseEnd, Classify, Dispatch, Remove, RemoveError,
       Reconstitute, CopyStart, MonitorRead, MonitorPrint, FinalPrint, JoinCopy, Confirm,
       Disturb, Ended, searching, vars

\* A search has reported all matches among the entries it has visited.
LEMMA SearchSoFarNext == SearchSoFar /\ [Next]_vars => SearchSoFar'
<1> SUFFICES ASSUME SearchSoFar, [Next]_vars PROVE SearchSoFar'
  OBVIOUS
<1>0. UNCHANGED argv BY ListsMove
<1>1. CASE SearchStart
  BY <1>0, <1>1 DEF SearchStart, SearchSoFar, Walked, Input, args
<1>2. ASSUME NEW n \in todo, SearchStep(n) PROVE SearchSoFar'
  <2>1. /\ pc = "walk" /\ UNCHANGED <<pc, disk, argv>> /\ todo' = todo \ {n}
        /\ found' = found \cup ({n} \cap Last.finds)
    BY <1>2 DEF SearchStep, Visited, args
  <2>2. Walked' = Walked /\ Last'.finds = Last.finds
    BY <2>1 DEF Walked, Input, Last
  <2> QED BY <2>1, <2>2 DEF SearchSoFar
<1>3. CASE SearchEnd BY <1>3 DEF SearchEnd, SearchSoFar
<1>4. CASE ~SearchStart /\ ~SearchEnd /\ ~ \E n \in todo : SearchStep(n)
  <2>1. /\ UNCHANGED found /\ (pc' = "walk" => pc = "walk" /\ UNCHANGED <<disk, todo>>)
    BY <1>4, NotSearching
  <2>2. /\ pc' = "start" => pc = "start" /\ UNCHANGED set
        /\ pc' \in {"start", "parse", "classify", "search"} =>
              pc \in {"start", "parse", "classify", "search"}
        /\ pc' \in {"confirm", "remove", "reconstitute", "copy", "monitor", "print", "join"}
              => "-s" \notin set /\ UNCHANGED set
    BY <1>4, ThreadKeeps
       DEF Next, Main, World, StatusThrows, Usage, Parse, ParseEnd, Classify, Dispatch, Remove,
           RemoveError, Reconstitute, CopyStart, MonitorRead, MonitorPrint, FinalPrint,
           JoinCopy, Confirm, Disturb, args, vars, SearchSoFar
  <2>3. (Walked' = Walked /\ Last'.finds = Last.finds) \/ pc' # "walk"
    BY <1>0, <2>1 DEF Walked, Input, Last
  <2> QED BY <2>1, <2>2, <2>3 DEF SearchSoFar
<1> QED BY <1>1, <1>2, <1>3, <1>4

\* A search that reports no error has found every match.
THEOREM SearchFindsAll == Spec => []SearchComplete
<1>1. Init => SearchSoFar /\ SearchComplete
  BY DEF Init, SearchSoFar, SearchComplete
<1>2. SearchSoFar /\ SearchComplete /\ [Next]_vars => SearchComplete'
  <2> SUFFICES ASSUME SearchSoFar, SearchComplete, [Next]_vars, pc' = "exit", "-s" \in set',
                      ~err', Exists(Input.node)'
               PROVE  (found = Walked \cap Last.finds)'
    BY DEF SearchComplete, Walked
  <2>0. UNCHANGED argv BY ListsMove
  <2>1. CASE SearchStart
    BY <2>0, <2>1 DEF SearchStart, Exists, Input
  <2>2. CASE SearchEnd
    <3>1. todo = {} /\ UNCHANGED <<found, disk>> /\ pc = "walk" BY <2>2 DEF SearchEnd, searching
    <3>2. Walked' = Walked /\ Last'.finds = Last.finds
      BY <2>0, <3>1 DEF Walked, Input, Last
    <3> QED BY <3>1, <3>2 DEF SearchSoFar
  <2>3. CASE UNCHANGED vars
    <3>1. UNCHANGED <<disk, argv, pc, set, err, found>> BY <2>3 DEF vars, args, searching
    <3>2. Walked' = Walked /\ Last'.finds = Last.finds /\ Input'.node = Input.node
      BY <3>1 DEF Walked, Input, Last
    <3> QED BY <3>1, <3>2 DEF SearchComplete, Exists, Walked
  <2>4. CASE ~SearchStart /\ ~SearchEnd /\ ~UNCHANGED vars
    BY <2>4, ThreadKeeps
       DEF Next, Main, World, StatusThrows, Usage, Parse, ParseEnd, Classify, Dispatch, SearchStep, Remove,
           RemoveError, Reconstitute, CopyStart, MonitorRead, MonitorPrint, FinalPrint,
           JoinCopy, Confirm, Disturb, args, SearchSoFar, Ended
  <2> QED BY <2>1, <2>2, <2>3, <2>4
<1> QED BY <1>1, <1>2, SearchSoFarNext, PTL DEF Spec
-----------------------------------------------------------------------------
(***************************************************************************)
(* Options                                                                 *)
(***************************************************************************)

\* The loop takes an argument for what is meant, unless a path has the text of
\* an option in it: "--debug" is tested before the "-d" in it.
LEMMA TakenAsMeant ==
    ASSUME ArgsOK, Plain, NEW k \in 1..Len(argv)
    PROVE  Taken(argv[k]) = argv[k].means
<1> DEFINE w == argv[k]
<1>0. w.has \subseteq Option /\ w.means \in Option \cup {"path"} BY Words
<1>1. CASE w.means = "path"
  BY <1>1 DEF Taken, Plain
<1>2. CASE w.means # "path"
  <2>1. w.has = {w.means} \cup (IF w.means = "--debug" THEN {"-d"} ELSE {})
    BY <1>2, OptionAssumption DEF ArgsOK
  <2>2. PICK j \in 1..9 : /\ Taken(w) = Order[j] /\ Order[j] \in w.has
                          /\ \A l \in 1..j - 1 : Order[l] \notin w.has
    <3> HIDE DEF w
    <3> QED BY <1>0, <2>1, TakenFirst
  <2>3. CASE w.means # "--debug" BY <2>1, <2>2, <2>3
  <2>4. CASE w.means = "--debug"
    <3>1. Order[1] = "--debug" BY DEF Order
    <3>2. j = 1 BY <2>1, <2>2, <2>4, <3>1
    <3> QED BY <2>2, <2>4, <3>1, <3>2
  <2> QED BY <2>3, <2>4
<1> QED BY <1>1, <1>2

\* The options and the paths before argument n.
OptionsBefore(n) == {argv[k].means : k \in 1..n - 1} \ {"path"}

\* What the loop has made of the arguments before i.
Parsed ==
    Plain /\ pc \in {"start", "parse"} =>
        /\ i <= Len(argv) + 1
        /\ set = OptionsBefore(i)
        /\ (\A k \in Numbered : k >= i) => processors = 1
        /\ \A k \in Numbered :
              k < i /\ (\A j \in Numbered : j < i => j <= k) => processors = argv[k].num
        /\ \A n \in Node :
              On(sinodes, n) <=>
                  \E k \in 1..i - 1 : argv[k].means = "path" /\ argv[k].node = n

\* One turn of the loop.
LEMMA ParsedStep ==
    ASSUME Typed, Parsed, Parse
    PROVE  Parsed'
<1> SUFFICES ASSUME Plain' PROVE Parsed'
  BY DEF Parsed
<1>0. /\ UNCHANGED <<argv, pc>> /\ pc = "parse" /\ i' = i + 1 /\ Plain
      /\ i \in 1..Len(argv) /\ Len(argv) \in Nat /\ Numbered' = Numbered
      /\ sinodes \in Seq(Node \cup {NoNode}) /\ ArgsOK /\ i \in Nat
  BY DriverAssumption DEF Parse, Plain, Typed, ArgsOK, Numbered
<1> DEFINE w == argv[i]
<1>1. Taken(w) = w.means /\ w.node \in Node \cup {NoNode} BY <1>0, TakenAsMeant, Words
<1>2. /\ set' = set \cup ({w.means} \ {"path"})
      /\ processors' = IF w.means = "-p" /\ w.num # NoNumber THEN w.num ELSE processors
      /\ sinodes' = IF w.means = "path" THEN Append(sinodes, w.node) ELSE sinodes
  BY <1>1 DEF Parse
<1>3. set' = OptionsBefore(i)' 
  <2>1. set = OptionsBefore(i) BY <1>0 DEF Parsed
  <2>2. OptionsBefore(i)' = OptionsBefore(i) \cup ({w.means} \ {"path"})
    BY <1>0 DEF OptionsBefore
  <2> QED BY <1>2, <2>1, <2>2
<1>4. /\ (\A k \in Numbered : k >= i + 1) => processors' = 1
      /\ \A k \in Numbered :
            k < i + 1 /\ (\A j \in Numbered : j < i + 1 => j <= k) => processors' = argv[k].num
  <2>1. /\ (\A k \in Numbered : k >= i) => processors = 1
        /\ \A k \in Numbered :
              k < i /\ (\A j \in Numbered : j < i => j <= k) => processors = argv[k].num
    BY <1>0 DEF Parsed
  <2>2. i \in Numbered <=> w.means = "-p" /\ w.num # NoNumber BY <1>0 DEF Numbered
  <2>3. Numbered \subseteq 1..Len(argv) BY DEF Numbered
  <2>4. CASE i \in Numbered
    <3>1. processors' = w.num BY <1>2, <2>2, <2>4
    <3>2. ASSUME NEW k \in Numbered, k < i + 1, \A j \in Numbered : j < i + 1 => j <= k
          PROVE  k = i
      BY <1>0, <2>3, <2>4, <3>2
    <3> QED BY <1>0, <2>4, <3>1, <3>2
  <2>5. CASE i \notin Numbered
    <3>1. processors' = processors BY <1>2, <2>2, <2>5
    <3>2. \A k \in Numbered : (k < i + 1 <=> k < i) /\ (k >= i + 1 <=> k >= i)
      BY <1>0, <2>3, <2>5
    <3> QED BY <2>1, <3>1, <3>2
  <2> QED BY <2>4, <2>5
<1>5. ASSUME NEW n \in Node
      PROVE  On(sinodes', n) <=> \E k \in 1..i : argv[k].means = "path" /\ argv[k].node = n
  <2>1. On(sinodes, n) <=> \E k \in 1..i - 1 : argv[k].means = "path" /\ argv[k].node = n
    BY <1>0 DEF Parsed
  <2>2. (\E k \in 1..i : argv[k].means = "path" /\ argv[k].node = n) <=>
           \/ \E k \in 1..i - 1 : argv[k].means = "path" /\ argv[k].node = n
           \/ w.means = "path" /\ w.node = n
    BY <1>0
  <2>3. On(Append(sinodes, w.node), n) <=> n = w.node \/ On(sinodes, n)
    <3> DEFINE x == w.node
    <3>1. x \in Node \cup {NoNode} BY <1>1
    <3> HIDE DEF x
    <3>2. On(Append(sinodes, x), n) <=> n = x \/ On(sinodes, n) BY <1>0, <3>1, ListChanges
    <3> QED BY <3>2 DEF x
  <2> QED BY <1>2, <2>1, <2>2, <2>3
<1>6. i' - 1 = i /\ i' <= Len(argv) + 1 BY <1>0
<1> QED BY <1>0, <1>3, <1>4, <1>5, <1>6 DEF Parsed

\* Steps that are no turn of the loop.
LEMMA ParsedNext == Typed /\ Parsed /\ [Next]_vars => Parsed'
<1> SUFFICES ASSUME Typed, Parsed, [Next]_vars PROVE Parsed'
  OBVIOUS
<1>1. CASE Parse BY <1>1, ParsedStep
<1>2. CASE ~Parse
  <2>1. pc' \in {"start", "parse"} =>
            pc \in {"start", "parse"} /\ UNCHANGED <<argv, i, set, processors, sinodes>>
    BY <1>2, ThreadKeeps
       DEF Next, Main, World, StatusThrows, Usage, ParseEnd, Classify, Dispatch, SearchStart, SearchStep,
           SearchEnd, Remove, RemoveError, Reconstitute, CopyStart, MonitorRead,
           MonitorPrint, FinalPrint, JoinCopy, Confirm, Disturb, args, vars
  <2> QED BY <2>1 DEF Parsed, Plain, Numbered, OptionsBefore
<1> QED BY <1>1, <1>2

\* Options and paths are what the user meant.
THEOREM OptionsAsMeant == Spec => []ParsedAsMeant
<1>1. Init => Parsed /\ ParsedAsMeant
  <2> SUFFICES ASSUME Init PROVE Parsed
    BY DEF Init, ParsedAsMeant
  <2>1. Len(argv) \in Nat /\ i = 1 /\ set = {} /\ processors = 1 /\ sinodes = <<>>
    BY DriverAssumption DEF Init
  <2>2. OptionsBefore(1) = {} BY DEF OptionsBefore
  <2>3. \A k \in Numbered : ~(k < 1) BY <2>1 DEF Numbered
  <2> QED BY <2>1, <2>2, <2>3 DEF Parsed, On
<1>2. Typed /\ Totals /\ Parsed /\ ParsedAsMeant /\ [Next]_vars => ParsedAsMeant'
  <2> SUFFICES ASSUME Typed, Totals, Parsed, ParsedAsMeant, [Next]_vars,
                      pc' \notin {"start", "parse"}, Plain', Len(argv') >= 2
               PROVE  ParsedAsMeant'
    BY DEF ParsedAsMeant
  <2>0. UNCHANGED argv /\ Plain /\ Len(argv) \in Nat /\ Numbered' = Numbered /\ i \in Nat
    BY ListsMove, DriverAssumption DEF Plain, Typed, ArgsOK, Numbered
  <2>1. CASE ParseEnd
    <3>1. i = Len(argv) + 1 /\ pc = "parse" /\ UNCHANGED <<processors, sinodes>>
      BY <2>0, <2>1 DEF ParseEnd, Parsed
    <3>2. set = {argv[k].means : k \in 1..Len(argv)} \ {"path"}
      BY <2>0, <3>1 DEF Parsed, OptionsBefore
    <3>3. set' = set \cup (IF "-f" \in set THEN {"-o"} ELSE {}) BY <2>1 DEF ParseEnd
    <3>4. \A k \in Numbered : k < i BY <2>0, <3>1 DEF Numbered
    <3>5. /\ Numbered = {} => processors = 1
          /\ \A k \in Numbered : (\A j \in Numbered : j <= k) => processors = argv[k].num
      BY <2>0, <3>1, <3>4 DEF Parsed
    <3>6. \A n \in Node :
              (\E k \in 1..Len(sinodes) : sinodes[k] = n) <=>
              \E k \in 1..Len(argv) : argv[k].means = "path" /\ argv[k].node = n
      BY <2>0, <3>1 DEF Parsed, On
    <3> QED BY <2>0, <3>1, <3>2, <3>3, <3>5, <3>6 DEF ParsedAsMeant
  <2>2. CASE ~ParseEnd /\ pc \in {"start", "parse"}
    <3>1. ~CopyThread BY <2>2, ThreadKeeps DEF Totals, CopyListing
    <3>2. ~Usage BY <2>0 DEF Usage
    <3> QED BY <2>2, <3>1, <3>2
       DEF Next, Main, World, StatusThrows, Parse, Classify, Dispatch, SearchStart, SearchStep,
           SearchEnd, Remove, Reconstitute, CopyStart, MonitorRead,
           MonitorPrint, FinalPrint, JoinCopy, Confirm, Disturb, Ended, vars
  <2>3. CASE pc \notin {"start", "parse"}
    <3>1. UNCHANGED <<set, processors>>
      BY <2>3, ThreadKeeps
         DEF Next, Main, World, StatusThrows, Usage, Parse, ParseEnd, Classify, Dispatch, SearchStart,
             SearchStep, SearchEnd, Remove, Reconstitute, CopyStart, MonitorRead,
             MonitorPrint, FinalPrint, JoinCopy, Confirm, Disturb, args, vars
    <3>2. ASSUME pc' = "classify" PROVE pc = "classify" /\ UNCHANGED sinodes
      <4>1. ~Dispatch BY <3>2 DEF Dispatch
      <4>2. ~Parse BY <2>3 DEF Parse
      <4>3. pc = "classify"
        BY <2>3, <3>2, ThreadKeeps
           DEF Next, Main, World, StatusThrows, Usage, Parse, ParseEnd, Classify, Dispatch, SearchStart,
               SearchStep, SearchEnd, Remove, RemoveError, Reconstitute, CopyStart,
               MonitorRead, MonitorPrint, FinalPrint, JoinCopy, Confirm, Disturb, vars
      <4>4. UNCHANGED sinodes BY <4>1, <4>2, ListsMove
      <4> QED BY <4>3, <4>4
    <3> QED BY <2>0, <2>3, <3>1, <3>2 DEF ParsedAsMeant
  <2> QED BY <2>1, <2>2, <2>3
<1> QED BY <1>1, <1>2, TypedInit, TypedNext, TotalsInit, TotalsNext, ParsedNext, PTL DEF Spec
=============================================================================
