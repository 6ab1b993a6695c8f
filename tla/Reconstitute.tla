---------------------------- MODULE Reconstitute ----------------------------
(***************************************************************************)
(* Functions::ReconstitueSymlinks and GetFilesRelative of                  *)
(* src/src/Functions.cpp: the junctions of the first folder are replaced   *)
(* by copies of what the other folders hold.  Paths are relative to their  *)
(* folder; a path below a junction is a path of the directory the junction *)
(* points to, which lies outside the folder.                               *)
(***************************************************************************)
EXTENDS Integers, Sequences, FiniteSets

CONSTANTS Path,       \* sequences of names, closed under prefixes
          Targets,    \* the first folder and what its junctions point to
          Sources,    \* what another folder may hold
          MaxSources, \* bound: the number of other folders
          Faults      \* "scan": a directory walk may end early; "call": any
                      \* call may throw, or the process be killed

\* Two kinds of links to directories; a link to a file counts as a file.
Kind == {"none", "dir", "file", "junction", "symlink"}
Link == {"junction", "symlink"}

\* q is a path below p.
Proper(p, q) == Len(p) < Len(q) /\ SubSeq(q, 1, Len(p)) = p

\* Where a file of a folder that stands at the path p ends up when it is
\* copied into a directory p.
Inner(p) == p \o <<p[Len(p)]>>

\* The first folder itself holds nothing below a link.  The other folders
\* are what a walk that follows links finds in them.
ASSUME ReconstituteAssumption ==
    /\ Path \subseteq Seq(STRING) /\ <<>> \notin Path
    /\ Targets \subseteq [tree: [Path -> Kind], linked: [Path -> Kind]]
    /\ Sources \subseteq [Path -> Kind \ Link]
    /\ \A s \in Sources, t \in Targets, p \in Path :
          s[p] = "file" /\ "junction" \in {t.tree[p], t.linked[p]} => Inner(p) \in Path
    /\ \A t \in Targets, p, q \in Path :
          t.tree[p] \in Link /\ Proper(p, q) => t.tree[q] = "none"
    /\ MaxSources \in Nat

VARIABLES
    tree,     \* the first folder, not followed through links
    linked,   \* the paths below its links
    folders,  \* the other folders
    phase,    \* where the thread is
    dirs,     \* dirs[i]: the directories listed in folder i, 0 the first
    todo,     \* the directories of dirs[0] the loop has not reached
    cur,      \* the junction being replaced
    from,     \* and the folder that replaces it
    before    \* history: tree and linked at the start

vars == <<tree, linked, folders, phase, dirs, todo, cur, from, before>>

-----------------------------------------------------------------------------
(* The file system (external).                                             *)

Below(p) == {q \in Path : p = q \/ Proper(p, q)}

\* The path leads through a link.
Through(p) == \E q \in Path : Proper(q, p) /\ tree[q] \in Link

Visible(p) == IF Through(p) THEN linked[p] ELSE tree[p]

\* The walk follows links, and tells directories and links to them from files.
Listed == {p \in Path : Visible(p) \in {"dir", "junction", "symlink"}}

\* The paths of P are given the kinds of k, where they really are.
Put(P, k) ==
    /\ tree' = [p \in Path |-> IF p \in P /\ ~Through(p) THEN k[p] ELSE tree[p]]
    /\ linked' = [p \in Path |-> IF p \in P /\ Through(p) THEN k[p] ELSE linked[p]]

\* What copy makes of the path p of folder S at p, where an empty directory
\* is: the same directory, or a file of the same name in it.
Image(S, p) ==
    [q \in Path |-> IF S[p] # "file" THEN S[q]
                    ELSE IF q = p THEN "dir"
                    ELSE IF q = Inner(p) THEN "file" ELSE "none"]

-----------------------------------------------------------------------------
Init ==
    /\ \E t \in Targets : /\ tree = t.tree /\ linked = t.linked
                          /\ before = t
    /\ \E n \in 0..MaxSources : folders \in [1..n -> Sources]
    /\ phase = "list"
    /\ dirs = <<>>
    /\ todo = {}
    /\ cur = <<>>
    /\ from = 0

\* Plausible mistakes; no action uses these.

\* IsJunction: any directory will do.
IsAnyDirectory(d) == Visible(d) \in {"dir", "junction"}

\* Replacement: the last folder that has the directory.
LastReplacement(d) ==
    {i \in 1..Len(folders) :
        /\ d \in dirs[i + 1] \/ <<d[Len(d)]>> \in dirs[i + 1]
        /\ \A j \in i + 1..Len(folders) :
              d \notin dirs[j + 1] /\ <<d[Len(d)]>> \notin dirs[j + 1]}

\* CopyTree: an error of one directory does not end the loop.
CopyTreeGoesOn ==
    /\ phase = "copy"
    /\ LET S == Image(folders[from], cur)
       IN  \E P \in SUBSET {q \in Below(cur) : S[q] # "none"} : Put(P, S)
    /\ phase' = "replace"
    /\ todo' = todo \ {cur}
    /\ UNCHANGED <<folders, dirs, cur, from, before>>

\* GetFilesRelative of the next folder.  An error of the walk is printed and
\* the entries found so far are kept.
List ==
    /\ phase = "list"
    /\ LET n == Len(dirs)
           all == IF n = 0 THEN Listed
                  ELSE {p \in Path : folders[n][p] = "dir"}
       IN  /\ \E l \in {all} \cup (IF "scan" \in Faults THEN SUBSET all ELSE {}) :
                 dirs' = Append(dirs, l)
           /\ phase' = IF n = Len(folders) THEN "replace" ELSE "list"
           /\ todo' = IF n = Len(folders) THEN dirs'[1] ELSE {}
    /\ UNCHANGED <<tree, linked, folders, cur, from, before>>

IsJunction(d) == Visible(d) = "junction"

\* The first folder that lists the same path, or the name at its top level.
Replacement(d) ==
    {i \in 1..Len(folders) :
        /\ d \in dirs[i + 1] \/ <<d[Len(d)]>> \in dirs[i + 1]
        /\ \A j \in 1..i - 1 :
              d \notin dirs[j + 1] /\ <<d[Len(d)]>> \notin dirs[j + 1]}

\* A directory that is no junction (any more), or a symbolic link, or one
\* that no folder has.
Skip(d) ==
    /\ phase = "replace" /\ d \in todo
    /\ ~IsJunction(d) \/ Replacement(d) = {}
    /\ todo' = todo \ {d}
    /\ UNCHANGED <<tree, linked, folders, phase, dirs, cur, from, before>>

\* A junction with a replacement is removed first, and with it the view of
\* what it points to.
RemoveLink(d) ==
    /\ phase = "replace" /\ d \in todo
    /\ IsJunction(d)
    /\ from' \in Replacement(d)
    /\ cur' = d
    /\ Put(IF Through(d) THEN Below(d) ELSE {d}, [p \in Path |-> "none"])
    /\ phase' = "create"
    /\ UNCHANGED <<folders, dirs, todo, before>>

CreateDirectory ==
    /\ phase = "create"
    /\ Put({cur}, [p \in {cur} |-> "dir"])
    /\ phase' = "copy"
    /\ UNCHANGED <<folders, dirs, todo, cur, from, before>>

\* prefixes[i] + dir is copied, whatever the match was; if it does not exist
\* nothing catches the error, as when the copy fails half way.
CopyTree ==
    /\ phase = "copy"
    /\ LET S == Image(folders[from], cur)
           all == {q \in Below(cur) : S[q] # "none"}
       IN  \/ /\ S[cur] # "none"
              /\ Put(all, S)
              /\ phase' = "replace"
              /\ todo' = todo \ {cur}
           \/ /\ S[cur] = "none" \/ "call" \in Faults
              /\ \E P \in SUBSET (all \ {cur}) : Put(P, S)
              /\ phase' = "aborted"
              /\ UNCHANGED todo
    /\ UNCHANGED <<folders, dirs, cur, from, before>>

\* Any call may throw, which ends the process, or the process is killed.
Abort ==
    /\ "call" \in Faults
    /\ phase \in {"list", "replace", "create"}
    /\ phase' = "aborted"
    /\ UNCHANGED <<tree, linked, folders, dirs, todo, cur, from, before>>

End ==
    /\ phase = "replace" /\ todo = {}
    /\ phase' = "end"
    /\ UNCHANGED <<tree, linked, folders, dirs, todo, cur, from, before>>

Ended == phase \in {"end", "aborted"} /\ UNCHANGED vars

Next ==
    \/ List \/ (\E d \in todo : Skip(d) \/ RemoveLink(d))
    \/ CreateDirectory \/ CopyTree \/ Abort \/ End \/ Ended

Spec == Init /\ [][Next]_vars

-----------------------------------------------------------------------------
Junctions == {p \in Path : before.tree[p] = "junction"}

\* What lies under j is what copy makes of the path j of folder i.
CopyOf(i, j) ==
    folders[i][j] # "none" /\ \A q \in Below(j) : tree[q] = Image(folders[i], j)[q]

\* The folders that have the directory j, or one of its name at their top.
Matches(j) ==
    {i \in 1..Len(folders) : \E p \in Path : /\ folders[i][p] = "dir"
                                             /\ p = j \/ p = <<j[Len(j)]>>}

\* The walks of the other folders found all their directories.
Complete ==
    \A i \in 1..Len(folders) : \A p \in Path : folders[i][p] = "dir" => p \in dirs[i + 1]

\* Only junctions, and what comes in their place, change in the first folder.
OthersKept ==
    \A p \in Path : tree[p] # before.tree[p] => \E j \in Junctions : p \in Below(j)

\* The directories that junctions point to are not written through the
\* junction, although the walk lists what is in them; the code does write
\* there when it finds another junction inside.
LinkTargetsKept ==
    \A p \in Path :
        linked[p] # before.linked[p] =>
            \E q \in Path : before.linked[q] = "junction" /\ p \in Below(q)

\* When the function returns and the walks of the other folders were
\* complete, each junction that was listed is what copy makes of its path in
\* the first folder that has the directory, there or by name at the top, and
\* is left alone if none has.  (A folder that has the name and nothing at the
\* path ends the process; one that has a file there leaves a directory with
\* the file in it.)
ReplacedInOrder ==
    phase = "end" /\ Complete =>
        \A j \in Junctions \cap dirs[1] :
            IF Matches(j) = {} THEN tree[j] = "junction"
            ELSE \E i \in Matches(j) : (\A k \in Matches(j) : i <= k) /\ CopyOf(i, j)

\* The junction is removed before its replacement is known to exist, and an
\* error or a crash leaves a hole: never more than one, where it stopped.
OneHoleAtMost ==
    \A j \in Junctions :
        \/ tree[j] = "junction"
        \/ \E i \in 1..Len(folders) : CopyOf(i, j)
        \/ j = cur /\ phase \in {"create", "copy", "aborted"}
=============================================================================
