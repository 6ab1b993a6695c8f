----------------------------- MODULE MCSyncCopy -----------------------------
(***************************************************************************)
(* Small trees for SyncCopy: a file ff, a directory dd and a file dd/g,    *)
(* and what a cut that is too long makes of them.  Times are 1 (older), 2  *)
(* (input) and 3 (newer, also the time of the runs); sizes are 1 and 2.    *)
(***************************************************************************)
EXTENDS SyncCopyProps, TLC

MCName == {"dd", "d", "ff", "f", "g", "h", "o"}

f  == <<"ff">>
d  == <<"dd">>
dg == <<"dd", "g">>
h  == <<"h">>

PathsFDG  == {f, d, dg}
PathsCut  == PathsFDG \cup {<<"f">>, <<"d">>, <<"d", "g">>}
PathsFDGH == PathsFDG \cup {h}

NoPrefix == <<>>
PrefixO  == <<"o">>
NoChop   == <<>>
ChopOne  == "ff" :> "f" @@ "dd" :> "d"

TreeOf(nodes) == [p \in Path |-> IF p \in DOMAIN nodes THEN nodes[p] ELSE Absent]

Empty == TreeOf(<<>>)

In(time, size)  == FileNode("in", time, size)
Out(time, size) == FileNode("out", time, size)

InFDG == TreeOf(f :> In(2, 1) @@ d :> Dir @@ dg :> In(2, 2))
InFD  == TreeOf(f :> In(2, 1) @@ d :> Dir)
InF   == TreeOf(f :> In(2, 1))

\* Output trees: f older, newer, same time and same or other size.
OutOlder == TreeOf(f :> Out(1, 1))
OutNewer == TreeOf(f :> Out(3, 1) @@ d :> Dir @@ dg :> Out(3, 2))
OutSame  == TreeOf(f :> Out(2, 1) @@ d :> Dir @@ dg :> Out(2, 1))
OutD     == TreeOf(d :> Dir @@ dg :> Out(1, 2))
\* A file without a match.
OutH     == TreeOf(f :> Out(2, 1) @@ d :> Dir @@ dg :> Out(2, 1) @@ h :> Out(1, 1))
\* Trees whose path is given with a separator at the end.
InSlash  == TreeOf(f :> In(2, 2))
OutSlash == TreeOf(f :> Out(3, 2))
\* Output trees whose kinds contradict the input tree.
OutFileD == TreeOf(d :> Out(1, 1))
OutDirF  == TreeOf(f :> Dir)

Opt(del, over, force, move) ==
    [deletewithoutmatch |-> del, overwriteexisting |-> over, force |-> force,
     move |-> move]

Plain == Opt(FALSE, FALSE, FALSE, FALSE)
Delete == Opt(TRUE, FALSE, FALSE, FALSE)
Force == Opt(FALSE, TRUE, TRUE, FALSE)
ForceOnly == Opt(FALSE, FALSE, TRUE, FALSE)
Move == Opt(FALSE, FALSE, FALSE, TRUE)
MoveDelete == Opt(TRUE, FALSE, FALSE, TRUE)

KillIn == {InFDG, InFD, InSlash}
KillOut == {Empty, OutOlder, OutNewer, OutSame, OutD, OutSlash}
KillInSlash == {InSlash}
KillOutSlash == {OutSlash}
KillOptions == {Plain, Delete, Force, ForceOnly, Move, MoveDelete}

FaultIn == {InFDG}
FaultOut == {Empty, OutSame, OutD, OutFileD, OutDirF}
FaultOptions == {Plain, Delete, MoveDelete}

LiveIn == {InFDG}
LiveOut == {OutH}
LiveOptions == {Delete}

\* One tree and one set of options for each disagreement.
OnlyInF == {InF}
OnlyInFD == {InFD}
OnlyInFDG == {InFDG}
OnlyEmpty == {Empty}
OnlyOutOlder == {OutOlder}
OnlyOutNewer == {OutNewer}
OnlyOutSame == {OutSame}
OnlyPlain == {Plain}
OnlyDelete == {Delete}

Threads == Permutations(Workers) \cup Permutations(Sorters)
=============================================================================
