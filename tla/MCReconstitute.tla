--------------------------- MODULE MCReconstitute ---------------------------
(***************************************************************************)
(* Folders for Reconstitute: a junction j at the top, one in d, and one    *)
(* that is seen through j; other folders that have some of them, at the    *)
(* same path or at their top.                                              *)
(***************************************************************************)
EXTENDS Reconstitute

J == <<"j">>
JS == <<"j", "s">>
JF == <<"j", "f">>
D == <<"d">>
DJ == <<"d", "j">>
DJF == <<"d", "j", "f">>
DJJ == <<"d", "j", "j">>
S == <<"s">>

MCPath == {J, JS, JF, D, DJ, DJF, DJJ, S}

\* The tree with directories ds, files fs and junctions js; and with symbolic
\* links ls.
Of(ds, fs, js) ==
    [p \in MCPath |-> IF p \in ds THEN "dir" ELSE IF p \in fs THEN "file"
                      ELSE IF p \in js THEN "junction" ELSE "none"]
Linked(t, ls) == [p \in MCPath |-> IF p \in ls THEN "symlink" ELSE t[p]]

MCTargets ==
    {[tree |-> Of({D}, {}, {J, DJ}), linked |-> Of({}, {JF, DJF}, {})],
     [tree |-> Of({D}, {}, {J, DJ}), linked |-> Of({JS}, {DJF}, {})],
     [tree |-> Of({D, DJ}, {DJF}, {J}), linked |-> Of({}, {JF}, {JS})],
     [tree |-> Linked(Of({D, J}, {JF}, {DJ}), {S}), linked |-> Of({}, {DJF}, {})],
     [tree |-> Linked(Of({D}, {}, {DJ}), {J}), linked |-> Of({}, {JF}, {JS})]}

MCSources ==
    {Of({J, JS}, {}, {}), Of({D, DJ}, {DJF}, {}), Of({D, DJ, J}, {JF}, {}),
     Of({J, S}, {JF}, {}), Of({D, J}, {DJ}, {})}
=============================================================================
