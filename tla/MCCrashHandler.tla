---------------------------- MODULE MCCrashHandler ----------------------------
(***************************************************************************)
(* An instance of CrashHandler for TLC: two threads that may crash, one of *)
(* the pool, three modules of which two are loaded, in the wrong order.    *)
(***************************************************************************)
EXTENDS CrashHandler

CONSTANTS t1, t2, p1, exe, dia, dll

MCThread == {t1, t2, p1}
MCModule == {exe, dia, dll}
MCBase   == [m \in MCModule |-> IF m = exe THEN 10 ELSE IF m = dia THEN 20 ELSE 30]
MCSize   == [m \in MCModule |-> 5]

\* In dll, in exe, and at the first byte of exe.
MCFrames    == <<32, 11, 10>>
MCRegisters == <<"none", "lookup">>
MCStacks    == {<<"none", "lookup", "none">>, <<"none", "fault">>}
MCStart     == <<dll, exe>>
=============================================================================
