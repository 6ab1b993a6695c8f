---------------------------- MODULE MCContainers ----------------------------
(***************************************************************************)
(* Instances of Containers for TLC.                                        *)
(***************************************************************************)
EXTENDS Containers, TLC

CONSTANTS t1, t2, t3, o1, o2

MCThread == {t1, t2, t3}

AllOps == {"assign", "move", "append", "add", "compare", "greater", "reset",
           "read", "index", "swap", "push_back", "begin", "clear", "exchange",
           "Get", "Set", "Increment", "Decrement"}

\* Two threads that call anything, or three of which each may hold what
\* another one waits for.
MCCan ==
    {t1 :> AllOps @@ t2 :> AllOps @@ t3 :> {},
     [t \in MCThread |-> {"append", "add", "swap", "push_back", "Increment"}]}
=============================================================================
