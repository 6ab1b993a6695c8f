---------------------------- MODULE AtomicDeque -----------------------------
(***************************************************************************)
(* What ts_deque promises the threads that share it: each call takes       *)
(* effect in one step, at some moment between its invocation and its       *)
(* return.  SyncCopy uses its three deques in this way.                    *)
(***************************************************************************)
EXTENDS DequeOps

CONSTANT Thread

VARIABLES
    queue,   \* the deque
    st,      \* each thread: "idle", "called" or "done" (not yet returned)
    req,     \* each thread: the request it is serving
    res      \* each thread: its outcome, until it returns

vars == <<queue, st, req, res>>

Init ==
    /\ queue = <<>>
    /\ st = [t \in Thread |-> "idle"]
    /\ req = [t \in Thread |-> NoRequest]
    /\ res = [t \in Thread |-> NoOutcome]

Invoke(t, r) ==
    /\ st[t] = "idle"
    /\ st' = [st EXCEPT ![t] = "called"]
    /\ req' = [req EXCEPT ![t] = r]
    /\ UNCHANGED <<queue, res>>

Perform(t) ==
    /\ st[t] = "called"
    /\ st' = [st EXCEPT ![t] = "done"]
    /\ queue' = Effect(queue, req[t])
    /\ res' = [res EXCEPT ![t] = Result(queue, req[t])]
    /\ UNCHANGED req

Respond(t) ==
    /\ st[t] = "done"
    /\ st' = [st EXCEPT ![t] = "idle"]
    /\ req' = [req EXCEPT ![t] = NoRequest]
    /\ res' = [res EXCEPT ![t] = NoOutcome]
    /\ UNCHANGED queue

Next == \E t \in Thread : (\E r \in Request : Invoke(t, r)) \/ Perform(t) \/ Respond(t)

Spec == Init /\ [][Next]_vars
=============================================================================
