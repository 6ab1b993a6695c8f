----------------------------- MODULE SpinDeque ------------------------------
(***************************************************************************)
(* ts_deque (src/include/Types.h) under Spinlock (src/include/Threading.h) *)
(* statement by statement.  Every operation constructs a Spinlock on       *)
(* _flag, works on the std::deque and clears _flag when the lock goes out  *)
(* of scope, by return or by exception.                                    *)
(***************************************************************************)
EXTENDS DequeOps, FiniteSets

CONSTANTS Thread,
          MaxLen     \* bound: no push is called on a deque of this length

ASSUME MaxLenAssumption == MaxLen \in Nat

VARIABLES
    flag,    \* _flag is set
    queue,   \* _queue
    pc,      \* each thread: the statement it is at
    req,     \* each thread: the request it is serving
    res,     \* each thread: its outcome, until it returns
    elem     \* each thread: the local variable of get_pop_front, or <<>>

vars == <<flag, queue, pc, req, res, elem>>

Init ==
    /\ flag = FALSE
    /\ queue = <<>>
    /\ pc = [t \in Thread |-> "idle"]
    /\ req = [t \in Thread |-> NoRequest]
    /\ res = [t \in Thread |-> NoOutcome]
    /\ elem = [t \in Thread |-> <<>>]

-----------------------------------------------------------------------------
(* Plausible mistakes; no action uses these.                               *)

\* Acquire: the flag is set but its old value is not looked at.
AcquireUntested(t) ==
    /\ pc[t] = "spin" /\ flag' = TRUE
    /\ pc' = [pc EXCEPT ![t] = "locked"]
    /\ UNCHANGED <<queue, req, res, elem>>

\* PopTest: lock() and unlock() in place of a guard, and no unlock on throw.
PopThrowsLocked(t) ==
    /\ pc[t] = "locked" /\ req[t].op = "get_pop_front"
    /\ IF queue = <<>>
       THEN /\ pc' = [pc EXCEPT ![t] = "ret"]
            /\ res' = [res EXCEPT ![t] = OutOfRange]
       ELSE pc' = [pc EXCEPT ![t] = "front"] /\ UNCHANGED res
    /\ UNCHANGED <<flag, queue, req, elem>>

\* PopRemove: pop_back for pop_front.
PopRemovesBack(t) ==
    /\ pc[t] = "pop"
    /\ queue' = SubSeq(queue, 1, Len(queue) - 1)
    /\ res' = [res EXCEPT ![t] = Returned(elem[t], 0)]
    /\ elem' = [elem EXCEPT ![t] = <<>>]
    /\ pc' = [pc EXCEPT ![t] = "unlock"]
    /\ UNCHANGED <<flag, req>>

-----------------------------------------------------------------------------
\* The call reaches the Spinlock constructor.
Call(t, r) ==
    /\ pc[t] = "idle"
    /\ r.op \in {"push_back", "push_front"} => Len(queue) < MaxLen
    /\ pc' = [pc EXCEPT ![t] = "spin"]
    /\ req' = [req EXCEPT ![t] = r]
    /\ UNCHANGED <<flag, queue, res, elem>>

\* The test_and_set that finds the flag clear and ends the loop.
Acquire(t) ==
    /\ pc[t] = "spin"
    /\ ~flag
    /\ flag' = TRUE
    /\ pc' = [pc EXCEPT ![t] = "locked"]
    /\ UNCHANGED <<queue, req, res, elem>>

\* The body of every operation but get_pop_front.
Operate(t) ==
    /\ pc[t] = "locked"
    /\ req[t].op # "get_pop_front"
    /\ queue' = Effect(queue, req[t])
    /\ res' = [res EXCEPT ![t] = Result(queue, req[t])]
    /\ pc' = [pc EXCEPT ![t] = "unlock"]
    /\ UNCHANGED <<flag, req, elem>>

\* if (_queue.empty()) throw std::out_of_range
PopTest(t) ==
    /\ pc[t] = "locked"
    /\ req[t].op = "get_pop_front"
    /\ IF queue = <<>>
       THEN /\ pc' = [pc EXCEPT ![t] = "unlock"]
            /\ res' = [res EXCEPT ![t] = OutOfRange]
       ELSE pc' = [pc EXCEPT ![t] = "front"] /\ UNCHANGED res
    /\ UNCHANGED <<flag, queue, req, elem>>

\* type elem = _queue.front()
PopFront(t) ==
    /\ pc[t] = "front"
    /\ elem' = [elem EXCEPT ![t] = <<Head(queue)>>]
    /\ pc' = [pc EXCEPT ![t] = "pop"]
    /\ UNCHANGED <<flag, queue, req, res>>

\* _queue.pop_front(); return elem
PopRemove(t) ==
    /\ pc[t] = "pop"
    /\ queue' = Tail(queue)
    /\ res' = [res EXCEPT ![t] = Returned(elem[t], 0)]
    /\ elem' = [elem EXCEPT ![t] = <<>>]
    /\ pc' = [pc EXCEPT ![t] = "unlock"]
    /\ UNCHANGED <<flag, req>>

\* ~Spinlock
Release(t) ==
    /\ pc[t] = "unlock"
    /\ flag' = FALSE
    /\ pc' = [pc EXCEPT ![t] = "ret"]
    /\ UNCHANGED <<queue, req, res, elem>>

Return(t) ==
    /\ pc[t] = "ret"
    /\ pc' = [pc EXCEPT ![t] = "idle"]
    /\ req' = [req EXCEPT ![t] = NoRequest]
    /\ res' = [res EXCEPT ![t] = NoOutcome]
    /\ UNCHANGED <<flag, queue, elem>>

Inside(t) ==
    \/ Acquire(t) \/ Operate(t) \/ PopTest(t) \/ PopFront(t) \/ PopRemove(t)
    \/ Release(t) \/ Return(t)

Next == \E t \in Thread : (\E r \in Request : Call(t, r)) \/ Inside(t)

Spec == Init /\ [][Next]_vars

\* A thread inside a call goes on; none needs to call.
FairSpec == Spec /\ \A t \in Thread : WF_vars(Inside(t))

-----------------------------------------------------------------------------
TypeOK ==
    /\ flag \in BOOLEAN
    /\ queue \in Seq(Value)
    /\ pc \in [Thread -> {"idle", "spin", "locked", "front", "pop", "unlock",
                          "ret"}]
    /\ req \in [Thread -> Request]
    /\ res \in [Thread -> Outcome]
    /\ elem \in [Thread -> Seq(Value)]

Holding(t) == pc[t] \in {"locked", "front", "pop", "unlock"}

\* The flag is set exactly while a thread is in its critical section, and
\* then one thread is: no two threads work on the std::deque at a time, and
\* no exit leaves the flag set.
Mutex ==
    /\ flag <=> \E t \in Thread : Holding(t)
    /\ \A t, u \in Thread : Holding(t) /\ Holding(u) => t = u

\* What a thread has learned of the deque inside the critical section stays
\* true until it acts on it.
PopStable ==
    \A t \in Thread :
        /\ pc[t] \in {"front", "pop"} =>
              req[t].op = "get_pop_front" /\ queue # <<>>
        /\ pc[t] = "pop" => elem[t] = <<Head(queue)>>

\* Seen from outside, a call takes effect where the std::deque changes.
Seen(p) ==
    IF p = "idle" THEN "idle" ELSE IF p \in {"unlock", "ret"} THEN "done" ELSE "called"

status == [t \in Thread |-> Seen(pc[t])]

Atomic == INSTANCE AtomicDeque WITH st <- status

\* ts_deque keeps its promise: its operations are atomic.
Linearizable == Atomic!Spec

\* The lock is given back every time, after an exception too.
LockReleased == flag ~> ~flag
=============================================================================
