-------------------------- MODULE SpinDequeProof ----------------------------
(***************************************************************************)
(* ts_deque implements AtomicDeque, for any number of threads and any      *)
(* elements.  The inductive invariant is that the flag tells whether a     *)
(* thread is in its critical section, that there is at most one, and that  *)
(* what get_pop_front has read is still at the front when it pops.         *)
(***************************************************************************)
EXTENDS SpinDeque, TLAPS

USE NoValueAssumption, MaxLenAssumption

\* Pops and pushes lead from deques to deques.
LEMMA EffectType ==
    ASSUME NEW q \in Seq(Value), NEW r \in Request
    PROVE  Effect(q, r) \in Seq(Value)
<1>1. q # <<>> => Tail(q) \in Seq(Value) OBVIOUS
<1>2. CASE r.op \in {"push_back", "push_front"}
  <2>1. r.arg \in Value BY <1>2 DEF Request
  <2> QED BY <1>2, <2>1 DEF Effect
<1>3. CASE r.op \in {"get_pop_front", "size", "empty", "clear"}
  BY <1>1, <1>3 DEF Effect
<1> QED BY <1>2, <1>3 DEF Request

\* The outcomes have their type.
LEMMA OutcomeType ==
    /\ NoOutcome \in Outcome /\ OutOfRange \in Outcome
    /\ \A e \in Seq(Value), n \in Nat : Returned(e, n) \in Outcome
BY DEF NoOutcome, OutOfRange, Returned, OutcomeOf, Outcome

\* Every operation returns an outcome.
LEMMA ResultType ==
    ASSUME NEW q \in Seq(Value), NEW r \in Request, r.op # "get_pop_front"
    PROVE  Result(q, r) \in Outcome
<1>0. <<>> \in Seq(Value) /\ Len(q) \in Nat OBVIOUS
<1>1. NoOutcome \in Outcome /\ Returned(<<>>, Len(q)) \in Outcome
  BY <1>0, OutcomeType
<1>2. CASE r.op \in {"size", "empty"} BY <1>1, <1>2 DEF Result
<1>3. CASE r.op \in {"push_back", "push_front", "clear"} BY <1>1, <1>3 DEF Result
<1> QED BY <1>2, <1>3 DEF Request

\* All variables keep their types.
LEMMA TypeInit == Init => TypeOK
<1>1. NoOutcome \in Outcome BY OutcomeType
<1>2. NoRequest \in Request BY DEF NoRequest, Request
<1>3. Init => flag \in BOOLEAN BY DEF Init
<1>4. Init => queue \in Seq(Value) BY DEF Init
<1>5. Init => elem \in [Thread -> Seq(Value)] BY DEF Init
<1> QED BY <1>1, <1>2, <1>3, <1>4, <1>5 DEF Init, TypeOK

\* Every statement keeps the types.
LEMMA TypeNext == TypeOK /\ PopStable /\ [Next]_vars => TypeOK'
<1> SUFFICES ASSUME TypeOK, PopStable, [Next]_vars PROVE TypeOK'
  OBVIOUS
<1> USE DEF TypeOK
<1>1. ASSUME NEW t \in Thread, NEW r \in Request, Call(t, r) PROVE TypeOK'
  BY <1>1 DEF Call
<1>2. ASSUME NEW t \in Thread, Acquire(t) PROVE TypeOK'
  BY <1>2 DEF Acquire
<1>3. ASSUME NEW t \in Thread, Operate(t) PROVE TypeOK'
  <2>1. Effect(queue, req[t]) \in Seq(Value) BY EffectType
  <2>2. Result(queue, req[t]) \in Outcome BY <1>3, ResultType DEF Operate
  <2> QED BY <1>3, <2>1, <2>2 DEF Operate
<1>4. ASSUME NEW t \in Thread, PopTest(t) PROVE TypeOK'
  <2>1. OutOfRange \in Outcome BY OutcomeType
  <2> QED BY <1>4, <2>1 DEF PopTest
<1>5. ASSUME NEW t \in Thread, PopFront(t) PROVE TypeOK'
  <2>1. <<Head(queue)>> \in Seq(Value) BY <1>5 DEF PopFront, PopStable
  <2> QED BY <1>5, <2>1 DEF PopFront
<1>6. ASSUME NEW t \in Thread, PopRemove(t) PROVE TypeOK'
  <2>1. Tail(queue) \in Seq(Value) BY <1>6 DEF PopRemove, PopStable
  <2>2. Returned(elem[t], 0) \in Outcome BY OutcomeType
  <2> QED BY <1>6, <2>1, <2>2 DEF PopRemove
<1>7. ASSUME NEW t \in Thread, Release(t) PROVE TypeOK'
  BY <1>7 DEF Release
<1>8. ASSUME NEW t \in Thread, Return(t) PROVE TypeOK'
  <2>1. NoRequest \in Request /\ NoOutcome \in Outcome
    BY OutcomeType DEF NoRequest, Request
  <2> QED BY <1>8, <2>1 DEF Return
<1>9. CASE UNCHANGED vars
  BY <1>9 DEF vars
<1> QED BY <1>1, <1>2, <1>3, <1>4, <1>5, <1>6, <1>7, <1>8, <1>9
        DEF Next, Inside

\* Mutual exclusion: the flag is taken only when it is clear, hence when no
\* thread is inside, and cleared only by the thread that is.
LEMMA MutexNext == TypeOK /\ Mutex /\ [Next]_vars => Mutex'
<1> SUFFICES ASSUME TypeOK, Mutex, [Next]_vars PROVE Mutex'
  OBVIOUS
<1> USE DEF TypeOK, Mutex, Holding
<1>1. ASSUME NEW t \in Thread, NEW r \in Request, Call(t, r) PROVE Mutex'
  BY <1>1 DEF Call
<1>2. ASSUME NEW t \in Thread, Acquire(t) PROVE Mutex'
  BY <1>2 DEF Acquire
<1>3. ASSUME NEW t \in Thread, Operate(t) PROVE Mutex'
  BY <1>3 DEF Operate
<1>4. ASSUME NEW t \in Thread, PopTest(t) PROVE Mutex'
  BY <1>4 DEF PopTest
<1>5. ASSUME NEW t \in Thread, PopFront(t) PROVE Mutex'
  BY <1>5 DEF PopFront
<1>6. ASSUME NEW t \in Thread, PopRemove(t) PROVE Mutex'
  BY <1>6 DEF PopRemove
<1>7. ASSUME NEW t \in Thread, Release(t) PROVE Mutex'
  BY <1>7 DEF Release
<1>8. ASSUME NEW t \in Thread, Return(t) PROVE Mutex'
  BY <1>8 DEF Return
<1>9. CASE UNCHANGED vars
  BY <1>9 DEF vars
<1> QED BY <1>1, <1>2, <1>3, <1>4, <1>5, <1>6, <1>7, <1>8, <1>9
        DEF Next, Inside

\* The front of the deque cannot change between front() and pop_front().
LEMMA PopStableNext == TypeOK /\ Mutex /\ PopStable /\ [Next]_vars => PopStable'
<1> SUFFICES ASSUME TypeOK, Mutex, PopStable, [Next]_vars PROVE PopStable'
  OBVIOUS
<1> USE DEF TypeOK, Mutex, PopStable, Holding
<1>1. ASSUME NEW t \in Thread, NEW r \in Request, Call(t, r) PROVE PopStable'
  BY <1>1 DEF Call
<1>2. ASSUME NEW t \in Thread, Acquire(t) PROVE PopStable'
  BY <1>2 DEF Acquire
<1>3. ASSUME NEW t \in Thread, Operate(t) PROVE PopStable'
  BY <1>3 DEF Operate
<1>4. ASSUME NEW t \in Thread, PopTest(t) PROVE PopStable'
  BY <1>4 DEF PopTest
<1>5. ASSUME NEW t \in Thread, PopFront(t) PROVE PopStable'
  BY <1>5 DEF PopFront
<1>6. ASSUME NEW t \in Thread, PopRemove(t) PROVE PopStable'
  BY <1>6 DEF PopRemove
<1>7. ASSUME NEW t \in Thread, Release(t) PROVE PopStable'
  BY <1>7 DEF Release
<1>8. ASSUME NEW t \in Thread, Return(t) PROVE PopStable'
  BY <1>8 DEF Return
<1>9. CASE UNCHANGED vars
  BY <1>9 DEF vars
<1> QED BY <1>1, <1>2, <1>3, <1>4, <1>5, <1>6, <1>7, <1>8, <1>9
        DEF Next, Inside

Inv == TypeOK /\ Mutex /\ PopStable

\* Types, exclusion and the stability of a read element hold together.
LEMMA Invariance == Spec => []Inv
<1>1. Init => Inv
  BY TypeInit DEF Init, Inv, Mutex, PopStable, Holding
<1>2. Inv /\ [Next]_vars => Inv'
  BY TypeNext, MutexNext, PopStableNext DEF Inv
<1> QED BY <1>1, <1>2, PTL DEF Spec

\* No two threads are in the critical section of a ts_deque, and its flag is
\* set exactly while one is, for any number of threads.
THEOREM MutualExclusion == Spec => []Mutex
<1>1. Inv => Mutex BY DEF Inv
<1> QED BY <1>1, Invariance, PTL

\* What get_pop_front has tested and read is still at the front when it
\* pops, whatever the other threads call: no element is popped twice or lost.
THEOREM PopsWhatItRead == Spec => []PopStable
<1>1. Inv => PopStable BY DEF Inv
<1> QED BY <1>1, Invariance, PTL

-----------------------------------------------------------------------------
(***************************************************************************)
(* Refinement: Operate, the throwing PopTest and PopRemove perform the     *)
(* abstract operation, Call and Return are its invocation and response,    *)
(* the other steps stutter.                                                *)
(***************************************************************************)

\* The instance computes with the same operators.
LEMMA SameOps ==
    /\ Atomic!Request = Request
    /\ Atomic!NoRequest = NoRequest
    /\ Atomic!NoOutcome = NoOutcome
    /\ \A q, r : /\ Atomic!Effect(q, r) = Effect(q, r)
               /\ Atomic!Result(q, r) = Result(q, r)
BY DEF Atomic!Request, Request, Atomic!NoRequest, NoRequest, Atomic!NoOutcome,
       NoOutcome, Atomic!Effect, Effect, Atomic!Result, Result,
       Atomic!OutOfRange, OutOfRange, Atomic!Returned, Returned,
       Atomic!OutcomeOf, OutcomeOf

\* A step of one thread changes that thread's abstract state only, and that
\* only if it is seen.
LEMMA StStep ==
    ASSUME TypeOK, NEW t \in Thread, NEW p, pc' = [pc EXCEPT ![t] = p]
    PROVE  status[t] = Seen(pc[t]) /\ status' = [status EXCEPT ![t] = Seen(p)]
BY DEF TypeOK, status

\* A statement that is not seen from outside leaves the abstract state alone.
LEMMA StSame ==
    ASSUME TypeOK, NEW t \in Thread, NEW p, pc' = [pc EXCEPT ![t] = p],
           Seen(p) = Seen(pc[t])
    PROVE  status' = status
BY DEF TypeOK, status

\* Every statement is an abstract step or none.
LEMMA StepRefines == Inv /\ [Next]_vars => [Atomic!Next]_(Atomic!vars)
<1> SUFFICES ASSUME Inv, [Next]_vars PROVE [Atomic!Next]_(Atomic!vars)
  OBVIOUS
<1> USE SameOps DEF Inv
<1>1. ASSUME NEW t \in Thread, NEW r \in Request, Call(t, r)
      PROVE  Atomic!Invoke(t, r)
  <2>0. pc[t] = "idle" /\ pc' = [pc EXCEPT ![t] = "spin"] BY <1>1 DEF Call
  <2>1. status[t] = "idle" /\ status' = [status EXCEPT ![t] = "called"]
    <3>1. Seen("idle") = "idle" /\ Seen("spin") = "called" BY DEF Seen
    <3> QED BY <2>0, <3>1, StStep
  <2> QED BY <1>1, <2>1 DEF Call, Atomic!Invoke
<1>2. ASSUME NEW t \in Thread, Acquire(t) PROVE UNCHANGED Atomic!vars
  <2>0. pc[t] = "spin" /\ pc' = [pc EXCEPT ![t] = "locked"] BY <1>2 DEF Acquire
  <2>1. status' = status BY <2>0, StSame DEF Seen
  <2> QED BY <1>2, <2>1 DEF Acquire, Atomic!vars
<1>3. ASSUME NEW t \in Thread, Operate(t) PROVE Atomic!Perform(t)
  <2>0. pc[t] = "locked" /\ pc' = [pc EXCEPT ![t] = "unlock"] BY <1>3 DEF Operate
  <2>1. status[t] = "called" /\ status' = [status EXCEPT ![t] = "done"]
    BY <2>0, StStep DEF Seen
  <2> QED BY <1>3, <2>1 DEF Operate, Atomic!Perform
<1>4. ASSUME NEW t \in Thread, PopTest(t)
      PROVE  Atomic!Perform(t) \/ UNCHANGED Atomic!vars
  <2>1. CASE queue = <<>>
    <3>1. Effect(queue, req[t]) = queue /\ Result(queue, req[t]) = OutOfRange
      BY <1>4, <2>1 DEF PopTest, Effect, Result
    <3>2. status[t] = "called" /\ status' = [status EXCEPT ![t] = "done"]
      <4>1. pc[t] = "locked" /\ pc' = [pc EXCEPT ![t] = "unlock"]
        BY <1>4, <2>1 DEF PopTest
      <4> QED BY <4>1, StStep DEF Seen
    <3> QED BY <1>4, <2>1, <3>1, <3>2 DEF PopTest, Atomic!Perform
  <2>2. CASE queue # <<>>
    <3>1. status' = status
      <4>1. pc[t] = "locked" /\ pc' = [pc EXCEPT ![t] = "front"]
        BY <1>4, <2>2 DEF PopTest
      <4> QED BY <4>1, StSame DEF Seen
    <3> QED BY <1>4, <2>2, <3>1 DEF PopTest, Atomic!vars
  <2> QED BY <2>1, <2>2
<1>5. ASSUME NEW t \in Thread, PopFront(t) PROVE UNCHANGED Atomic!vars
  <2>0. pc[t] = "front" /\ pc' = [pc EXCEPT ![t] = "pop"] BY <1>5 DEF PopFront
  <2>1. status' = status BY <2>0, StSame DEF Seen
  <2> QED BY <1>5, <2>1 DEF PopFront, Atomic!vars
<1>6. ASSUME NEW t \in Thread, PopRemove(t) PROVE Atomic!Perform(t)
  <2>1. queue # <<>> /\ req[t].op = "get_pop_front" /\ elem[t] = <<Head(queue)>>
    BY <1>6 DEF PopRemove, PopStable
  <2>2. /\ Effect(queue, req[t]) = Tail(queue)
        /\ Result(queue, req[t]) = Returned(elem[t], 0)
    BY <2>1 DEF Effect, Result
  <2>3. status[t] = "called" /\ status' = [status EXCEPT ![t] = "done"]
    <3>1. pc[t] = "pop" /\ pc' = [pc EXCEPT ![t] = "unlock"] BY <1>6 DEF PopRemove
    <3> QED BY <3>1, StStep DEF Seen
  <2> QED BY <1>6, <2>2, <2>3 DEF PopRemove, Atomic!Perform
<1>7. ASSUME NEW t \in Thread, Release(t) PROVE UNCHANGED Atomic!vars
  <2>0. pc[t] = "unlock" /\ pc' = [pc EXCEPT ![t] = "ret"] BY <1>7 DEF Release
  <2>1. status' = status BY <2>0, StSame DEF Seen
  <2> QED BY <1>7, <2>1 DEF Release, Atomic!vars
<1>8. ASSUME NEW t \in Thread, Return(t) PROVE Atomic!Respond(t)
  <2>0. pc[t] = "ret" /\ pc' = [pc EXCEPT ![t] = "idle"] BY <1>8 DEF Return
  <2>1. status[t] = "done" /\ status' = [status EXCEPT ![t] = "idle"]
    BY <2>0, StStep DEF Seen
  <2> QED BY <1>8, <2>1 DEF Return, Atomic!Respond
<1>9. CASE UNCHANGED vars
  BY <1>9 DEF vars, Atomic!vars, status
<1> QED BY <1>1, <1>2, <1>3, <1>4, <1>5, <1>6, <1>7, <1>8, <1>9
        DEF Next, Inside, Atomic!Next

\* Every behaviour of ts_deque under its spinlock is one of a deque whose
\* operations are atomic: what SyncCopy takes for granted of its deques.
THEOREM DequeIsAtomic == Spec => Linearizable
<1>1. Init => Atomic!Init
  BY SameOps DEF Init, Atomic!Init, status, Seen
<1> QED BY <1>1, StepRefines, Invariance, PTL
        DEF Spec, Linearizable, Atomic!Spec
=============================================================================
