--------------------------- MODULE ContainersProof ---------------------------
(***************************************************************************)
(* The locks of String, Vector, Deque, ThreadSafeVar and ts_deque::swap,   *)
(* for any number of threads and objects: they exclude, they keep what an  *)
(* operation has tested true, and they deadlock only on arguments that     *)
(* cannot be ordered.                                                      *)
(***************************************************************************)
EXTENDS Containers, WellFoundedInduction, TLAPS

USE ContainerAssumption

-----------------------------------------------------------------------------
(* The inductive invariant.                                                *)

\* Everything is a function on its domain; a thread in a call has arguments.
Shape ==
    /\ flag \in [Obj -> BOOLEAN]
    /\ pc \in [Thread -> {"start", "lock", "wait", "test", "act", "unlock",
                          "notify", "ret"}]
    /\ held \in [Thread -> 0..2]
    /\ call = [t \in Thread |-> call[t]]
    /\ val = [o \in Obj |-> val[o]]
    /\ seen = [t \in Thread |-> seen[t]]
    /\ \A t \in Thread :
          pc[t] # "start" =>
              /\ call[t].self \in Obj /\ call[t].other \in Obj
              /\ TwoLocks(call[t].op) \/ call[t].self = call[t].other

\* The number of flags an operation sets.
Locks(t) == Len(LockOrder(call[t]))

\* How many locks a thread holds at each statement; never one flag twice.
Count ==
    \A t \in Thread :
        /\ pc[t] \in {"start", "ret"} => held[t] = 0
        /\ pc[t] \in {"lock", "wait", "notify"} => held[t] < Locks(t)
        /\ pc[t] \in {"test", "act"} => held[t] = Locks(t)
        /\ pc[t] = "unlock" => held[t] \in 1..Locks(t)
        /\ held[t] = 2 => call[t].self # call[t].other

\* The objects whose flag a thread has set.
Held(t) == IF held[t] = 0 THEN {}
           ELSE IF held[t] = 1 THEN {call[t].self}
           ELSE {call[t].self, call[t].other}

\* Exclusive, said of Held.
Owners ==
    /\ \A o \in Obj : flag[o] <=> \E t \in Thread : o \in Held(t)
    /\ \A t, u \in Thread, o \in Obj : o \in Held(t) /\ o \in Held(u) => t = u

LockInv == Shape /\ Count /\ Owners

-----------------------------------------------------------------------------
\* The flags: none, this, or this and the argument's.
LEMMA LockOrderForm ==
    ASSUME NEW c
    PROVE  /\ Len(LockOrder(c)) \in 0..2
           /\ Len(LockOrder(c)) >= 1 => LockOrder(c)[1] = c.self
           /\ Len(LockOrder(c)) = 2 <=> TwoLocks(c.op)
           /\ TwoLocks(c.op) => LockOrder(c)[2] = c.other
           /\ Len(LockOrder(c)) = 0 <=> LockOrder(c) = <<>>
           /\ LockOrder(c) = <<>> => c.op = "index"
<1>1. CASE c.op = "index" /\ cls \in {"Vector", "Deque"}
  <2>1. LockOrder(c) = <<>> BY <1>1 DEF LockOrder
  <2> QED BY <1>1, <2>1 DEF TwoLocks
<1>2. CASE TwoLocks(c.op)
  <2>1. c.op # "index" BY <1>2 DEF TwoLocks
  <2>2. LockOrder(c) = <<c.self, c.other>> BY <1>2, <2>1 DEF LockOrder
  <2> QED BY <1>2, <2>2
<1>3. CASE ~(c.op = "index" /\ cls \in {"Vector", "Deque"}) /\ ~TwoLocks(c.op)
  <2>1. LockOrder(c) = <<c.self>> BY <1>3 DEF LockOrder
  <2> QED BY <1>3, <2>1
<1> QED BY <1>1, <1>2, <1>3

\* An object's class is fixed, and with it the locks of a call.
LEMMA LockOrderSame ==
    ASSUME NEW c, cls' = cls
    PROVE  LockOrder(c)' = LockOrder(c)
BY DEF LockOrder, TwoLocks

\* Holds and Held agree.
LEMMA HoldsHeld ==
    Shape /\ Count => \A t \in Thread, o \in Obj : Holds(t, o) <=> o \in Held(t)
<1> SUFFICES ASSUME Shape, Count, NEW t \in Thread, NEW o \in Obj
             PROVE  Holds(t, o) <=> o \in Held(t)
  OBVIOUS
<1>1. held[t] \in 0..2 /\ held[t] <= Locks(t) /\ Locks(t) \in 0..2
  <2>1. Locks(t) \in 0..2 BY LockOrderForm DEF Locks
  <2> QED BY <2>1 DEF Shape, Count
<1>2. CASE held[t] = 0
  BY <1>2 DEF Holds, Held
<1>3. CASE held[t] = 1
  <2>1. LockOrder(call[t])[1] = call[t].self BY <1>1, <1>3, LockOrderForm DEF Locks
  <2> QED BY <1>3, <2>1 DEF Holds, Held
<1>4. CASE held[t] = 2
  <2>1. /\ LockOrder(call[t])[1] = call[t].self
        /\ LockOrder(call[t])[2] = call[t].other
    BY <1>1, <1>4, LockOrderForm DEF Locks
  <2>2. Held(t) = {call[t].self, call[t].other} BY <1>4 DEF Held
  <2> QED BY <1>4, <2>1, <2>2 DEF Holds
<1> QED BY <1>1, <1>2, <1>3, <1>4

\* The next flag to set, and the last one set.
LEMMA Targets ==
    ASSUME LockInv, NEW t \in Thread
    PROVE  /\ pc[t] \in {"lock", "wait"} =>
                /\ Target(t) = IF held[t] = 0 THEN call[t].self ELSE call[t].other
                /\ held[t] \in 0..1
           /\ pc[t] = "unlock" =>
                Newest(t) = IF held[t] = 1 THEN call[t].self ELSE call[t].other
<1>1. Locks(t) \in 0..2 BY LockOrderForm DEF Locks
<1>2. held[t] \in 0..2 BY DEF LockInv, Shape
<1>3. ASSUME pc[t] \in {"lock", "wait"}
      PROVE  /\ Target(t) = IF held[t] = 0 THEN call[t].self ELSE call[t].other
             /\ held[t] \in 0..1
  <2>1. held[t] < Locks(t) BY <1>3 DEF LockInv, Count
  <2>2. CASE held[t] = 0
    BY <1>1, <2>1, <2>2, LockOrderForm DEF Target, Locks
  <2>3. CASE held[t] = 1
    BY <1>1, <2>1, <2>3, LockOrderForm DEF Target, Locks
  <2> QED BY <1>1, <1>2, <2>1, <2>2, <2>3
<1>4. ASSUME pc[t] = "unlock"
      PROVE  Newest(t) = IF held[t] = 1 THEN call[t].self ELSE call[t].other
  <2>1. held[t] \in 1..Locks(t) BY <1>4 DEF LockInv, Count
  <2>2. CASE held[t] = 1
    BY <1>1, <2>1, <2>2, LockOrderForm DEF Newest, Locks
  <2>3. CASE held[t] = 2
    BY <1>1, <2>1, <2>3, LockOrderForm DEF Newest, Locks
  <2> QED BY <1>1, <1>2, <2>1, <2>2, <2>3
<1> QED BY <1>3, <1>4

-----------------------------------------------------------------------------
(* Every step preserves it.                                                *)

\* A thread that begins a call holds nothing yet.
LEMMA CallStep ==
    ASSUME LockInv, NEW t \in Thread, NEW c \in Calls, Call(t, c)
    PROVE  LockInv'
<1> DEFINE d == Executed(c)
<1> USE DEF LockInv, Call
<1>0. d.self \in Obj /\ d.other \in Obj /\ (TwoLocks(d.op) \/ d.self = d.other)
  <2>0. /\ c.self \in Obj /\ c.other \in Obj
        /\ TwoLocks(c.op) \/ c.self = c.other
    BY DEF Calls
  <2>1. CASE c.op = "greater"
    <3>1. d = [op |-> "compare", self |-> c.other, other |-> c.self]
      BY <2>1 DEF Executed
    <3>2. TwoLocks(d.op) BY <3>1 DEF TwoLocks
    <3> QED BY <2>0, <3>1, <3>2
  <2>2. CASE c.op # "greater"
    <3>1. d = c BY <2>2 DEF Executed
    <3> HIDE DEF d
    <3> QED BY <2>0, <3>1
  <2> QED BY <2>1, <2>2
<1> HIDE DEF d
<1>1. Shape'
  <2>1. call' = [call EXCEPT ![t] = d] BY DEF d
  <2>2. pc' = [pc EXCEPT ![t] = IF LockOrder(d) = <<>> THEN "test" ELSE "lock"]
    BY DEF d
  <2>3. flag' = flag /\ held' = held /\ val' = val /\ seen' = seen OBVIOUS
  <2>4. call' = [u \in Thread |-> call'[u]] BY <2>1 DEF Shape
  <2>5. \A u \in Thread :
          pc'[u] # "start" =>
              /\ call'[u].self \in Obj /\ call'[u].other \in Obj
              /\ TwoLocks(call'[u].op) \/ call'[u].self = call'[u].other
    BY <1>0, <2>1, <2>2 DEF Shape
  <2> QED BY <2>2, <2>3, <2>4, <2>5 DEF Shape, TwoLocks
<1>2. Count'
  <2>1. held[t] = 0 /\ call'[t] = d BY DEF Count, Shape, d
  <2>2. \A u \in Thread : u # t => /\ pc'[u] = pc[u] /\ call'[u] = call[u]
                                  /\ Locks(u)' = Locks(u)
    BY LockOrderSame DEF Shape, Locks
  <2>3. Locks(t)' = Len(LockOrder(d))
    BY <2>1, LockOrderSame DEF Locks
  <2>4. Len(LockOrder(d)) \in 0..2 /\ (Len(LockOrder(d)) = 0 <=> LockOrder(d) = <<>>)
    BY LockOrderForm
  <2>5. pc'[t] = IF LockOrder(d) = <<>> THEN "test" ELSE "lock" BY DEF Shape, d
  <2> QED BY <2>1, <2>2, <2>3, <2>4, <2>5 DEF Count, Shape
<1>3. Owners'
  <2>1. \A u \in Thread : Held(u)' = Held(u) BY DEF Count, Shape, Held
  <2> QED BY <2>1 DEF Owners
<1> QED BY <1>1, <1>2, <1>3

\* A flag that test_and_set found clear was held by nobody.
LEMMA LockedStep ==
    ASSUME LockInv, NEW t \in Thread, Locked(t, Target(t))
    PROVE  LockInv'
<1> DEFINE o == Target(t)
<1>0. /\ o = IF held[t] = 0 THEN call[t].self ELSE call[t].other
      /\ held[t] \in 0..1
  BY Targets DEF Locked
<1>1. o \in Obj BY <1>0 DEF LockInv, Shape, Locked
<1>2. /\ flag' = [flag EXCEPT ![o] = TRUE] /\ ~flag[o]
      /\ held' = [held EXCEPT ![t] = @ + 1]
      /\ pc' = [pc EXCEPT ![t] = AfterLock(t, held[t] + 1)]
      /\ pc[t] = "lock" /\ cls' = cls /\ call' = call /\ val' = val /\ seen' = seen
  BY DEF Locked
<1>3. \A u \in Thread : Locks(u)' = Locks(u) BY <1>2, LockOrderSame DEF Locks
<1> HIDE DEF o
<1>4. AfterLock(t, held[t] + 1) = IF held[t] + 1 < Locks(t) THEN "lock" ELSE "test"
  BY DEF AfterLock, Locks
<1>5. Shape' BY <1>0, <1>1, <1>2, <1>4 DEF LockInv, Shape, TwoLocks
<1>6. held[t] < Locks(t) /\ Locks(t) \in 0..2
  BY <1>2, LockOrderForm DEF LockInv, Count, Locks
<1>7. held[t] = 1 => call[t].self # call[t].other
  BY <1>0, <1>1, <1>2 DEF LockInv, Owners, Held
<1>8. Count'
  BY <1>0, <1>2, <1>3, <1>4, <1>6, <1>7 DEF LockInv, Count, Shape
<1>9. Held(t)' = Held(t) \cup {o}
  BY <1>0, <1>2 DEF LockInv, Shape, Held
<1>10. \A u \in Thread : u # t => Held(u)' = Held(u)
  BY <1>2 DEF LockInv, Shape, Held
<1>11. Owners'
  BY <1>1, <1>2, <1>9, <1>10 DEF LockInv, Owners, Shape
<1> QED BY <1>5, <1>8, <1>11 DEF LockInv

\* Blocked, Test, Act and Notify leave the flags alone.
LEMMA QuietStep ==
    ASSUME LockInv, NEW t \in Thread,
           \/ Blocked(t, Target(t)) \/ Test(t) \/ Act(t) \/ Notify(t, Target(t))
    PROVE  LockInv'
<1>1. /\ flag' = flag /\ held' = held /\ call' = call /\ cls' = cls
  BY DEF Blocked, Test, Act, Notify
<1>2. \A u \in Thread : Locks(u)' = Locks(u) /\ Held(u)' = Held(u)
  BY <1>1, LockOrderSame DEF Locks, Held
<1>3. /\ val' = [o \in Obj |-> val'[o]]
      /\ seen' = [u \in Thread |-> seen'[u]]
  BY DEF Blocked, Test, Act, Notify, LockInv, Shape
<1>4. \A u \in Thread : Locks(u) \in 0..2 BY LockOrderForm DEF Locks
<1>5. /\ pc' \in [Thread -> {"start", "lock", "wait", "test", "act", "unlock",
                             "notify", "ret"}]
      /\ \A u \in Thread : pc[u] = "start" <=> pc'[u] = "start"
      /\ \A u \in Thread :
            /\ pc'[u] \in {"start", "ret"} => held[u] = 0
            /\ pc'[u] \in {"lock", "wait", "notify"} => held[u] < Locks(u)
            /\ pc'[u] \in {"test", "act"} => held[u] = Locks(u)
            /\ pc'[u] = "unlock" => held[u] \in 1..Locks(u)
  <2>1. CASE Blocked(t, Target(t)) BY <2>1 DEF Blocked, LockInv, Shape, Count
  <2>2. CASE Test(t) BY <2>2 DEF Test, LockInv, Shape, Count
  <2>3. CASE Act(t)
    <3>1. pc[t] = "act" /\ pc' = [pc EXCEPT ![t] = AfterUnlock(held[t])]
      BY <2>3 DEF Act
    <3>2. AfterUnlock(held[t]) = IF held[t] = 0 THEN "ret" ELSE "unlock"
      BY DEF AfterUnlock
    <3> QED BY <1>4, <3>1, <3>2 DEF LockInv, Shape, Count
  <2>4. CASE Notify(t, Target(t))
    <3>1. AfterUnlock(held[t]) = IF held[t] = 0 THEN "ret" ELSE "unlock"
      BY DEF AfterUnlock
    <3>2. CASE pc' = [pc EXCEPT ![t] = AfterUnlock(held[t])] /\ pc[t] = "notify"
      BY <1>4, <3>1, <3>2 DEF LockInv, Shape, Count
    <3>3. CASE /\ pc[t] = "notify"
               /\ \E u \in Thread :
                     /\ pc[u] = "wait"
                     /\ pc' = [pc EXCEPT ![t] = AfterUnlock(held[t]), ![u] = "lock"]
      BY <1>4, <3>1, <3>3 DEF LockInv, Shape, Count
    <3> QED BY <2>4, <3>2, <3>3 DEF Notify
  <2> QED BY <2>1, <2>2, <2>3, <2>4
<1>6. Shape' BY <1>1, <1>3, <1>5 DEF LockInv, Shape, TwoLocks
<1>7. Count' BY <1>1, <1>2, <1>5 DEF LockInv, Count
<1>8. Owners' BY <1>1, <1>2 DEF LockInv, Owners
<1> QED BY <1>6, <1>7, <1>8 DEF LockInv

\* A lock is given back by the thread that has it.
LEMMA ClearStep ==
    ASSUME LockInv, NEW t \in Thread, Clear(t, Newest(t))
    PROVE  LockInv'
<1> DEFINE o == Newest(t)
<1>0. /\ o = IF held[t] = 1 THEN call[t].self ELSE call[t].other
  BY Targets DEF Clear
<1>1. /\ flag' = [flag EXCEPT ![o] = FALSE]
      /\ held' = [held EXCEPT ![t] = @ - 1]
      /\ pc' = [pc EXCEPT ![t] = IF Waits THEN "notify"
                                 ELSE AfterUnlock(held[t] - 1)]
      /\ pc[t] = "unlock" /\ cls' = cls /\ call' = call /\ val' = val /\ seen' = seen
  BY DEF Clear
<1>2. \A u \in Thread : Locks(u)' = Locks(u) BY <1>1, LockOrderSame DEF Locks
<1> HIDE DEF o
<1>3. held[t] \in 1..2 /\ held[t] <= Locks(t) /\ Locks(t) \in 0..2
  <2>1. Locks(t) \in 0..2 BY LockOrderForm DEF Locks
  <2> QED BY <1>1, <2>1 DEF LockInv, Count, Shape
<1>4. AfterUnlock(held[t] - 1) = IF held[t] = 1 THEN "ret" ELSE "unlock"
  BY <1>3 DEF AfterUnlock
<1>5. o \in Obj BY <1>0, <1>1 DEF LockInv, Shape
<1>6. Shape' BY <1>1, <1>3, <1>4, <1>5 DEF LockInv, Shape, TwoLocks
<1>7. Count' BY <1>1, <1>2, <1>3, <1>4 DEF LockInv, Count, Shape
<1>8. Held(t)' = Held(t) \ {o} /\ o \in Held(t)
  BY <1>0, <1>1, <1>3 DEF LockInv, Shape, Count, Held
<1>9. \A u \in Thread : u # t => Held(u)' = Held(u)
  BY <1>1 DEF LockInv, Shape, Held
<1>10. Owners' BY <1>1, <1>5, <1>8, <1>9 DEF LockInv, Owners, Shape
<1> QED BY <1>6, <1>7, <1>10 DEF LockInv

\* The locks are exclusive at every moment.
LEMMA LockInvariance == Spec => []LockInv
<1>1. Init => LockInv
  <2> SUFFICES ASSUME Init PROVE LockInv OBVIOUS
  <2>1. Shape BY DEF Init, Shape
  <2>2. Count
    <3>1. \A t \in Thread : pc[t] = "start" /\ held[t] = 0 BY DEF Init
    <3>2. 0 # 2 OBVIOUS
    <3> QED BY <3>1, <3>2, Zenon DEF Count
  <2>3. Owners BY DEF Init, Owners, Held
  <2> QED BY <2>1, <2>2, <2>3 DEF LockInv
<1>2. LockInv /\ [Next]_vars => LockInv'
  <2> SUFFICES ASSUME LockInv, [Next]_vars PROVE LockInv' OBVIOUS
  <2>1. CASE UNCHANGED vars
    <3>1. \A u \in Thread : Locks(u)' = Locks(u) /\ Held(u)' = Held(u)
      BY <2>1, LockOrderSame DEF Locks, Held, vars
    <3> QED BY <2>1, <3>1 DEF vars, LockInv, Shape, Count, Owners, TwoLocks
  <2>2. ASSUME NEW t \in Thread, NEW c \in Calls, Call(t, c) PROVE LockInv'
    BY <2>2, CallStep
  <2>3. ASSUME NEW t \in Thread, Inside(t) PROVE LockInv'
    BY <2>3, LockedStep, QuietStep, ClearStep DEF Inside
  <2> QED BY <2>1, <2>2, <2>3 DEF Next
<1> QED BY <1>1, <1>2, PTL DEF Spec

\* A flag is set exactly while a thread holds it, and then one thread does:
\* for any number of threads and objects, any operations, and although an
\* operation may be given one object twice.
THEOREM LocksExclude == Spec => []Exclusive
<1>1. LockInv => Exclusive BY HoldsHeld DEF LockInv, Owners, Exclusive
<1> QED BY <1>1, LockInvariance, PTL

-----------------------------------------------------------------------------
(* What an operation has tested: every object that a locking operation     *)
(* writes is one that it holds, and no other thread holds it.              *)

\* A thread that acts leaves alone what another one has locked and tested.
LEMMA Writes ==
    ASSUME LockInv, NEW t \in Thread, NEW u \in Thread, t # u,
           Act(t), pc[u] = "act", LockOrder(call[u]) # <<>>
    PROVE  /\ val'[call[u].self] = val[call[u].self]
           /\ val'[call[u].other] = val[call[u].other]
<1>1. CASE call[t].op = "index"
  BY <1>1 DEF Act
<1>2. CASE call[t].op # "index"
  <2>1. /\ Locks(t) \in 1..2 /\ (Locks(t) = 2 <=> TwoLocks(call[t].op))
        /\ Locks(u) \in 1..2 /\ (Locks(u) = 2 <=> TwoLocks(call[u].op))
    BY <1>2, LockOrderForm DEF Locks
  <2>2. held[t] = Locks(t) /\ held[u] = Locks(u)
    BY DEF LockInv, Count, Act
  <2>3. /\ call[t].self \in Obj /\ call[t].other \in Obj
        /\ call[u].self \in Obj /\ call[u].other \in Obj
        /\ TwoLocks(call[u].op) \/ call[u].self = call[u].other
    BY DEF LockInv, Shape, Act
  <2>4. call[u].self \in Held(u) /\ call[u].other \in Held(u)
    BY <2>1, <2>2, <2>3 DEF Held
  <2>5. call[u].self # call[t].self /\ call[u].other # call[t].self
    <3>1. call[t].self \in Held(t) BY <2>1, <2>2 DEF Held
    <3> QED BY <2>3, <2>4, <3>1 DEF LockInv, Owners
  <2>6. CASE TwoLocks(call[t].op)
    <3>1. call[t].other \in Held(t) BY <2>1, <2>2, <2>6 DEF Held
    <3>2. call[u].self # call[t].other /\ call[u].other # call[t].other
      BY <2>3, <2>4, <3>1 DEF LockInv, Owners
    <3>3. \E a, b : val' = [val EXCEPT ![call[t].self] = a, ![call[t].other] = b]
      BY <1>2, <2>6 DEF Act
    <3> QED BY <2>3, <2>5, <3>2, <3>3 DEF LockInv, Shape
  <2>7. CASE ~TwoLocks(call[t].op)
    <3>1. \E a : val' = [val EXCEPT ![call[t].self] = a]
      BY <1>2, <2>7 DEF Act
    <3> QED BY <2>3, <2>5, <3>1 DEF LockInv, Shape
  <2> QED BY <2>6, <2>7
<1> QED BY <1>1, <1>2

\* So what was tested stays true until the thread acts.
LEMMA TestedStep == LockInv /\ TestedStaysTrue /\ [Next]_vars => TestedStaysTrue'
<1> DEFINE Fresh(u) == seen[u] = <<val[call[u].self], val[call[u].other]>>
<1> SUFFICES ASSUME LockInv, TestedStaysTrue, [Next]_vars,
                    NEW u \in Thread, pc'[u] = "act",
                    LockOrder(call[u])' # <<>>
             PROVE  Fresh(u)'
  BY DEF TestedStaysTrue
<1>0. cls' = cls
  BY DEF Next, vars, Inside, Call, Locked, Blocked, Test, Act, Clear, Notify
<1>1. ASSUME NEW t \in Thread, Test(t) PROVE Fresh(u)'
  <2>1. CASE t = u BY <1>1, <2>1 DEF Test, LockInv, Shape
  <2>2. CASE t # u
    BY <1>0, <1>1, <2>2, LockOrderSame DEF Test, TestedStaysTrue, LockInv, Shape
  <2> QED BY <2>1, <2>2
<1>2. ASSUME NEW t \in Thread, Act(t) PROVE Fresh(u)'
  <2>1. t # u BY <1>2 DEF Act, LockInv, Shape, AfterUnlock
  <2>2. pc[u] = "act" /\ call' = call /\ seen'[u] = seen[u]
    BY <1>2, <2>1 DEF Act, LockInv, Shape
  <2>3. LockOrder(call[u]) # <<>> BY <1>0, <2>2, LockOrderSame
  <2>4. /\ val'[call[u].self] = val[call[u].self]
        /\ val'[call[u].other] = val[call[u].other]
    BY <1>2, <2>1, <2>2, <2>3, Writes
  <2> QED BY <2>2, <2>3, <2>4 DEF TestedStaysTrue
<1>3. ASSUME pc[u] = "act", call'[u] = call[u], seen' = seen, val' = val
      PROVE  Fresh(u)'
  <2>1. LockOrder(call[u]) # <<>> BY <1>0, <1>3, LockOrderSame
  <2> QED BY <1>3, <2>1 DEF TestedStaysTrue
<1>4. ASSUME NEW t \in Thread, NEW c \in Calls, Call(t, c) PROVE Fresh(u)'
  BY <1>3, <1>4 DEF Call, LockInv, Shape
<1>5. ASSUME NEW t \in Thread, Locked(t, Target(t)) PROVE Fresh(u)'
  BY <1>3, <1>5 DEF Locked, AfterLock, LockInv, Shape
<1>6. ASSUME NEW t \in Thread, Blocked(t, Target(t)) PROVE Fresh(u)'
  BY <1>3, <1>6 DEF Blocked, LockInv, Shape
<1>7. ASSUME NEW t \in Thread, Clear(t, Newest(t)) PROVE Fresh(u)'
  BY <1>3, <1>7 DEF Clear, AfterUnlock, LockInv, Shape
<1>8. ASSUME NEW t \in Thread, Notify(t, Target(t)) PROVE Fresh(u)'
  <2>1. \A w \in Thread : pc'[w] = pc[w] \/ pc'[w] \in {"lock", "ret", "unlock"}
    BY <1>8 DEF Notify, AfterUnlock, LockInv, Shape
  <2> QED BY <1>3, <1>8, <2>1 DEF Notify
<1>9. CASE UNCHANGED vars
  BY <1>3, <1>9 DEF vars
<1> QED BY <1>1, <1>2, <1>4, <1>5, <1>6, <1>7, <1>8, <1>9 DEF Next, Inside

\* Between its test of a pointer and its use of it no operation that locks
\* has the pointer changed under it, whatever the other threads call and
\* whichever objects they share: only the unlocked operator[] can.
THEOREM TestsHold == Spec => []TestedStaysTrue
<1>1. Init => TestedStaysTrue
  <2>1. Init => \A t \in Thread : pc[t] = "start" BY DEF Init
  <2> QED BY <2>1, Zenon DEF TestedStaysTrue
<1> QED BY <1>1, TestedStep, LockInvariance, PTL DEF Spec

-----------------------------------------------------------------------------
(* Deadlock.                                                               *)

\* A non-empty set of numbers up to n has a greatest.
LEMMA Greatest ==
    ASSUME NEW n \in Nat, NEW T, T \subseteq 0..n, T # {}
    PROVE  \E x \in T : \A y \in T : y <= x
<1> DEFINE U == {n - x : x \in T}
<1>1. U \subseteq Nat /\ U # {}
  <2>1. \A x \in T : x \in 0..n OBVIOUS
  <2>2. PICK x \in T : TRUE OBVIOUS
  <2>3. n - x \in U OBVIOUS
  <2>4. \A x1 \in T : n - x1 \in Nat BY <2>1
  <2> QED BY <2>3, <2>4
<1>2. PICK m \in U : \A k \in U : ~(<<k, m>> \in OpToRel(<, Nat))
  <2> HIDE DEF U
  <2> QED BY <1>1, WFMin, NatLessThanWellFounded
<1>3. \A k \in U : m <= k
  <2> SUFFICES ASSUME NEW k \in U, k < m PROVE FALSE BY <1>1
  <2>1. <<k, m>> \in Nat \X Nat BY <1>1
  <2> QED BY <1>2, <2>1 DEF OpToRel
<1>4. PICK x \in T : m = n - x OBVIOUS
<1>5. \A y \in T : y <= x BY <1>3, <1>4
<1> QED BY <1>5

\* If the arguments of the operations that lock two objects can be ordered,
\* the thread that waits for the greatest object waits for one that does not
\* wait: its holder, were it waiting, would wait for a greater one.
LEMMA NoCycleNoDeadlock == LockInv => DeadlockNeedsCycle
<1> SUFFICES ASSUME LockInv, NEW S \in SUBSET Thread, Deadlocked(S),
                    NEW rank \in [Obj -> 0..MaxRank],
                    \A t \in S : TwoLocks(call[t].op) =>
                                    rank[call[t].self] < rank[call[t].other]
             PROVE  FALSE
  BY DEF DeadlockNeedsCycle
<1>1. \A t \in S : /\ pc[t] \in {"lock", "wait"}
                   /\ \E u \in S : Holds(u, Target(t))
  BY DEF Deadlocked
<1>2. \A t \in S : Target(t) \in Obj
  <2> SUFFICES ASSUME NEW t \in S PROVE Target(t) \in Obj OBVIOUS
  <2>1. t \in Thread /\ pc[t] \in {"lock", "wait"} BY <1>1
  <2>2. Target(t) = IF held[t] = 0 THEN call[t].self ELSE call[t].other
    BY <2>1, Targets
  <2> QED BY <2>1, <2>2 DEF LockInv, Shape
<1> DEFINE T == {rank[Target(t)] : t \in S}
<1>3. T \subseteq 0..MaxRank /\ T # {}
  BY <1>2 DEF Deadlocked
<1>4. PICK x \in T : \A y \in T : y <= x
  <2> HIDE DEF T
  <2> QED BY <1>3, Greatest
<1>5. PICK t \in S : x = rank[Target(t)] OBVIOUS
<1>6. PICK u \in S : Target(t) \in Held(u)
  BY <1>1, <1>2, HoldsHeld DEF LockInv
<1>7. held[u] = 1 /\ Locks(u) = 2
  <2>1. held[u] \in 0..1 /\ held[u] < Locks(u) BY <1>1, Targets DEF LockInv, Count
  <2>2. Locks(u) \in 0..2 BY LockOrderForm DEF Locks
  <2> QED BY <1>6, <2>1, <2>2 DEF Held
<1>8. Target(t) = call[u].self BY <1>6, <1>7 DEF Held
<1>9. Target(u) = call[u].other BY <1>1, <1>7, Targets
<1>10. rank[call[u].self] < rank[call[u].other]
  BY <1>7, LockOrderForm DEF Locks
<1>11. rank[Target(u)] <= rank[Target(t)] BY <1>4, <1>5
<1> QED BY <1>2, <1>8, <1>9, <1>10, <1>11

\* The operations that hold two locks, any number of them on any number of
\* objects, deadlock only if no order of the objects puts the one each
\* operation locks first before the one it locks second (for > and <= of
\* String the right-hand side is the first).
THEOREM DeadlockOnlyByCycle == Spec => []DeadlockNeedsCycle
BY NoCycleNoDeadlock, LockInvariance, PTL
=============================================================================
