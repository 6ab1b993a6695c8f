----------------------------- MODULE Containers -----------------------------
(***************************************************************************)
(* The containers of src/include/Types.h that guard a value with a flag of *)
(* their own: String, Vector, Deque (a pointer that may be null, SpinlockA *)
(* of src/include/Threading.h), ThreadSafeVar and the swap of ts_deque (a  *)
(* spinning lock).  Threads call them on shared objects, with two of the   *)
(* objects as arguments where the operation takes two.                     *)
(*                                                                         *)
(* A value is Null (the pointer is null) or a number: the length of the    *)
(* string or container, or the value of a ThreadSafeVar.  Every operation  *)
(* tests the pointers and acts on them in two steps, so that only the      *)
(* locks keep the test true.                                               *)
(***************************************************************************)
EXTENDS Integers, Sequences

CONSTANTS Thread, Obj,
          Classes,     \* the class of the objects is one of these
          Null,
          MaxLen,      \* bound: the initial values
          VarMod,      \* the values of a ThreadSafeVar are modulo this
          MaxRank,     \* the objects are ordered by numbers up to this
          Can          \* which operations each thread may call, one of these

ASSUME ContainerAssumption ==
    /\ Classes \subseteq {"String", "Vector", "Deque", "ts_deque",
                          "ThreadSafeVar"}
    /\ Null \notin Nat
    /\ MaxLen \in Nat
    /\ VarMod \in Nat \ {0}
    /\ MaxRank \in Nat

VARIABLES
    cls,      \* the class of the objects
    can,      \* each thread: the operations it may call
    flag,     \* each object: its atomic_flag is set
    val,      \* each object: its value
    pc,       \* each thread: the statement it is at
    call,     \* each thread: the operation it is in and its two arguments
    held,     \* each thread: how many locks it holds
    seen      \* each thread: the values it has tested

vars == <<cls, can, flag, val, pc, call, held, seen>>

-----------------------------------------------------------------------------
(* What the operations leave in this (own) and in the argument (other).    *)

\* The size of what a pointer points to, 0 if it is null.
Size(p) == IF p = Null THEN 0 ELSE p

StringEffect(op, own, other) ==
    CASE op = "assign" -> <<other, other>>
      [] op = "move"   -> <<other, Null>>
      [] op = "append" -> <<IF other = Null THEN own ELSE Size(own) + other, other>>
      [] op = "add"    -> <<Size(own) + 1, other>>
      [] op = "reset"  -> <<Null, other>>
      [] op \in {"compare", "read", "index"} -> <<own, other>>

VectorEffect(op, own, other) ==
    CASE op = "assign"    -> <<other, other>>
      [] op = "move"      -> <<other, Null>>
      [] op = "swap"      -> IF own = Null /\ other = Null THEN <<Null, Null>>
                             ELSE <<Size(other), Size(own)>>
      [] op = "push_back" -> <<Size(own) + 1, other>>
      [] op = "begin"     -> <<Size(own), other>>
      [] op = "clear"     -> <<Null, other>>
      [] op = "exchange"  -> <<1, other>>
      [] op \in {"read", "index"} -> <<own, other>>

\* Deque repeats the text of Vector with std::deque.
DequeEffect(op, own, other) == VectorEffect(op, own, other)

TsDequeEffect(own, other) == <<other, own>>

VarEffect(op, own, other) ==
    CASE op = "Get"       -> <<own, other>>
      [] op = "Set"       -> <<0, other>>
      [] op = "Increment" -> <<(own + 1) % VarMod, other>>
      [] op = "Decrement" -> <<(own - 1) % VarMod, other>>

Effect(op, own, other) ==
    CASE cls = "String"        -> StringEffect(op, own, other)
      [] cls = "Vector"        -> VectorEffect(op, own, other)
      [] cls = "Deque"         -> DequeEffect(op, own, other)
      [] cls = "ts_deque"      -> TsDequeEffect(own, other)
      [] cls = "ThreadSafeVar" -> VarEffect(op, own, other)

\* compare stands for <, >=, == and !=, greater for > and <=; read for what
\* only looks (size, empty, c_str, data, shrink_to_fit, conversion); clear for reset
\* and the destructor; begin for end and reserve; exchange is the swap with
\* a std::vector or std::deque of one element that the caller owns.
Ops ==
    CASE cls = "String"               -> {"assign", "move", "append", "add",
                                          "compare", "greater", "reset", "read",
                                          "index"}
      [] cls \in {"Vector", "Deque"}  -> {"assign", "move", "swap", "push_back",
                                          "begin", "clear", "exchange", "read",
                                          "index"}
      [] cls = "ts_deque"             -> {"swap"}
      [] cls = "ThreadSafeVar"        -> {"Get", "Set", "Increment", "Decrement"}

\* SpinlockA waits on the flag; the other classes spin.
Waits == cls \in {"String", "Vector", "Deque"}

-----------------------------------------------------------------------------
(* Plausible mistakes; no action uses these.                               *)

\* LockOrder: move takes its argument to be private.
LockOrderMoveOne(c) ==
    IF c.op \in {"assign", "append", "compare", "swap"}
    THEN <<c.self, c.other>> ELSE <<c.self>>

\* LockOrder: swap locks its argument first.
LockOrderSwapped(c) ==
    CASE c.op = "index" /\ cls \in {"Vector", "Deque"} -> <<>>
      [] c.op = "swap" -> <<c.other, c.self>>
      [] c.op \in {"assign", "move", "append", "compare"} -> <<c.self, c.other>>
      [] OTHER -> <<c.self>>

\* Locked: the old value of the flag is not looked at.
LockedUntested(t, o) ==
    /\ pc[t] = "lock"
    /\ flag' = [flag EXCEPT ![o] = TRUE]
    /\ held' = [held EXCEPT ![t] = @ + 1]
    /\ pc' = [pc EXCEPT ![t] = IF held[t] = 0 /\ call[t].self # call[t].other
                               THEN "lock" ELSE "test"]
    /\ UNCHANGED <<cls, can, val, call, seen>>

\* Notify: nobody is woken.
NotifyNobody(t, o) ==
    /\ pc[t] = "notify"
    /\ pc' = [pc EXCEPT ![t] = IF held[t] = 0 THEN "ret" ELSE "unlock"]
    /\ UNCHANGED <<cls, can, flag, val, call, held, seen>>

-----------------------------------------------------------------------------
\* The operations that lock the argument too.
TwoLocks(op) == op \in {"assign", "move", "append", "compare", "greater", "swap"}

\* The flags an operation sets, in order.  operator[] of Vector and Deque
\* sets none; that of String does.
LockOrder(c) ==
    IF c.op = "index" /\ cls \in {"Vector", "Deque"} THEN <<>>
    ELSE IF TwoLocks(c.op) THEN <<c.self, c.other>> ELSE <<c.self>>

\* a > b is b < a, and a <= b is !(a > b): the object called is the argument
\* of the operation that takes the locks.
Executed(c) ==
    IF c.op = "greater" THEN [op |-> "compare", self |-> c.other, other |-> c.self] ELSE c

NoCall == [op |-> "none", self |-> Null, other |-> Null]

Init ==
    /\ cls \in Classes
    /\ can \in Can
    /\ flag = [o \in Obj |-> FALSE]
    /\ val \in [Obj -> IF Waits THEN (0..MaxLen) \cup {Null}
                       ELSE {n \in 0..MaxLen : cls = "ThreadSafeVar" => n < VarMod}]
    /\ pc = [t \in Thread |-> "start"]
    /\ call = [t \in Thread |-> NoCall]
    /\ held = [t \in Thread |-> 0]
    /\ seen = [t \in Thread |-> <<Null, Null>>]

\* What a thread does once it holds n of its locks, and once it holds n less.
AfterLock(t, n) == IF n < Len(LockOrder(call[t])) THEN "lock" ELSE "test"
AfterUnlock(n) == IF n = 0 THEN "ret" ELSE "unlock"

\* The flag a thread is about to set, or has just cleared; the last it set.
Target(t) == LockOrder(call[t])[held[t] + 1]
Newest(t) == LockOrder(call[t])[held[t]]

\* A thread calls an operation, on any two objects or twice the same.
Call(t, c) ==
    /\ pc[t] = "start"
    /\ c.op \in Ops \cap can[t]
    /\ ~TwoLocks(c.op) => c.self = c.other
    /\ call' = [call EXCEPT ![t] = Executed(c)]
    /\ pc' = [pc EXCEPT ![t] = IF LockOrder(Executed(c)) = <<>> THEN "test" ELSE "lock"]
    /\ UNCHANGED <<cls, can, flag, val, held, seen>>

\* test_and_set finds the flag clear.
Locked(t, o) ==
    /\ pc[t] = "lock"
    /\ ~flag[o]
    /\ flag' = [flag EXCEPT ![o] = TRUE]
    /\ held' = [held EXCEPT ![t] = @ + 1]
    /\ pc' = [pc EXCEPT ![t] = AfterLock(t, held[t] + 1)]
    /\ UNCHANGED <<cls, can, val, call, seen>>

\* test_and_set finds it set, and it still is when wait(true) looks.
Blocked(t, o) ==
    /\ pc[t] = "lock"
    /\ Waits
    /\ flag[o]
    /\ pc' = [pc EXCEPT ![t] = "wait"]
    /\ UNCHANGED <<cls, can, flag, val, call, held, seen>>

\* if (_str), if (other._str)
Test(t) ==
    /\ pc[t] = "test"
    /\ seen' = [seen EXCEPT ![t] = <<val[call[t].self], val[call[t].other]>>]
    /\ pc' = [pc EXCEPT ![t] = "act"]
    /\ UNCHANGED <<cls, can, flag, val, call, held>>

\* The rest of the body; guards are destroyed on return and on a throw.
Act(t) ==
    /\ pc[t] = "act"
    /\ LET c == call[t]
           e == Effect(c.op, seen[t][1], seen[t][2])
       IN  val' = IF c.op = "index" THEN val
                  ELSE IF TwoLocks(c.op)
                  THEN [val EXCEPT ![c.self] = e[1], ![c.other] = e[2]]
                  ELSE [val EXCEPT ![c.self] = e[1]]
    /\ pc' = [pc EXCEPT ![t] = AfterUnlock(held[t])]
    /\ seen' = [seen EXCEPT ![t] = <<Null, Null>>]
    /\ UNCHANGED <<cls, can, flag, call, held>>

\* clear()
Clear(t, o) ==
    /\ pc[t] = "unlock"
    /\ flag' = [flag EXCEPT ![o] = FALSE]
    /\ held' = [held EXCEPT ![t] = @ - 1]
    /\ pc' = [pc EXCEPT ![t] = IF Waits THEN "notify" ELSE AfterUnlock(held[t] - 1)]
    /\ UNCHANGED <<cls, can, val, call, seen>>

\* notify_one() wakes one of the threads that wait for the flag.
Notify(t, o) ==
    /\ pc[t] = "notify"
    /\ LET W == {u \in Thread : pc[u] = "wait" /\ Target(u) = o}
           n == AfterUnlock(held[t])
       IN  \/ W = {} /\ pc' = [pc EXCEPT ![t] = n]
           \/ \E u \in W : pc' = [pc EXCEPT ![t] = n, ![u] = "lock"]
    /\ UNCHANGED <<cls, can, flag, val, call, held, seen>>

Inside(t) ==
    \/ Locked(t, Target(t)) \/ Blocked(t, Target(t))
    \/ Test(t) \/ Act(t)
    \/ Clear(t, Newest(t)) \/ Notify(t, Target(t))

Calls == [op: Ops, self: Obj, other: Obj]

Finished == \A t \in Thread : pc[t] = "ret"

Next ==
    \/ \E t \in Thread : (\E c \in Calls : Call(t, c)) \/ Inside(t)
    \/ Finished /\ UNCHANGED vars

Spec == Init /\ [][Next]_vars

\* A thread inside a call goes on; none needs to call.
FairSpec == Spec /\ \A t \in Thread : WF_vars(Inside(t))

-----------------------------------------------------------------------------
Holds(t, o) == \E i \in 1..held[t] : LockOrder(call[t])[i] = o

TypeOK ==
    /\ cls \in Classes
    /\ can \in Can
    /\ flag \in [Obj -> BOOLEAN]
    /\ val \in [Obj -> Nat \cup {Null}]
    /\ pc \in [Thread -> {"start", "lock", "wait", "test", "act", "unlock",
                          "notify", "ret"}]
    /\ call \in [Thread -> Calls \cup {NoCall}]
    /\ held \in [Thread -> 0..2]
    /\ seen \in [Thread -> (Nat \cup {Null}) \X (Nat \cup {Null})]

\* A flag is set exactly while a thread holds it, and then one thread does,
\* with one or two locks per operation and on every way out of it.
Exclusive ==
    /\ \A o \in Obj : flag[o] <=> \E t \in Thread : Holds(t, o)
    /\ \A t, u \in Thread, o \in Obj : Holds(t, o) /\ Holds(u, o) => t = u

\* A pointer that an operation has tested, its own or its argument's, is as
\* it was when the operation uses it, so that no update is lost and nothing
\* freed is touched; only operator[] of Vector and Deque, which takes no
\* lock, may use a pointer that another thread has freed or replaced.
TestedStaysTrue ==
    \A t \in Thread :
        pc[t] = "act" =>
            \/ seen[t] = <<val[call[t].self], val[call[t].other]>>
            \/ LockOrder(call[t]) = <<>>

\* S waits for itself: each of its threads for a flag that one of them holds.
Deadlocked(S) ==
    /\ S # {}
    /\ \A t \in S : /\ pc[t] \in {"lock", "wait"}
                    /\ \E u \in S : Holds(u, Target(t))

\* The operations that hold two locks deadlock only when their arguments, in
\* the order in which the operations lock them, cannot be ordered: an object
\* with itself (the test for self-assignment comes after both locks), or two
\* objects both ways round.  For > and <= of String that is the right-hand
\* side first, so a < b and a > b in two threads do deadlock.
DeadlockNeedsCycle ==
    \A S \in SUBSET Thread :
        Deadlocked(S) =>
            ~ \E rank \in [Obj -> 0..MaxRank] :
                \A t \in S : TwoLocks(call[t].op) =>
                                rank[call[t].self] < rank[call[t].other]

\* No wake-up is lost between clear() and notify_one(): every call returns,
\* unless there is a deadlock.
CallsReturn ==
    \A t \in Thread :
        pc[t] # "start" ~> pc[t] = "ret" \/ \E S \in SUBSET Thread : Deadlocked(S)
=============================================================================
