------------------------------ MODULE DequeOps ------------------------------
(***************************************************************************)
(* What the operations of ts_deque (src/include/Types.h) do to the deque   *)
(* and return, one at a time.  An outcome says whether the call returned   *)
(* or threw out_of_range, which element it returned (as a sequence of at   *)
(* most one) and the size; empty() returns whether the size is 0.          *)
(***************************************************************************)
EXTENDS Integers, Sequences

CONSTANTS Value, NoValue

ASSUME NoValueAssumption == NoValue \notin Value

Request ==
    [op: {"push_back", "push_front"}, arg: Value] \cup
    [op: {"get_pop_front", "size", "empty", "clear"}, arg: {NoValue}]

\* What stands for the request of a thread that is not in a call.
NoRequest == [op |-> "size", arg |-> NoValue]

Outcome == [how: {"returned", "out_of_range"}, elem: Seq(Value), size: Nat]

OutcomeOf(how, elem, size) == [how |-> how, elem |-> elem, size |-> size]

Returned(elem, size) == OutcomeOf("returned", elem, size)

NoOutcome == Returned(<<>>, 0)

OutOfRange == OutcomeOf("out_of_range", <<>>, 0)

Effect(q, r) ==
    CASE r.op = "push_back"     -> Append(q, r.arg)
      [] r.op = "push_front"    -> <<r.arg>> \o q
      [] r.op = "get_pop_front" -> IF q = <<>> THEN q ELSE Tail(q)
      [] r.op = "clear"         -> <<>>
      [] r.op \in {"size", "empty"} -> q

Result(q, r) ==
    CASE r.op = "get_pop_front" ->
            IF q = <<>> THEN OutOfRange ELSE Returned(<<Head(q)>>, 0)
      [] r.op \in {"size", "empty"} -> Returned(<<>>, Len(q))
      [] r.op \in {"push_back", "push_front", "clear"} -> NoOutcome
=============================================================================
