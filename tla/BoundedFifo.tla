----------------------------- MODULE BoundedFifo -----------------------------
(***************************************************************************)
(* What SpscQueue promises: a FIFO of at most Capacity values, each step   *)
(* of which appears to happen at once.  arg is the value the producer is   *)
(* pushing, out the value the consumer last received.  An operation may    *)
(* also fail, which changes nothing.                                       *)
(***************************************************************************)
EXTENDS Integers, Sequences

CONSTANTS Values, Capacity

VARIABLES q, arg, out

Init ==
    /\ q = <<>>
    /\ arg \in Values
    /\ out \in Values

\* The producer has a new value to push.
Offer(v) == arg' = v /\ UNCHANGED <<q, out>>

Push ==
    /\ Len(q) < Capacity
    /\ q' = Append(q, arg)
    /\ UNCHANGED <<arg, out>>

Pop ==
    /\ q # <<>>
    /\ out' = Head(q)
    /\ q' = Tail(q)
    /\ UNCHANGED arg

Next == (\E v \in Values : Offer(v)) \/ Push \/ Pop

Spec == Init /\ [][Next]_<<q, arg, out>>
=============================================================================
