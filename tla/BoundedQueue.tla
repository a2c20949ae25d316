---------------------------- MODULE BoundedQueue ----------------------------
(***************************************************************************)
(* What a lock-free single-producer single-consumer queue promises to its  *)
(* two threads: values come out exactly once, in the order they went in,   *)
(* at most Capacity of them are in transit, and a value is refused only    *)
(* when Capacity of them are.  SpscRing implements this specification.     *)
(***************************************************************************)
EXTENDS Naturals, Sequences

CONSTANTS Value,      \* what a slot can hold
          Capacity    \* values in transit at most

VARIABLES accepted,   \* every value a push took, in order
          taken,      \* every value a pop returned, in order
          refused     \* how many pushes returned false

vars == <<accepted, taken, refused>>

InTransit == Len(accepted) - Len(taken)

Init == accepted = <<>> /\ taken = <<>> /\ refused = 0

Put(v) ==
    /\ InTransit < Capacity
    /\ accepted' = Append(accepted, v)
    /\ UNCHANGED <<taken, refused>>

Refuse ==
    /\ InTransit = Capacity
    /\ refused' = refused + 1
    /\ UNCHANGED <<accepted, taken>>

Take ==
    /\ InTransit > 0
    /\ taken' = Append(taken, accepted[Len(taken) + 1])
    /\ UNCHANGED <<accepted, refused>>

Next == (\E v \in Value : Put(v)) \/ Refuse \/ Take

Spec == Init /\ [][Next]_vars
=============================================================================
