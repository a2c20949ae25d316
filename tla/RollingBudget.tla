--------------------------- MODULE RollingBudget ---------------------------
(***************************************************************************)
(* The order budget of BIST as domain/throttler.hpp:5-7 states it: an      *)
(* order fits when the current 100 ms window and the nine before it hold   *)
(* fewer than Limit orders.  It is told from the whole history of admitted *)
(* orders; Throttler implements it with ten counters.                      *)
(***************************************************************************)
EXTENDS Integers

CONSTANTS Limit,      \* orders per ten windows
          MaxWindow   \* bound of the model: windows are 0 .. MaxWindow

VARIABLES now,        \* the current window
          admitted,   \* how many orders each window admitted
          refused,    \* how many orders were refused
          resets      \* how many times the budget was reset

vars == <<now, admitted, refused, resets>>

In(h, w) == IF w >= 0 THEN h[w] ELSE 0

\* The orders of the ten windows that end with w
Second(h, w) ==
    In(h, w) + In(h, w - 1) + In(h, w - 2) + In(h, w - 3) + In(h, w - 4)
    + In(h, w - 5) + In(h, w - 6) + In(h, w - 7) + In(h, w - 8) + In(h, w - 9)

NoOrders == [w \in 0 .. MaxWindow |-> 0]

Init ==
    /\ now \in 0 .. MaxWindow
    /\ admitted = NoOrders
    /\ refused = 0 /\ resets = 0

Admit ==
    /\ Second(admitted, now) < Limit
    /\ admitted' = [admitted EXCEPT ![now] = @ + 1]
    /\ UNCHANGED <<now, refused, resets>>

Refuse ==
    /\ Second(admitted, now) >= Limit
    /\ refused' = refused + 1
    /\ UNCHANGED <<now, admitted, resets>>

Advance ==
    /\ now' \in now .. MaxWindow
    /\ UNCHANGED <<admitted, refused, resets>>

Reset ==
    /\ admitted' = NoOrders
    /\ resets' = resets + 1
    /\ UNCHANGED <<now, refused>>

Next == Admit \/ Refuse \/ Advance \/ Reset

Spec == Init /\ [][Next]_vars
=============================================================================
