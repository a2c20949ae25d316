----------------------------- MODULE Throttler -----------------------------
(***************************************************************************)
(* bist::domain::Throttler (include/bist/domain/throttler.hpp): the local  *)
(* order budget.  Ten slots count the orders of the last ten windows of    *)
(* 100 ms; a slot is reused for the window ten later, and it is emptied    *)
(* only when an order arrives in that window.                              *)
(***************************************************************************)
EXTENDS Integers

CONSTANTS
    Capacity, TokensPerSec,   \* the two arguments of the constructor
    Resolution,   \* clock ticks in a window (kWindowNs = 100 000 000 in the code)
    MaxWindow,    \* bound of the model: our windows are 0 .. MaxWindow
    MaxRefusal,   \* bound of the model: calls of try_acquire refused
    MaxReset      \* bound of the model: calls of reset()

ASSUME ThrottlerAssumption ==
    /\ Capacity \in Nat /\ TokensPerSec \in Nat
    /\ Resolution \in Nat \ {0}
    /\ MaxWindow \in Nat /\ MaxRefusal \in Nat /\ MaxReset \in Nat

VARIABLES
    slots,        \* slots_
    clock,        \* the monotonic clock, in ticks
    admitted,     \* history: orders admitted per window since the last reset
    refused,      \* history: calls of try_acquire that returned false
    resets        \* history: calls of reset()

vars == <<slots, clock, admitted, refused, resets>>

-----------------------------------------------------------------------------
Limit ==                                             \* limit_
    IF TokensPerSec = 0 THEN 0
    ELSE IF Capacity < TokensPerSec THEN Capacity ELSE TokensPerSec

Window(t) == t \div Resolution                       \* window_id(now_ns)

NoWindow == MaxWindow + 1      \* kNoWindow: the largest value, never reached

EmptySlot == [window |-> NoWindow, count |-> 0]

now == Window(clock)

\* The budget this module implements sees windows where the code sees a clock.
Budget == INSTANCE RollingBudget WITH Limit <- Limit, MaxWindow <- MaxWindow, now <- now,
                                      admitted <- admitted, refused <- refused, resets <- resets

Init ==
    /\ slots = [s \in 0 .. 9 |-> EmptySlot]
    /\ clock \in 0 .. (MaxWindow + 1) * Resolution - 1
    /\ admitted = Budget!NoOrders
    /\ refused = 0 /\ resets = 0

-----------------------------------------------------------------------------
\* Faulty forms of the definitions below, for the mutation checks.
RecycledLate(sl) == sl                       \* the slot keeps its old count

CountedNineWindows(sl, s) ==
    IF sl[s].window <= now /\ now - sl[s].window < 9 THEN sl[s].count ELSE 0

CountedElevenWindows(sl, s) ==               \* > for >=
    IF sl[s].window <= now /\ now - sl[s].window <= 10 THEN sl[s].count ELSE 0

CountedForever(sl, s) == sl[s].count         \* expired windows are counted

-----------------------------------------------------------------------------
\* The slot of the current window, emptied if it still holds an earlier one.
Recycled(sl) ==
    IF sl[now % 10].window = now THEN sl
    ELSE [sl EXCEPT ![now % 10] = [window |-> now, count |-> 0]]

\* What slot s adds to used_in_rolling_second(now)
Counted(sl, s) ==
    IF sl[s].window <= now /\ now - sl[s].window < 10 THEN sl[s].count ELSE 0

\* used_in_rolling_second(now)
Used(sl) ==
    Counted(sl, 0) + Counted(sl, 1) + Counted(sl, 2) + Counted(sl, 3)
    + Counted(sl, 4) + Counted(sl, 5) + Counted(sl, 6) + Counted(sl, 7)
    + Counted(sl, 8) + Counted(sl, 9)

\* available(): it does not recycle the slot.
Available == IF Used(slots) >= Limit THEN 0 ELSE Limit - Used(slots)

-----------------------------------------------------------------------------
\* try_acquire() returns true.
TryAcquireAdmit ==
    /\ Limit > 0
    /\ LET sl == Recycled(slots) IN
          /\ Used(sl) < Limit
          /\ slots' = [sl EXCEPT ![now % 10] =
                          [window |-> now, count |-> sl[now % 10].count + 1]]
    /\ admitted' = [admitted EXCEPT ![now] = @ + 1]
    /\ UNCHANGED <<clock, refused, resets>>

\* try_acquire() returns false, before it looks at the slots or after.
TryAcquireRefuse ==
    /\ refused < MaxRefusal
    /\ \/ Limit = 0 /\ UNCHANGED slots
       \/ /\ Limit > 0
          /\ Used(Recycled(slots)) >= Limit
          /\ slots' = Recycled(slots)
    /\ refused' = refused + 1
    /\ UNCHANGED <<clock, admitted, resets>>

\* reset()
Reset ==
    /\ resets < MaxReset
    /\ slots' = [s \in 0 .. 9 |-> EmptySlot]
    /\ admitted' = Budget!NoOrders
    /\ resets' = resets + 1
    /\ UNCHANGED <<clock, refused>>

\* Time passes between two calls.
Tick ==
    /\ Window(clock + 1) <= MaxWindow
    /\ clock' = clock + 1
    /\ UNCHANGED <<slots, admitted, refused, resets>>

Next == TryAcquireAdmit \/ TryAcquireRefuse \/ Reset \/ Tick

Spec == Init /\ [][Next]_vars

-----------------------------------------------------------------------------
\* No ten consecutive windows up to the current one ever admitted more than
\* the limit, although the slots forget (throttler.hpp:28-39).
RollingBound ==
    \A w \in 0 .. now : Budget!Second(admitted, w) <= Limit

\* available() tells what the next calls of try_acquire will do: it reads the
\* slots without recycling the current one (throttler.hpp:47-52).
AvailableIsExact == Available = Limit - Budget!Second(admitted, now)

\* The ten slots admit and refuse exactly the orders that the budget, told
\* from the whole history, admits and refuses.
ImplementsBudget == Budget!Spec

-----------------------------------------------------------------------------
(* The inductive invariant behind RollingBound and ImplementsBudget *)

Slots == [0 .. 9 -> [window : 0 .. NoWindow, count : Nat]]

TypeOK ==
    /\ slots \in Slots
    /\ clock \in Nat /\ now \in 0 .. MaxWindow
    /\ admitted \in [0 .. MaxWindow -> Nat]
    /\ refused \in Nat /\ resets \in Nat

\* A slot holds the count of a window that has begun and that maps to it.
SlotsFit(sl) ==
    \A s \in 0 .. 9 :
        sl[s].window # NoWindow =>
            /\ sl[s].window <= now
            /\ sl[s].window % 10 = s
            /\ sl[s].count = admitted[sl[s].window]

\* The orders of the last ten windows are in a slot.
SlotsHold(sl) ==
    \A w \in 0 .. MaxWindow :
        admitted[w] # 0 /\ now - w < 10 => sl[w % 10].window = w

NoFutureOrder == \A w \in 0 .. MaxWindow : admitted[w] # 0 => w <= now

SlotsInv == SlotsFit(slots) /\ SlotsHold(slots) /\ NoFutureOrder

ThrottlerInv == TypeOK /\ SlotsInv /\ RollingBound
=============================================================================
