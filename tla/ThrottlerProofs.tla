-------------------------- MODULE ThrottlerProofs --------------------------
(***************************************************************************)
(* The ten slots of Throttler count exactly the orders of the last ten     *)
(* windows, whatever the limit, the clock and the orders.                  *)
(***************************************************************************)
EXTENDS Throttler, TLAPS

\* The limit is a number of orders.
LEMMA LimitType == Limit \in Nat
BY ThrottlerAssumption DEF Limit

\* Two windows of the same residue less than ten apart are one window.
LEMMA SameWindow ==
  ASSUME NEW v \in Int, NEW w \in Int, v % 10 = w % 10, v - w < 10, w - v < 10
  PROVE  v = w
OBVIOUS

\* The slot of a window of the last ten adds that window's orders to the sum.
LEMMA CountedIsHistory ==
  ASSUME NEW sl \in Slots, TypeOK, SlotsFit(sl), SlotsHold(sl),
         NEW w \in Int, w <= now, now - w < 10
  PROVE  Counted(sl, w % 10) = Budget!In(admitted, w)
<1> DEFINE s == w % 10
<1>1. s \in 0 .. 9 /\ now \in 0 .. MaxWindow /\ MaxWindow \in Nat /\ NoWindow = MaxWindow + 1
  BY ThrottlerAssumption DEF TypeOK, NoWindow
<1>2. sl[s].window \in 0 .. NoWindow /\ sl[s].count \in Nat
  BY <1>1 DEF Slots
<1>3. admitted \in [0 .. MaxWindow -> Nat]
  BY DEF TypeOK
<1>4. CASE sl[s].window = w
  <2>1. w >= 0 /\ w # NoWindow
    BY <1>1, <1>2, <1>4
  <2>2. sl[s].count = admitted[w]
    BY <1>1, <1>4, <2>1 DEF SlotsFit
  <2> QED
    BY <1>4, <2>1, <2>2 DEF Counted, Budget!In
<1>5. CASE sl[s].window # w
  <2>1. Counted(sl, s) = 0
    <3>1. CASE sl[s].window <= now /\ now - sl[s].window < 10
      <4>1. sl[s].window # NoWindow
        BY <1>1, <1>2, <3>1
      <4>2. sl[s].window % 10 = w % 10
        BY <1>1, <4>1 DEF SlotsFit
      <4>3. sl[s].window - w < 10 /\ w - sl[s].window < 10
        BY <1>1, <1>2, <3>1
      <4> QED
        BY <1>1, <1>2, <1>5, <4>2, <4>3, SameWindow
    <3>2. CASE ~(sl[s].window <= now /\ now - sl[s].window < 10)
      BY <3>2 DEF Counted
    <3> QED
      BY <3>1, <3>2
  <2>2. Budget!In(admitted, w) = 0
    <3>1. CASE w >= 0
      <4>1. w \in 0 .. MaxWindow
        BY <1>1, <3>1
      <4>2. admitted[w] = 0
        BY <1>3, <1>5, <4>1 DEF SlotsHold
      <4> QED
        BY <3>1, <4>2 DEF Budget!In
    <3>2. CASE ~(w >= 0)
      BY <3>2 DEF Budget!In
    <3> QED
      BY <3>1, <3>2
  <2> QED
    BY <2>1, <2>2
<1> QED
  BY <1>4, <1>5

\* The ten slots add up to the orders of the last ten windows: each residue of
\* the current window is a rotation of the slots.
LEMMA UsedIsSecond ==
  ASSUME NEW sl \in Slots, TypeOK, SlotsFit(sl), SlotsHold(sl)
  PROVE  Used(sl) = Budget!Second(admitted, now)
<1>1. now \in Nat
  BY ThrottlerAssumption DEF TypeOK
<1>2. /\ Counted(sl, now % 10) = Budget!In(admitted, now)
      /\ Counted(sl, (now - 1) % 10) = Budget!In(admitted, now - 1)
      /\ Counted(sl, (now - 2) % 10) = Budget!In(admitted, now - 2)
      /\ Counted(sl, (now - 3) % 10) = Budget!In(admitted, now - 3)
      /\ Counted(sl, (now - 4) % 10) = Budget!In(admitted, now - 4)
      /\ Counted(sl, (now - 5) % 10) = Budget!In(admitted, now - 5)
      /\ Counted(sl, (now - 6) % 10) = Budget!In(admitted, now - 6)
      /\ Counted(sl, (now - 7) % 10) = Budget!In(admitted, now - 7)
      /\ Counted(sl, (now - 8) % 10) = Budget!In(admitted, now - 8)
      /\ Counted(sl, (now - 9) % 10) = Budget!In(admitted, now - 9)
  <2>1. \A w \in now - 9 .. now : Counted(sl, w % 10) = Budget!In(admitted, w)
    BY <1>1, CountedIsHistory
  <2> QED
    BY <1>1, <2>1
<1>3. \A s \in 0 .. 9 : Counted(sl, s) \in Nat
  BY DEF Counted, Slots
<1>4. /\ Counted(sl, 0) \in Nat /\ Counted(sl, 1) \in Nat /\ Counted(sl, 2) \in Nat
      /\ Counted(sl, 3) \in Nat /\ Counted(sl, 4) \in Nat /\ Counted(sl, 5) \in Nat
      /\ Counted(sl, 6) \in Nat /\ Counted(sl, 7) \in Nat /\ Counted(sl, 8) \in Nat
      /\ Counted(sl, 9) \in Nat
  BY <1>3
<1>11. CASE now % 10 = 0
  <2>1. /\ (now - 1) % 10 = 9 /\ (now - 2) % 10 = 8 /\ (now - 3) % 10 = 7
        /\ (now - 4) % 10 = 6 /\ (now - 5) % 10 = 5 /\ (now - 6) % 10 = 4
        /\ (now - 7) % 10 = 3 /\ (now - 8) % 10 = 2 /\ (now - 9) % 10 = 1
    BY <1>11, <1>1
  <2> QED
    BY <1>2, <1>4, <1>11, <2>1 DEF Used, Budget!Second
<1>12. CASE now % 10 = 1
  <2>1. /\ (now - 1) % 10 = 0 /\ (now - 2) % 10 = 9 /\ (now - 3) % 10 = 8
        /\ (now - 4) % 10 = 7 /\ (now - 5) % 10 = 6 /\ (now - 6) % 10 = 5
        /\ (now - 7) % 10 = 4 /\ (now - 8) % 10 = 3 /\ (now - 9) % 10 = 2
    BY <1>12, <1>1
  <2> QED
    BY <1>2, <1>4, <1>12, <2>1 DEF Used, Budget!Second
<1>13. CASE now % 10 = 2
  <2>1. /\ (now - 1) % 10 = 1 /\ (now - 2) % 10 = 0 /\ (now - 3) % 10 = 9
        /\ (now - 4) % 10 = 8 /\ (now - 5) % 10 = 7 /\ (now - 6) % 10 = 6
        /\ (now - 7) % 10 = 5 /\ (now - 8) % 10 = 4 /\ (now - 9) % 10 = 3
    BY <1>13, <1>1
  <2> QED
    BY <1>2, <1>4, <1>13, <2>1 DEF Used, Budget!Second
<1>14. CASE now % 10 = 3
  <2>1. /\ (now - 1) % 10 = 2 /\ (now - 2) % 10 = 1 /\ (now - 3) % 10 = 0
        /\ (now - 4) % 10 = 9 /\ (now - 5) % 10 = 8 /\ (now - 6) % 10 = 7
        /\ (now - 7) % 10 = 6 /\ (now - 8) % 10 = 5 /\ (now - 9) % 10 = 4
    BY <1>14, <1>1
  <2> QED
    BY <1>2, <1>4, <1>14, <2>1 DEF Used, Budget!Second
<1>15. CASE now % 10 = 4
  <2>1. /\ (now - 1) % 10 = 3 /\ (now - 2) % 10 = 2 /\ (now - 3) % 10 = 1
        /\ (now - 4) % 10 = 0 /\ (now - 5) % 10 = 9 /\ (now - 6) % 10 = 8
        /\ (now - 7) % 10 = 7 /\ (now - 8) % 10 = 6 /\ (now - 9) % 10 = 5
    BY <1>15, <1>1
  <2> QED
    BY <1>2, <1>4, <1>15, <2>1 DEF Used, Budget!Second
<1>16. CASE now % 10 = 5
  <2>1. /\ (now - 1) % 10 = 4 /\ (now - 2) % 10 = 3 /\ (now - 3) % 10 = 2
        /\ (now - 4) % 10 = 1 /\ (now - 5) % 10 = 0 /\ (now - 6) % 10 = 9
        /\ (now - 7) % 10 = 8 /\ (now - 8) % 10 = 7 /\ (now - 9) % 10 = 6
    BY <1>16, <1>1
  <2> QED
    BY <1>2, <1>4, <1>16, <2>1 DEF Used, Budget!Second
<1>17. CASE now % 10 = 6
  <2>1. /\ (now - 1) % 10 = 5 /\ (now - 2) % 10 = 4 /\ (now - 3) % 10 = 3
        /\ (now - 4) % 10 = 2 /\ (now - 5) % 10 = 1 /\ (now - 6) % 10 = 0
        /\ (now - 7) % 10 = 9 /\ (now - 8) % 10 = 8 /\ (now - 9) % 10 = 7
    BY <1>17, <1>1
  <2> QED
    BY <1>2, <1>4, <1>17, <2>1 DEF Used, Budget!Second
<1>18. CASE now % 10 = 7
  <2>1. /\ (now - 1) % 10 = 6 /\ (now - 2) % 10 = 5 /\ (now - 3) % 10 = 4
        /\ (now - 4) % 10 = 3 /\ (now - 5) % 10 = 2 /\ (now - 6) % 10 = 1
        /\ (now - 7) % 10 = 0 /\ (now - 8) % 10 = 9 /\ (now - 9) % 10 = 8
    BY <1>18, <1>1
  <2> QED
    BY <1>2, <1>4, <1>18, <2>1 DEF Used, Budget!Second
<1>19. CASE now % 10 = 8
  <2>1. /\ (now - 1) % 10 = 7 /\ (now - 2) % 10 = 6 /\ (now - 3) % 10 = 5
        /\ (now - 4) % 10 = 4 /\ (now - 5) % 10 = 3 /\ (now - 6) % 10 = 2
        /\ (now - 7) % 10 = 1 /\ (now - 8) % 10 = 0 /\ (now - 9) % 10 = 9
    BY <1>19, <1>1
  <2> QED
    BY <1>2, <1>4, <1>19, <2>1 DEF Used, Budget!Second
<1>20. CASE now % 10 = 9
  <2>1. /\ (now - 1) % 10 = 8 /\ (now - 2) % 10 = 7 /\ (now - 3) % 10 = 6
        /\ (now - 4) % 10 = 5 /\ (now - 5) % 10 = 4 /\ (now - 6) % 10 = 3
        /\ (now - 7) % 10 = 2 /\ (now - 8) % 10 = 1 /\ (now - 9) % 10 = 0
    BY <1>20, <1>1
  <2> QED
    BY <1>2, <1>4, <1>20, <2>1 DEF Used, Budget!Second
<1> QED
  BY <1>1, <1>11, <1>12, <1>13, <1>14, <1>15, <1>16, <1>17, <1>18, <1>19, <1>20

-----------------------------------------------------------------------------
\* Time is counted in windows: one tick moves to the same window or the next.
LEMMA WindowOfTick ==
  ASSUME NEW r \in Nat \ {0}, NEW t \in Nat
  PROVE  /\ t \div r \in Nat
         /\ (t + 1) \div r = t \div r \/ (t + 1) \div r = (t \div r) + 1
OBVIOUS

\* The window id of a clock within MaxWindow is one of 0 .. MaxWindow.
LEMMA WindowBound ==
  ASSUME NEW r \in Nat \ {0}, NEW m \in Nat, NEW t \in 0 .. (m + 1) * r - 1
  PROVE  t \in Nat /\ t \div r \in 0 .. m
OBVIOUS

-----------------------------------------------------------------------------
\* Recycling the current slot loses nothing: had an order been admitted in the
\* current window, the slot would hold that window.
LEMMA RecycledFits ==
  ASSUME TypeOK, SlotsInv
  PROVE  /\ Recycled(slots) \in Slots
         /\ SlotsFit(Recycled(slots)) /\ SlotsHold(Recycled(slots))
         /\ Recycled(slots)[now % 10] = [window |-> now, count |-> admitted[now]]
<1> DEFINE r == Recycled(slots)
           s == now % 10
<1>1. /\ s \in 0 .. 9 /\ now \in 0 .. MaxWindow /\ MaxWindow \in Nat
      /\ NoWindow = MaxWindow + 1
  BY ThrottlerAssumption DEF TypeOK, NoWindow
<1>2. slots \in Slots /\ admitted \in [0 .. MaxWindow -> Nat]
  BY DEF TypeOK
<1>3. CASE slots[s].window = now
  <2>1. r = slots
    BY <1>3 DEF Recycled
  <2>2. slots[s].count = admitted[now]
    BY <1>1, <1>3 DEF SlotsInv, SlotsFit
  <2>3. slots[s] \in [window : 0 .. NoWindow, count : Nat]
    BY <1>1, <1>2 DEF Slots
  <2>4. slots[s] = [window |-> now, count |-> admitted[now]]
    BY <1>3, <2>2, <2>3
  <2> QED
    BY <1>2, <2>1, <2>4 DEF SlotsInv
<1>4. CASE slots[s].window # now
  <2>1. r = [slots EXCEPT ![s] = [window |-> now, count |-> 0]]
    BY <1>4 DEF Recycled
  <2>2. admitted[now] = 0
    BY <1>1, <1>4 DEF SlotsInv, SlotsHold
  <2>3. r \in Slots
    <3>1. [window |-> now, count |-> 0] \in [window : 0 .. NoWindow, count : Nat]
      BY <1>1
    <3> QED
      BY <1>1, <1>2, <2>1, <3>1 DEF Slots
  <2>4. /\ r[s] = [window |-> now, count |-> 0]
        /\ \A i \in 0 .. 9 : i # s => r[i] = slots[i]
    BY <1>1, <1>2, <2>1 DEF Slots
  <2>5. SlotsFit(r)
    BY <1>1, <2>2, <2>4 DEF SlotsInv, SlotsFit
  <2>6. SlotsHold(r)
    <3> SUFFICES ASSUME NEW w \in 0 .. MaxWindow, admitted[w] # 0, now - w < 10
                 PROVE  r[w % 10].window = w
      BY DEF SlotsHold
    <3>1. slots[w % 10].window = w /\ w <= now
      BY DEF SlotsInv, SlotsHold, NoFutureOrder
    <3>2. w % 10 # s
      BY <1>1, <2>2, <3>1, SameWindow
    <3>3. w % 10 \in 0 .. 9
      OBVIOUS
    <3> QED
      BY <2>4, <3>1, <3>2, <3>3
  <2> QED
    BY <2>2, <2>3, <2>4, <2>5, <2>6
<1> QED
  BY <1>3, <1>4

\* The orders counted over a stretch of windows are a natural number.
LEMMA SumType ==
  ASSUME NEW h, NEW w, Budget!In(h, w) \in Nat,
         Budget!In(h, w - 1) \in Nat,
         Budget!In(h, w - 2) \in Nat,
         Budget!In(h, w - 3) \in Nat,
         Budget!In(h, w - 4) \in Nat,
         Budget!In(h, w - 5) \in Nat,
         Budget!In(h, w - 6) \in Nat,
         Budget!In(h, w - 7) \in Nat,
         Budget!In(h, w - 8) \in Nat,
         Budget!In(h, w - 9) \in Nat
  PROVE  Budget!Second(h, w) \in Nat
BY DEF Budget!Second

\* The sum over ten windows is a number of orders.
LEMMA SecondType ==
  ASSUME NEW h, h \in [0 .. MaxWindow -> Nat], NEW w, w \in 0 .. MaxWindow
  PROVE  Budget!Second(h, w) \in Nat
<1>1. \A v \in Int : v <= w => Budget!In(h, v) \in Nat
  BY ThrottlerAssumption DEF Budget!In
<1>2. w \in Int
  BY ThrottlerAssumption
<1>3. /\ Budget!In(h, w) \in Nat
      /\ Budget!In(h, w - 1) \in Nat
      /\ Budget!In(h, w - 2) \in Nat
      /\ Budget!In(h, w - 3) \in Nat
      /\ Budget!In(h, w - 4) \in Nat
      /\ Budget!In(h, w - 5) \in Nat
      /\ Budget!In(h, w - 6) \in Nat
      /\ Budget!In(h, w - 7) \in Nat
      /\ Budget!In(h, w - 8) \in Nat
      /\ Budget!In(h, w - 9) \in Nat
  BY <1>1, <1>2
<1> QED
  BY <1>3, SumType

\* What the sum over ten windows depends on
LEMMA SecondDepends ==
  ASSUME NEW g, NEW h, NEW w \in Int,
         \A v \in 0 .. w : g[v] = h[v]
  PROVE  Budget!Second(g, w) = Budget!Second(h, w)
<1>1. \A v \in Int : v <= w => Budget!In(g, v) = Budget!In(h, v)
  BY DEF Budget!In
<1> QED
  BY <1>1 DEF Budget!Second

\* The sum of ten windows whose last counts one more
LEMMA SumPlusOne ==
  ASSUME NEW g, NEW h, NEW w,
         Budget!In(g, w) = Budget!In(h, w) + 1, Budget!In(h, w) \in Int,
         Budget!In(g, w - 1) = Budget!In(h, w - 1), Budget!In(h, w - 1) \in Int,
         Budget!In(g, w - 2) = Budget!In(h, w - 2), Budget!In(h, w - 2) \in Int,
         Budget!In(g, w - 3) = Budget!In(h, w - 3), Budget!In(h, w - 3) \in Int,
         Budget!In(g, w - 4) = Budget!In(h, w - 4), Budget!In(h, w - 4) \in Int,
         Budget!In(g, w - 5) = Budget!In(h, w - 5), Budget!In(h, w - 5) \in Int,
         Budget!In(g, w - 6) = Budget!In(h, w - 6), Budget!In(h, w - 6) \in Int,
         Budget!In(g, w - 7) = Budget!In(h, w - 7), Budget!In(h, w - 7) \in Int,
         Budget!In(g, w - 8) = Budget!In(h, w - 8), Budget!In(h, w - 8) \in Int,
         Budget!In(g, w - 9) = Budget!In(h, w - 9), Budget!In(h, w - 9) \in Int
  PROVE  Budget!Second(g, w) = Budget!Second(h, w) + 1
BY DEF Budget!Second

\* The sum of ten windows and of the ten before an empty one
LEMMA SumShifted ==
  ASSUME NEW h, NEW w, w \in Int,
         Budget!In(h, w + 1) = 0, Budget!In(h, w) \in Nat,
         Budget!In(h, w - 1) \in Nat,
         Budget!In(h, w - 2) \in Nat,
         Budget!In(h, w - 3) \in Nat,
         Budget!In(h, w - 4) \in Nat,
         Budget!In(h, w - 5) \in Nat,
         Budget!In(h, w - 6) \in Nat,
         Budget!In(h, w - 7) \in Nat,
         Budget!In(h, w - 8) \in Nat,
         Budget!In(h, w - 9) \in Nat
  PROVE  Budget!Second(h, w + 1) <= Budget!Second(h, w)
<1>1. /\ (w + 1) - 1 = w /\ (w + 1) - 2 = w - 1 /\ (w + 1) - 3 = w - 2
      /\ (w + 1) - 4 = w - 3 /\ (w + 1) - 5 = w - 4 /\ (w + 1) - 6 = w - 5
      /\ (w + 1) - 7 = w - 6 /\ (w + 1) - 8 = w - 7 /\ (w + 1) - 9 = w - 8
  OBVIOUS
<1>2. Budget!Second(h, w + 1)
        = Budget!In(h, w + 1) + Budget!In(h, w) + Budget!In(h, w - 1)
          + Budget!In(h, w - 2) + Budget!In(h, w - 3) + Budget!In(h, w - 4)
          + Budget!In(h, w - 5) + Budget!In(h, w - 6) + Budget!In(h, w - 7)
          + Budget!In(h, w - 8)
  BY <1>1 DEF Budget!Second
<1>3. Budget!Second(h, w)
        = Budget!In(h, w) + Budget!In(h, w - 1) + Budget!In(h, w - 2)
          + Budget!In(h, w - 3) + Budget!In(h, w - 4) + Budget!In(h, w - 5)
          + Budget!In(h, w - 6) + Budget!In(h, w - 7) + Budget!In(h, w - 8)
          + Budget!In(h, w - 9)
  BY DEF Budget!Second
<1> QED
  BY <1>2, <1>3

\* One more order in the last window is one more in the sum.
LEMMA SecondOfAdmit ==
  ASSUME NEW g, NEW h, NEW w, w \in Nat, g[w] = h[w] + 1,
         \A v \in 0 .. w - 1 : g[v] = h[v], \A v \in 0 .. w : h[v] \in Int
  PROVE  Budget!Second(g, w) = Budget!Second(h, w) + 1
<1>1. Budget!In(g, w) = Budget!In(h, w) + 1 /\ w \in Int
  BY DEF Budget!In
<1>2. \A v \in Int : v < w => Budget!In(g, v) = Budget!In(h, v)
  BY DEF Budget!In
<1>3. \A v \in Int : v <= w => Budget!In(h, v) \in Int
  BY DEF Budget!In
<1>4. /\ Budget!In(g, w - 1) = Budget!In(h, w - 1)
      /\ Budget!In(g, w - 2) = Budget!In(h, w - 2)
      /\ Budget!In(g, w - 3) = Budget!In(h, w - 3)
      /\ Budget!In(g, w - 4) = Budget!In(h, w - 4)
      /\ Budget!In(g, w - 5) = Budget!In(h, w - 5)
      /\ Budget!In(g, w - 6) = Budget!In(h, w - 6)
      /\ Budget!In(g, w - 7) = Budget!In(h, w - 7)
      /\ Budget!In(g, w - 8) = Budget!In(h, w - 8)
      /\ Budget!In(g, w - 9) = Budget!In(h, w - 9)
  BY <1>1, <1>2
<1>5. /\ Budget!In(h, w) \in Int
      /\ Budget!In(h, w - 1) \in Int
      /\ Budget!In(h, w - 2) \in Int
      /\ Budget!In(h, w - 3) \in Int
      /\ Budget!In(h, w - 4) \in Int
      /\ Budget!In(h, w - 5) \in Int
      /\ Budget!In(h, w - 6) \in Int
      /\ Budget!In(h, w - 7) \in Int
      /\ Budget!In(h, w - 8) \in Int
      /\ Budget!In(h, w - 9) \in Int
  BY <1>1, <1>3
<1> QED
  BY <1>1, <1>4, <1>5, SumPlusOne

\* A window with no orders adds nothing to the sum of the windows before it.
LEMMA SecondOfNext ==
  ASSUME NEW h \in [0 .. MaxWindow -> Nat], NEW w \in 0 .. MaxWindow,
         w + 1 \in 0 .. MaxWindow, h[w + 1] = 0
  PROVE  Budget!Second(h, w + 1) <= Budget!Second(h, w)
<1>1. \A v \in Int : v <= w => Budget!In(h, v) \in Nat
  BY ThrottlerAssumption DEF Budget!In
<1>2. Budget!In(h, w + 1) = 0 /\ w \in Int
  BY ThrottlerAssumption DEF Budget!In
<1>3. /\ Budget!In(h, w) \in Nat
      /\ Budget!In(h, w - 1) \in Nat
      /\ Budget!In(h, w - 2) \in Nat
      /\ Budget!In(h, w - 3) \in Nat
      /\ Budget!In(h, w - 4) \in Nat
      /\ Budget!In(h, w - 5) \in Nat
      /\ Budget!In(h, w - 6) \in Nat
      /\ Budget!In(h, w - 7) \in Nat
      /\ Budget!In(h, w - 8) \in Nat
      /\ Budget!In(h, w - 9) \in Nat
  BY <1>1, <1>2
<1> QED
  BY <1>2, <1>3, SumShifted

\* No orders, no sum.
LEMMA SecondOfNone ==
  ASSUME NEW w \in Int, w <= MaxWindow
  PROVE  Budget!Second(Budget!NoOrders, w) = 0
<1>1. \A v \in Int : v <= w => Budget!In(Budget!NoOrders, v) = 0
  BY ThrottlerAssumption DEF Budget!In, Budget!NoOrders
<1> QED
  BY <1>1 DEF Budget!Second

-----------------------------------------------------------------------------
(* The inductive invariant *)

\* Empty slots (throttler.hpp:82-83) satisfy the invariant.
LEMMA InitInv == Init => ThrottlerInv
<1> SUFFICES ASSUME Init PROVE ThrottlerInv
  OBVIOUS
<1>1. clock \in Nat /\ now \in 0 .. MaxWindow
  BY ThrottlerAssumption, WindowBound DEF Init, now, Window
<1>2. slots \in Slots
  <2>1. EmptySlot \in [window : 0 .. NoWindow, count : Nat]
    BY ThrottlerAssumption DEF EmptySlot, NoWindow
  <2> QED
    BY <2>1 DEF Init, Slots
<1>3. admitted \in [0 .. MaxWindow -> Nat] /\ \A w \in 0 .. MaxWindow : admitted[w] = 0
  BY DEF Init, Budget!NoOrders
<1>4. TypeOK
  BY <1>1, <1>2, <1>3 DEF Init, TypeOK
<1>5. SlotsInv
  BY <1>3 DEF Init, SlotsInv, SlotsFit, SlotsHold, NoFutureOrder, EmptySlot
<1>6. RollingBound
  <2> SUFFICES ASSUME NEW w \in 0 .. now PROVE Budget!Second(admitted, w) <= Limit
    BY DEF RollingBound
  <2>1. Budget!Second(admitted, w) = 0
    BY <1>1, SecondOfNone, ThrottlerAssumption DEF Init
  <2> QED
    BY <2>1, LimitType
<1> QED
  BY <1>4, <1>5, <1>6 DEF ThrottlerInv

\* An admitted order is counted in the slot of its window and in no other.
LEMMA AdmitKeeps == ThrottlerInv /\ TryAcquireAdmit => ThrottlerInv'
<1> SUFFICES ASSUME ThrottlerInv, TryAcquireAdmit PROVE ThrottlerInv'
  OBVIOUS
<1> DEFINE r == Recycled(slots)
           s == now % 10
           full == [window |-> now, count |-> admitted[now] + 1]
<1>1. /\ r \in Slots /\ SlotsFit(r) /\ SlotsHold(r)
      /\ r[s] = [window |-> now, count |-> admitted[now]]
  BY RecycledFits DEF ThrottlerInv
<1>2. /\ clock' = clock /\ now' = now /\ refused' = refused /\ resets' = resets
  BY DEF TryAcquireAdmit, now, Window
<1>3. /\ s \in 0 .. 9 /\ now \in 0 .. MaxWindow /\ MaxWindow \in Nat
      /\ NoWindow = MaxWindow + 1 /\ clock \in Nat
      /\ admitted \in [0 .. MaxWindow -> Nat] /\ NoFutureOrder
  BY ThrottlerAssumption DEF ThrottlerInv, TypeOK, NoWindow, SlotsInv
<1>4. /\ Used(r) < Limit
      /\ slots' = [r EXCEPT ![s] = full]
      /\ admitted' = [admitted EXCEPT ![now] = @ + 1]
  BY <1>1 DEF TryAcquireAdmit
<1>5. /\ slots'[s] = full
      /\ \A i \in 0 .. 9 : i # s => slots'[i] = r[i]
  BY <1>1, <1>3, <1>4 DEF Slots
<1>6. /\ admitted' \in [0 .. MaxWindow -> Nat]
      /\ admitted'[now] = admitted[now] + 1
      /\ \A w \in 0 .. MaxWindow : w # now => admitted'[w] = admitted[w]
  BY <1>3, <1>4
<1>7. slots' \in Slots
  <2>1. full \in [window : 0 .. NoWindow, count : Nat]
    BY <1>3
  <2> QED
    BY <1>1, <1>3, <1>4, <2>1 DEF Slots
<1>8. TypeOK'
  BY <1>2, <1>3, <1>6, <1>7 DEF TypeOK, ThrottlerInv, NoWindow
<1>9. SlotsFit(slots)'
  <2> SUFFICES ASSUME NEW i \in 0 .. 9, slots'[i].window # NoWindow
               PROVE  /\ slots'[i].window <= now
                      /\ slots'[i].window % 10 = i
                      /\ slots'[i].count = admitted'[slots'[i].window]
    BY <1>2 DEF SlotsFit, NoWindow
  <2>1. CASE i = s
    <3>1. slots'[i].window = now /\ slots'[i].count = admitted[now] + 1
      BY <1>5, <2>1
    <3> QED
      BY <1>3, <1>6, <2>1, <3>1
  <2>2. CASE i # s
    <3>1. slots'[i] = r[i]
      BY <1>5, <2>2
    <3>2. /\ r[i].window <= now /\ r[i].window % 10 = i
          /\ r[i].count = admitted[r[i].window]
      BY <1>1, <3>1 DEF SlotsFit
    <3>3. r[i].window \in 0 .. MaxWindow
      <4>1. r[i] \in [window : 0 .. NoWindow, count : Nat]
        BY <1>1 DEF Slots
      <4>2. r[i].window \in 0 .. NoWindow
        BY <4>1
      <4> QED
        BY <1>3, <3>2, <4>2
    <3>4. r[i].window # now
      BY <2>2, <3>2
    <3> QED
      BY <1>6, <3>1, <3>2, <3>3, <3>4
  <2> QED
    BY <2>1, <2>2
<1>10. SlotsHold(slots)' /\ NoFutureOrder'
  <2>1. NoFutureOrder'
    BY <1>2, <1>3, <1>6 DEF NoFutureOrder
  <2>2. SlotsHold(slots)'
    <3> SUFFICES ASSUME NEW w \in 0 .. MaxWindow, admitted'[w] # 0, now - w < 10
                 PROVE  slots'[w % 10].window = w
      BY <1>2 DEF SlotsHold
    <3>1. CASE w = now
      BY <1>5, <3>1
    <3>2. CASE w # now
      <4>1. r[w % 10].window = w /\ w <= now
        BY <1>1, <1>3, <1>6, <3>2 DEF SlotsHold, NoFutureOrder
      <4>2. w % 10 # s /\ w % 10 \in 0 .. 9
        BY <1>3, <3>2, <4>1, SameWindow
      <4> QED
        BY <1>5, <4>1, <4>2
    <3> QED
      BY <3>1, <3>2
  <2> QED
    BY <2>1, <2>2
<1>11. RollingBound'
  <2> SUFFICES ASSUME NEW w \in 0 .. now PROVE Budget!Second(admitted', w) <= Limit
    BY <1>2 DEF RollingBound, Limit
  <2>1. CASE w = now
    <3>1. Budget!Second(admitted, now) < Limit
      BY <1>1, <1>4, UsedIsSecond DEF ThrottlerInv
    <3>2. Budget!Second(admitted', now) = Budget!Second(admitted, now) + 1
      <4>1. \A v \in 0 .. now - 1 : admitted'[v] = admitted[v]
        BY <1>3, <1>6
      <4>2. \A v \in 0 .. now : admitted[v] \in Int
        BY <1>3
      <4>3. now \in Nat /\ admitted'[now] = admitted[now] + 1
        BY <1>3, <1>6
      <4> QED
        BY <4>1, <4>2, <4>3, SecondOfAdmit
    <3>3. Budget!Second(admitted, now) \in Int
      BY <1>3, SecondType
    <3> QED
      BY <2>1, <3>1, <3>2, <3>3, LimitType
  <2>2. CASE w # now
    <3>1. \A v \in 0 .. w : admitted'[v] = admitted[v]
      BY <1>3, <1>6, <2>2
    <3>2. Budget!Second(admitted', w) = Budget!Second(admitted, w)
      BY <1>3, <3>1, SecondDepends
    <3> QED
      BY <3>2 DEF ThrottlerInv, RollingBound
  <2> QED
    BY <2>1, <2>2
<1> QED
  BY <1>8, <1>9, <1>10, <1>11 DEF ThrottlerInv, SlotsInv

\* A refusal recycles the current slot at most.
LEMMA RefuseKeeps == ThrottlerInv /\ TryAcquireRefuse => ThrottlerInv'
<1> SUFFICES ASSUME ThrottlerInv, TryAcquireRefuse PROVE ThrottlerInv'
  OBVIOUS
<1>1. /\ clock' = clock /\ now' = now /\ admitted' = admitted
      /\ refused' = refused + 1 /\ resets' = resets
  BY DEF TryAcquireRefuse, now, Window
<1>2. slots' \in Slots /\ SlotsFit(slots') /\ SlotsHold(slots')
  BY RecycledFits DEF ThrottlerInv, SlotsInv, TypeOK, TryAcquireRefuse
<1>3. TypeOK'
  BY <1>1, <1>2 DEF ThrottlerInv, TypeOK
<1>4. SlotsInv'
  BY <1>1, <1>2 DEF ThrottlerInv, SlotsInv, SlotsFit, SlotsHold, NoFutureOrder
<1>5. RollingBound'
  BY <1>1 DEF ThrottlerInv, RollingBound
<1> QED
  BY <1>3, <1>4, <1>5 DEF ThrottlerInv

\* reset() (throttler.hpp:41-45) keeps the invariant.
LEMMA ResetKeeps == ThrottlerInv /\ Reset => ThrottlerInv'
<1> SUFFICES ASSUME ThrottlerInv, Reset PROVE ThrottlerInv'
  OBVIOUS
<1>1. /\ clock' = clock /\ now' = now /\ refused' = refused
      /\ resets' = resets + 1 /\ admitted' = Budget!NoOrders
      /\ slots' = [s \in 0 .. 9 |-> EmptySlot]
  BY DEF Reset, now, Window
<1>2. admitted' \in [0 .. MaxWindow -> Nat] /\ \A w \in 0 .. MaxWindow : admitted'[w] = 0
  BY <1>1 DEF Budget!NoOrders
<1>3. slots' \in Slots
  <2>1. EmptySlot \in [window : 0 .. NoWindow, count : Nat]
    BY ThrottlerAssumption DEF EmptySlot, NoWindow
  <2> QED
    BY <1>1, <2>1 DEF Slots
<1>4. TypeOK'
  BY <1>1, <1>2, <1>3 DEF ThrottlerInv, TypeOK
<1>5. SlotsInv'
  BY <1>1, <1>2 DEF SlotsInv, SlotsFit, SlotsHold, NoFutureOrder, EmptySlot
<1>6. RollingBound'
  <2> SUFFICES ASSUME NEW w \in 0 .. now PROVE Budget!Second(Budget!NoOrders, w) <= Limit
    BY <1>1 DEF RollingBound
  <2>1. Budget!Second(Budget!NoOrders, w) = 0
    BY ThrottlerAssumption, SecondOfNone DEF ThrottlerInv, TypeOK
  <2> QED
    BY <2>1, LimitType
<1> QED
  BY <1>4, <1>5, <1>6 DEF ThrottlerInv

\* Time only takes orders out of the last ten windows.
LEMMA TickKeeps == ThrottlerInv /\ Tick => ThrottlerInv'
<1> SUFFICES ASSUME ThrottlerInv, Tick PROVE ThrottlerInv'
  OBVIOUS
<1>1. /\ slots' = slots /\ admitted' = admitted
      /\ refused' = refused /\ resets' = resets
      /\ clock' = clock + 1 /\ now' <= MaxWindow
  BY DEF Tick, now
<1>2. /\ now \in 0 .. MaxWindow /\ MaxWindow \in Nat /\ clock \in Nat
      /\ admitted \in [0 .. MaxWindow -> Nat]
  BY ThrottlerAssumption DEF ThrottlerInv, TypeOK
<1>3. now' = now \/ now' = now + 1
  BY <1>1, <1>2, ThrottlerAssumption, WindowOfTick DEF now, Window
<1>4. TypeOK'
  BY <1>1, <1>2, <1>3 DEF ThrottlerInv, TypeOK
<1>5. SlotsInv'
  <2>1. SlotsFit(slots)'
    <3> SUFFICES ASSUME NEW s \in 0 .. 9, slots[s].window # NoWindow
                 PROVE  /\ slots[s].window <= now'
                        /\ slots[s].window % 10 = s
                        /\ slots[s].count = admitted[slots[s].window]
      BY <1>1 DEF SlotsFit
    <3>1. /\ slots[s].window <= now /\ slots[s].window % 10 = s
          /\ slots[s].count = admitted[slots[s].window]
      BY DEF ThrottlerInv, SlotsInv, SlotsFit
    <3>2. slots[s].window \in Int
      <4>1. slots[s] \in [window : 0 .. NoWindow, count : Nat]
        BY DEF ThrottlerInv, TypeOK, Slots
      <4>2. slots[s].window \in 0 .. NoWindow
        BY <4>1
      <4> QED
        BY <1>2, <4>2 DEF NoWindow
    <3> QED
      BY <1>2, <1>3, <3>1, <3>2
  <2>2. SlotsHold(slots)' /\ NoFutureOrder'
    BY <1>1, <1>2, <1>3 DEF ThrottlerInv, SlotsInv, SlotsHold, NoFutureOrder
  <2> QED
    BY <2>1, <2>2 DEF SlotsInv
<1>6. RollingBound'
  <2>1. \A w \in 0 .. now : Budget!Second(admitted, w) <= Limit
    BY DEF ThrottlerInv, RollingBound
  <2>2. CASE now' = now
    BY <1>1, <2>1, <2>2 DEF RollingBound
  <2>3. CASE now' = now + 1
    <3>1. now + 1 \in 0 .. MaxWindow
      BY <1>1, <1>2, <2>3
    <3>2. admitted[now + 1] = 0
      BY <1>2, <3>1 DEF ThrottlerInv, SlotsInv, NoFutureOrder
    <3>3. Budget!Second(admitted, now + 1) <= Budget!Second(admitted, now)
      BY <1>2, <3>1, <3>2, SecondOfNext
    <3>4. /\ Budget!Second(admitted, now) \in Int
          /\ Budget!Second(admitted, now + 1) \in Int
      BY <1>2, <3>1, SecondType
    <3>5. Budget!Second(admitted, now + 1) <= Limit
      <4>1. Budget!Second(admitted, now) <= Limit
        BY <1>2, <2>1
      <4> QED
        BY <3>3, <3>4, <4>1, LimitType
    <3>6. \A w \in 0 .. now + 1 : Budget!Second(admitted, w) <= Limit
      BY <1>2, <2>1, <3>5
    <3> QED
      BY <1>1, <2>3, <3>6 DEF RollingBound
  <2> QED
    BY <1>3, <2>2, <2>3
<1> QED
  BY <1>4, <1>5, <1>6 DEF ThrottlerInv

\* Every order of the last ten windows is counted in a slot, for ever
\* (throttler.hpp:28-39,71-80).
THEOREM ThrottlerInvariant == Spec => []ThrottlerInv
<1>1. ThrottlerInv /\ [Next]_vars => ThrottlerInv'
  <2> SUFFICES ASSUME ThrottlerInv, [Next]_vars PROVE ThrottlerInv'
    OBVIOUS
  <2>1. CASE UNCHANGED vars
    BY <2>1 DEF vars, ThrottlerInv, TypeOK, SlotsInv, SlotsFit, SlotsHold, NoFutureOrder,
       RollingBound, now, Window
  <2> QED
    BY <2>1, AdmitKeeps, RefuseKeeps, ResetKeeps, TickKeeps DEF Next
<1> QED
  BY <1>1, InitInv, PTL DEF Spec

\* No ten consecutive windows admit more than the limit.
THEOREM BudgetHolds == Spec => []RollingBound
<1>1. ThrottlerInv => RollingBound
  BY DEF ThrottlerInv
<1> QED
  BY <1>1, ThrottlerInvariant, PTL

\* available() is exact although it does not recycle the current slot.
THEOREM AvailableExact == Spec => []AvailableIsExact
<1>1. ThrottlerInv => AvailableIsExact
  <2> SUFFICES ASSUME ThrottlerInv PROVE AvailableIsExact
    OBVIOUS
  <2>1. /\ slots \in Slots /\ now \in 0 .. MaxWindow /\ now \in Int
        /\ admitted \in [0 .. MaxWindow -> Nat]
    BY ThrottlerAssumption DEF ThrottlerInv, TypeOK
  <2>2. Used(slots) = Budget!Second(admitted, now)
    BY <2>1, UsedIsSecond DEF ThrottlerInv, SlotsInv
  <2>3. Budget!Second(admitted, now) <= Limit
    BY <2>1 DEF ThrottlerInv, RollingBound
  <2>4. Budget!Second(admitted, now) \in Int
    BY <2>1, SecondType
  <2> QED
    BY <2>2, <2>3, <2>4, LimitType DEF AvailableIsExact, Available
<1> QED
  BY <1>1, ThrottlerInvariant, PTL

\* The ten reused slots admit and refuse exactly what the budget told from the
\* whole history admits and refuses.
THEOREM ThrottlerImplementsBudget == Spec => ImplementsBudget
<1>1. Init => Budget!Init
  BY InitInv DEF Init, Budget!Init, ThrottlerInv, TypeOK
<1>2. ThrottlerInv /\ ThrottlerInv' /\ [Next]_vars => [Budget!Next]_(Budget!vars)
  <2> SUFFICES ASSUME ThrottlerInv, ThrottlerInv', [Next]_vars
               PROVE  [Budget!Next]_(Budget!vars)
    OBVIOUS
  <2>1. Used(Recycled(slots)) = Budget!Second(admitted, now)
    BY RecycledFits, UsedIsSecond DEF ThrottlerInv
  <2>2. CASE TryAcquireAdmit
    <3>1. Budget!Admit
      BY <2>1, <2>2 DEF TryAcquireAdmit, Budget!Admit, now, Window
    <3> QED
      BY <3>1 DEF Budget!Next
  <2>3. CASE TryAcquireRefuse
    <3>1. Budget!Second(admitted, now) >= Limit
      <4>1. CASE Limit = 0
        <5>1. Budget!Second(admitted, now) \in Nat
          BY ThrottlerAssumption, SecondType DEF ThrottlerInv, TypeOK
        <5> QED
          BY <4>1, <5>1
      <4>2. CASE Limit # 0
        BY <2>1, <2>3, <4>2 DEF TryAcquireRefuse
      <4> QED
        BY <4>1, <4>2
    <3>2. Budget!Refuse
      BY <2>3, <3>1 DEF TryAcquireRefuse, Budget!Refuse, now, Window
    <3> QED
      BY <3>2 DEF Budget!Next
  <2>4. CASE Reset
    BY <2>4 DEF Reset, Budget!Reset, Budget!Next, now, Window
  <2>5. CASE Tick
    <3>1. now' = now \/ now' = now + 1
      BY <2>5, ThrottlerAssumption, WindowOfTick
      DEF Tick, now, Window, ThrottlerInv, TypeOK
    <3>2. now' \in now .. MaxWindow
      BY <3>1, ThrottlerAssumption DEF ThrottlerInv, TypeOK
    <3> QED
      BY <2>5, <3>2 DEF Tick, Budget!Advance, Budget!Next
  <2>6. CASE UNCHANGED vars
    BY <2>6 DEF vars, Budget!vars, now, Window
  <2> QED
    BY <2>2, <2>3, <2>4, <2>5, <2>6 DEF Next
<1> QED
  BY <1>1, <1>2, ThrottlerInvariant, PTL DEF Spec, ImplementsBudget, Budget!Spec
=============================================================================
