--------------------------- MODULE AuditLogProofs ---------------------------
(***************************************************************************)
(* The ring and the audit log that drives it.                              *)
(*                                                                         *)
(* For every capacity and every counter width (RingAssumption): SpscRing   *)
(* never races on a slot and implements BoundedQueue.  The argument is     *)
(* RingInv: the counters are the lengths of the two histories modulo their *)
(* width, and value i + 1 sits in slot i % Capacity while it is in         *)
(* transit.  The arithmetic it needs comes first.                          *)
(*                                                                         *)
(* Then the audit log: its two threads use the ring as SpscRing says, so   *)
(* all of this holds of it, and stop() leaves nothing behind.              *)
(***************************************************************************)
EXTENDS AuditLog, Integers, TLAPS

(* Division with remainder *)
LEMMA Division ==
    ASSUME NEW c \in Nat \ {0}, NEW a \in Nat
    PROVE  \E q \in Nat : \E r \in 0 .. c - 1 : a = c * q + r /\ a % c = r
<1>1. a \div c \in Nat /\ a % c \in 0 .. c - 1 /\ a = c * (a \div c) + (a % c)
  OBVIOUS
<1>2. WITNESS a \div c \in Nat
<1>3. WITNESS a % c \in 0 .. c - 1
<1>4. QED BY <1>1

(* The remainder is unique *)
LEMMA Remainder ==
    ASSUME NEW c \in Nat \ {0}, NEW q \in Int, NEW r \in 0 .. c - 1,
           NEW a \in Int, a = c * q + r
    PROVE  a % c = r
<1>1. (c * q + r) % c = r
  BY Z3
<1>2. QED BY <1>1

(* Counters less than c apart have different remainders: two values in     *)
(* transit never share a slot.                                             *)
LEMMA ModDistinct ==
    ASSUME NEW c \in Nat \ {0}, NEW a \in Nat, NEW b \in Nat, a < b, b < a + c
    PROVE  a % c # b % c
<1>1. PICK qa \in Nat, ra \in 0 .. c - 1 : a = c * qa + ra /\ a % c = ra
  BY Division
<1>2. PICK qb \in Nat, rb \in 0 .. c - 1 : b = c * qb + rb /\ b % c = rb
  BY Division
<1>3. SUFFICES ASSUME ra = rb PROVE FALSE
  BY <1>1, <1>2
<1>4. b - a = c * (qb - qa)
  BY <1>1, <1>2, <1>3
<1>5. CASE qb - qa <= 0
  BY <1>4, <1>5
<1>6. CASE qb - qa >= 1
  BY <1>4, <1>6
<1>7. QED BY <1>5, <1>6

(* Wrapping at a multiple of c does not change the slot: "wrap is benign"  *)
(* (ring_buffer.hpp:8).                                                    *)
LEMMA ModMod ==
    ASSUME NEW c \in Nat \ {0}, NEW m \in Nat \ {0}, m % c = 0, NEW a \in Nat
    PROVE  (a % m) % c = a % c
<1>1. PICK k \in Nat : \E z \in 0 .. c - 1 : m = c * k + z /\ m % c = z
  BY Division
<1>2. m = c * k
  BY <1>1
<1>3. PICK q \in Nat, r \in 0 .. m - 1 : a = m * q + r /\ (a % m) = r
  BY Division
<1>4. PICK s \in Nat, t \in 0 .. c - 1 : r = c * s + t /\ r % c = t
  BY Division
<1>5. a = (c * k) * q + (c * s + t)
  BY <1>2, <1>3, <1>4
<1>6. (c * k) * q = c * (k * q) /\ k * q \in Nat
  OBVIOUS
<1>7. c * (k * q + s) = c * (k * q) + c * s
  BY <1>6
<1>8. a = c * (k * q + s) + t
  BY <1>5, <1>6, <1>7
<1>9. a % c = t
  BY <1>6, <1>8, Remainder
<1>10. QED BY <1>3, <1>4, <1>9

(* An unsigned increment of a wrapped counter *)
LEMMA ModSucc ==
    ASSUME NEW m \in Nat \ {0}, NEW a \in Nat
    PROVE  ((a % m) + 1) % m = (a + 1) % m
<1>1. PICK q \in Nat, r \in 0 .. m - 1 : a = m * q + r /\ (a % m) = r
  BY Division
<1>2. PICK b \in Int, p \in Int : b = a + 1 /\ p = r + 1
  OBVIOUS
<1>3. CASE p < m
  <2>1. b = m * q + p /\ p = m * 0 + p /\ p \in 0 .. m - 1
    BY <1>1, <1>2, <1>3
  <2>2. b % m = p /\ p % m = p
    BY <2>1, Remainder
  <2>3. QED BY <1>1, <1>2, <2>2
<1>4. CASE p = m
  <2>1. PICK u \in Int : u = q + 1
    OBVIOUS
  <2>2. b = m * u + 0 /\ p = m * 1 + 0 /\ 0 \in 0 .. m - 1
    BY <1>1, <1>2, <1>4, <2>1
  <2>3. b % m = 0 /\ p % m = 0
    BY <2>2, Remainder
  <2>4. QED BY <1>1, <1>2, <2>3
<1>5. QED BY <1>1, <1>2, <1>3, <1>4

(* An unsigned difference of two wrapped counters is the true distance as  *)
(* long as that is below the width.                                        *)
LEMMA ModDistance ==
    ASSUME NEW m \in Nat \ {0}, NEW a \in Nat, NEW b \in Nat,
           a <= b, b < a + m
    PROVE  ((b % m) + m - (a % m)) % m = b - a
<1>1. PICK qa \in Nat, ra \in 0 .. m - 1 : a = m * qa + ra /\ (a % m) = ra
  BY Division
<1>2. PICK qb \in Nat, rb \in 0 .. m - 1 : b = m * qb + rb /\ (b % m) = rb
  BY Division
<1>3. PICK d \in Int, u \in Int, e \in Int :
         d = rb + m - ra /\ u = qa - qb + 1 /\ e = b - a
  OBVIOUS
<1>4. d = m * u + e /\ e \in 0 .. m - 1
  BY <1>1, <1>2, <1>3
<1>5. d % m = e
  BY <1>4, Remainder
<1>6. QED BY <1>1, <1>2, <1>3, <1>5

-----------------------------------------------------------------------------
(* Lengths and the two places in the ring *)
LEMMA Widths == /\ Capacity \in Nat \ {0} /\ Modulus \in Nat \ {0}
                /\ Modulus % Capacity = 0 /\ Capacity + 1 < Modulus
BY RingAssumption

\* The histories of accepted and taken values have lengths.
LEMMA Lengths ==
    ASSUME TypeOK
    PROVE  Len(accepted) \in Nat /\ Len(taken) \in Nat
BY DEF TypeOK

(* Slot(head) and Slot(tail) are the slots of the next value to accept and *)
(* of the next value to take.                                              *)
LEMMA Places ==
    ASSUME TypeOK, CountersInv
    PROVE  /\ Slot(head) = Len(accepted) % Capacity
           /\ Slot(tail) = Len(taken) % Capacity
           /\ Slot(head) \in 0 .. Capacity - 1
           /\ Slot(tail) \in 0 .. Capacity - 1
<1>1. Slot(head) = Len(accepted) % Capacity
  BY Lengths, Widths, ModMod DEF Slot, CountersInv
<1>2. Slot(tail) = Len(taken) % Capacity
  BY Lengths, Widths, ModMod DEF Slot, CountersInv
<1>3. \A n \in Nat : n % Capacity \in 0 .. Capacity - 1
  BY Widths
<1>4. QED BY <1>1, <1>2, <1>3, Lengths

(* The counters advance with the histories. *)
LEMMA Advance ==
    ASSUME TypeOK, CountersInv
    PROVE  /\ Succ(head) = (Len(accepted) + 1) % Modulus
           /\ Succ(tail) = (Len(taken) + 1) % Modulus
BY Lengths, Widths, ModSucc DEF Succ, CountersInv

(* The test of try_push is exact: it refuses iff Capacity values are in.   *)
LEMMA FullExact ==
    ASSUME TypeOK, CountersInv
    PROVE  Full <=> Len(accepted) = Len(taken) + Capacity
<1> DEFINE a == Len(taken)  b == Len(accepted) + 1
<1>1. a \in Nat /\ b \in Nat /\ a <= b /\ b < a + Modulus /\ Capacity \in Nat
  BY Lengths, Widths DEF CountersInv
<1>2. Distance(tail, Succ(head)) = ((b % Modulus) + Modulus - (a % Modulus)) % Modulus
  BY Advance DEF Distance, CountersInv
<1>3. ((b % Modulus) + Modulus - (a % Modulus)) % Modulus = b - a
  BY <1>1, Widths, ModDistance
<1>4. Full <=> Len(accepted) + 1 - Len(taken) > Capacity
  BY <1>2, <1>3 DEF Full
<1>5. QED BY <1>1, <1>4, Lengths DEF CountersInv

(* So is the test of try_pop. *)
LEMMA EmptyExact ==
    ASSUME TypeOK, CountersInv
    PROVE  Empty <=> Len(accepted) = Len(taken)
<1>1. Len(taken) \in Nat /\ Len(accepted) \in Nat /\ Len(taken) <= Len(accepted)
        /\ Len(accepted) < Len(taken) + Modulus
  BY Lengths, Widths DEF CountersInv
<1>2. CASE Len(accepted) = Len(taken)
  BY <1>2 DEF Empty, CountersInv
<1>3. CASE Len(taken) < Len(accepted)
  BY <1>1, <1>3, Widths, ModDistinct DEF Empty, CountersInv
<1>4. QED BY <1>1, <1>2, <1>3

-----------------------------------------------------------------------------
\* An empty ring (ring_buffer.hpp:83-85) satisfies the invariant.
LEMMA RingInit == Init => RingInv
<1> SUFFICES ASSUME Init PROVE RingInv
  OBVIOUS
<1> USE Widths DEF Init
<1>1. TypeOK
  BY DEF TypeOK
<1>2. CountersInv
  BY DEF CountersInv
<1>3. SlotsInv
  BY DEF SlotsInv
<1>4. QED BY <1>1, <1>2, <1>3 DEF RingInv

\* Every step of try_push and try_pop keeps the types.
LEMMA TypeStep == RingInv /\ [Next]_ringVars => TypeOK'
<1> SUFFICES ASSUME RingInv, [Next]_ringVars PROVE TypeOK'
  OBVIOUS
<1> USE DEF RingInv, TypeOK, counters, producer, consumer, history
<1>0. Succ(head) \in 0 .. Modulus - 1 /\ Succ(tail) \in 0 .. Modulus - 1
  BY Widths DEF Succ
<1>p. Slot(head) \in 0 .. Capacity - 1 /\ Slot(tail) \in 0 .. Capacity - 1
  BY Places
<1>1. CASE TryPushRefuse
  BY <1>1 DEF TryPushRefuse
<1>2. ASSUME NEW v \in Value, TryPushBegin(v) PROVE TypeOK'
  BY <1>2 DEF TryPushBegin
<1>3. CASE TryPushStore
  BY <1>3, <1>p DEF TryPushStore
<1>4. CASE TryPushPublish
  BY <1>4, <1>0 DEF TryPushPublish
<1>5. CASE TryPopBegin
  BY <1>5 DEF TryPopBegin
<1>6. CASE TryPopMove
  BY <1>6, <1>p DEF TryPopMove
<1>7. CASE TryPopRelease
  BY <1>7, <1>0 DEF TryPopRelease
<1>8. CASE UNCHANGED ringVars
  BY <1>8 DEF ringVars
<1>9. QED BY <1>1, <1>2, <1>3, <1>4, <1>5, <1>6, <1>7, <1>8
          DEF Next, Producer, Consumer

\* Every step keeps the relation of the two counters to the stale copies.
LEMMA CountersStep == RingInv /\ [Next]_ringVars => CountersInv'
<1> SUFFICES ASSUME RingInv, [Next]_ringVars PROVE CountersInv'
  OBVIOUS
<1>0. TypeOK /\ CountersInv
  BY DEF RingInv
<1> USE Lengths, Widths, <1>0 DEF counters, producer, consumer, history
<1>1. CASE TryPushRefuse
  BY <1>1 DEF TryPushRefuse, CountersInv
<1>2. ASSUME NEW v \in Value, TryPushBegin(v) PROVE CountersInv'
  BY <1>2, FullExact DEF TryPushBegin, CountersInv
<1>3. CASE TryPushStore
  BY <1>3 DEF TryPushStore, CountersInv
<1>4. CASE TryPushPublish
  <2>1. Len(accepted') = Len(accepted) + 1
    BY <1>4 DEF TryPushPublish, TypeOK
  <2>2. QED BY <1>4, <2>1, Advance DEF TryPushPublish, CountersInv
<1>5. CASE TryPopBegin
  BY <1>5, EmptyExact DEF TryPopBegin, CountersInv
<1>6. CASE TryPopMove
  BY <1>6 DEF TryPopMove, CountersInv
<1>7. CASE TryPopRelease
  <2>1. Len(taken') = Len(taken) + 1
    BY <1>7 DEF TryPopRelease, TypeOK
  <2>2. QED BY <1>7, <2>1, Advance DEF TryPopRelease, CountersInv
<1>8. CASE UNCHANGED ringVars
  BY <1>8 DEF ringVars, CountersInv
<1>9. QED BY <1>1, <1>2, <1>3, <1>4, <1>5, <1>6, <1>7, <1>8
          DEF Next, Producer, Consumer

\* Every step keeps the values in the slots between the counters.
LEMMA SlotsStep == RingInv /\ [Next]_ringVars => SlotsInv'
<1> SUFFICES ASSUME RingInv, [Next]_ringVars PROVE SlotsInv'
  OBVIOUS
<1>0. TypeOK /\ CountersInv /\ SlotsInv
  BY DEF RingInv
<1>m. /\ Len(taken) \in Nat /\ Len(accepted) \in Nat
      /\ Len(taken) <= Len(accepted) /\ Len(accepted) <= Len(taken) + Capacity
  BY <1>0, Lengths DEF CountersInv
<1>n. \A n \in Nat : n % Capacity \in 0 .. Capacity - 1
  BY Widths
<1>d. ASSUME NEW i \in Nat, NEW j \in Nat, i < j, j < i + Capacity
      PROVE  i % Capacity # j % Capacity
  BY <1>d, Widths, ModDistinct
<1> USE DEF counters, producer, consumer, history
<1>1. CASE TryPushRefuse
  BY <1>0, <1>1 DEF TryPushRefuse, SlotsInv
<1>2. ASSUME NEW v \in Value, TryPushBegin(v) PROVE SlotsInv'
  BY <1>0, <1>2 DEF TryPushBegin, SlotsInv
<1>3. CASE TryPushStore
  <2>1. /\ storage' = [storage EXCEPT ![Len(accepted) % Capacity] = pval]
        /\ push' = "publish"
        /\ UNCHANGED <<pval, pop, cval, accepted, taken>>
        /\ Len(accepted) < Len(taken) + Capacity
    BY <1>0, <1>3, Places DEF TryPushStore, CountersInv
  <2>2. storage'[Len(accepted) % Capacity] = pval
    BY <1>0, <1>m, <1>n, <2>1 DEF TypeOK
  <2>3. ASSUME NEW i \in Len(taken) .. Len(accepted) - 1
        PROVE  storage'[i % Capacity] = storage[i % Capacity]
    <3>1. i % Capacity # Len(accepted) % Capacity
      BY <1>d, <1>m, <2>1, Widths
    <3>2. QED BY <1>0, <1>m, <1>n, <2>1, <3>1 DEF TypeOK
  <2>4. QED BY <1>0, <2>1, <2>2, <2>3 DEF SlotsInv
<1>4. CASE TryPushPublish
  <2>1. /\ accepted' = Append(accepted, pval) /\ push' = "idle"
        /\ UNCHANGED <<storage, pop, cval, taken>>
        /\ storage[Len(accepted) % Capacity] = pval
    BY <1>0, <1>4 DEF TryPushPublish, SlotsInv
  <2>2. /\ Len(accepted') = Len(accepted) + 1
        /\ accepted'[Len(accepted) + 1] = pval
        /\ \A i \in 1 .. Len(accepted) : accepted'[i] = accepted[i]
    BY <1>0, <2>1, <1>4 DEF TypeOK, TryPushPublish
  <2>3. pop = "release" => cval = accepted'[Len(taken) + 1]
    BY <1>0, <1>m, <2>2 DEF SlotsInv, CountersInv
  <2>4. ASSUME NEW i \in Len(taken) .. Len(accepted),
               i # Len(taken) \/ pop # "release"
        PROVE  storage[i % Capacity] = accepted'[i + 1]
    <3>1. CASE i = Len(accepted)
      BY <2>1, <2>2, <3>1
    <3>2. CASE i < Len(accepted)
      <4>1. i \in Len(taken) .. Len(accepted) - 1 /\ i + 1 \in 1 .. Len(accepted)
        BY <1>m, <3>2
      <4>2. QED BY <1>0, <2>2, <2>4, <4>1 DEF SlotsInv
    <3>3. QED BY <1>m, <3>1, <3>2
  <2>5. Len(taken) .. Len(accepted') - 1 = Len(taken) .. Len(accepted)
    BY <1>m, <2>2
  <2>6. QED BY <2>1, <2>3, <2>4, <2>5 DEF SlotsInv
<1>5. CASE TryPopBegin
  BY <1>0, <1>5 DEF TryPopBegin, SlotsInv
<1>6. CASE TryPopMove
  <2>1. /\ cval' = storage[Len(taken) % Capacity]
        /\ storage' = [storage EXCEPT ![Len(taken) % Capacity] = Moved]
        /\ pop = "move" /\ pop' = "release"
        /\ UNCHANGED <<push, pval, accepted, taken>>
        /\ Len(taken) < Len(accepted)
        /\ push # "idle" => Len(accepted) < Len(taken) + Capacity
    BY <1>0, <1>6, Places DEF TryPopMove, CountersInv
  <2>2. cval' = accepted[Len(taken) + 1]
    BY <1>0, <1>m, <2>1 DEF SlotsInv
  <2>3. ASSUME NEW i \in Nat, Len(taken) < i, i < Len(taken) + Capacity
        PROVE  storage'[i % Capacity] = storage[i % Capacity]
    <3>1. i % Capacity # Len(taken) % Capacity
      BY <1>d, <1>m, <2>3
    <3>2. QED BY <1>0, <1>n, <2>1, <3>1 DEF TypeOK
  <2>4. push = "publish" => storage'[Len(accepted) % Capacity] = pval
    BY <1>0, <1>m, <2>1, <2>3 DEF SlotsInv
  <2>5. ASSUME NEW i \in Len(taken) .. Len(accepted) - 1, i # Len(taken)
        PROVE  storage'[i % Capacity] = accepted[i + 1]
    <3>1. i \in Nat /\ Len(taken) < i /\ i < Len(taken) + Capacity
      BY <1>m, <2>5, Widths
    <3>2. storage[i % Capacity] = accepted[i + 1]
      BY <1>0, <2>1, <2>5 DEF SlotsInv
    <3>3. QED BY <2>3, <3>1, <3>2
  <2>6. QED BY <2>1, <2>2, <2>4, <2>5 DEF SlotsInv
<1>7. CASE TryPopRelease
  <2>1. /\ taken' = Append(taken, cval) /\ pop' = "idle"
        /\ pop = "release"
        /\ UNCHANGED <<storage, push, pval, accepted>>
    BY <1>7 DEF TryPopRelease
  <2>2. Len(taken') = Len(taken) + 1
    BY <1>0, <2>1 DEF TypeOK
  <2>3. ASSUME NEW i \in Len(taken') .. Len(accepted) - 1
        PROVE  storage[i % Capacity] = accepted[i + 1]
    <3>1. i \in Len(taken) .. Len(accepted) - 1 /\ i # Len(taken)
      BY <1>m, <2>2
    <3>2. QED BY <1>0, <3>1 DEF SlotsInv
  <2>4. QED BY <1>0, <2>1, <2>3 DEF SlotsInv
<1>8. CASE UNCHANGED ringVars
  BY <1>0, <1>8 DEF ringVars, SlotsInv
<1>9. QED BY <1>1, <1>2, <1>3, <1>4, <1>5, <1>6, <1>7, <1>8
          DEF Next, Producer, Consumer

(* The inductive invariant holds for every capacity and counter width.     *)
THEOREM RingInvariant == Spec => []RingInv
<1>1. RingInv /\ [Next]_ringVars => RingInv'
  BY TypeStep, CountersStep, SlotsStep DEF RingInv
<1>2. QED BY <1>1, RingInit, PTL DEF Spec

(* try_push and try_pop never touch the same slot at the same time.        *)
THEOREM SlotRaceFreedom == Spec => []NoSlotRace
<1>1. RingInv => NoSlotRace
  <2> SUFFICES ASSUME RingInv, push = "store", pop = "move"
               PROVE  Slot(head) # Slot(tail)
    BY DEF NoSlotRace
  <2>1. /\ Len(taken) \in Nat /\ Len(accepted) \in Nat
        /\ Len(taken) < Len(accepted) /\ Len(accepted) < Len(taken) + Capacity
    BY Lengths DEF RingInv, CountersInv
  <2>2. Len(taken) % Capacity # Len(accepted) % Capacity
    BY <2>1, Widths, ModDistinct
  <2>3. QED BY <2>2, Places DEF RingInv
<1>2. QED BY <1>1, RingInvariant, PTL

(* The ring implements the bounded queue: what try_pop returns is what     *)
(* try_push took, in order and once, and refusals happen only when full.   *)
THEOREM RingImplementsQueue == Spec => ImplementsQueue
<1>1. Init => Queue!Init
  BY DEF Init, Queue!Init
<1>2. RingInv /\ [Next]_ringVars => [Queue!Next]_(Queue!vars)
  <2> SUFFICES ASSUME RingInv, [Next]_ringVars
               PROVE  [Queue!Next]_(Queue!vars)
    OBVIOUS
  <2> USE DEF counters, producer, consumer, history, Queue!vars
  <2>0. TypeOK /\ CountersInv /\ SlotsInv
    BY DEF RingInv
  <2>m. Len(taken) \in Nat /\ Len(accepted) \in Nat /\ Capacity \in Nat
    BY <2>0, Lengths, Widths
  <2>1. CASE TryPushRefuse
    <3>1. Queue!Refuse
      BY <2>0, <2>1, <2>m, FullExact DEF TryPushRefuse, Queue!Refuse, Queue!InTransit
    <3>2. QED BY <3>1 DEF Queue!Next
  <2>2. ASSUME NEW v \in Value, TryPushBegin(v) PROVE UNCHANGED Queue!vars
    BY <2>2 DEF TryPushBegin
  <2>3. CASE TryPushStore
    BY <2>3 DEF TryPushStore
  <2>4. CASE TryPushPublish
    <3>1. Queue!Put(pval) /\ pval \in Value
      BY <2>0, <2>4, <2>m DEF TryPushPublish, Queue!Put, Queue!InTransit, CountersInv, TypeOK
    <3>2. QED BY <3>1 DEF Queue!Next
  <2>5. CASE TryPopBegin
    BY <2>5 DEF TryPopBegin
  <2>6. CASE TryPopMove
    BY <2>6 DEF TryPopMove
  <2>7. CASE TryPopRelease
    <3>1. Queue!Take
      BY <2>0, <2>7, <2>m DEF TryPopRelease, Queue!Take, Queue!InTransit, CountersInv, SlotsInv
    <3>2. QED BY <3>1 DEF Queue!Next
  <2>8. CASE UNCHANGED ringVars
    BY <2>8 DEF ringVars
  <2>9. QED BY <2>1, <2>2, <2>3, <2>4, <2>5, <2>6, <2>7, <2>8
            DEF Next, Producer, Consumer
<1>3. QED BY <1>1, <1>2, RingInvariant, PTL DEF Spec, ImplementsQueue, Queue!Spec
-----------------------------------------------------------------------------
(* The audit log *)

\* Where the two threads can be at the same time: the worker leaves its loop only
\* after stop() has cleared running_, and each thread is inside the ring only in its
\* own loop (audit.hpp:60-105).
ThreadsInv ==
    /\ hot \in {"off", "up", "join"}
    /\ hot = "off" => worker = "none" /\ ~running
    /\ hot = "up" => running /\ worker \in {"loop", "drain", "rotate"}
    /\ hot = "join" => ~running /\ worker \in {"loop", "drain", "rotate", "final", "done"}
    /\ push # "idle" => hot = "up"
    /\ pop # "idle" => worker \in {"drain", "final"}

\* What was taken is what was accepted first; and all of it once the worker is through.
DrainInv ==
    /\ \A i \in 1 .. Len(taken) : taken[i] = accepted[i]
    /\ worker \in {"none", "done"} => Len(taken) = Len(accepted)

\* As long as every open has succeeded, the worker has a file and what it took is in it.
FileInv ==
    /\ failures \in Nat
    /\ failures = 0 => written = taken /\ (worker # "none" => fileOpen)

AuditInv == RingInv /\ ThreadsInv /\ DrainInv /\ FileInv

\* The steps of the audit log are steps of the ring or leave it alone.
LEMMA AuditStepsRing == [AuditNext]_allVars => [Next]_ringVars
BY DEF AuditNext, Start, Record, Stop, StopJoined, Worker, WorkerTest, WorkerPop, WorkerWrite,
       WorkerDrained, WorkerRotate, WorkerExit, NewDay, allVars, Next, Consumer

\* The threads of the audit log use the ring as one producer and one consumer: the log
\* is an implementation of the ring's specification, so that what is proved of the
\* ring holds of the log's (audit.hpp:89, 96, 104).
THEOREM AuditDrivesRing == AuditSpec => Spec
<1>1. AuditInit => Init
  BY DEF AuditInit
<1> QED
  BY <1>1, AuditStepsRing, PTL DEF AuditSpec, Spec

\* A log that was not started yet (audit.hpp:53).
LEMMA AuditInvInit == AuditInit => AuditInv
<1> SUFFICES ASSUME AuditInit PROVE AuditInv
  OBVIOUS
<1>1. RingInv
  BY RingInit DEF AuditInit
<1>2. ThreadsInv
  BY DEF AuditInit, Init, ThreadsInv
<1>3. DrainInv /\ FileInv
  BY DEF AuditInit, Init, DrainInv, FileInv
<1> QED
  BY <1>1, <1>2, <1>3 DEF AuditInv

\* Every step of start(), record(), stop() and run() keeps the threads where they belong.
LEMMA ThreadsStep == AuditInv /\ [AuditNext]_allVars => ThreadsInv'
<1> SUFFICES ASSUME AuditInv, [AuditNext]_allVars PROVE ThreadsInv'
  OBVIOUS
<1> USE DEF AuditInv, ThreadsInv, ringVars, auditVars
<1>1. ASSUME NEW ok \in BOOLEAN, Start(ok) PROVE ThreadsInv'
  <2>1. CASE ok
    BY <1>1, <2>1 DEF Start
  <2>2. CASE ~ok
    BY <1>1, <2>2 DEF Start
  <2> QED
    BY <2>1, <2>2
<1>2. CASE Record
  <2>1. pop' = pop
    BY <1>2 DEF Record, Producer, TryPushRefuse, TryPushBegin, TryPushStore, TryPushPublish,
                consumer
  <2> QED
    BY <1>2, <2>1 DEF Record
<1>3. CASE Stop
  BY <1>3 DEF Stop
<1>4. CASE StopJoined
  BY <1>4 DEF StopJoined
<1>5. CASE WorkerTest
  BY <1>5 DEF WorkerTest
<1>6. CASE WorkerPop
  BY <1>6 DEF WorkerPop, TryPopBegin, TryPopMove, producer
<1>7. CASE WorkerWrite
  BY <1>7 DEF WorkerWrite, TryPopRelease, producer
<1>8. CASE WorkerDrained
  BY <1>8 DEF WorkerDrained
<1>9. ASSUME NEW ok \in BOOLEAN, WorkerRotate(ok) PROVE ThreadsInv'
  BY <1>9 DEF WorkerRotate
<1>10. CASE WorkerExit
  BY <1>10 DEF WorkerExit
<1>11. CASE NewDay
  BY <1>11 DEF NewDay
<1>12. CASE UNCHANGED allVars
  BY <1>12 DEF allVars
<1> QED
  BY <1>1, <1>2, <1>3, <1>4, <1>5, <1>6, <1>7, <1>8, <1>9, <1>10, <1>11, <1>12
     DEF AuditNext, Worker

\* Every step keeps what was taken a prefix of what was accepted, and the worker ends
\* only when it is all of it: its last drain begins after the last record().
LEMMA DrainStep == AuditInv /\ [AuditNext]_allVars => DrainInv'
<1> SUFFICES ASSUME AuditInv, [AuditNext]_allVars PROVE DrainInv'
  OBVIOUS
<1>0. TypeOK /\ CountersInv /\ SlotsInv /\ ThreadsInv /\ DrainInv
  BY DEF AuditInv, RingInv
<1>m. Len(taken) \in Nat /\ Len(accepted) \in Nat /\ Len(taken) <= Len(accepted)
  BY <1>0, Lengths DEF CountersInv
<1>k. ASSUME UNCHANGED <<taken, accepted>>, worker' \in {"none", "done"} => worker \in {"none", "done"}
      PROVE  DrainInv'
  BY <1>0, <1>k DEF DrainInv
<1> USE DEF ringVars, auditVars
<1>1. ASSUME NEW ok \in BOOLEAN, Start(ok) PROVE DrainInv'
  BY <1>1, <1>k, <1>0 DEF Start, ThreadsInv
<1>2. CASE Record
  <2>1. worker' \notin {"none", "done"} /\ taken' = taken
    BY <1>0, <1>2 DEF Record, ThreadsInv, Producer, TryPushRefuse, TryPushBegin, TryPushStore,
                      TryPushPublish, history
  <2>2. CASE accepted' = accepted
    BY <1>0, <2>1, <2>2 DEF DrainInv
  <2>3. CASE TryPushPublish
    <3>1. \A i \in 1 .. Len(accepted) : accepted'[i] = accepted[i]
      BY <1>0, <2>3 DEF TryPushPublish, TypeOK
    <3> QED
      BY <1>0, <1>m, <2>1, <3>1 DEF DrainInv
  <2> QED
    BY <1>2, <2>2, <2>3 DEF Record, Producer, TryPushRefuse, TryPushBegin, TryPushStore, history
<1>3. CASE Stop
  BY <1>3, <1>k DEF Stop
<1>4. CASE StopJoined
  BY <1>4, <1>k DEF StopJoined
<1>5. CASE WorkerTest
  BY <1>5, <1>k DEF WorkerTest
<1>6. CASE WorkerPop
  BY <1>6, <1>k DEF WorkerPop, TryPopBegin, TryPopMove, history
<1>7. CASE WorkerWrite
  <2>1. /\ taken' = Append(taken, cval) /\ accepted' = accepted /\ pop = "release"
        /\ worker' \notin {"none", "done"}
    BY <1>7 DEF WorkerWrite, TryPopRelease
  <2>2. cval = accepted[Len(taken) + 1]
    BY <1>0, <2>1 DEF SlotsInv
  <2>3. /\ Len(taken') = Len(taken) + 1 /\ taken'[Len(taken) + 1] = cval
        /\ \A i \in 1 .. Len(taken) : taken'[i] = taken[i]
    BY <1>0, <2>1 DEF TypeOK
  <2> QED
    BY <1>0, <1>m, <2>1, <2>2, <2>3 DEF DrainInv
<1>8. CASE WorkerDrained
  BY <1>8, <1>k DEF WorkerDrained
<1>9. ASSUME NEW ok \in BOOLEAN, WorkerRotate(ok) PROVE DrainInv'
  BY <1>9, <1>k DEF WorkerRotate
<1>10. CASE WorkerExit
  <2>1. Len(accepted) = Len(taken)
    BY <1>0, <1>10, EmptyExact DEF WorkerExit
  <2> QED
    BY <1>0, <1>10, <2>1 DEF WorkerExit, DrainInv
<1>11. CASE NewDay
  BY <1>11, <1>k DEF NewDay
<1>12. CASE UNCHANGED allVars
  BY <1>12, <1>k DEF allVars
<1> QED
  BY <1>1, <1>2, <1>3, <1>4, <1>5, <1>6, <1>7, <1>8, <1>9, <1>10, <1>11, <1>12
     DEF AuditNext, Worker

\* Every step keeps a file under the worker, or counts the open that failed.
LEMMA FileStep == AuditInv /\ [AuditNext]_allVars => FileInv'
<1> SUFFICES ASSUME AuditInv, [AuditNext]_allVars PROVE FileInv'
  OBVIOUS
<1>0. FileInv /\ ThreadsInv
  BY DEF AuditInv
<1> USE DEF ringVars, auditVars
<1>1. ASSUME NEW ok \in BOOLEAN, Start(ok) PROVE FileInv'
  BY <1>0, <1>1 DEF Start, OpenForToday, FileInv
<1>2. CASE Record
  BY <1>0, <1>2 DEF Record, Producer, TryPushRefuse, TryPushBegin, TryPushStore, TryPushPublish,
                    history, FileInv
<1>3. CASE Stop
  BY <1>0, <1>3 DEF Stop, FileInv
<1>4. CASE StopJoined
  BY <1>0, <1>4 DEF StopJoined, FileInv
<1>5. CASE WorkerTest
  BY <1>0, <1>5 DEF WorkerTest, FileInv
<1>6. CASE WorkerPop
  BY <1>0, <1>6 DEF WorkerPop, TryPopBegin, TryPopMove, history, FileInv
<1>7. CASE WorkerWrite
  BY <1>0, <1>7 DEF WorkerWrite, TryPopRelease, FileInv
<1>8. CASE WorkerDrained
  BY <1>0, <1>8 DEF WorkerDrained, FileInv
<1>9. ASSUME NEW ok \in BOOLEAN, WorkerRotate(ok) PROVE FileInv'
  BY <1>0, <1>9 DEF WorkerRotate, OpenForToday, FileInv
<1>10. CASE WorkerExit
  BY <1>0, <1>10 DEF WorkerExit, FileInv
<1>11. CASE NewDay
  BY <1>0, <1>11 DEF NewDay, FileInv
<1>12. CASE UNCHANGED allVars
  BY <1>0, <1>12 DEF allVars, FileInv
<1> QED
  BY <1>1, <1>2, <1>3, <1>4, <1>5, <1>6, <1>7, <1>8, <1>9, <1>10, <1>11, <1>12
     DEF AuditNext, Worker

\* When stop() has returned (audit.hpp:68-75), nothing is left in the ring, and unless
\* an open failed every accepted record is in a file, in order: for every capacity of
\* the ring, any number of records, restarts, rotations and failed opens.
THEOREM DrainedAtStopHolds == AuditSpec => []DrainedAtStop
<1>1. AuditInv /\ [AuditNext]_allVars => AuditInv'
  BY AuditStepsRing, TypeStep, CountersStep, SlotsStep, ThreadsStep, DrainStep, FileStep
     DEF AuditInv, RingInv
<1>2. AuditInv => DrainedAtStop
  <2> SUFFICES ASSUME AuditInv, hot = "off"
               PROVE  taken = accepted /\ (failures = 0 => written = accepted)
    BY DEF DrainedAtStop
  <2>1. TypeOK /\ Len(taken) = Len(accepted) /\ \A i \in 1 .. Len(taken) : taken[i] = accepted[i]
    BY DEF AuditInv, RingInv, ThreadsInv, DrainInv
  <2>2. taken \in Seq(Value \cup {Moved}) /\ accepted \in Seq(Value \cup {Moved})
    BY <2>1 DEF TypeOK
  <2>3. taken = accepted
    BY <2>1, <2>2
  <2> QED
    BY <2>3 DEF AuditInv, FileInv
<1> QED
  BY <1>1, <1>2, AuditInvInit, PTL DEF AuditSpec

\* The threads of a log never touch one slot of its ring at the same time
\* (audit.hpp:89, 96), although stop() may find the worker anywhere.
THEOREM AuditSlotRaceFreedom == AuditSpec => []NoSlotRace
BY AuditDrivesRing, SlotRaceFreedom, PTL
=============================================================================
