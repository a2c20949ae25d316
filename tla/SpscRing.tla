------------------------------ MODULE SpscRing ------------------------------
(***************************************************************************)
(* bist::SpscRing (include/bist/core/ring_buffer.hpp): a lock-free queue   *)
(* between one producer thread and one consumer thread.                    *)
(*                                                                         *)
(* try_push and try_pop are split where another thread can run: after the  *)
(* loads of the two counters, after the plain access to the slot, and      *)
(* after the releasing store.  Each thread is the only writer of its own   *)
(* counter, so its relaxed load of it is not a step; the acquire load of   *)
(* the other thread's counter may be stale by the time it is used.         *)
(***************************************************************************)
EXTENDS Naturals, Sequences

CONSTANTS
    Value,      \* what a slot can hold
    Moved,      \* what std::move leaves behind in a slot
    Capacity,   \* number of slots (a power of two in the code)
    Modulus,    \* head_ and tail_ count modulo this (2^64 in the code)
    MaxPush     \* bound of the model: calls of try_push

ASSUME RingAssumption ==
    /\ Capacity \in Nat \ {0}
    /\ Modulus \in Nat /\ Modulus > Capacity + 1
    /\ Modulus % Capacity = 0     \* both are powers of two
    /\ MaxPush \in Nat
    /\ Moved \notin Value

VARIABLES
    head, tail,         \* head_, tail_: the next slot to write, to read
    storage,            \* storage_
    push, pval,         \* the producer: where it is in try_push, its argument
    pop, cval,          \* the consumer: where it is in try_pop, its local v
    accepted,           \* history: the values try_push took
    taken,              \* history: the values try_pop returned
    refused             \* history: how many try_push calls returned false

counters == <<head, tail>>
producer == <<push, pval>>
consumer == <<pop, cval>>
history  == <<accepted, taken, refused>>
ringVars == <<head, tail, storage, push, pval, pop, cval, accepted, taken, refused>>

-----------------------------------------------------------------------------
Slot(counter) == counter % Capacity          \* counter & kMask

Succ(counter) == (counter + 1) % Modulus     \* unsigned increment

Distance(from, to) == (to + Modulus - from) % Modulus   \* unsigned to - from

Init ==
    /\ head = 0 /\ tail = 0
    /\ storage = [s \in 0 .. Capacity - 1 |-> Moved]
    /\ push = "idle" /\ pval = Moved
    /\ pop = "idle" /\ cval = Moved
    /\ accepted = <<>> /\ taken = <<>> /\ refused = 0

-----------------------------------------------------------------------------
\* Faulty forms of the definitions below, for the mutation checks.
FullUnwrapped == head >= tail + Capacity           \* compares wrapped counters

FullEarly == Distance(tail, Succ(head)) >= Capacity

MoveAfterIncrement ==                              \* reads the slot after tail_
    /\ pop = "move"
    /\ cval' = storage[Slot(Succ(tail))]
    /\ storage' = [storage EXCEPT ![Slot(tail)] = Moved]
    /\ pop' = "release"
    /\ UNCHANGED <<counters, producer, history>>

-----------------------------------------------------------------------------
(* The producer *)

Full == Distance(tail, Succ(head)) > Capacity

\* try_push returns false.
TryPushRefuse ==
    /\ push = "idle"
    /\ Len(accepted) + refused < MaxPush
    /\ Full
    /\ refused' = refused + 1
    /\ UNCHANGED <<counters, storage, producer, consumer, accepted, taken>>

TryPushBegin(v) ==
    /\ push = "idle"
    /\ Len(accepted) + refused < MaxPush
    /\ ~Full
    /\ push' = "store" /\ pval' = v
    /\ UNCHANGED <<counters, storage, consumer, history>>

TryPushStore ==
    /\ push = "store"
    /\ storage' = [storage EXCEPT ![Slot(head)] = pval]
    /\ push' = "publish"
    /\ UNCHANGED <<counters, pval, consumer, history>>

TryPushPublish ==
    /\ push = "publish"
    /\ head' = Succ(head)
    /\ accepted' = Append(accepted, pval)
    /\ push' = "idle" /\ pval' = Moved
    /\ UNCHANGED <<tail, storage, consumer, taken, refused>>

-----------------------------------------------------------------------------
(* The consumer *)

Empty == tail = head

TryPopBegin ==
    /\ pop = "idle"
    /\ ~Empty
    /\ pop' = "move"
    /\ UNCHANGED <<counters, storage, producer, cval, history>>

TryPopMove ==
    /\ pop = "move"
    /\ cval' = storage[Slot(tail)]
    /\ storage' = [storage EXCEPT ![Slot(tail)] = Moved]
    /\ pop' = "release"
    /\ UNCHANGED <<counters, producer, history>>

TryPopRelease ==
    /\ pop = "release"
    /\ tail' = Succ(tail)
    /\ taken' = Append(taken, cval)
    /\ pop' = "idle" /\ cval' = Moved
    /\ UNCHANGED <<head, storage, producer, accepted, refused>>

-----------------------------------------------------------------------------
Producer == TryPushRefuse \/ (\E v \in Value : TryPushBegin(v)) \/ TryPushStore
              \/ TryPushPublish
Consumer == TryPopBegin \/ TryPopMove \/ TryPopRelease

Next == Producer \/ Consumer

Spec == Init /\ [][Next]_ringVars

-----------------------------------------------------------------------------
\* Every variable keeps its type; the counters stay inside their width, which
\* is what makes "counter & kMask" (ring_buffer.hpp:54,66) an index.
TypeOK ==
    /\ head \in 0 .. Modulus - 1 /\ tail \in 0 .. Modulus - 1
    /\ storage \in [0 .. Capacity - 1 -> Value \cup {Moved}]
    /\ push \in {"idle", "store", "publish"}
    /\ pval \in Value \cup {Moved}
    /\ push # "idle" => pval \in Value
    /\ pop \in {"idle", "move", "release"}
    /\ cval \in Value \cup {Moved}
    /\ accepted \in Seq(Value)
    /\ taken \in Seq(Value \cup {Moved})
    /\ refused \in Nat

\* The producer never writes the slot the consumer is reading: the plain
\* (non-atomic) accesses to storage_ in try_push and try_pop do not race,
\* whatever the counters have wrapped to.
NoSlotRace ==
    push = "store" /\ pop = "move" => Slot(head) # Slot(tail)

\* The queue the two threads see: first in, first out, each value once, no
\* moved-from value returned, a push refused only when Capacity values are in.
Queue == INSTANCE BoundedQueue WITH Value <- Value, Capacity <- Capacity,
                                    accepted <- accepted, taken <- taken, refused <- refused
ImplementsQueue == Queue!Spec

-----------------------------------------------------------------------------
(* The inductive invariant behind NoSlotRace and ImplementsQueue *)

\* The counters are the lengths of the two histories, modulo their width, and
\* at most Capacity values are between them.
CountersInv ==
    /\ head = Len(accepted) % Modulus
    /\ tail = Len(taken) % Modulus
    /\ Len(taken) <= Len(accepted)
    /\ Len(accepted) <= Len(taken) + Capacity
    /\ push # "idle" => Len(accepted) < Len(taken) + Capacity
    /\ pop # "idle" => Len(taken) < Len(accepted)

\* What is in transit is in the slots, except what a thread holds in its hand.
SlotsInv ==
    /\ push = "publish" => storage[Len(accepted) % Capacity] = pval
    /\ pop = "release" => cval = accepted[Len(taken) + 1]
    /\ \A i \in Len(taken) .. Len(accepted) - 1 :
          i # Len(taken) \/ pop # "release" =>
             storage[i % Capacity] = accepted[i + 1]

RingInv == TypeOK /\ CountersInv /\ SlotsInv
=============================================================================
