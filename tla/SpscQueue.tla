------------------------------ MODULE SpscQueue ------------------------------
(***************************************************************************)
(* The lock-free single-producer single-consumer ring (inc/SpscQueue.hpp). *)
(* TryPush and TryPop are split where the other thread can interleave: the *)
(* index loads and the test, the access to the slot, the release store.    *)
(*                                                                         *)
(* An acquire load may return an old value of the other thread's index:    *)
(* any one not older than the last it returned.  seen_tail is the value of *)
(* tail_ that the producer's loads return, and seen_head that of head_ for *)
(* the consumer's; they catch up one store at a time.  The slots are plain *)
(* memory, so the release and acquire orders are only good enough if the   *)
(* two threads never touch one slot at the same time (NoSlotRace).         *)
(***************************************************************************)
EXTENDS Integers, Sequences

CONSTANTS
    Values,     \* what is queued
    Capacity    \* the constructor's argument

\* The constructor rejects a capacity of 0.
ASSUME QueueAssumption ==
    /\ Capacity \in Nat \ {0}
    /\ Values # {}

Size == Capacity + 1    \* one sentinel slot
Index == 0 .. Capacity

VARIABLES
    slots,      \* slots_
    head,       \* head_: the slot the producer writes next
    tail,       \* tail_: the slot the consumer reads next
    seen_tail,  \* tail_ as the producer sees it
    seen_head,  \* head_ as the consumer sees it
    ppc,        \* where the producer is in TryPush
    cpc,        \* where the consumer is in TryPop
    value,      \* the argument of TryPush
    read,       \* the consumer's copy of the slot
    popped      \* what the last successful TryPop gave

indexVars == <<head, tail, seen_tail, seen_head>>
prodVars == <<ppc, value>>
consVars == <<cpc, read, popped>>
vars == <<slots, indexVars, prodVars, consVars>>

TypeOK ==
    /\ slots \in [Index -> Values]
    /\ head \in Index /\ tail \in Index
    /\ seen_tail \in Index /\ seen_head \in Index
    /\ ppc \in {"idle", "test", "write", "publish"}
    /\ cpc \in {"idle", "test", "read", "publish"}
    /\ value \in Values /\ read \in Values /\ popped \in Values

\* Fault: the index is wrapped one slot too late.
NextIndexUnwrapped(i) == IF i = Size THEN 0 ELSE i + 1

\* SpscQueue::Next.
NextIndex(i) == IF i + 1 = Size THEN 0 ELSE i + 1

\* Every slot holds the default value of T.
Init ==
    /\ \E v \in Values : /\ slots = [i \in Index |-> v]
                          /\ value = v /\ read = v /\ popped = v
    /\ head = 0 /\ tail = 0 /\ seen_tail = 0 /\ seen_head = 0
    /\ ppc = "idle" /\ cpc = "idle"

-----------------------------------------------------------------------------
(* The producer                                                            *)

\* TryPush is called.
CallPush(v) ==
    /\ ppc = "idle"
    /\ ppc' = "test"
    /\ value' = v
    /\ UNCHANGED <<slots, indexVars, consVars>>

IsFull == NextIndex(head) = seen_tail

PushFails ==
    /\ ppc = "test" /\ IsFull
    /\ ppc' = "idle"
    /\ UNCHANGED <<slots, indexVars, value, consVars>>

PushProceeds ==
    /\ ppc = "test" /\ ~IsFull
    /\ ppc' = "write"
    /\ UNCHANGED <<slots, indexVars, value, consVars>>

\* Fault: the head is published with the slot still unwritten.
WriteSlotUnordered ==
    /\ ppc = "write"
    /\ ppc' = "publish"
    /\ UNCHANGED <<slots, indexVars, value, consVars>>

WriteSlot ==
    /\ ppc = "write"
    /\ slots' = [slots EXCEPT ![head] = value]
    /\ ppc' = "publish"
    /\ UNCHANGED <<indexVars, value, consVars>>

PublishHead ==
    /\ ppc = "publish"
    /\ head' = NextIndex(head)
    /\ ppc' = "idle"
    /\ UNCHANGED <<slots, tail, seen_tail, seen_head, value, consVars>>

\* A later store of tail_ becomes visible to the producer.
SeeTail ==
    /\ seen_tail # tail
    /\ seen_tail' = NextIndex(seen_tail)
    /\ UNCHANGED <<slots, head, tail, seen_head, prodVars, consVars>>

-----------------------------------------------------------------------------
(* The consumer                                                            *)

CallPop ==
    /\ cpc = "idle"
    /\ cpc' = "test"
    /\ UNCHANGED <<slots, indexVars, prodVars, read, popped>>

\* Fault: the emptiness test is off by one.
IsEmptyAhead == NextIndex(tail) = seen_head

IsEmpty == tail = seen_head

PopFails ==
    /\ cpc = "test" /\ IsEmpty
    /\ cpc' = "idle"
    /\ UNCHANGED <<slots, indexVars, prodVars, read, popped>>

PopProceeds ==
    /\ cpc = "test" /\ ~IsEmpty
    /\ cpc' = "read"
    /\ UNCHANGED <<slots, indexVars, prodVars, read, popped>>

ReadSlot ==
    /\ cpc = "read"
    /\ read' = slots[tail]
    /\ cpc' = "publish"
    /\ UNCHANGED <<slots, indexVars, prodVars, popped>>

PublishTail ==
    /\ cpc = "publish"
    /\ tail' = NextIndex(tail)
    /\ popped' = read
    /\ cpc' = "idle"
    /\ UNCHANGED <<slots, head, seen_tail, seen_head, prodVars, read>>

\* Fault: a compiler may hoist a plain load of head_.
SeeHeadNever == FALSE

\* A later store of head_ becomes visible to the consumer.
SeeHead ==
    /\ seen_head # head
    /\ seen_head' = NextIndex(seen_head)
    /\ UNCHANGED <<slots, head, tail, seen_tail, prodVars, consVars>>

-----------------------------------------------------------------------------
Producer == PushFails \/ PushProceeds \/ WriteSlot \/ PublishHead
Consumer == CallPop \/ PopFails \/ PopProceeds \/ ReadSlot \/ PublishTail

Next ==
    \/ \E v \in Values : CallPush(v)
    \/ Producer \/ Consumer
    \/ SeeTail \/ SeeHead

Spec == Init /\ [][Next]_vars

\* A store becomes visible in finite time, a TryPush that has begun ends, and
\* the consumer polls for ever, as the sink of EbpfTelemetry::TryPop does.
FairSpec ==
    /\ Spec
    /\ WF_vars(Producer) /\ WF_vars(Consumer)
    /\ WF_vars(SeeTail) /\ WF_vars(SeeHead)

-----------------------------------------------------------------------------
(* Properties                                                              *)

\* Steps from index i forward to index j around the ring.
Distance(i, j) == IF i <= j THEN j - i ELSE j - i + Size

\* Producer and consumer never access the same slot at the same time: a plain
\* write concurrent with a plain read would be a data race.
NoSlotRace ==
    ~ (ppc \in {"write", "publish"} /\ cpc \in {"read", "publish"} /\ head = tail)

\* However stale the indices each side sees, they stay in ring order: the
\* producer never sees tail_ past the real one and never reaches it, the
\* consumer never sees head_ past the real one.
RingOrder ==
    /\ Distance(seen_tail, tail) + Distance(tail, seen_head)
         + Distance(seen_head, head) = Distance(seen_tail, head)
    /\ ppc \in {"write", "publish"} => Distance(seen_tail, head) < Capacity
    /\ cpc \in {"read", "publish"} => Distance(tail, seen_head) > 0

\* The queue's contents: the slots from tail to head.
Contents ==
    [i \in 1 .. Distance(tail, head) |->
        slots[IF tail + i - 1 < Size THEN tail + i - 1 ELSE tail + i - 1 - Size]]

Fifo == INSTANCE BoundedFifo WITH q <- Contents, arg <- value, out <- popped

\* SpscQueue implements the bounded FIFO: no value is lost, duplicated,
\* invented or reordered, and a successful push or pop takes effect at its
\* release store.
ImplementsFifo == Fifo!Spec

\* A consumer that keeps polling gets every value: none stays at the front.
FrontLeaves == \A i \in Index : (tail = i /\ head # i) ~> tail # i
=============================================================================
