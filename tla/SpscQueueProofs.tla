--------------------------- MODULE SpscQueueProofs ---------------------------
(***************************************************************************)
(* SpscQueue is free of slot races and implements the bounded FIFO, for    *)
(* every set of values and every positive capacity.                        *)
(***************************************************************************)
EXTENDS SpscQueue, SequenceTheorems, TLAPS

\* What each thread knows about the slot it works on.
SlotContents ==
    /\ ppc = "publish" => slots[head] = value
    /\ cpc = "publish" => read = slots[tail]

\* The inductive invariant.
IInv == TypeOK /\ RingOrder /\ SlotContents

\* Going one step round the ring stays on the ring and adds one to every
\* distance that ends there, unless the distance was already Capacity.
LEMMA StepForward ==
    ASSUME NEW i \in Index, NEW j \in Index
    PROVE  /\ NextIndex(j) \in Index
           /\ Distance(i, j) \in 0 .. Capacity
           /\ Distance(i, j) < Capacity => Distance(i, NextIndex(j)) = Distance(i, j) + 1
           /\ i # j => Distance(NextIndex(i), j) = Distance(i, j) - 1
           /\ Distance(i, j) = 0 <=> i = j
BY QueueAssumption DEF Index, NextIndex, Distance, Size

\* The queue starts in the invariant.
LEMMA InitInv == Init => IInv
BY QueueAssumption DEF Init, IInv, TypeOK, RingOrder, SlotContents, Index, Distance

\* No step leaves the types.
LEMMA TypeStep ==
    ASSUME TypeOK, Next
    PROVE  TypeOK'
<1> USE DEF TypeOK, indexVars, prodVars, consVars
<1>1. ASSUME NEW v \in Values, CallPush(v)
      PROVE  TypeOK'
    BY <1>1 DEF CallPush
<1>2. CASE Producer
    BY <1>2, StepForward
    DEF Producer, PushFails, PushProceeds, WriteSlot, PublishHead
<1>3. CASE Consumer
    BY <1>3, StepForward
    DEF Consumer, CallPop, PopFails, PopProceeds, ReadSlot, PublishTail
<1>4. CASE SeeTail \/ SeeHead
    BY <1>4, StepForward DEF SeeTail, SeeHead
<1> QED
    BY <1>1, <1>2, <1>3, <1>4 DEF Next

\* The four indices keep their order around the ring.
LEMMA OrderStep ==
    ASSUME TypeOK, RingOrder, Next
    PROVE  RingOrder'
<1> USE QueueAssumption DEF TypeOK, RingOrder, Index, NextIndex, Distance, Size,
        indexVars, prodVars, consVars
<1>1. ASSUME NEW v \in Values, CallPush(v)
      PROVE  RingOrder'
    BY <1>1 DEF CallPush
<1>2. CASE PushFails \/ PushProceeds \/ WriteSlot
    <2>1. CASE PushFails
        BY <2>1 DEF PushFails
    <2>2. CASE PushProceeds
        BY <2>2 DEF PushProceeds, IsFull
    <2>3. CASE WriteSlot
        BY <2>3 DEF WriteSlot
    <2> QED
        BY <1>2, <2>1, <2>2, <2>3
<1>3. CASE PublishHead
    BY <1>3 DEF PublishHead
<1>4. CASE CallPop \/ PopFails \/ PopProceeds \/ ReadSlot
    <2>1. CASE CallPop \/ PopFails
        BY <2>1 DEF CallPop, PopFails
    <2>2. CASE PopProceeds
        BY <2>2 DEF PopProceeds, IsEmpty
    <2>3. CASE ReadSlot
        BY <2>3 DEF ReadSlot
    <2> QED
        BY <1>4, <2>1, <2>2, <2>3
<1>5. CASE PublishTail
    BY <1>5 DEF PublishTail
<1>6. CASE SeeTail
    BY <1>6 DEF SeeTail
<1>7. CASE SeeHead
    BY <1>7 DEF SeeHead
<1> QED
    BY <1>1, <1>2, <1>3, <1>4, <1>5, <1>6, <1>7 DEF Next, Producer, Consumer

\* The indices being in order, the threads are never in the same slot.
LEMMA NoRace == TypeOK /\ RingOrder => NoSlotRace
BY QueueAssumption DEF TypeOK, RingOrder, NoSlotRace, Index, Distance, Size

\* Each thread's slot is left alone by the other.
LEMMA ContentsStep ==
    ASSUME TypeOK, RingOrder, SlotContents, Next
    PROVE  SlotContents'
<1> USE DEF TypeOK, SlotContents, indexVars, prodVars, consVars
<1>1. ASSUME NEW v \in Values, CallPush(v)
      PROVE  SlotContents'
    BY <1>1 DEF CallPush
<1>2. CASE Producer
    BY <1>2, NoRace DEF NoSlotRace, Producer, PushFails, PushProceeds, WriteSlot,
        PublishHead
<1>3. CASE Consumer
    BY <1>3 DEF Consumer, CallPop, PopFails, PopProceeds, ReadSlot, PublishTail
<1>4. CASE SeeTail \/ SeeHead
    BY <1>4 DEF SeeTail, SeeHead
<1> QED
    BY <1>1, <1>2, <1>3, <1>4 DEF Next

\* The invariant is inductive.
LEMMA NextInv == IInv /\ [Next]_vars => IInv'
<1> SUFFICES ASSUME IInv, [Next]_vars PROVE IInv'
    OBVIOUS
<1>1. CASE Next
    BY <1>1, TypeStep, OrderStep, ContentsStep DEF IInv
<1>2. CASE UNCHANGED vars
    BY <1>2 DEF IInv, TypeOK, RingOrder, SlotContents, Distance, vars,
        indexVars, prodVars, consVars
<1> QED
    BY <1>1, <1>2

\* Every behaviour of the queue satisfies the inductive invariant.
THEOREM InvariantHolds == Spec => []IInv
BY InitInv, NextInv, PTL DEF Spec

\* Type correctness of the queue.
THEOREM TypeCorrect == Spec => []TypeOK
<1>1. IInv => TypeOK
    BY DEF IInv
<1> QED
    BY <1>1, InvariantHolds, PTL

\* The plain slot accesses of TryPush and TryPop never race, whatever the
\* capacity and however late each side sees the other's index.
THEOREM RaceFree == Spec => []NoSlotRace
<1>1. IInv => NoSlotRace
    BY NoRace DEF IInv
<1> QED
    BY <1>1, InvariantHolds, PTL

\* The order of head_, tail_ and their stale views around the ring.
THEOREM OrderHolds == Spec => []RingOrder
<1>1. IInv => RingOrder
    BY DEF IInv
<1> QED
    BY <1>1, InvariantHolds, PTL

-----------------------------------------------------------------------------
(* Refinement                                                               *)

\* The slot that holds the i-th value of the queue.
Place(i) == IF tail + i - 1 < Size THEN tail + i - 1 ELSE tail + i - 1 - Size

\* The contents are a sequence of values, as long as the indices are apart.
LEMMA ContentsType ==
    ASSUME TypeOK
    PROVE  /\ Contents \in Seq(Values)
           /\ Len(Contents) = Distance(tail, head)
           /\ Distance(tail, head) \in 0 .. Capacity
           /\ \A i \in 1 .. Distance(tail, head) : Place(i) \in Index /\ Contents[i] = slots[Place(i)]
<1>1. Distance(tail, head) \in 0 .. Capacity
    BY StepForward DEF TypeOK
<1>2. \A i \in 1 .. Distance(tail, head) : Place(i) \in Index
    BY <1>1, QueueAssumption DEF TypeOK, Index, Place, Distance, Size
<1>3. Contents = [i \in 1 .. Distance(tail, head) |-> slots[Place(i)]]
    BY DEF Contents, Place
<1>4. \A i \in 1 .. Distance(tail, head) : slots[Place(i)] \in Values
    BY <1>2 DEF TypeOK
<1> QED
    BY <1>1, <1>2, <1>3, <1>4, QueueAssumption

\* The queue starts empty.
LEMMA InitRefines == Init => Fifo!Init
<1> SUFFICES ASSUME Init PROVE Fifo!Init
    OBVIOUS
<1>1. Distance(tail, head) = 0
    BY DEF Init, Distance
<1>2. Contents = <<>>
    BY <1>1 DEF Contents
<1> QED
    BY <1>2 DEF Init, Fifo!Init

\* A step that keeps both indices and the slots between them keeps the
\* contents.
LEMMA ContentsFrame ==
    ASSUME TypeOK, head' = head, tail' = tail,
           \A i \in 1 .. Distance(tail, head) : slots'[Place(i)] = slots[Place(i)]
    PROVE  Contents' = Contents
BY DEF Contents, Place, Distance

\* The release store of head_ is the abstract push.
LEMMA PublishHeadRefines ==
    ASSUME IInv, PublishHead
    PROVE  Fifo!Push
<1> DEFINE n == Distance(tail, head)
<1>1. n \in 0 .. Capacity /\ n < Capacity
    BY QueueAssumption
    DEF IInv, TypeOK, RingOrder, PublishHead, Index, Distance, Size
<1>2. Distance(tail, head)' = n + 1
    BY <1>1, StepForward, QueueAssumption
    DEF IInv, TypeOK, PublishHead, Index, NextIndex, Distance, Size
<1>3. Place(n + 1) = head
    BY QueueAssumption DEF IInv, TypeOK, Place, Index, Distance, Size
<1>4. Contents' = [i \in 1 .. n + 1 |-> slots[Place(i)]]
    BY <1>2 DEF Contents, Place, PublishHead
<1>5. Contents = [i \in 1 .. n |-> slots[Place(i)]]
    BY DEF Contents, Place
<1>6. slots[Place(n + 1)] = value
    BY <1>3 DEF IInv, SlotContents, PublishHead
<1>7. Contents \in Seq(Values) /\ Len(Contents) = n
    BY ContentsType DEF IInv
<1>8. Contents' = Append(Contents, value)
    <2>1. value \in Values
        BY DEF IInv, TypeOK
    <2>2. \A i \in 1 .. n : slots[Place(i)] \in Values /\ Contents[i] = slots[Place(i)]
        BY ContentsType DEF IInv, TypeOK
    <2>3. \A i \in 1 .. n + 1 : slots[Place(i)] \in Values
        BY <1>1, <1>6, <2>1, <2>2
    <2>4. Contents' \in Seq(Values) /\ Len(Contents') = n + 1
        BY <1>1, <1>4, <2>3
    <2>5. \A i \in 1 .. n + 1 : Contents'[i] = slots[Place(i)]
        BY <1>4
    <2>6. /\ Append(Contents, value) \in Seq(Values)
          /\ Len(Append(Contents, value)) = n + 1
          /\ \A i \in 1 .. n : Append(Contents, value)[i] = Contents[i]
          /\ Append(Contents, value)[n + 1] = value
        BY <1>7, <2>1, AppendProperties
    <2>7. \A i \in 1 .. n + 1 : Contents'[i] = Append(Contents, value)[i]
        BY <1>1, <1>6, <2>2, <2>5, <2>6
    <2> QED
        BY <2>4, <2>6, <2>7, SeqEqual
<1> QED
    BY <1>1, <1>7, <1>8 DEF Fifo!Push, PublishHead, consVars

\* The release store of tail_ is the abstract pop.
LEMMA PublishTailRefines ==
    ASSUME IInv, PublishTail
    PROVE  Fifo!Pop
<1> DEFINE n == Distance(tail, head)
<1>1. n \in 1 .. Capacity
    BY QueueAssumption
    DEF IInv, TypeOK, RingOrder, PublishTail, Index, Distance, Size
<1>2. Distance(tail, head)' = n - 1
    BY <1>1, QueueAssumption
    DEF IInv, TypeOK, PublishTail, Index, NextIndex, Distance, Size
<1>3. Place(1) = tail
    BY QueueAssumption DEF IInv, TypeOK, Place, Index, Size
<1>4. \A i \in 1 .. n - 1 : Place(i)' = Place(i + 1)
    BY <1>1, QueueAssumption
    DEF IInv, TypeOK, Place, PublishTail, NextIndex, Index, Size
<1>5. Contents' = [i \in 1 .. n - 1 |-> slots[Place(i + 1)]]
    BY <1>2, <1>4 DEF Contents, Place, PublishTail
<1>6. Contents \in Seq(Values) /\ Len(Contents) = n
    BY ContentsType DEF IInv
<1>7. \A i \in 1 .. n : Contents[i] = slots[Place(i)]
    BY ContentsType DEF IInv
<1>8. Head(Contents) = slots[tail] /\ Contents # <<>>
    BY <1>1, <1>3, <1>6, <1>7
<1>9. Contents' = Tail(Contents)
    <2>1. /\ Tail(Contents) \in Seq(Values)
          /\ Len(Tail(Contents)) = n - 1
          /\ \A i \in 1 .. n - 1 : Tail(Contents)[i] = Contents[i + 1]
        BY <1>6, <1>8, HeadTailProperties
    <2>2. \A i \in 1 .. n - 1 : /\ Contents[i + 1] = slots[Place(i + 1)]
                                /\ slots[Place(i + 1)] \in Values
        BY <1>1, <1>7, ContentsType DEF IInv, TypeOK
    <2>3. Contents' \in Seq(Values) /\ Len(Contents') = n - 1
        BY <1>1, <1>5, <2>2
    <2>4. \A i \in 1 .. n - 1 : Contents'[i] = Tail(Contents)[i]
        BY <1>5, <2>1, <2>2
    <2> QED
        BY <2>1, <2>3, <2>4, SeqEqual
<1>10. popped' = Head(Contents)
    BY <1>8 DEF IInv, SlotContents, PublishTail
<1> QED
    BY <1>8, <1>9, <1>10 DEF Fifo!Pop, PublishTail, prodVars

\* The slot being written lies outside the contents.
LEMMA WriteRefines ==
    ASSUME IInv, WriteSlot
    PROVE  Contents' = Contents
<1>1. \A i \in 1 .. Distance(tail, head) : Place(i) \in Index /\ Place(i) # head
    BY QueueAssumption DEF IInv, TypeOK, Place, Index, Distance, Size
<1>2. \A i \in 1 .. Distance(tail, head) : slots'[Place(i)] = slots[Place(i)]
    BY <1>1 DEF IInv, TypeOK, WriteSlot
<1> QED
    BY <1>2, ContentsFrame DEF IInv, WriteSlot, indexVars

\* Every step of the queue is a step of the FIFO or leaves it unchanged.
LEMMA NextRefines ==
    ASSUME IInv, [Next]_vars
    PROVE  [Fifo!Next]_<<Contents, value, popped>>
<1>1. ASSUME NEW v \in Values, CallPush(v)
      PROVE  Fifo!Next
    <2>1. Contents' = Contents
        BY <1>1, ContentsFrame DEF IInv, CallPush, indexVars
    <2> QED
        BY <1>1, <2>1 DEF Fifo!Next, Fifo!Offer, CallPush, consVars
<1>2. CASE PublishHead
    BY <1>2, PublishHeadRefines DEF Fifo!Next
<1>3. CASE PublishTail
    BY <1>3, PublishTailRefines DEF Fifo!Next
<1>4. CASE WriteSlot
    BY <1>4, WriteRefines DEF WriteSlot, consVars
<1>5. CASE \/ PushFails \/ PushProceeds \/ CallPop \/ PopFails \/ PopProceeds
           \/ ReadSlot \/ SeeTail \/ SeeHead
    <2>1. /\ head' = head /\ tail' = tail /\ slots' = slots
          /\ value' = value /\ popped' = popped
        BY <1>5 DEF PushFails, PushProceeds, CallPop, PopFails, PopProceeds,
            ReadSlot, SeeTail, SeeHead, indexVars, prodVars, consVars
    <2> QED
        BY <2>1, ContentsFrame DEF IInv
<1>6. CASE UNCHANGED vars
    BY <1>6, ContentsFrame DEF IInv, vars, indexVars, prodVars, consVars
<1> QED
    BY <1>1, <1>2, <1>3, <1>4, <1>5, <1>6 DEF Next, Producer, Consumer

\* SpscQueue implements the bounded FIFO for every capacity and every set of
\* values.
THEOREM QueueImplementsFifo == Spec => ImplementsFifo
BY InvariantHolds, InitRefines, NextRefines, PTL DEF Spec, ImplementsFifo, Fifo!Spec
=============================================================================
