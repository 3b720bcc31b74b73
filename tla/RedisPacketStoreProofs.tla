----------------------- MODULE RedisPacketStoreProofs -----------------------
(***************************************************************************)
(* Safety of the Redis packet store for any finite set of callers and any  *)
(* positive max_pending_writes.  IInv is proved inductive conjunct by      *)
(* conjunct; the listed theorems are its consequences.                     *)
(***************************************************************************)
EXTENDS RedisPacketStore, FiniteSetTheorems, TLAPS

\* What relates the owner's position to the rest of the state.
Lifetime ==
    /\ owner \in {"gone", "free"} => io = "none"
    /\ owner = "gone" => \A t \in Callers : pc[t] = "out"
    /\ owner \in {"closing", "drain", "drainwait"} => ~accepting_writes

\* A successful drain stays one: no slot is taken and none can be taken.
DrainedSettled ==
    drained => /\ ~accepting_writes
               /\ pending_writes = 0

\* The inductive invariant.
IInv ==
    /\ TypeOK
    /\ Lifetime
    /\ SlotAccounting
    /\ pending_writes <= MaxPendingWrites
    /\ NoLostWakeup
    /\ DrainedSettled

\* The callers that hold a slot are finitely many, so they can be counted.
LEMMA HoldingFinite ==
    IsFiniteSet(Holding) /\ Cardinality(Holding) \in Nat
<1>1. Holding \in SUBSET Callers
    BY DEF Holding
<1>2. IsFiniteSet(Holding)
    BY <1>1, StoreAssumption, FS_Subset
<1> QED
    BY <1>2, FS_CardinalityType

\* The same in the next state.
LEMMA HoldingFiniteNext ==
    IsFiniteSet(Holding') /\ Cardinality(Holding') \in Nat
<1>1. Holding' \in SUBSET Callers
    BY DEF Holding
<1>2. IsFiniteSet(Holding')
    BY <1>1, StoreAssumption, FS_Subset
<1> QED
    BY <1>2, FS_CardinalityType

\* notify_all moves blocked callers only: no slot changes hands.
LEMMA WakeKeepsHolding ==
    ASSUME TypeOK, pc' = WakeCallers(pc)
    PROVE  Holding' = Holding
BY DEF TypeOK, WakeCallers, Holding, CallerStates

\* The initial state satisfies the invariant.
LEMMA InitInv == Init => IInv
<1> SUFFICES ASSUME Init PROVE IInv
    OBVIOUS
<1>1. Holding = {}
    BY DEF Init, Holding
<1>2. Cardinality(Holding) = 0
    BY <1>1, FS_EmptySet
<1>3. TypeOK
    BY DEF Init, TypeOK, OwnerStates, CallerStates, IoStates
<1>4. SlotAccounting
    BY <1>2 DEF Init, SlotAccounting, IoHolding
<1>5. Lifetime /\ NoLostWakeup /\ DrainedSettled
    BY DEF Init, Lifetime, NoLostWakeup, DrainedSettled, NotifyComing
<1> QED
    BY <1>3, <1>4, <1>5, StoreAssumption DEF Init, IInv

\* An action that leaves pc, io and the counters alone keeps the accounting.
LEMMA AccountingFrame ==
    ASSUME SlotAccounting,
           UNCHANGED <<pc, io, pending_writes, posted, inflight>>
    PROVE  SlotAccounting'
<1>1. Holding' = Holding /\ IoHolding' = IoHolding
    BY DEF Holding, IoHolding
<1> QED
    BY <1>1 DEF SlotAccounting

-----------------------------------------------------------------------------
(* One lemma per conjunct of IInv, with a step per thread and, where an     *)
(* action disturbs the conjunct, a step per action.                         *)

\* Every action of the store keeps the variables in their types.
LEMMA TypeStep ==
    ASSUME TypeOK, Next
    PROVE  TypeOK'
<1> USE DEF TypeOK, OwnerStates, CallerStates, IoStates,
            slotVars, pingVars, queueVars
<1>1. CASE Construct \/ BeginDestroy \/ Free \/ SpuriousOwnerWake
    <2>1. CASE Construct
        BY <2>1 DEF Construct
    <2>2. CASE BeginDestroy
        BY <2>2 DEF BeginDestroy
    <2>3. CASE Free
        BY <2>3 DEF Free, FreeMembers
    <2>4. CASE SpuriousOwnerWake
        BY <2>4 DEF SpuriousOwnerWake
    <2> QED
        BY <1>1, <2>1, <2>2, <2>3, <2>4
<1>2. CASE OwnerStep
    BY <1>2 DEF OwnerStep, ValidateOk, ValidateError, ValidateTimeout,
        NotifyClosed, DrainCheck, DrainTimeout, ConnCancel, IocStop, JoinIo,
        WakeCallers
<1>3. ASSUME NEW t \in Callers, CallStore(t) \/ CallerStep(t) \/ SpuriousWake(t)
      PROVE  TypeOK'
    BY <1>3 DEF CallStore, EnterStore, CallerStep, SpuriousWake, ReserveSlot,
        DropPacket, BlockOnSlot, Post, PostThrows, CallerComplete,
        CallerNotify, ReleaseSlot, WakeCallers, WakeOwner
<1>4. CASE IoStep \/ RedisStep
    BY <1>4 DEF IoStep, RedisStep, RunPing, RunPingThrows, PingReply,
        RunPosted, RunPostedThrows, Answered, IoComplete, IoNotify, IoExit,
        IoReady, ReleaseSlot, WakeCallers, WakeOwner
<1> QED
    BY <1>1, <1>2, <1>3, <1>4 DEF Next

\* Where the owner is determines what the other threads can be doing.
LEMMA LifetimeStep ==
    ASSUME TypeOK, Lifetime, Next
    PROVE  Lifetime'
<1> USE DEF TypeOK, CallerStates, Lifetime, slotVars, pingVars, queueVars
<1>1. CASE Construct \/ BeginDestroy \/ Free \/ SpuriousOwnerWake
    BY <1>1 DEF Construct, BeginDestroy, Free, FreeMembers, SpuriousOwnerWake
<1>2. CASE OwnerStep
    BY <1>2 DEF OwnerStep, ValidateOk, ValidateError, ValidateTimeout,
        NotifyClosed, DrainCheck, DrainTimeout, ConnCancel, IocStop, JoinIo
<1>3. ASSUME NEW t \in Callers, CallStore(t) \/ CallerStep(t) \/ SpuriousWake(t)
      PROVE  Lifetime'
    BY <1>3 DEF CallStore, EnterStore, CallerStep, SpuriousWake, ReserveSlot,
        DropPacket, BlockOnSlot, Post, PostThrows, CallerComplete,
        CallerNotify, ReleaseSlot, WakeOwner
<1>4. CASE IoStep \/ RedisStep
    BY <1>4 DEF IoStep, RedisStep, RunPing, RunPingThrows, PingReply,
        RunPosted, RunPostedThrows, Answered, IoComplete, IoNotify, IoExit,
        IoReady, ReleaseSlot, WakeOwner
<1> QED
    BY <1>1, <1>2, <1>3, <1>4 DEF Next

\* Every slot taken is given back exactly once, on every path.
LEMMA AccountingStep ==
    ASSUME TypeOK, Lifetime, SlotAccounting, Next
    PROVE  SlotAccounting'
<1> USE DEF TypeOK, slotVars, pingVars, queueVars
<1>1. CASE Construct \/ Free
    <2>1. Holding' = {}
        BY <1>1 DEF Construct, Free, FreeMembers, Holding, Lifetime
    <2>2. Cardinality(Holding') = 0
        BY <2>1, FS_EmptySet
    <2> QED
        BY <1>1, <2>2 DEF Construct, Free, FreeMembers, Lifetime,
            SlotAccounting, IoHolding
<1>2. CASE \/ BeginDestroy \/ SpuriousOwnerWake
           \/ ValidateOk \/ ValidateError \/ ValidateTimeout
           \/ DrainCheck \/ DrainTimeout \/ ConnCancel \/ IocStop
    BY <1>2, AccountingFrame DEF BeginDestroy, SpuriousOwnerWake, ValidateOk,
        ValidateError, ValidateTimeout, DrainCheck, DrainTimeout, ConnCancel,
        IocStop
<1>3. CASE NotifyClosed \/ IoNotify
    <2>1. Holding' = Holding
        BY <1>3, WakeKeepsHolding DEF NotifyClosed, IoNotify
    <2> QED
        BY <1>3, <2>1 DEF NotifyClosed, IoNotify, SlotAccounting, IoHolding
<1>4. CASE JoinIo
    <2>1. Holding' = Holding
        BY <1>4 DEF JoinIo, Holding
    <2> QED
        BY <1>4, <2>1 DEF JoinIo, SlotAccounting, IoHolding
<1>5. ASSUME NEW t \in Callers, ReserveSlot(t)
      PROVE  SlotAccounting'
    <2>1. Holding' = Holding \cup {t} /\ t \notin Holding
        BY <1>5 DEF ReserveSlot, Holding
    <2>2. Cardinality(Holding') = Cardinality(Holding) + 1
        BY <2>1, HoldingFinite, FS_AddElement
    <2> QED
        BY <1>5, <2>2, HoldingFinite DEF ReserveSlot, SlotAccounting, IoHolding
<1>6. ASSUME NEW t \in Callers, Post(t) \/ CallerComplete(t)
      PROVE  SlotAccounting'
    <2>1. Holding' = Holding \ {t} /\ t \in Holding
        BY <1>6 DEF Post, CallerComplete, Holding
    <2>2. Cardinality(Holding') = Cardinality(Holding) - 1
        BY <2>1, HoldingFinite, FS_RemoveElement
    <2> QED
        BY <1>6, <2>2, HoldingFinite, HoldingFiniteNext
        DEF Post, CallerComplete, ReleaseSlot, SlotAccounting, IoHolding
<1>7. ASSUME NEW t \in Callers,
             \/ CallStore(t) \/ DropPacket(t) \/ BlockOnSlot(t)
             \/ PostThrows(t) \/ CallerNotify(t) \/ SpuriousWake(t)
      PROVE  SlotAccounting'
    <2>1. Holding' = Holding
        BY <1>7 DEF CallStore, EnterStore, DropPacket, BlockOnSlot, PostThrows,
            CallerNotify, WakeCallers, SpuriousWake, Holding
    <2> QED
        BY <1>7, <2>1 DEF CallStore, EnterStore, DropPacket, BlockOnSlot,
            PostThrows, CallerNotify, SpuriousWake, SlotAccounting, IoHolding
<1>8. CASE \/ RunPing \/ RunPingThrows \/ RunPosted \/ RunPostedThrows
           \/ IoComplete \/ IoExit \/ RedisStep
    <2>1. Holding' = Holding
        BY <1>8 DEF RunPing, RunPingThrows, RunPosted, RunPostedThrows,
            IoComplete, IoExit, RedisStep, PingReply, Answered, Holding
    <2> QED
        BY <1>8, <2>1, HoldingFinite DEF RunPing, RunPingThrows, RunPosted,
            RunPostedThrows, IoComplete, IoExit, RedisStep, PingReply,
            Answered, IoReady, ReleaseSlot, SlotAccounting, IoHolding
<1> QED
    BY <1>1, <1>2, <1>3, <1>4, <1>5, <1>6, <1>7, <1>8
    DEF Next, OwnerStep, CallerStep, IoStep

\* A slot is only taken when one is free.
LEMMA BoundStep ==
    ASSUME TypeOK, pending_writes <= MaxPendingWrites, Next
    PROVE  (pending_writes <= MaxPendingWrites)'
<1> USE StoreAssumption DEF TypeOK, slotVars
<1>1. CASE Construct \/ BeginDestroy \/ Free \/ SpuriousOwnerWake \/ OwnerStep
    BY <1>1 DEF Construct, BeginDestroy, Free, FreeMembers, SpuriousOwnerWake,
        OwnerStep, ValidateOk, ValidateError, ValidateTimeout, NotifyClosed,
        DrainCheck, DrainTimeout, ConnCancel, IocStop, JoinIo
<1>2. ASSUME NEW t \in Callers, CallStore(t) \/ CallerStep(t) \/ SpuriousWake(t)
      PROVE  (pending_writes <= MaxPendingWrites)'
    BY <1>2 DEF CallStore, EnterStore, CallerStep, SpuriousWake, ReserveSlot,
        DropPacket, BlockOnSlot, Post, PostThrows, CallerComplete,
        CallerNotify, ReleaseSlot, MayLeaveReserve, SlotFree
<1>3. CASE IoStep \/ RedisStep
    BY <1>3 DEF IoStep, RedisStep, RunPing, RunPingThrows, PingReply,
        RunPosted, RunPostedThrows, Answered, IoComplete, IoNotify, IoExit,
        ReleaseSlot
<1> QED
    BY <1>1, <1>2, <1>3 DEF Next

\* After a successful drain nothing can take a slot.
LEMMA DrainedStep ==
    ASSUME TypeOK, Lifetime, DrainedSettled, Next
    PROVE  DrainedSettled'
<1> USE DEF TypeOK, Lifetime, DrainedSettled, slotVars
<1>1. CASE Construct \/ BeginDestroy \/ Free \/ SpuriousOwnerWake \/ OwnerStep
    BY <1>1 DEF Construct, BeginDestroy, Free, FreeMembers, SpuriousOwnerWake,
        OwnerStep, ValidateOk, ValidateError, ValidateTimeout, NotifyClosed,
        DrainCheck, DrainTimeout, ConnCancel, IocStop, JoinIo
<1>2. ASSUME NEW t \in Callers, CallStore(t) \/ CallerStep(t) \/ SpuriousWake(t)
      PROVE  DrainedSettled'
    <2>1. CASE ReserveSlot(t)
        BY <2>1 DEF ReserveSlot
    <2>2. CASE CallerComplete(t)
        BY <2>2 DEF CallerComplete, ReleaseSlot
    <2>3. CASE \/ CallStore(t) \/ DropPacket(t) \/ BlockOnSlot(t) \/ Post(t)
               \/ PostThrows(t) \/ CallerNotify(t) \/ SpuriousWake(t)
        BY <2>3 DEF CallStore, EnterStore, DropPacket, BlockOnSlot, Post,
            PostThrows, CallerNotify, SpuriousWake
    <2> QED
        BY <1>2, <2>1, <2>2, <2>3 DEF CallerStep
<1>3. CASE IoStep \/ RedisStep
    <2>1. CASE IoComplete
        BY <2>1 DEF IoComplete, ReleaseSlot
    <2>2. CASE \/ RunPing \/ RunPingThrows \/ RunPosted \/ RunPostedThrows
               \/ IoNotify \/ IoExit \/ RedisStep
        BY <2>2 DEF RunPing, RunPingThrows, RunPosted, RunPostedThrows,
            IoNotify, IoExit, RedisStep, PingReply, Answered
    <2> QED
        BY <1>3, <2>1, <2>2 DEF IoStep
<1> QED
    BY <1>1, <1>2, <1>3 DEF Next

\* A thread blocks only when its predicate is false, and whoever makes it
\* true is then about to notify.
LEMMA WakeupStep ==
    ASSUME TypeOK, Lifetime, NoLostWakeup, Next
    PROVE  NoLostWakeup'
<1> USE DEF TypeOK, CallerStates, NoLostWakeup, NotifyComing,
            MayLeaveReserve, SlotFree, slotVars
<1>1. CASE Construct \/ BeginDestroy \/ Free \/ SpuriousOwnerWake
    BY <1>1, StoreAssumption DEF Construct, BeginDestroy, Free, FreeMembers,
        SpuriousOwnerWake, Lifetime
<1>2. CASE NotifyClosed \/ IoNotify
    BY <1>2 DEF NotifyClosed, IoNotify, WakeCallers, WakeOwner
<1>3. CASE \/ ValidateOk \/ ValidateError \/ ValidateTimeout \/ DrainCheck
           \/ DrainTimeout \/ ConnCancel \/ IocStop \/ JoinIo
    BY <1>3 DEF ValidateOk, ValidateError, ValidateTimeout, DrainCheck,
        DrainTimeout, ConnCancel, IocStop, JoinIo
<1>4. ASSUME NEW t \in Callers, CallerNotify(t)
      PROVE  NoLostWakeup'
    BY <1>4 DEF CallerNotify, WakeCallers, WakeOwner
<1>5. ASSUME NEW t \in Callers, CallerComplete(t)
      PROVE  NoLostWakeup'
    BY <1>5 DEF CallerComplete
<1>6. ASSUME NEW t \in Callers,
             \/ CallStore(t) \/ ReserveSlot(t) \/ DropPacket(t)
             \/ BlockOnSlot(t) \/ Post(t) \/ PostThrows(t) \/ SpuriousWake(t)
      PROVE  NoLostWakeup'
    BY <1>6, StoreAssumption DEF CallStore, EnterStore, ReserveSlot,
        DropPacket, BlockOnSlot, Post, PostThrows, SpuriousWake
<1>7. CASE \/ RunPing \/ RunPingThrows \/ RunPosted \/ RunPostedThrows
           \/ IoComplete \/ IoExit \/ RedisStep
    BY <1>7 DEF RunPing, RunPingThrows, RunPosted, RunPostedThrows, IoComplete,
        IoExit, RedisStep, PingReply, Answered, IoReady
<1> QED
    BY <1>1, <1>2, <1>3, <1>4, <1>5, <1>6, <1>7
    DEF Next, OwnerStep, CallerStep, IoStep

\* The invariant is inductive.
LEMMA NextInv == IInv /\ [Next]_vars => IInv'
<1> SUFFICES ASSUME IInv, [Next]_vars PROVE IInv'
    OBVIOUS
<1>1. CASE Next
    BY <1>1, TypeStep, LifetimeStep, AccountingStep, BoundStep, DrainedStep,
       WakeupStep DEF IInv
<1>2. CASE UNCHANGED vars
    <2>1. SlotAccounting'
        BY <1>2, AccountingFrame DEF IInv, vars, slotVars, queueVars
    <2> QED
        BY <1>2, <2>1 DEF IInv, vars, slotVars, pingVars, queueVars, TypeOK,
            Lifetime, NoLostWakeup, NotifyComing, MayLeaveReserve, SlotFree,
            DrainedSettled
<1> QED
    BY <1>1, <1>2

\* Every behaviour of the store satisfies the inductive invariant.
THEOREM InvariantHolds == Spec => []IInv
BY InitInv, NextInv, PTL DEF Spec

-----------------------------------------------------------------------------
(* What the invariant gives                                                 *)

\* Type correctness of the store.
THEOREM TypeCorrect == Spec => []TypeOK
<1>1. IInv => TypeOK
    BY DEF IInv
<1> QED
    BY <1>1, InvariantHolds, PTL

\* pending_writes_ always equals the number of slots owed a
\* CompletePendingWrite, for any number of callers and any limit.
THEOREM AccountingCorrect == Spec => []SlotAccounting
<1>1. IInv => SlotAccounting
    BY DEF IInv
<1> QED
    BY <1>1, InvariantHolds, PTL

\* At most max_pending_writes requests are queued or in flight.
THEOREM BoundedQueue == Spec => []PendingBounded
<1>1. IInv => PendingBounded
    BY HoldingFinite, StoreAssumption
    DEF IInv, TypeOK, SlotAccounting, PendingBounded, IoHolding
<1> QED
    BY <1>1, InvariantHolds, PTL

\* notify_all after unlocking never loses a wake-up.
THEOREM WakeupsNotLost == Spec => []NoLostWakeup
<1>1. IInv => NoLostWakeup
    BY DEF IInv
<1> QED
    BY <1>1, InvariantHolds, PTL

\* A destructor that drained leaves no accepted packet unanswered.
THEOREM DrainIsComplete == Spec => []DrainedMeansAnswered
<1>1. IInv => DrainedMeansAnswered
    <2> SUFFICES ASSUME IInv, drained
                 PROVE  posted = 0 /\ inflight = 0 /\ Holding = {}
        BY DEF DrainedMeansAnswered
    <2>1. Cardinality(Holding) = 0 /\ posted = 0 /\ inflight = 0
        BY HoldingFinite
        DEF IInv, TypeOK, DrainedSettled, SlotAccounting, IoHolding
    <2> QED
        BY <2>1, HoldingFinite, FS_EmptySet
<1> QED
    BY <1>1, InvariantHolds, PTL

\* Once writes are refused, pending_writes_ never grows.
THEOREM DrainNeverGrows == Spec => DrainMonotone
<1>1. ASSUME IInv, [Next]_vars
      PROVE  [~accepting_writes => pending_writes' <= pending_writes]_vars
    <2> SUFFICES ASSUME Next, ~accepting_writes
                 PROVE  pending_writes' <= pending_writes
        BY <1>1
    <2> USE <1>1 DEF IInv, TypeOK, slotVars
    <2>1. CASE \/ Construct \/ BeginDestroy \/ Free \/ SpuriousOwnerWake
               \/ OwnerStep
        BY <2>1 DEF Construct, BeginDestroy, Free, FreeMembers,
            SpuriousOwnerWake, OwnerStep, ValidateOk, ValidateError,
            ValidateTimeout, NotifyClosed, DrainCheck, DrainTimeout,
            ConnCancel, IocStop, JoinIo
    <2>2. ASSUME NEW t \in Callers,
                 CallStore(t) \/ CallerStep(t) \/ SpuriousWake(t)
          PROVE  pending_writes' <= pending_writes
        BY <2>2 DEF CallStore, EnterStore, CallerStep, SpuriousWake,
            ReserveSlot, DropPacket, BlockOnSlot, Post, PostThrows,
            CallerComplete, CallerNotify, ReleaseSlot
    <2>3. CASE IoStep \/ RedisStep
        BY <2>3 DEF IoStep, RedisStep, RunPing, RunPingThrows, PingReply,
            RunPosted, RunPostedThrows, Answered, IoComplete, IoNotify, IoExit,
            ReleaseSlot
    <2> QED
        BY <2>1, <2>2, <2>3 DEF Next
<1> QED
    BY <1>1, InvariantHolds, PTL DEF Spec, DrainMonotone
=============================================================================
