------------------------ MODULE CaptureServiceProofs ------------------------
(***************************************************************************)
(* Safety of the capture service for any list of interfaces, any set of    *)
(* configurations and any positive max_pending_writes.  The service is     *)
(* shown to obey the store's contract, so that what RedisPacketStoreProofs *)
(* establishes of the store holds of the store inside the service, and     *)
(* that is in turn used to show that teardown leaves nothing behind.       *)
(***************************************************************************)
EXTENDS CaptureService, SequenceTheorems, FiniteSetTheorems, TLAPS

\* The store with its theorems.
StoreP == INSTANCE RedisPacketStoreProofs WITH Callers <- Devices

-----------------------------------------------------------------------------
(* The inductive invariant                                                 *)

In(s, d) == \E i \in DOMAIN s : s[i] = d

Constructing == {"validate", "cancel", "stop", "join", "free", "open", "gone"}
Destroying == {"closing", "drain", "drainwait", "cancel", "stop", "join", "free", "gone"}

\* Where the main thread is determines where the store is in its lifetime.
StorePlace ==
    /\ main \in {"check", "store", "after", "sleep", "exited"} => owner = "gone"
    /\ main = "connecting" => owner \in Constructing
    /\ main \in {"setup", "running", "unwind", "joining"} => owner \in {"open", "gone"}
    /\ main = "destroying" => owner \in Destroying
    /\ main = "store" \/ main = "connecting" => config.record_packets
    /\ main \in {"setup", "running"} /\ config.record_packets => owner = "open"

\* Receivers exist between Init and the end of their destruction, and a
\* receiver that records keeps the store alive.
ReceiverPlace ==
    /\ receivers # <<>> => main \in {"setup", "running", "unwind", "joining"}
    /\ main = "joining" => receivers # <<>>
    /\ receivers # <<>> /\ config.record_packets => owner = "open"
    /\ stopping = IF main = "joining" THEN {receivers[1]} ELSE {}

\* Every open device is tracked until it is closed.
DevicePlace ==
    /\ opened_devices # <<>> =>
           main \in {"setup", "running", "unwind", "joining", "destroying"}
    /\ \A d \in Devices : is_open[d] => In(opened_devices, d)

\* A capture thread belongs to a receiver, and is inside Store() only in its
\* recording step.
ThreadPlace ==
    \A d \in Devices :
        /\ cap[d] # "none" => In(receivers, d)
        /\ cap[d] \in {"record", "storing"} => config.record_packets
        /\ pc[d] # "out" => cap[d] = "storing"

\* Capture threads run on open devices and forward to open devices.
ThreadDevices ==
    \A d \in Devices :
        cap[d] # "none" => /\ is_open[d]
                           /\ RouteOf(d) # NoDevice =>
                                  RouteOf(d) \in Devices /\ is_open[RouteOf(d)]

\* Every name that Init has resolved so far is an interface of the host.
Resolved ==
    /\ main \in {"store", "connecting"} => step = 1
    /\ main = "setup" =>
           \A i \in 1 .. step - 1 :
               Plan[i].op = "resolve" => Plan[i].device \in Devices

IInv ==
    /\ config \in Configs
    /\ StoreP!IInv
    /\ TypeOK
    /\ StorePlace
    /\ ReceiverPlace
    /\ DevicePlace
    /\ ThreadPlace
    /\ ThreadDevices
    /\ Resolved

-----------------------------------------------------------------------------
(* The two copies of the store's module agree                              *)

\* The host has finitely many interfaces, so the store has finitely many
\* callers: the assumptions of RedisPacketStoreProofs hold here.
LEMMA StoreAssumed == StoreP!StoreAssumption
<1>1. DeviceList \in Surjection(1 .. Len(DeviceList), Devices)
    BY ServiceAssumption DEF IsList, Devices, Surjection
<1>2. IsFiniteSet(1 .. Len(DeviceList))
    BY FS_Interval, ServiceAssumption DEF IsList
<1>3. IsFiniteSet(Devices)
    BY <1>1, <1>2, FS_Surjection
<1> QED
    BY <1>3, ServiceAssumption
    DEF StoreP!StoreAssumption, StoreP!IsFiniteSet, IsFiniteSet

\* The store's invariant is initially true and preserved by its steps.
LEMMA StoreInvariant ==
    /\ StoreP!Init => StoreP!IInv
    /\ StoreP!IInv /\ [StoreP!Next]_(StoreP!vars) => StoreP!IInv'
BY StoreP!InitInv, StoreP!NextInv, StoreAssumed
DEF StoreP!InitInv, StoreP!NextInv

\* The store as the service uses it is the store with the theorems.
LEMMA SameStore ==
    /\ Store!Init <=> StoreP!Init
    /\ Store!Next <=> StoreP!Next
    /\ Store!vars = StoreP!vars
    /\ Store!TypeOK <=> StoreP!TypeOK
<1> USE DEF Store!pingVars, Store!slotVars, Store!queueVars,
            StoreP!pingVars, StoreP!slotVars, StoreP!queueVars
<1>1. Store!OwnerStep <=> StoreP!OwnerStep
    BY DEF Store!OwnerStep, Store!ValidateOk, Store!ValidateError,
        Store!ValidateTimeout, Store!NotifyClosed, Store!DrainCheck,
        Store!DrainTimeout, Store!ConnCancel, Store!IocStop, Store!JoinIo,
        Store!WakeCallers,
        StoreP!OwnerStep, StoreP!ValidateOk, StoreP!ValidateError,
        StoreP!ValidateTimeout, StoreP!NotifyClosed, StoreP!DrainCheck,
        StoreP!DrainTimeout, StoreP!ConnCancel, StoreP!IocStop,
        StoreP!JoinIo, StoreP!WakeCallers
<1>2. ASSUME NEW t \in Devices
      PROVE  /\ Store!CallStore(t) <=> StoreP!CallStore(t)
             /\ Store!CallerStep(t) <=> StoreP!CallerStep(t)
             /\ Store!SpuriousWake(t) <=> StoreP!SpuriousWake(t)
    BY DEF Store!CallStore, Store!EnterStore, Store!CallerStep,
        Store!ReserveSlot, Store!DropPacket, Store!BlockOnSlot, Store!Post,
        Store!PostThrows, Store!CallerComplete, Store!CallerNotify,
        Store!SpuriousWake, Store!ReleaseSlot, Store!WakeOwner,
        Store!WakeCallers, Store!MayLeaveReserve, Store!SlotFree,
        StoreP!CallStore, StoreP!EnterStore, StoreP!CallerStep,
        StoreP!ReserveSlot, StoreP!DropPacket, StoreP!BlockOnSlot,
        StoreP!Post, StoreP!PostThrows, StoreP!CallerComplete,
        StoreP!CallerNotify, StoreP!SpuriousWake, StoreP!ReleaseSlot,
        StoreP!WakeOwner, StoreP!WakeCallers, StoreP!MayLeaveReserve,
        StoreP!SlotFree
<1>3. Store!IoStep <=> StoreP!IoStep
    BY DEF Store!IoStep, Store!RunPing, Store!RunPingThrows, Store!RunPosted,
        Store!RunPostedThrows, Store!IoComplete, Store!IoNotify, Store!IoExit,
        Store!IoReady, Store!ReleaseSlot, Store!WakeCallers, Store!WakeOwner,
        StoreP!IoStep, StoreP!RunPing, StoreP!RunPingThrows,
        StoreP!RunPosted, StoreP!RunPostedThrows, StoreP!IoComplete,
        StoreP!IoNotify, StoreP!IoExit, StoreP!IoReady, StoreP!ReleaseSlot,
        StoreP!WakeCallers, StoreP!WakeOwner
<1>4. Store!RedisStep <=> StoreP!RedisStep
    BY DEF Store!RedisStep, Store!PingReply, Store!Answered, Store!IoReady,
        StoreP!RedisStep, StoreP!PingReply, StoreP!Answered, StoreP!IoReady
<1>5. /\ Store!Construct <=> StoreP!Construct
      /\ Store!BeginDestroy <=> StoreP!BeginDestroy
      /\ Store!Free <=> StoreP!Free
      /\ Store!SpuriousOwnerWake <=> StoreP!SpuriousOwnerWake
    BY DEF Store!Construct, Store!BeginDestroy, Store!Free,
        Store!FreeMembers, Store!SpuriousOwnerWake,
        StoreP!Construct, StoreP!BeginDestroy, StoreP!Free,
        StoreP!FreeMembers, StoreP!SpuriousOwnerWake
<1>6. Store!Next <=> StoreP!Next
    BY <1>1, <1>2, <1>3, <1>4, <1>5 DEF Store!Next, StoreP!Next
<1>7. Store!Init <=> StoreP!Init
    BY DEF Store!Init, StoreP!Init
<1>8. Store!vars = StoreP!vars
    BY DEF Store!vars, StoreP!vars
<1>9. Store!TypeOK <=> StoreP!TypeOK
    BY DEF Store!TypeOK, Store!OwnerStates, Store!CallerStates,
        Store!IoStates, StoreP!TypeOK, StoreP!OwnerStates,
        StoreP!CallerStates, StoreP!IoStates
<1> QED
    BY <1>6, <1>7, <1>8, <1>9

-----------------------------------------------------------------------------
(* Init's operations                                                       *)

\* The operations of a route, one by one.
LEMMA RoutePlan ==
    ASSUME NEW c \in Configs, c.enabled
    PROVE  LET p == InitPlan(c)
           IN  /\ DOMAIN p = 1 .. Len(p)
               /\ Len(p) = IF c.bidirectional THEN 6 ELSE 5
               /\ p[1] = Resolve(c.ingress) /\ p[2] = Resolve(c.egress)
               /\ p[3] = Open(c.ingress) /\ p[4] = Open(c.egress)
               /\ p[5] = Start(c.ingress)
               /\ c.bidirectional => p[6] = Start(c.egress)
BY ServiceAssumption DEF InitPlan, Resolve, Open, Start

\* Without a route each capture target is resolved, opened and started.
LEMMA CapturePlan ==
    ASSUME NEW c \in Configs, ~c.enabled
    PROVE  LET p == InitPlan(c)
               targets == CaptureTargets(c)
           IN  /\ Len(targets) \in Nat \ {0}
               /\ DOMAIN p = 1 .. Len(p)
               /\ Len(p) = 3 * Len(targets)
               /\ \A k \in 1 .. Len(targets) :
                      /\ p[3 * k - 2] = Resolve(targets[k])
                      /\ p[3 * k - 1] = Open(targets[k])
                      /\ p[3 * k] = Start(targets[k])
<1> DEFINE names == IF c.ifaces = <<>> THEN <<NoDevice>> ELSE c.ifaces
           targets == CaptureTargets(c)
           p == InitPlan(c)
<1>1. IsList(c.ifaces)
    BY ServiceAssumption
<1>2. /\ Len(names) \in Nat \ {0}
      /\ DOMAIN names = 1 .. Len(names)
    <2>1. CASE c.ifaces = <<>>
        BY <2>1
    <2>2. CASE c.ifaces # <<>>
        BY <1>1, <2>2, LenProperties, EmptySeq DEF IsList
    <2> QED
        BY <2>1, <2>2
<1>3. targets = [i \in 1 .. Len(names) |-> NamedOrFirst(names[i])]
    BY <1>2 DEF CaptureTargets
<1>4. Len(targets) = Len(names)
    BY <1>2, <1>3
<1> HIDE DEF names, targets
<1>5. p = [i \in 1 .. 3 * Len(targets) |->
              LET d == targets[(i + 2) \div 3]
              IN  <<Resolve(d), Open(d), Start(d)>>[((i - 1) % 3) + 1]]
    BY DEF InitPlan, targets
<1>6. DOMAIN p = 1 .. 3 * Len(targets) /\ Len(p) = 3 * Len(targets)
    BY <1>2, <1>4, <1>5
<1>7. ASSUME NEW k \in 1 .. Len(targets)
      PROVE  /\ p[3 * k - 2] = Resolve(targets[k])
             /\ p[3 * k - 1] = Open(targets[k])
             /\ p[3 * k] = Start(targets[k])
    <2>1. /\ k \in Nat \ {0}
          /\ {3 * k - 2, 3 * k - 1, 3 * k} \subseteq 1 .. 3 * Len(targets)
        BY <1>2, <1>4
    <2>2. /\ (3 * k - 2 + 2) \div 3 = k /\ ((3 * k - 2 - 1) % 3) + 1 = 1
          /\ (3 * k - 1 + 2) \div 3 = k /\ ((3 * k - 1 - 1) % 3) + 1 = 2
          /\ (3 * k + 2) \div 3 = k /\ ((3 * k - 1) % 3) + 1 = 3
        BY <2>1
    <2>3. p[3 * k - 2] = Resolve(targets[k])
        BY <1>5, <2>1, <2>2
    <2>4. p[3 * k - 1] = Open(targets[k])
        BY <1>5, <2>1, <2>2
    <2>5. p[3 * k] = Start(targets[k])
        BY <1>5, <2>1, <2>2
    <2> QED
        BY <2>3, <2>4, <2>5
<1> QED
    BY <1>2, <1>4, <1>6, <1>7 DEF targets

\* What is opened or started was resolved before, and a route's receivers
\* start after both of its ends were resolved.
LEMMA PlanResolves ==
    ASSUME config \in Configs
    PROVE  /\ Len(Plan) \in Nat \ {0}
           /\ DOMAIN Plan = 1 .. Len(Plan)
           /\ \A i \in DOMAIN Plan :
                  /\ Plan[i].op \in {"resolve", "open", "start"}
                  /\ Plan[i].op # "resolve" =>
                         \E j \in 1 .. i - 1 : Plan[j] = Resolve(Plan[i].device)
                  /\ config.enabled /\ Plan[i].op = "start" =>
                         /\ i > 2
                         /\ Plan[1] = Resolve(config.ingress)
                         /\ Plan[2] = Resolve(config.egress)
<1> DEFINE Good(p, i) ==
        /\ p[i].op \in {"resolve", "open", "start"}
        /\ p[i].op # "resolve" =>
               \E j \in 1 .. i - 1 : p[j] = Resolve(p[i].device)
        /\ config.enabled /\ p[i].op = "start" =>
               /\ i > 2
               /\ p[1] = Resolve(config.ingress)
               /\ p[2] = Resolve(config.egress)
<1>1. CASE config.enabled
    <2>1. /\ DOMAIN Plan = 1 .. Len(Plan)
          /\ Len(Plan) = IF config.bidirectional THEN 6 ELSE 5
          /\ Plan[1] = Resolve(config.ingress) /\ Plan[2] = Resolve(config.egress)
          /\ Plan[3] = Open(config.ingress) /\ Plan[4] = Open(config.egress)
          /\ Plan[5] = Start(config.ingress)
          /\ config.bidirectional => Plan[6] = Start(config.egress)
        BY <1>1, RoutePlan DEF Plan
    <2>2. ASSUME NEW i \in DOMAIN Plan PROVE Good(Plan, i)
        <3>1. i \in 1 .. 6 /\ (i = 6 => config.bidirectional)
            BY <2>1
        <3>2. CASE i \in {1, 2}
            BY <2>1, <3>2 DEF Resolve
        <3>3. CASE i \in {3, 5}
            <4>1. /\ Plan[i].op \in {"open", "start"} /\ i > 2
                  /\ Plan[i].device = config.ingress
                BY <2>1, <3>3 DEF Open, Start
            <4> QED
                BY <2>1, <4>1
        <3>4. CASE i \in {4, 6}
            <4>1. /\ Plan[i].op \in {"open", "start"} /\ i > 2
                  /\ Plan[i].device = config.egress
                BY <2>1, <3>1, <3>4 DEF Open, Start
            <4> QED
                BY <2>1, <4>1
        <3> QED
            BY <3>1, <3>2, <3>3, <3>4
    <2> QED
        BY <2>1, <2>2
<1>2. CASE ~config.enabled
    <2> DEFINE targets == CaptureTargets(config)
    <2>1. /\ Len(targets) \in Nat \ {0}
          /\ DOMAIN Plan = 1 .. Len(Plan)
          /\ Len(Plan) = 3 * Len(targets)
          /\ \A k \in 1 .. Len(targets) :
                 /\ Plan[3 * k - 2] = Resolve(targets[k])
                 /\ Plan[3 * k - 1] = Open(targets[k])
                 /\ Plan[3 * k] = Start(targets[k])
        BY <1>2, CapturePlan DEF Plan
    <2> HIDE DEF targets
    <2>2. ASSUME NEW i \in DOMAIN Plan PROVE Good(Plan, i)
        <3>1. PICK k \in 1 .. Len(targets) : i \in {3 * k - 2, 3 * k - 1, 3 * k}
            <4> DEFINE k == (i + 2) \div 3
            <4>1. Len(targets) \in Nat /\ i \in Int /\ 1 <= i /\ i <= 3 * Len(targets)
                BY <2>1
            <4>2. k \in Int /\ 3 * k <= i + 2 /\ i + 2 < 3 * k + 3
                BY <4>1
            <4> HIDE DEF k
            <4>3. k \in 1 .. Len(targets) /\ i \in {3 * k - 2, 3 * k - 1, 3 * k}
                BY <4>1, <4>2
            <4> QED
                BY <4>3
        <3>2. /\ Plan[3 * k - 2] = Resolve(targets[k])
              /\ Plan[3 * k - 1] = Open(targets[k])
              /\ Plan[3 * k] = Start(targets[k])
            BY <2>1
        <3>3. CASE i = 3 * k - 2
            BY <1>2, <3>2, <3>3 DEF Resolve
        <3>4. CASE i \in {3 * k - 1, 3 * k}
            <4>1. Plan[i].op \in {"open", "start"} /\ Plan[i].device = targets[k]
                BY <3>2, <3>4 DEF Open, Start
            <4>2. 3 * k - 2 \in 1 .. i - 1
                BY <2>1, <3>4
            <4> QED
                BY <1>2, <3>2, <4>1, <4>2
        <3> QED
            BY <3>1, <3>3, <3>4
    <2> QED
        BY <2>1, <2>2
<1> QED
    BY <1>1, <1>2

\* Init opens and starts only interfaces the host has.
LEMMA AtDevice ==
    ASSUME IInv, AtOp("open") \/ AtOp("start")
    PROVE  Dev \in Devices
<1>1. PICK j \in 1 .. step - 1 : Plan[j] = Resolve(Dev)
    BY PlanResolves DEF IInv, AtOp, Dev
<1> QED
    BY <1>1 DEF IInv, Resolved, AtOp, Resolve

\* A receiver with a route is started when both ends are interfaces.
LEMMA AtRoute ==
    ASSUME IInv, AtOp("start"), RouteOf(Dev) # NoDevice
    PROVE  RouteOf(Dev) \in Devices
<1>1. config.enabled
    BY DEF RouteOf
<1>2. /\ 1 \in 1 .. step - 1 /\ Plan[1] = Resolve(config.ingress)
      /\ 2 \in 1 .. step - 1 /\ Plan[2] = Resolve(config.egress)
    BY <1>1, PlanResolves DEF IInv, AtOp
<1>3. config.ingress \in Devices /\ config.egress \in Devices
    BY <1>2 DEF IInv, Resolved, AtOp, Resolve
<1> QED
    BY <1>3 DEF RouteOf

\* The configuration, and with it Init's plan, never changes.
LEMMA ConfigFixed ==
    ASSUME Next
    PROVE  config' = config /\ Plan' = Plan
<1>1. config' = config
    BY DEF Next, Signal, MainStep, StartService, LeaveLoop, StopService,
        BeginSleep, EndSleep, CreateStore, StoreReady, ResolveDevice,
        OpenDevice, StartCapture, SetupFails, StopReceiver, ReleaseReceiver,
        ReleaseStore, StoreGone, CloseDevice, ServiceGone, PacketArrives,
        CaptureStep, Forward, ForwardFails, Record, Recorded, CaptureExits,
        StoreStep, Terminated, vars, svcVars
<1> QED
    BY <1>1 DEF Plan

-----------------------------------------------------------------------------
(* The service and the store                                               *)

\* A step of the store's own threads leaves the store in the same phase of
\* its lifetime, and brings nobody into Store().
LEMMA StoreMoves ==
    ASSUME StoreP!TypeOK, StoreStep
    PROVE  /\ owner = "open" => owner' = "open"
           /\ owner = "gone" => owner' = "gone"
           /\ owner \in Constructing => owner' \in Constructing
           /\ owner \in Destroying => owner' \in Destroying
           /\ \A d \in Devices : pc'[d] # "out" => pc[d] # "out"
<1> USE SameStore DEF StoreP!TypeOK, StoreP!CallerStates, Constructing, Destroying,
        Store!slotVars, Store!pingVars, Store!queueVars
<1>1. CASE Store!OwnerStep \/ Store!FreeMembers \/ Store!SpuriousOwnerWake
    BY <1>1 DEF Store!OwnerStep, Store!ValidateOk, Store!ValidateError,
        Store!ValidateTimeout, Store!NotifyClosed, Store!DrainCheck,
        Store!DrainTimeout, Store!ConnCancel, Store!IocStop, Store!JoinIo,
        Store!FreeMembers, Store!SpuriousOwnerWake, Store!WakeCallers
<1>2. ASSUME NEW t \in Devices, Store!CallerStep(t) \/ Store!SpuriousWake(t)
      PROVE  /\ owner' = Store!WakeOwner \/ owner' = owner
             /\ \A d \in Devices : pc'[d] # "out" => pc[d] # "out"
    BY <1>2 DEF Store!CallerStep, Store!SpuriousWake, Store!ReserveSlot,
        Store!DropPacket, Store!BlockOnSlot, Store!Post, Store!PostThrows,
        Store!CallerComplete, Store!CallerNotify, Store!WakeCallers
<1>3. CASE Store!IoStep \/ Store!RedisStep
    BY <1>3 DEF Store!IoStep, Store!RedisStep, Store!RunPing,
        Store!RunPingThrows, Store!PingReply, Store!RunPosted,
        Store!RunPostedThrows, Store!Answered, Store!IoComplete,
        Store!IoNotify, Store!IoExit, Store!WakeCallers, Store!WakeOwner
<1> QED
    BY <1>1, <1>2, <1>3 DEF StoreStep, Store!WakeOwner

\* Every step of the service is a step of the store, or does not touch it:
\* Store() is called on an open store only, and the store is freed when no
\* capture thread is inside.
LEMMA ContractStep ==
    ASSUME IInv, Next
    PROVE  [Store!Next]_(Store!vars)
<1> USE DEF Store!vars, Store!slotVars, Store!pingVars, Store!queueVars, storeVars
<1>1. CASE CreateStore \/ ReleaseStore
    BY <1>1 DEF CreateStore, ReleaseStore, Store!Next
<1>2. ASSUME NEW d \in Devices, Record(d)
      PROVE  [Store!Next]_(Store!vars)
    <2>1. receivers # <<>> /\ config.record_packets
        BY <1>2 DEF Record, IInv, ThreadPlace, In
    <2>2. Store!CallStore(d)
        BY <1>2, <2>1 DEF Record, IInv, ReceiverPlace, Store!CallStore
    <2> QED
        BY <2>2 DEF Store!Next
<1>3. CASE StoreStep
    <2>1. CASE Store!FreeMembers
        <3>1. receivers = <<>>
            BY <2>1 DEF Store!FreeMembers, IInv, TypeOK, StorePlace, ReceiverPlace
        <3>2. \A t \in Devices : pc[t] = "out"
            BY <3>1 DEF IInv, ThreadPlace, In
        <3> QED
            BY <2>1, <3>2 DEF Store!Next, Store!Free
    <2> QED
        BY <1>3, <2>1 DEF StoreStep, Store!Next
<1>4. CASE \/ Signal \/ StartService \/ LeaveLoop \/ StopService \/ BeginSleep
           \/ EndSleep \/ StoreReady \/ ResolveDevice \/ OpenDevice
           \/ StartCapture \/ SetupFails \/ StopReceiver \/ ReleaseReceiver
           \/ StoreGone \/ CloseDevice \/ ServiceGone \/ Terminated
    BY <1>4 DEF Signal, StartService, LeaveLoop, StopService, BeginSleep,
        EndSleep, StoreReady, ResolveDevice, OpenDevice, StartCapture,
        SetupFails, StopReceiver, ReleaseReceiver, StoreGone, CloseDevice,
        ServiceGone, Terminated, vars
<1>5. ASSUME NEW d \in Devices,
             \/ PacketArrives(d) \/ Forward(d) \/ ForwardFails(d)
             \/ Recorded(d) \/ CaptureExits(d)
      PROVE  [Store!Next]_(Store!vars)
    BY <1>5 DEF PacketArrives, Forward, ForwardFails, Recorded, CaptureExits
<1> QED
    BY <1>1, <1>2, <1>3, <1>4, <1>5 DEF Next, MainStep, CaptureStep

\* So the store's invariant is kept.
LEMMA StoreInvStep ==
    ASSUME IInv, Next
    PROVE  StoreP!IInv'
<1>1. [StoreP!Next]_(StoreP!vars)
    BY ContractStep, SameStore
    DEF Store!vars, Store!slotVars, Store!pingVars, Store!queueVars,
        StoreP!vars, StoreP!slotVars, StoreP!pingVars, StoreP!queueVars
<1> QED
    BY <1>1, StoreInvariant DEF IInv

-----------------------------------------------------------------------------
(* The steps of the service                                                *)

\* What the steps do to the sequences of receivers and devices.
LEMMA SequenceFacts ==
    ASSUME NEW s \in Seq(Devices)
    PROVE  /\ \A d \in Devices :
                  /\ Append(s, d) \in Seq(Devices) /\ Append(s, d) # <<>>
                  /\ In(Append(s, d), d)
                  /\ \A e \in Devices : In(s, e) => In(Append(s, d), e)
           /\ s # <<>> =>
                  /\ s[1] \in Devices /\ s[Len(s)] \in Devices
                  /\ Tail(s) \in Seq(Devices)
                  /\ SubSeq(s, 1, Len(s) - 1) \in Seq(Devices)
                  /\ \A d \in Devices : In(s, d) =>
                         /\ d = s[1] \/ In(Tail(s), d)
                         /\ d = s[Len(s)] \/ In(SubSeq(s, 1, Len(s) - 1), d)
<1>1. ASSUME NEW d \in Devices
      PROVE  /\ Append(s, d) \in Seq(Devices) /\ Append(s, d) # <<>>
             /\ In(Append(s, d), d)
             /\ \A e \in Devices : In(s, e) => In(Append(s, d), e)
    BY AppendProperties DEF In
<1>2. ASSUME s # <<>>
      PROVE  /\ s[1] \in Devices /\ s[Len(s)] \in Devices
             /\ Tail(s) \in Seq(Devices)
             /\ SubSeq(s, 1, Len(s) - 1) \in Seq(Devices)
    BY <1>2
<1>3. ASSUME s # <<>>, NEW d \in Devices, In(s, d)
      PROVE  d = s[1] \/ In(Tail(s), d)
    <2>1. PICK i \in 1 .. Len(s) : s[i] = d
        BY <1>3 DEF In
    <2>2. CASE i # 1
        <3>1. i - 1 \in DOMAIN Tail(s) /\ Tail(s)[i - 1] = d
            BY <1>3, <2>1, <2>2
        <3> QED
            BY <3>1 DEF In
    <2> QED
        BY <2>1, <2>2
<1>4. ASSUME s # <<>>, NEW d \in Devices, In(s, d)
      PROVE  d = s[Len(s)] \/ In(SubSeq(s, 1, Len(s) - 1), d)
    <2>1. PICK i \in 1 .. Len(s) : s[i] = d
        BY <1>4 DEF In
    <2>2. CASE i # Len(s)
        <3>1. i \in DOMAIN SubSeq(s, 1, Len(s) - 1) /\ SubSeq(s, 1, Len(s) - 1)[i] = d
            BY <1>4, <2>1, <2>2
        <3> QED
            BY <3>1 DEF In
    <2> QED
        BY <2>1, <2>2
<1> QED
    BY <1>1, <1>2, <1>3, <1>4

\* Types are kept: Init never runs past its last operation.
LEMMA TypeStep ==
    ASSUME IInv, Next
    PROVE  TypeOK'
<1> DEFINE OwnTypes ==
        /\ main \in {"check", "store", "connecting", "setup", "running", "unwind",
                     "joining", "destroying", "after", "sleep", "exited"}
        /\ step \in 1 .. Len(Plan) + 1
        /\ main = "setup" => step \in DOMAIN Plan
        /\ is_open \in [Devices -> BOOLEAN]
        /\ opened_devices \in Seq(Devices)
        /\ receivers \in Seq(Devices)
        /\ cap \in [Devices -> {"none", "loop", "packet", "record", "storing"}]
        /\ stopping \subseteq Devices
<1>1. OwnTypes /\ config \in Configs /\ (main = "connecting" => step = 1)
    BY DEF IInv, TypeOK, Resolved
<1>2. Plan' = Plan /\ Len(Plan) \in Nat \ {0} /\ DOMAIN Plan = 1 .. Len(Plan)
    BY <1>1, ConfigFixed, PlanResolves
<1>3. OwnTypes'
    <2> USE DEF devVars
    <2>1. CASE \/ Signal \/ StartService \/ LeaveLoop \/ StopService
               \/ BeginSleep \/ EndSleep \/ CreateStore \/ StoreReady
               \/ SetupFails \/ ReleaseStore \/ StoreGone \/ ServiceGone
        BY <1>1, <1>2, <2>1 DEF Signal, StartService, LeaveLoop, StopService,
            BeginSleep, EndSleep, CreateStore, StoreReady, SetupFails,
            ReleaseStore, StoreGone, ServiceGone
    <2>2. CASE ResolveDevice
        BY <1>1, <1>2, <2>2 DEF ResolveDevice, Advance, AtOp
    <2>3. CASE OpenDevice
        <3>1. Dev \in Devices
            BY <2>3, AtDevice DEF OpenDevice
        <3>2. opened_devices' \in Seq(Devices)
            BY <1>1, <2>3, <3>1, SequenceFacts DEF OpenDevice, Tracked
        <3> QED
            BY <1>1, <1>2, <2>3, <3>1, <3>2 DEF OpenDevice, Advance, AtOp
    <2>4. CASE StartCapture
        <3>1. Dev \in Devices
            BY <2>4, AtDevice DEF StartCapture
        <3>2. receivers' \in Seq(Devices)
            BY <1>1, <2>4, <3>1, SequenceFacts DEF StartCapture
        <3> QED
            BY <1>1, <1>2, <2>4, <3>1, <3>2 DEF StartCapture, Advance, AtOp
    <2>5. CASE StopReceiver
        BY <1>1, <1>2, <2>5, SequenceFacts DEF StopReceiver
    <2>6. CASE ReleaseReceiver
        <3>1. receivers' \in Seq(Devices)
            BY <1>1, <2>6, SequenceFacts DEF ReleaseReceiver, IInv, ReceiverPlace
        <3> QED
            BY <1>1, <1>2, <2>6, <3>1 DEF ReleaseReceiver
    <2>7. CASE CloseDevice
        <3>1. opened_devices' \in Seq(Devices)
            BY <1>1, <2>7, SequenceFacts DEF CloseDevice
        <3> QED
            BY <1>1, <1>2, <2>7, <3>1 DEF CloseDevice
    <2>8. ASSUME NEW d \in Devices, PacketArrives(d) \/ CaptureStep(d)
          PROVE  OwnTypes'
        BY <1>1, <1>2, <2>8 DEF PacketArrives, CaptureStep, Forward,
            ForwardFails, Record, Recorded, CaptureExits
    <2>9. CASE StoreStep \/ Terminated
        BY <1>1, <1>2, <2>9 DEF StoreStep, Terminated, vars, svcVars
    <2> QED
        BY <2>1, <2>2, <2>3, <2>4, <2>5, <2>6, <2>7, <2>8, <2>9
        DEF Next, MainStep
<1>4. Store!TypeOK'
    <2>1. StoreP!TypeOK'
        BY StoreInvStep DEF StoreP!IInv
    <2> QED
        BY <2>1 DEF Store!TypeOK, Store!OwnerStates, Store!CallerStates,
            Store!IoStates, StoreP!TypeOK, StoreP!OwnerStates,
            StoreP!CallerStates, StoreP!IoStates
<1> QED
    BY <1>3, <1>4 DEF TypeOK

\* The main thread builds the store before Init goes on and waits for its
\* destructor before it goes back to the loop.
LEMMA StorePlaceStep ==
    ASSUME IInv, Next
    PROVE  StorePlace'
<1>1. /\ StorePlace /\ ReceiverPlace /\ TypeOK /\ config.record_packets \in BOOLEAN
      /\ StoreP!TypeOK
    BY ServiceAssumption DEF IInv, StoreP!IInv
<1> USE <1>1 DEF StorePlace, storeVars, Constructing, Destroying
<1>2. CASE \/ Signal \/ StartService \/ LeaveLoop \/ StopService
           \/ BeginSleep \/ EndSleep \/ StoreReady
           \/ SetupFails \/ StoreGone \/ ServiceGone \/ CloseDevice
           \/ StopReceiver \/ ReleaseReceiver
    BY <1>2 DEF Signal, StartService, LeaveLoop, StopService,
        BeginSleep, EndSleep, StoreReady, SetupFails,
        StoreGone, ServiceGone, CloseDevice, StopReceiver, ReleaseReceiver, AtOp
<1>3. CASE CreateStore \/ ReleaseStore
    BY <1>3 DEF CreateStore, ReleaseStore, Store!Construct, Store!BeginDestroy
<1>4. CASE ResolveDevice \/ OpenDevice \/ StartCapture
    BY <1>4 DEF ResolveDevice, OpenDevice, StartCapture, Advance, AtOp
<1>5. ASSUME NEW d \in Devices, PacketArrives(d) \/ CaptureStep(d)
      PROVE  StorePlace'
    BY <1>5 DEF PacketArrives, CaptureStep, Forward,
        ForwardFails, Record, Recorded, CaptureExits, Store!EnterStore
<1>6. CASE StoreStep
    <2>1. main' = main /\ config' = config
        BY <1>6 DEF StoreStep, svcVars
    <2> QED
        BY <1>6, <2>1, StoreMoves, SMTT(30) DEF TypeOK
<1>7. CASE Terminated
    BY <1>7 DEF Terminated, vars, svcVars
<1> QED
    BY <1>2, <1>3, <1>4, <1>5, <1>6, <1>7 DEF Next, MainStep

\* A receiver is kept only by Init and released only after its thread was
\* joined; the store outlives every receiver that records.
LEMMA ReceiverPlaceStep ==
    ASSUME IInv, Next
    PROVE  ReceiverPlace'
<1>1. /\ ReceiverPlace /\ StorePlace /\ receivers \in Seq(Devices)
      /\ config' = config
    BY ConfigFixed DEF IInv, TypeOK
<1> USE <1>1 DEF ReceiverPlace, StorePlace, storeVars
<1>2. CASE \/ Signal \/ StartService \/ LeaveLoop \/ StopService
           \/ BeginSleep \/ EndSleep \/ StoreReady \/ SetupFails
           \/ StoreGone \/ ServiceGone \/ CloseDevice
           \/ ResolveDevice \/ OpenDevice
    BY <1>2 DEF Signal, StartService, LeaveLoop, StopService,
        BeginSleep, EndSleep, StoreReady, SetupFails, StoreGone, ServiceGone,
        CloseDevice, ResolveDevice, OpenDevice, Advance, AtOp
<1>3. CASE CreateStore \/ ReleaseStore
    BY <1>3 DEF CreateStore, ReleaseStore, Store!Construct, Store!BeginDestroy
<1>4. CASE StartCapture
    BY <1>4 DEF StartCapture, Advance, AtOp
<1>5. CASE StopReceiver \/ ReleaseReceiver
    BY <1>5 DEF StopReceiver, ReleaseReceiver
<1>6. ASSUME NEW d \in Devices, PacketArrives(d) \/ CaptureStep(d)
      PROVE  ReceiverPlace'
    BY <1>6 DEF PacketArrives, CaptureStep, Forward, ForwardFails, Record,
        Recorded, CaptureExits, Store!EnterStore
<1>7. CASE StoreStep
    <2>1. UNCHANGED <<main, receivers, stopping>>
        BY <1>7 DEF StoreStep, svcVars
    <2> QED
        BY <1>7, <2>1, StoreMoves DEF IInv, StoreP!IInv
<1>8. CASE Terminated
    BY <1>8 DEF Terminated, vars, svcVars
<1> QED
    BY <1>2, <1>3, <1>4, <1>5, <1>6, <1>7, <1>8 DEF Next, MainStep

\* TrackOpenedDevice remembers every device OpenDevice opens, and
\* CloseDevices closes what it forgets.
LEMMA DevicePlaceStep ==
    ASSUME IInv, Next
    PROVE  DevicePlace'
<1>1. /\ DevicePlace
      /\ is_open \in [Devices -> BOOLEAN] /\ opened_devices \in Seq(Devices)
    BY DEF IInv, TypeOK
<1> USE <1>1 DEF DevicePlace, devVars
<1>2. CASE OpenDevice
    <2>1. Dev \in Devices
        BY <1>2, AtDevice DEF OpenDevice
    <2>2. \A d \in Devices : d = Dev \/ In(opened_devices, d) => In(Tracked(Dev), d)
        <3>1. CASE In(opened_devices, Dev)
            BY <3>1 DEF Tracked, In
        <3>2. CASE ~In(opened_devices, Dev)
            <4>1. Tracked(Dev) = Append(opened_devices, Dev)
                BY <3>2 DEF Tracked, In
            <4> QED
                BY <2>1, <4>1, SequenceFacts
        <3> QED
            BY <3>1, <3>2
    <2> QED
        BY <1>2, <2>1, <2>2 DEF OpenDevice, Advance, AtOp
<1>3. CASE CloseDevice
    <2>1. \A d \in Devices : is_open'[d] => In(opened_devices', d)
        BY <1>3, SequenceFacts DEF CloseDevice
    <2> QED
        BY <1>3, <2>1 DEF CloseDevice
<1>4. CASE \/ Signal \/ StartService \/ LeaveLoop \/ StopService
           \/ BeginSleep \/ EndSleep \/ CreateStore \/ StoreReady
           \/ SetupFails \/ ReleaseStore \/ StoreGone \/ ServiceGone
           \/ ResolveDevice \/ StartCapture \/ StopReceiver \/ ReleaseReceiver
    BY <1>4 DEF Signal, StartService, LeaveLoop, StopService, BeginSleep,
        EndSleep, CreateStore, StoreReady, SetupFails, ReleaseStore,
        StoreGone, ServiceGone, ResolveDevice, StartCapture, StopReceiver,
        ReleaseReceiver, Advance, AtOp, In
<1>5. ASSUME NEW d \in Devices, PacketArrives(d) \/ CaptureStep(d)
      PROVE  DevicePlace'
    BY <1>5 DEF PacketArrives, CaptureStep, Forward, ForwardFails, Record,
        Recorded, CaptureExits, In
<1>6. CASE StoreStep \/ Terminated
    BY <1>6 DEF StoreStep, Terminated, vars, svcVars, In
<1> QED
    BY <1>2, <1>3, <1>4, <1>5, <1>6 DEF Next, MainStep

\* A capture thread ends before its receiver is released, and is in Store()
\* only while it records.
LEMMA ThreadPlaceStep ==
    ASSUME IInv, Next
    PROVE  ThreadPlace'
<1>1. /\ ThreadPlace /\ ReceiverPlace /\ receivers \in Seq(Devices)
      /\ cap \in [Devices -> {"none", "loop", "packet", "record", "storing"}]
      /\ pc \in [Devices -> StoreP!CallerStates]
      /\ config' = config
    BY ConfigFixed DEF IInv, TypeOK, StoreP!IInv, StoreP!TypeOK
<1> USE <1>1 DEF ThreadPlace
<1>2. CASE StartCapture
    <2>1. Dev \in Devices /\ pc' = pc
        BY <1>2, AtDevice DEF StartCapture, storeVars
    <2> QED
        BY <1>2, <2>1, SequenceFacts DEF StartCapture, CanStart
<1>3. CASE ReleaseReceiver
    BY <1>3, SequenceFacts
    DEF ReleaseReceiver, Joined, ReceiverPlace, storeVars
<1>4. CASE \/ Signal \/ StartService \/ LeaveLoop \/ StopService
           \/ BeginSleep \/ EndSleep \/ StoreReady
           \/ SetupFails \/ StoreGone \/ ServiceGone
           \/ ResolveDevice \/ OpenDevice \/ StopReceiver \/ CloseDevice
           \/ Terminated
    BY <1>4 DEF Signal, StartService, LeaveLoop, StopService, BeginSleep,
        EndSleep, StoreReady, SetupFails, StoreGone, ServiceGone,
        ResolveDevice, OpenDevice, StopReceiver, CloseDevice, Terminated,
        vars, svcVars, storeVars, In
<1>5. CASE CreateStore \/ ReleaseStore
    BY <1>5 DEF CreateStore, ReleaseStore, Store!Construct,
        Store!BeginDestroy, In
<1>6. ASSUME NEW d \in Devices, PacketArrives(d) \/ CaptureStep(d)
      PROVE  ThreadPlace'
    BY <1>6 DEF PacketArrives, CaptureStep, Forward, ForwardFails, Record,
        Recorded, CaptureExits, Store!EnterStore, storeVars, In
<1>7. CASE StoreStep
    <2>1. UNCHANGED <<receivers, cap>>
        BY <1>7 DEF StoreStep, svcVars
    <2> QED
        BY <1>7, <2>1, StoreMoves DEF IInv, StoreP!IInv, In
<1> QED
    BY <1>2, <1>3, <1>4, <1>5, <1>6, <1>7 DEF Next, MainStep

\* A device is closed only when there is no receiver left.
LEMMA ThreadDevicesStep ==
    ASSUME IInv, Next
    PROVE  ThreadDevices'
<1>1. /\ ThreadDevices /\ is_open \in [Devices -> BOOLEAN]
      /\ cap \in [Devices -> {"none", "loop", "packet", "record", "storing"}]
      /\ \A d \in Devices : RouteOf(d)' = RouteOf(d)
    BY ConfigFixed DEF IInv, TypeOK, RouteOf
<1> USE <1>1 DEF ThreadDevices, devVars
<1>2. CASE OpenDevice
    BY <1>2 DEF OpenDevice
<1>3. CASE StartCapture
    BY <1>3, AtDevice, AtRoute DEF StartCapture, CanStart
<1>4. CASE CloseDevice
    <2>1. \A d \in Devices : cap[d] = "none"
        BY <1>4 DEF CloseDevice, IInv, ThreadPlace, In
    <2> QED
        BY <1>4, <2>1 DEF CloseDevice
<1>5. CASE \/ Signal \/ StartService \/ LeaveLoop \/ StopService
           \/ BeginSleep \/ EndSleep \/ CreateStore \/ StoreReady
           \/ SetupFails \/ ReleaseStore \/ StoreGone \/ ServiceGone
           \/ ResolveDevice \/ StopReceiver \/ ReleaseReceiver
           \/ StoreStep \/ Terminated
    BY <1>5 DEF Signal, StartService, LeaveLoop, StopService, BeginSleep,
        EndSleep, CreateStore, StoreReady, SetupFails, ReleaseStore,
        StoreGone, ServiceGone, ResolveDevice, StopReceiver, ReleaseReceiver,
        StoreStep, Terminated, vars, svcVars
<1>6. ASSUME NEW d \in Devices, PacketArrives(d) \/ CaptureStep(d)
      PROVE  ThreadDevices'
    BY <1>6 DEF PacketArrives, CaptureStep, Forward, ForwardFails, Record,
        Recorded, CaptureExits
<1> QED
    BY <1>2, <1>3, <1>4, <1>5, <1>6 DEF Next, MainStep

\* Init goes past a resolve operation only when the interface was found.
LEMMA ResolvedStep ==
    ASSUME IInv, Next
    PROVE  Resolved'
<1>1. /\ Resolved /\ Plan' = Plan /\ step \in Int
    BY ConfigFixed, PlanResolves DEF IInv, TypeOK
<1> USE <1>1 DEF Resolved
<1>2. CASE ResolveDevice
    BY <1>2 DEF ResolveDevice, Advance, AtOp, Dev
<1>3. CASE OpenDevice \/ StartCapture
    BY <1>3 DEF OpenDevice, StartCapture, Advance, AtOp
<1>4. CASE \/ Signal \/ StartService \/ LeaveLoop \/ StopService
           \/ BeginSleep \/ EndSleep \/ CreateStore \/ StoreReady
           \/ SetupFails \/ ReleaseStore \/ StoreGone \/ ServiceGone
           \/ StopReceiver \/ ReleaseReceiver \/ CloseDevice
           \/ StoreStep \/ Terminated
    BY <1>4 DEF Signal, StartService, LeaveLoop, StopService, BeginSleep,
        EndSleep, CreateStore, StoreReady, SetupFails, ReleaseStore,
        StoreGone, ServiceGone, StopReceiver, ReleaseReceiver, CloseDevice,
        StoreStep, Terminated, vars, svcVars
<1>5. ASSUME NEW d \in Devices, PacketArrives(d) \/ CaptureStep(d)
      PROVE  Resolved'
    BY <1>5 DEF PacketArrives, CaptureStep, Forward, ForwardFails, Record,
        Recorded, CaptureExits
<1> QED
    BY <1>2, <1>3, <1>4, <1>5 DEF Next, MainStep

\* The initial state satisfies the invariant.
LEMMA InitInv == Init => IInv
<1> SUFFICES ASSUME Init PROVE IInv
    OBVIOUS
<1>1. StoreP!IInv /\ Store!TypeOK
    BY SameStore, StoreInvariant DEF Init, StoreP!IInv
<1>2. config \in Configs /\ Len(Plan) \in Nat \ {0}
    BY PlanResolves DEF Init
<1>3. TypeOK
    BY <1>1, <1>2 DEF Init, TypeOK
<1>4. owner = "gone" /\ \A d \in Devices : pc[d] = "out"
    BY DEF Init, Store!Init
<1> QED
    BY <1>1, <1>2, <1>3, <1>4
    DEF Init, IInv, StorePlace, ReceiverPlace, DevicePlace, ThreadPlace,
        ThreadDevices, Resolved

\* The invariant is inductive.
LEMMA NextInv == IInv /\ [Next]_vars => IInv'
<1> SUFFICES ASSUME IInv, [Next]_vars PROVE IInv'
    OBVIOUS
<1>1. CASE Next
    BY <1>1, ConfigFixed, StoreInvStep, TypeStep, StorePlaceStep,
       ReceiverPlaceStep, DevicePlaceStep, ThreadPlaceStep,
       ThreadDevicesStep, ResolvedStep DEF IInv
<1>2. CASE UNCHANGED vars
    <2> USE <1>2 DEF vars, svcVars, storeVars, devVars
    <2>1. StoreP!IInv'
        <3>1. UNCHANGED StoreP!vars
            BY DEF StoreP!vars, StoreP!slotVars, StoreP!pingVars, StoreP!queueVars
        <3> QED
            BY <3>1, StoreInvariant DEF IInv
    <2>2. Plan' = Plan /\ \A d \in Devices : RouteOf(d)' = RouteOf(d)
        BY DEF Plan, RouteOf
    <2>3. TypeOK'
        BY <2>2 DEF IInv, TypeOK, Store!TypeOK, Store!OwnerStates,
            Store!CallerStates, Store!IoStates
    <2> QED
        BY <2>1, <2>2, <2>3
        DEF IInv, StorePlace, ReceiverPlace, DevicePlace, ThreadPlace,
            ThreadDevices, Resolved, In
<1> QED
    BY <1>1, <1>2

\* Every behaviour of the service satisfies the inductive invariant.
THEOREM InvariantHolds == Spec => []IInv
BY InitInv, NextInv, PTL DEF Spec

-----------------------------------------------------------------------------
(* What the invariant gives                                                 *)

\* Type correctness of the service: in particular Init's program counter
\* never leaves the plan and only interfaces of the host are touched.
THEOREM TypeCorrect == Spec => []TypeOK
<1>1. IInv => TypeOK
    BY DEF IInv
<1> QED
    BY <1>1, InvariantHolds, PTL

\* The service implements the store's contract: through every partial failure
\* of Init and every order of teardown, Store() is called only on a
\* constructed store and the store is freed only when no thread is inside.
THEOREM ServiceObeysStoreContract == Spec => StoreUsedCorrectly
<1>1. Init => Store!Init
    BY DEF Init
<1>2. IInv /\ [Next]_vars => [Store!Next]_(Store!vars)
    <2> SUFFICES ASSUME IInv, [Next]_vars PROVE [Store!Next]_(Store!vars)
        OBVIOUS
    <2>1. CASE UNCHANGED vars
        BY <2>1 DEF vars, storeVars, Store!vars, Store!slotVars,
            Store!pingVars, Store!queueVars
    <2> QED
        BY <2>1, ContractStep
<1> QED
    BY <1>1, <1>2, InvariantHolds, PTL DEF Spec, StoreUsedCorrectly, Store!Spec

\* What the store promises on its own therefore holds of the store inside
\* the service: the slots are accounted for, the queue is bounded, no wake-up
\* is lost and a completed drain leaves no accepted packet unanswered.
THEOREM StorePromisesKept ==
    Spec => [](/\ Store!SlotAccounting /\ Store!PendingBounded
               /\ Store!NoLostWakeup /\ Store!DrainedMeansAnswered)
<1>1. Store!Spec => StoreP!Spec
    <2>1. Store!Init => StoreP!Init
        BY SameStore
    <2>2. [Store!Next]_(Store!vars) => [StoreP!Next]_(StoreP!vars)
        BY SameStore
        DEF Store!vars, Store!slotVars, Store!pingVars, Store!queueVars,
            StoreP!vars, StoreP!slotVars, StoreP!pingVars, StoreP!queueVars
    <2> QED
        BY <2>1, <2>2, PTL DEF Store!Spec, StoreP!Spec
<1>2. StoreP!Spec => [](/\ StoreP!SlotAccounting /\ StoreP!PendingBounded
                        /\ StoreP!NoLostWakeup /\ StoreP!DrainedMeansAnswered)
    BY StoreAssumed, StoreP!AccountingCorrect, StoreP!BoundedQueue,
       StoreP!WakeupsNotLost, StoreP!DrainIsComplete, PTL
    DEF StoreP!AccountingCorrect, StoreP!BoundedQueue,
        StoreP!WakeupsNotLost, StoreP!DrainIsComplete
<1>3. /\ StoreP!SlotAccounting => Store!SlotAccounting
      /\ StoreP!PendingBounded => Store!PendingBounded
      /\ StoreP!NoLostWakeup => Store!NoLostWakeup
      /\ StoreP!DrainedMeansAnswered => Store!DrainedMeansAnswered
    BY DEF StoreP!SlotAccounting, StoreP!PendingBounded,
        StoreP!NoLostWakeup, StoreP!DrainedMeansAnswered, StoreP!Holding,
        StoreP!IoHolding, StoreP!NotifyComing, StoreP!MayLeaveReserve,
        StoreP!SlotFree, StoreP!Cardinality,
        Store!SlotAccounting, Store!PendingBounded,
        Store!NoLostWakeup, Store!DrainedMeansAnswered, Store!Holding,
        Store!IoHolding, Store!NotifyComing, Store!MayLeaveReserve,
        Store!SlotFree, Store!Cardinality
<1> QED
    BY <1>1, <1>2, <1>3, ServiceObeysStoreContract, PTL DEF StoreUsedCorrectly

\* No capture thread runs on a closed device or forwards to one.
THEOREM CapturesOnOpenDevicesOnly == Spec => []CaptureOnOpenDevices
<1>1. IInv => CaptureOnOpenDevices
    BY DEF IInv, ThreadDevices, CaptureOnOpenDevices
<1> QED
    BY <1>1, InvariantHolds, PTL

\* Each attempt, and the exit, starts from nothing: whatever failed before,
\* no device is open, no capture thread runs and no store is left.
THEOREM RestartsAreClean == Spec => []CleanRestart
<1>1. ASSUME IInv, main \in {"check", "sleep", "after", "exited"}
      PROVE  /\ \A d \in Devices : ~is_open[d] /\ cap[d] = "none"
             /\ receivers = <<>> /\ stopping = {}
             /\ owner = "gone" /\ io = "none"
    <2>1. receivers = <<>> /\ opened_devices = <<>> /\ stopping = {}
        BY <1>1 DEF IInv, ReceiverPlace, DevicePlace
    <2>2. \A d \in Devices : ~is_open[d] /\ cap[d] = "none"
        BY <1>1, <2>1 DEF IInv, TypeOK, DevicePlace, ThreadPlace, In
    <2>3. owner = "gone" /\ io = "none"
        BY <1>1 DEF IInv, StorePlace, StoreP!IInv, StoreP!Lifetime
    <2> QED
        BY <2>1, <2>2, <2>3
<1>2. IInv => CleanRestart
    BY <1>1 DEF CleanRestart
<1> QED
    BY <1>2, InvariantHolds, PTL
=============================================================================
