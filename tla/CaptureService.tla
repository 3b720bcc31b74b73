--------------------------- MODULE CaptureService ---------------------------
(***************************************************************************)
(* The capture service: main's supervisor loop (src/ElephantShrewMain.cpp),*)
(* Bootstrapper, ElephantShrew::Init and its destructor, one PcapReceiver  *)
(* and one capture thread per interface, and the RedisPacketStore they     *)
(* share.  A failure anywhere in Init unwinds what was built so far and    *)
(* the supervisor tries again until SIGINT or SIGTERM.                     *)
(*                                                                         *)
(* The main thread is the store's owner and the capture threads are its    *)
(* callers.  The store's two usage rules (call Store() only on a live      *)
(* store, free it only when nobody is inside) are NOT assumed here: they   *)
(* are what StoreUsedCorrectly checks.                                     *)
(***************************************************************************)
EXTENDS Integers, Sequences, FiniteSets

CONSTANTS
    DeviceList,         \* PcapLiveDeviceList: the interfaces of the host
    NoDevice,           \* nullptr, and the empty interface name
    Configs,            \* effective configurations to start from
    MaxPendingWrites    \* config.redis.max_pending_writes

Devices == {DeviceList[i] : i \in DOMAIN DeviceList}

IsList(s) == s \in Seq({s[i] : i \in DOMAIN s})

\* Every interface has a name.  Lists are lists and flags are flags, and
\* RequirePositive rejects max_pending_writes = 0.
ASSUME ServiceAssumption ==
    /\ IsList(DeviceList)
    /\ NoDevice \notin Devices
    /\ MaxPendingWrites \in Nat \ {0}
    /\ \A c \in Configs :
          /\ IsList(c.ifaces)
          /\ {c.enabled, c.bidirectional, c.record_packets} \subseteq BOOLEAN

VARIABLES
    owner, pc, io, ping, ready, pending_writes, accepting_writes,
    posted, inflight, drained, stopped,     \* the store, see RedisPacketStore
    config,             \* the RuntimeConfig main loaded
    stop_requested,     \* g_stopRequested
    main,               \* where the main thread is
    step,               \* how far Init is in its InitPlan
    is_open,            \* PcapLiveDevice::isOpened
    opened_devices,     \* opened_devices_
    receivers,          \* receivers_: the device each one captures from
    cap,                \* where each device's capture thread is
    stopping            \* devices whose stopCapture is joining the thread

Store == INSTANCE RedisPacketStore WITH Callers <- Devices

storeVars == <<owner, pc, io, ping, ready, pending_writes, accepting_writes,
               posted, inflight, drained, stopped>>
devVars == <<is_open, opened_devices>>
svcVars == <<config, stop_requested, main, step, devVars, receivers, cap, stopping>>
vars == <<storeVars, svcVars>>

\* The receiver on d forwards to this device.
RouteOf(d) ==
    IF ~config.enabled THEN NoDevice
    ELSE IF d = config.ingress THEN config.egress ELSE config.ingress

-----------------------------------------------------------------------------
(* What Init does, in order                                                *)

Resolve(d) == [op |-> "resolve", device |-> d]
Open(d) == [op |-> "open", device |-> d]
Start(d) == [op |-> "start", device |-> d]

\* ResolveCaptureDevice of an empty name is the first device of the host; an
\* empty list of names asks for that one.
NamedOrFirst(name) ==
    IF name = NoDevice /\ DeviceList # <<>> THEN DeviceList[1] ELSE name
CaptureTargets(c) ==
    LET names == IF c.ifaces = <<>> THEN <<NoDevice>> ELSE c.ifaces
    IN  [i \in DOMAIN names |-> NamedOrFirst(names[i])]

InitPlan(c) ==
    IF c.enabled
      THEN <<Resolve(c.ingress), Resolve(c.egress), Open(c.ingress), Open(c.egress),
             Start(c.ingress)>>
           \o IF c.bidirectional THEN <<Start(c.egress)>> ELSE <<>>
      ELSE LET targets == CaptureTargets(c)
           IN  [i \in 1 .. 3 * Len(targets) |->
                   LET d == targets[(i + 2) \div 3]
                   IN  <<Resolve(d), Open(d), Start(d)>>[((i - 1) % 3) + 1]]

-----------------------------------------------------------------------------
(* The supervisor loop of main                                             *)

Init ==
    /\ Store!Init
    /\ config \in Configs
    /\ stop_requested = FALSE
    /\ main = "check"
    /\ step = 1
    /\ is_open = [d \in Devices |-> FALSE]
    /\ opened_devices = <<>>
    /\ receivers = <<>>
    /\ cap = [d \in Devices |-> "none"]
    /\ stopping = {}

\* SIGINT or SIGTERM: RequestStop.
Signal ==
    /\ ~stop_requested
    /\ stop_requested' = TRUE
    /\ UNCHANGED <<storeVars, config, main, step, devVars, receivers, cap, stopping>>

\* RunCaptureService: a fresh ElephantShrew, whose Init first builds the
\* store when recording is on.
StartService ==
    /\ main = "check" /\ ~stop_requested
    /\ main' = IF config.record_packets THEN "store" ELSE "setup"
    /\ step' = 1
    /\ UNCHANGED <<storeVars, config, stop_requested, devVars, receivers, cap, stopping>>

LeaveLoop ==
    /\ main \in {"check", "after"} /\ stop_requested
    /\ main' = "exited"
    /\ UNCHANGED <<storeVars, config, stop_requested, step, devVars, receivers, cap, stopping>>

\* WaitUntilStopRequested returns and the Bootstrapper is destroyed.
StopService ==
    /\ main = "running" /\ stop_requested
    /\ main' = "unwind"
    /\ UNCHANGED <<storeVars, config, stop_requested, step, devVars, receivers, cap, stopping>>

\* No stop was requested: SleepWithStopCheck before the next attempt.
BeginSleep ==
    /\ main = "after" /\ ~stop_requested
    /\ main' = "sleep"
    /\ UNCHANGED <<storeVars, config, stop_requested, step, devVars, receivers, cap, stopping>>

\* Fault: the restart delay never runs out.
SleepForever ==
    /\ main = "sleep" /\ stop_requested
    /\ main' = "check"
    /\ UNCHANGED <<storeVars, config, stop_requested, step, devVars, receivers, cap, stopping>>

\* The delay is over, or the stop check ends it early.
EndSleep ==
    /\ main = "sleep"
    /\ main' = "check"
    /\ UNCHANGED <<storeVars, config, stop_requested, step, devVars, receivers, cap, stopping>>

-----------------------------------------------------------------------------
(* ElephantShrew::Init                                                     *)

CreateStore ==
    /\ main = "store"
    /\ Store!Construct
    /\ main' = "connecting"
    /\ UNCHANGED <<config, stop_requested, step, devVars, receivers, cap, stopping>>

\* make_shared returns, or rethrows what the constructor threw.
StoreReady ==
    /\ main = "connecting" /\ owner \in {"open", "gone"}
    /\ main' = IF owner = "open" THEN "setup" ELSE "unwind"
    /\ UNCHANGED <<storeVars, config, stop_requested, step, devVars, receivers, cap, stopping>>

Plan == InitPlan(config)
AtOp(op) == main = "setup" /\ step \in DOMAIN Plan /\ Plan[step].op = op
Dev == Plan[step].device

\* The operation returned, and control goes on to the next one; behind the
\* last one Init returns.
Advance ==
    /\ step' = step + 1
    /\ main' = IF step = Len(Plan) THEN "running" ELSE "setup"

\* Fault: the device found is not tested for nullptr.
ResolveUnchecked ==
    /\ AtOp("resolve")
    /\ Advance
    /\ UNCHANGED <<storeVars, config, stop_requested, devVars, receivers, cap, stopping>>

ResolveDevice ==
    /\ AtOp("resolve")
    /\ Dev \in Devices
    /\ Advance
    /\ UNCHANGED <<storeVars, config, stop_requested, devVars, receivers, cap, stopping>>

\* Fault: the opened device is not remembered.
TrackedNot(d) == opened_devices

\* TrackOpenedDevice.
Tracked(d) ==
    IF \E i \in DOMAIN opened_devices : opened_devices[i] = d
      THEN opened_devices
      ELSE Append(opened_devices, d)

\* OpenDevice opens the device, or finds it open already; then it is tracked.
OpenDevice ==
    /\ AtOp("open")
    /\ is_open' = [is_open EXCEPT ![Dev] = TRUE]
    /\ opened_devices' = Tracked(Dev)
    /\ Advance
    /\ UNCHANGED <<storeVars, config, stop_requested, receivers, cap, stopping>>

\* The checks of PcapReceiver::Receive, and startCapture's own: a device has
\* one capture thread.
CanStart(d) ==
    /\ is_open[d]
    /\ RouteOf(d) # NoDevice => is_open[RouteOf(d)]
    /\ cap[d] = "none"

\* PcapReceiver::Receive starts the thread; Init keeps the receiver.
StartCapture ==
    /\ AtOp("start")
    /\ CanStart(Dev)
    /\ cap' = [cap EXCEPT ![Dev] = "loop"]
    /\ receivers' = Append(receivers, Dev)
    /\ Advance
    /\ UNCHANGED <<storeVars, config, stop_requested, devVars, stopping>>

\* Any of them throws: an unknown interface, open or startCapture failing (an
\* open device is not opened again, so that cannot fail).
SetupFails ==
    /\ \/ AtOp("resolve") /\ Dev \notin Devices
       \/ AtOp("open") /\ ~is_open[Dev]
       \/ AtOp("start")
    /\ main' = "unwind"
    /\ UNCHANGED <<storeVars, config, stop_requested, step, devVars, receivers, cap, stopping>>

-----------------------------------------------------------------------------
(* ~ElephantShrew, after a failure or a stop request                       *)

\* Fault: the capture loop is joined but not told to stop.
StopReceiverUnheard ==
    /\ main = "unwind" /\ receivers # <<>>
    /\ main' = "joining"
    /\ UNCHANGED <<storeVars, config, stop_requested, step, devVars, receivers, cap, stopping>>

\* receivers_.clear() destroys the receivers front to back; PcapReceiver::Stop
\* calls stopCapture, which joins the capture thread.
StopReceiver ==
    /\ main = "unwind" /\ receivers # <<>>
    /\ stopping' = stopping \cup {receivers[1]}
    /\ main' = "joining"
    /\ UNCHANGED <<storeVars, config, stop_requested, step, devVars, receivers, cap>>

\* Fault: stopCapture does not wait for the thread.
JoinedNot(d) == TRUE

Joined(d) == cap[d] = "none"

ReleaseReceiver ==
    /\ main = "joining" /\ Joined(receivers[1])
    /\ stopping' = stopping \ {receivers[1]}
    /\ receivers' = Tail(receivers)
    /\ main' = "unwind"
    /\ UNCHANGED <<storeVars, config, stop_requested, step, devVars, cap>>

\* The last reference to the store goes: Init's own when no receiver was
\* kept, otherwise the last receiver's.
ReleaseStore ==
    /\ main = "unwind" /\ receivers = <<>>
    /\ Store!BeginDestroy
    /\ main' = "destroying"
    /\ UNCHANGED <<config, stop_requested, step, devVars, receivers, cap, stopping>>

StoreGone ==
    /\ main = "destroying" /\ owner = "gone"
    /\ main' = "unwind"
    /\ UNCHANGED <<storeVars, config, stop_requested, step, devVars, receivers, cap, stopping>>

\* CloseDevices: the last device opened is closed first.
CloseDevice ==
    /\ main = "unwind" /\ receivers = <<>> /\ owner = "gone"
    /\ opened_devices # <<>>
    /\ is_open' = [is_open EXCEPT ![opened_devices[Len(opened_devices)]] = FALSE]
    /\ opened_devices' = SubSeq(opened_devices, 1, Len(opened_devices) - 1)
    /\ UNCHANGED <<storeVars, config, stop_requested, main, step, receivers, cap, stopping>>

ServiceGone ==
    /\ main = "unwind" /\ receivers = <<>> /\ owner = "gone"
    /\ opened_devices = <<>>
    /\ main' = "after"
    /\ UNCHANGED <<storeVars, config, stop_requested, step, devVars, receivers, cap, stopping>>

-----------------------------------------------------------------------------
(* The capture thread of device d                                          *)

\* pcap delivers a packet to onPacketArrives, unless stopCapture broke the
\* loop.
PacketArrives(d) ==
    /\ cap[d] = "loop" /\ d \notin stopping
    /\ cap' = [cap EXCEPT ![d] = "packet"]
    /\ UNCHANGED <<storeVars, config, stop_requested, main, step, devVars, receivers, stopping>>

\* processPacket: the packet is forwarded (if there is a route) and comes to
\* the recording step.
Forward(d) ==
    /\ cap[d] = "packet"
    /\ cap' = [cap EXCEPT ![d] = IF config.record_packets THEN "record" ELSE "loop"]
    /\ UNCHANGED <<storeVars, config, stop_requested, main, step, devVars, receivers, stopping>>

\* sendPacket fails: the exception ends in onPacketArrives and the packet is
\* not recorded.
ForwardFails(d) ==
    /\ cap[d] = "packet" /\ RouteOf(d) # NoDevice
    /\ cap' = [cap EXCEPT ![d] = "loop"]
    /\ UNCHANGED <<storeVars, config, stop_requested, main, step, devVars, receivers, stopping>>

Record(d) ==
    /\ cap[d] = "record"
    /\ Store!EnterStore(d)
    /\ cap' = [cap EXCEPT ![d] = "storing"]
    /\ UNCHANGED <<config, stop_requested, main, step, devVars, receivers, stopping>>

Recorded(d) ==
    /\ cap[d] = "storing" /\ pc[d] = "out"
    /\ cap' = [cap EXCEPT ![d] = "loop"]
    /\ UNCHANGED <<storeVars, config, stop_requested, main, step, devVars, receivers, stopping>>

\* The capture loop sees the stop flag.
CaptureExits(d) ==
    /\ cap[d] = "loop" /\ d \in stopping
    /\ cap' = [cap EXCEPT ![d] = "none"]
    /\ UNCHANGED <<storeVars, config, stop_requested, main, step, devVars, receivers, stopping>>

-----------------------------------------------------------------------------
MainStep ==
    \/ StartService \/ LeaveLoop \/ StopService \/ BeginSleep \/ EndSleep
    \/ CreateStore \/ StoreReady
    \/ ResolveDevice \/ OpenDevice \/ StartCapture \/ SetupFails
    \/ StopReceiver \/ ReleaseReceiver \/ ReleaseStore \/ StoreGone
    \/ CloseDevice \/ ServiceGone

CaptureStep(d) ==
    Forward(d) \/ ForwardFails(d) \/ Record(d) \/ Recorded(d) \/ CaptureExits(d)

\* What goes on inside the store while the service looks away.
StoreStep ==
    /\ \/ Store!OwnerStep \/ Store!FreeMembers
       \/ \E d \in Devices : Store!CallerStep(d) \/ Store!SpuriousWake(d)
       \/ Store!SpuriousOwnerWake
       \/ Store!IoStep \/ Store!RedisStep
    /\ UNCHANGED svcVars

\* The process has ended.
Terminated == main = "exited" /\ UNCHANGED vars

Next ==
    \/ Signal \/ MainStep
    \/ \E d \in Devices : PacketArrives(d) \/ CaptureStep(d)
    \/ StoreStep
    \/ Terminated

Spec == Init /\ [][Next]_vars

\* The main thread, the capture threads and the store's threads run when they
\* can; sleeps and timeouts end.  No packet and no signal has to come.
Fairness ==
    /\ WF_vars(MainStep)
    /\ \A d \in Devices : WF_vars(CaptureStep(d))
    /\ Store!OwnerFairness /\ Store!ThreadFairness
    /\ WF_vars(Store!RunPosted /\ UNCHANGED svcVars)
FairSpec == Spec /\ Fairness

\* The same with a Redis that goes on answering.
AnsweringSpec == FairSpec /\ WF_vars(Store!RedisStep /\ UNCHANGED svcVars)

-----------------------------------------------------------------------------
(* Properties                                                              *)

\* Type invariant of the service's own variables.
TypeOK ==
    /\ Store!TypeOK
    /\ main \in {"check", "store", "connecting", "setup", "running", "unwind",
                 "joining", "destroying", "after", "sleep", "exited"}
    /\ step \in 1 .. Len(Plan) + 1
    /\ main = "setup" => step \in DOMAIN Plan
    /\ is_open \in [Devices -> BOOLEAN]
    /\ opened_devices \in Seq(Devices)
    /\ receivers \in Seq(Devices)
    /\ cap \in [Devices -> {"none", "loop", "packet", "record", "storing"}]
    /\ stopping \subseteq Devices

\* The service obeys the store's contract, through every partial failure of
\* Init and every order of teardown: Store() only on a constructed store, the
\* store freed only when no capture thread is inside it, one store at a time.
StoreUsedCorrectly == Store!Spec

\* A capture thread never runs on a device that has been closed, nor forwards
\* to one: teardown joins every thread before it closes any device.
CaptureOnOpenDevices ==
    \A d \in Devices :
        cap[d] # "none" => /\ is_open[d]
                           /\ RouteOf(d) # NoDevice => is_open[RouteOf(d)]

\* Whatever the previous attempt did, the next attempt (and the exit) starts
\* from nothing: no open device, no thread, no store.  The device list is a
\* process-wide singleton, so anything left open would leak into the retry.
CleanRestart ==
    main \in {"check", "sleep", "after", "exited"} =>
        /\ \A d \in Devices : ~is_open[d] /\ cap[d] = "none"
        /\ receivers = <<>> /\ stopping = {}
        /\ owner = "gone" /\ io = "none"

\* The devices whose capture threads record.  With more than one, one thread
\* may starve another: neither the store's mutex nor its condition variable
\* promises an order.
Recorders ==
    IF config.record_packets
      THEN {Plan[i].device : i \in {j \in DOMAIN Plan : Plan[j].op = "start"}} \cap Devices
      ELSE {}
OneRecorder == Cardinality(Recorders) <= 1

\* A stop request ends the process, as README.md:137 says of Ctrl+C.
StopEndsProcess == (OneRecorder /\ stop_requested) ~> main = "exited"

\* A failed attempt is followed by another one, or by the exit.
FailureRetried == (OneRecorder /\ main = "unwind") ~> main \in {"check", "exited"}
=============================================================================
