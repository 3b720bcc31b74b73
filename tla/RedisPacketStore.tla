-------------------------- MODULE RedisPacketStore --------------------------
(***************************************************************************)
(* The Redis packet store (src/RedisPacketStore.cpp): capture threads call *)
(* Store(), which reserves one of max_pending_writes slots under           *)
(* pending_mutex_, blocks on pending_cv_ when all are taken, and posts an  *)
(* XADD to an io_context run by one I/O thread.  The thread that owns the  *)
(* store constructs it (PING with a timeout) and destroys it (refuse new   *)
(* writes, drain with a timeout, cancel, stop, join).                      *)
(*                                                                         *)
(* One step is one critical section of pending_mutex_, one notify_all, one *)
(* handler of the io_context up to its first blocking point, or one call   *)
(* of the owner.  Packets carry no identity: what is counted is how many   *)
(* requests wait in the io_context (posted) and how many Redis has not yet *)
(* answered (inflight).                                                    *)
(***************************************************************************)
EXTENDS Integers, FiniteSets

CONSTANTS
    Callers,            \* threads that call Store()
    MaxPendingWrites    \* options_.max_pending_writes

\* The constructor rejects max_pending_writes = 0.
ASSUME StoreAssumption ==
    /\ IsFiniteSet(Callers)
    /\ MaxPendingWrites \in Nat \ {0}

VARIABLES
    owner,              \* where the owning thread is in the store's lifetime
    pc,                 \* where each caller is in Store()
    io,                 \* what the I/O thread is executing
    ping,               \* the PING request: "posted", "sent" or "done"
    ready,              \* the promise of ValidateConnection
    pending_writes,     \* pending_writes_
    accepting_writes,   \* accepting_writes_
    posted,             \* XADD handlers queued in the io_context
    inflight,           \* XADD requests given to conn_.async_exec, unanswered
    drained,            \* the result of WaitForPendingWrites
    stopped             \* ioc_.stop() has been called

slotVars == <<pending_writes, accepting_writes>>
pingVars == <<ping, ready>>
queueVars == <<posted, inflight>>
vars == <<owner, pc, io, pingVars, slotVars, queueVars, drained, stopped>>

OwnerStates == {"gone", "validate", "open", "closing", "drain", "drainwait",
                "cancel", "stop", "join", "free"}
CallerStates == {"out", "reserve", "waiting", "reserved", "complete", "notify"}
IoStates == {"none", "run", "complete", "notify", "exited"}

\* Type invariant.
TypeOK ==
    /\ owner \in OwnerStates
    /\ pc \in [Callers -> CallerStates]
    /\ io \in IoStates
    /\ ping \in {"posted", "sent", "done"}
    /\ ready \in {"unset", "value", "error"}
    /\ pending_writes \in Nat
    /\ accepting_writes \in BOOLEAN
    /\ posted \in Nat
    /\ inflight \in Nat
    /\ drained \in BOOLEAN
    /\ stopped \in BOOLEAN

-----------------------------------------------------------------------------
(* Shared pieces                                                           *)

\* pending_cv_.notify_all(): every blocked thread will re-evaluate its
\* predicate.  pcs is pc after the notifier's own step.
WakeCallers(pcs) ==
    [t \in Callers |-> IF pcs[t] = "waiting" THEN "reserve" ELSE pcs[t]]
WakeOwner == IF owner = "drainwait" THEN "drain" ELSE owner

\* Fault: <= for <.
SlotFreeOrFull == pending_writes <= MaxPendingWrites

\* The predicate ReservePendingWriteSlot waits for.
SlotFree == pending_writes < MaxPendingWrites
MayLeaveReserve == SlotFree \/ ~accepting_writes

\* The body of CompletePendingWrite's critical section.
ReleaseSlot ==
    /\ pending_writes' = IF pending_writes > 0 THEN pending_writes - 1 ELSE 0
    /\ UNCHANGED accepting_writes

-----------------------------------------------------------------------------
(* The owner: constructor and destructor                                   *)

Init ==
    /\ owner = "gone"
    /\ pc = [t \in Callers |-> "out"]
    /\ io = "none"
    /\ ping = "done" /\ ready = "unset"
    /\ pending_writes = 0 /\ accepting_writes = TRUE
    /\ posted = 0 /\ inflight = 0
    /\ drained = FALSE /\ stopped = FALSE

\* The constructor up to ValidateConnection's wait: a fresh store, the I/O
\* thread started, PING posted.
Construct ==
    /\ owner = "gone"
    /\ owner' = "validate"
    /\ io' = "run"
    /\ ping' = "posted" /\ ready' = "unset"
    /\ pending_writes' = 0 /\ accepting_writes' = TRUE
    /\ posted' = 0 /\ inflight' = 0
    /\ drained' = FALSE /\ stopped' = FALSE
    /\ UNCHANGED pc

\* future.get() returns: the constructor completes.
ValidateOk ==
    /\ owner = "validate" /\ ready = "value"
    /\ owner' = "open"
    /\ UNCHANGED <<pc, io, pingVars, slotVars, queueVars, drained, stopped>>

\* future.get() rethrows what the PING handler stored.
ValidateError ==
    /\ owner = "validate" /\ ready = "error"
    /\ owner' = "cancel"
    /\ UNCHANGED <<pc, io, pingVars, slotVars, queueVars, drained, stopped>>

\* Fault: future.get() without wait_for.
ValidateForever == FALSE

\* wait_for expires: the promise was not yet set; it may still be set later.
ValidateTimeout ==
    /\ owner = "validate" /\ ready = "unset"
    /\ owner' = "cancel"
    /\ UNCHANGED <<pc, io, pingVars, slotVars, queueVars, drained, stopped>>

\* Fault: the destructor forgets accepting_writes_ = false.
BeginDestroyStillOpen ==
    /\ owner = "open"
    /\ owner' = "closing"
    /\ UNCHANGED <<pc, io, pingVars, slotVars, queueVars, drained, stopped>>

\* ~RedisPacketStore, its critical section.
BeginDestroy ==
    /\ owner = "open"
    /\ owner' = "closing"
    /\ accepting_writes' = FALSE
    /\ UNCHANGED <<pc, io, pingVars, pending_writes, queueVars, drained, stopped>>

\* Fault: no notify_all in the destructor.
CloseSilently ==
    /\ owner = "closing"
    /\ owner' = "drain"
    /\ UNCHANGED <<pc, io, pingVars, slotVars, queueVars, drained, stopped>>

\* ~RedisPacketStore, its notify_all.
NotifyClosed ==
    /\ owner = "closing"
    /\ owner' = "drain"
    /\ pc' = WakeCallers(pc)
    /\ UNCHANGED <<io, pingVars, slotVars, queueVars, drained, stopped>>

\* WaitForPendingWrites evaluates its predicate with the mutex held.
DrainCheck ==
    /\ owner = "drain"
    /\ IF pending_writes = 0
         THEN owner' = "cancel" /\ drained' = TRUE
         ELSE owner' = "drainwait" /\ UNCHANGED drained
    /\ UNCHANGED <<pc, io, pingVars, slotVars, queueVars, stopped>>

\* Fault: pending_cv_.wait for wait_for.
DrainForever == FALSE

\* wait_for's deadline passes: it returns the predicate's value.
DrainTimeout ==
    /\ owner \in {"drain", "drainwait"}
    /\ owner' = "cancel"
    /\ drained' = (pending_writes = 0)
    /\ UNCHANGED <<pc, io, pingVars, slotVars, queueVars, stopped>>

\* conn_.cancel(): requests in flight are completed with an error by the I/O
\* thread, if it gets to them before ioc_.stop(); see Answered.
ConnCancel ==
    /\ owner = "cancel"
    /\ owner' = "stop"
    /\ UNCHANGED <<pc, io, pingVars, slotVars, queueVars, drained, stopped>>

IocStop ==
    /\ owner = "stop"
    /\ owner' = "join"
    /\ stopped' = TRUE
    /\ UNCHANGED <<pc, io, pingVars, slotVars, queueVars, drained>>

JoinIo ==
    /\ owner = "join" /\ io = "exited"
    /\ owner' = "free"
    /\ io' = "none"
    /\ UNCHANGED <<pc, pingVars, slotVars, queueVars, drained, stopped>>

\* The members are destroyed; handlers still queued are dropped unrun.
FreeMembers ==
    /\ owner = "free"
    /\ owner' = "gone"
    /\ posted' = 0 /\ inflight' = 0 /\ pending_writes' = 0
    /\ UNCHANGED <<pc, io, pingVars, accepting_writes, drained, stopped>>

\* A C++ object may be freed only when no other thread is inside it.  That
\* is an obligation of the store's user (CaptureService discharges it).
Free == FreeMembers /\ \A t \in Callers : pc[t] = "out"

-----------------------------------------------------------------------------
(* Store(), executed by caller t                                           *)

EnterStore(t) ==
    /\ pc[t] = "out"
    /\ pc' = [pc EXCEPT ![t] = "reserve"]
    /\ UNCHANGED <<owner, io, pingVars, slotVars, queueVars, drained, stopped>>

\* Likewise, Store() may be called only on a constructed store.
CallStore(t) == owner = "open" /\ EnterStore(t)

\* Fault: accepting_writes_ is not tested after the wait.
ReserveSlotUnchecked(t) ==
    /\ pc[t] = "reserve" /\ MayLeaveReserve
    /\ pending_writes' = pending_writes + 1
    /\ pc' = [pc EXCEPT ![t] = "reserved"]
    /\ UNCHANGED <<owner, io, pingVars, accepting_writes, queueVars, drained, stopped>>

\* ReservePendingWriteSlot takes a slot.
ReserveSlot(t) ==
    /\ pc[t] = "reserve" /\ MayLeaveReserve /\ accepting_writes
    /\ pending_writes' = pending_writes + 1
    /\ pc' = [pc EXCEPT ![t] = "reserved"]
    /\ UNCHANGED <<owner, io, pingVars, accepting_writes, queueVars, drained, stopped>>

\* ReservePendingWriteSlot returns false; the packet is dropped.
DropPacket(t) ==
    /\ pc[t] = "reserve" /\ MayLeaveReserve /\ ~accepting_writes
    /\ pc' = [pc EXCEPT ![t] = "out"]
    /\ UNCHANGED <<owner, io, pingVars, slotVars, queueVars, drained, stopped>>

\* The predicate is false: the caller blocks on pending_cv_.
BlockOnSlot(t) ==
    /\ pc[t] = "reserve" /\ ~MayLeaveReserve
    /\ pc' = [pc EXCEPT ![t] = "waiting"]
    /\ UNCHANGED <<owner, io, pingVars, slotVars, queueVars, drained, stopped>>

\* boost::asio::post queues the handler and Store returns.
Post(t) ==
    /\ pc[t] = "reserved"
    /\ pc' = [pc EXCEPT ![t] = "out"]
    /\ posted' = posted + 1
    /\ UNCHANGED <<owner, io, pingVars, slotVars, inflight, drained, stopped>>

\* Fault: a catch clause without CompletePendingWrite.
PostThrowsLeaking(t) ==
    /\ pc[t] = "reserved"
    /\ pc' = [pc EXCEPT ![t] = "out"]
    /\ UNCHANGED <<owner, io, pingVars, slotVars, queueVars, drained, stopped>>

\* post throws: the catch clauses give the slot back.
PostThrows(t) ==
    /\ pc[t] = "reserved"
    /\ pc' = [pc EXCEPT ![t] = "complete"]
    /\ UNCHANGED <<owner, io, pingVars, slotVars, queueVars, drained, stopped>>

CallerComplete(t) ==
    /\ pc[t] = "complete"
    /\ ReleaseSlot
    /\ pc' = [pc EXCEPT ![t] = "notify"]
    /\ UNCHANGED <<owner, io, pingVars, queueVars, drained, stopped>>

CallerNotify(t) ==
    /\ pc[t] = "notify"
    /\ pc' = WakeCallers([pc EXCEPT ![t] = "out"])
    /\ owner' = WakeOwner
    /\ UNCHANGED <<io, pingVars, slotVars, queueVars, drained, stopped>>

\* A condition variable may wake a thread without a notification.
SpuriousWake(t) ==
    /\ pc[t] = "waiting"
    /\ pc' = [pc EXCEPT ![t] = "reserve"]
    /\ UNCHANGED <<owner, io, pingVars, slotVars, queueVars, drained, stopped>>

SpuriousOwnerWake ==
    /\ owner = "drainwait"
    /\ owner' = "drain"
    /\ UNCHANGED <<pc, io, pingVars, slotVars, queueVars, drained, stopped>>

-----------------------------------------------------------------------------
(* The I/O thread: handlers of the io_context, one at a time               *)

\* ioc_.run() takes the next handler only while it has not been stopped.
IoReady == io = "run" /\ ~stopped

\* The lambda posted by ValidateConnection gives PING to conn_.async_exec.
RunPing ==
    /\ IoReady /\ ping = "posted"
    /\ ping' = "sent"
    /\ UNCHANGED <<owner, pc, io, ready, slotVars, queueVars, drained, stopped>>

\* ... or throws, and its catch clause sets the promise's exception.
RunPingThrows ==
    /\ IoReady /\ ping = "posted"
    /\ ping' = "done" /\ ready' = "error"
    /\ UNCHANGED <<owner, pc, io, slotVars, queueVars, drained, stopped>>

\* The completion of PING: PONG, or an error code or another reply.
PingReply(result) ==
    /\ IoReady /\ ping = "sent"
    /\ ping' = "done" /\ ready' = result
    /\ UNCHANGED <<owner, pc, io, slotVars, queueVars, drained, stopped>>

\* The lambda posted by Store gives XADD to conn_.async_exec.
RunPosted ==
    /\ IoReady /\ posted > 0
    /\ posted' = posted - 1 /\ inflight' = inflight + 1
    /\ UNCHANGED <<owner, pc, io, pingVars, slotVars, drained, stopped>>

\* ... or throws, and its catch clauses call CompletePendingWrite.
RunPostedThrows ==
    /\ IoReady /\ posted > 0
    /\ posted' = posted - 1
    /\ io' = "complete"
    /\ UNCHANGED <<owner, pc, pingVars, slotVars, inflight, drained, stopped>>

\* Fault: a completion without a request.
AnsweredTwice ==
    /\ IoReady
    /\ inflight' = inflight - 1
    /\ io' = "complete"
    /\ UNCHANGED <<owner, pc, pingVars, slotVars, posted, drained, stopped>>

\* The completion of XADD, with an error code or without, enters
\* CompletePendingWrite.  Redis, a lost connection or conn_.cancel() ends
\* the request; nothing makes any of them do so.
Answered ==
    /\ IoReady /\ inflight > 0
    /\ inflight' = inflight - 1
    /\ io' = "complete"
    /\ UNCHANGED <<owner, pc, pingVars, slotVars, posted, drained, stopped>>

\* Fault: CompletePendingWrite without notify_all.
IoCompleteSilently ==
    /\ io = "complete"
    /\ ReleaseSlot
    /\ io' = "run"
    /\ UNCHANGED <<owner, pc, pingVars, queueVars, drained, stopped>>

IoComplete ==
    /\ io = "complete"
    /\ ReleaseSlot
    /\ io' = "notify"
    /\ UNCHANGED <<owner, pc, pingVars, queueVars, drained, stopped>>

IoNotify ==
    /\ io = "notify"
    /\ io' = "run"
    /\ pc' = WakeCallers(pc)
    /\ owner' = WakeOwner
    /\ UNCHANGED <<pingVars, slotVars, queueVars, drained, stopped>>

\* ioc_.run() returns: stopped, or out of work once async_run is cancelled.
IoExit ==
    /\ io = "run"
    /\ \/ stopped
       \/ owner = "stop" /\ posted = 0 /\ inflight = 0 /\ ping = "done"
    /\ io' = "exited"
    /\ UNCHANGED <<owner, pc, pingVars, slotVars, queueVars, drained, stopped>>

-----------------------------------------------------------------------------
\* What the I/O thread does without waiting for Redis.
IoStep ==
    \/ RunPing \/ RunPingThrows
    \/ RunPosted \/ RunPostedThrows
    \/ IoComplete \/ IoNotify \/ IoExit

\* What waits for Redis (or for the cancellation) to end a request.
RedisStep ==
    \/ \E result \in {"value", "error"} : PingReply(result)
    \/ Answered

\* What the caller does once it is inside Store().
CallerStep(t) ==
    \/ ReserveSlot(t) \/ DropPacket(t) \/ BlockOnSlot(t)
    \/ Post(t) \/ PostThrows(t)
    \/ CallerComplete(t) \/ CallerNotify(t)

\* What the owner does once it is inside the constructor or destructor.
OwnerStep ==
    \/ ValidateOk \/ ValidateError \/ ValidateTimeout
    \/ NotifyClosed \/ DrainCheck \/ DrainTimeout
    \/ ConnCancel \/ IocStop \/ JoinIo

Next ==
    \/ Construct \/ BeginDestroy \/ OwnerStep \/ Free
    \/ \E t \in Callers : CallStore(t) \/ CallerStep(t) \/ SpuriousWake(t)
    \/ SpuriousOwnerWake
    \/ IoStep \/ RedisStep

Spec == Init /\ [][Next]_vars

\* Threads that can run do run, and timeouts expire.  Redis owes nothing:
\* RedisStep is not fair, and neither are the decisions to construct, to
\* destroy and to call Store().
OwnerFairness ==
    /\ WF_vars(ValidateOk \/ ValidateError \/ ValidateTimeout)
    /\ WF_vars(NotifyClosed)
    /\ WF_vars(DrainTimeout)
    /\ WF_vars(ConnCancel \/ IocStop \/ JoinIo \/ Free)
ThreadFairness ==
    /\ WF_vars(IoComplete \/ IoNotify)
    /\ WF_vars(IoExit)
    /\ \A t \in Callers : WF_vars(CallerStep(t))
FairSpec == Spec /\ OwnerFairness /\ ThreadFairness

-----------------------------------------------------------------------------
(* Properties                                                              *)

\* Callers that hold a slot nobody else accounts for.
Holding == {t \in Callers : pc[t] \in {"reserved", "complete"}}
IoHolding == IF io = "complete" THEN 1 ELSE 0

\* pending_writes_ counts exactly the slots that are still owed a
\* CompletePendingWrite: held by a caller between reserving and posting,
\* queued, in flight, or about to be released by the I/O thread.  A missed
\* or doubled completion on any error path breaks it for good.
SlotAccounting ==
    pending_writes = Cardinality(Holding) + posted + inflight + IoHolding

\* Requests queued and in flight never exceed max_pending_writes, however
\* callers, completions and errors interleave: memory stays bounded.
PendingBounded == posted + inflight <= MaxPendingWrites

\* No lost wake-up: a thread blocked on pending_cv_ whose predicate holds has
\* a notify_all coming, although every notify_all is made after the mutex
\* was released.
NotifyComing ==
    \/ io = "notify"
    \/ owner = "closing"
    \/ \E t \in Callers : pc[t] = "notify"
NoLostWakeup ==
    /\ (\E t \in Callers : pc[t] = "waiting") /\ MayLeaveReserve => NotifyComing
    /\ owner = "drainwait" /\ pending_writes = 0 => NotifyComing

\* When the destructor reports that it drained, every accepted packet has been
\* answered, by Redis or by an error, and no caller can add one any more, up to
\* the end of the destructor.
DrainedMeansAnswered ==
    drained => posted = 0 /\ inflight = 0 /\ Holding = {}

\* Once the store refuses writes, the number of pending writes can only fall,
\* so the drain cannot be outrun by callers that were blocked on a slot.
DrainMonotone ==
    [][~accepting_writes => pending_writes' <= pending_writes]_vars

\* The destructor ends although Redis never answers: both waits in it are
\* bounded.  (With callers that leave Store(), which the next property gives.)
DestructorTerminates == owner = "closing" ~> owner = "gone"

\* Starting the destructor releases every caller blocked on a slot, Redis
\* dead or not.
ShutdownReleasesCallers ==
    \A t \in Callers : (owner = "closing" /\ pc[t] = "waiting") ~> pc[t] = "out"

\* A constructor that fails, by an error or by the timeout racing a late
\* PONG, leaves no I/O thread behind.
ConstructorSettles == owner = "validate" ~> (owner = "open" \/ (owner = "gone" /\ io = "none"))
=============================================================================
