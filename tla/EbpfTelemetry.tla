---------------------------- MODULE EbpfTelemetry ----------------------------
(***************************************************************************)
(* The consumer side of eBPF telemetry (src/EbpfTelemetry.cpp): a poller   *)
(* thread takes records from the kernel's ring buffers and pushes them     *)
(* into the SPSC queue, from which the sink pops.  A manager thread starts *)
(* it and, once the kernel programs are detached, finishes it: abort and   *)
(* join the poller, then drain what is left itself until a deadline.       *)
(*                                                                         *)
(* One step is one libbpf call's start or end, one half of OnEvent (its    *)
(* test of abort and deadline, and the rest), or one atomic access of the  *)
(* manager.  Records are counted, not told apart.  The kernel's detach does *)
(* not wait for program invocations that are under way: such a straggler   *)
(* may publish its record during the drain, and a record it has reserved   *)
(* but not submitted hides the ones behind it from libbpf.                 *)
(***************************************************************************)
EXTENDS Integers

CONSTANTS
    QueueCapacity,  \* the constructor's argument
    MaxRecords,     \* bound: records the kernel programs ever submit
    MaxRunning      \* program invocations under way at once, at most

ASSUME TelemetryAssumption ==
    /\ QueueCapacity \in Nat \ {0}
    /\ MaxRecords \in Nat
    /\ MaxRunning \in Nat

VARIABLES
    sources,        \* whether a ring source has been added
    started, finished,
    detached,       \* the kernel programs are detached
    manager,        \* where the manager thread is
    poller,         \* where the poller thread is
    actor,          \* who is in OnEvent, past its shutdown test
    abort, deadline, poll_error,
    running,        \* invocations of the kernel programs under way
    straggler,      \* one was still under way when the drain began
    submitted,      \* records the kernel programs have submitted
    ring,           \* submitted records in the rings, not yet consumed
    got,            \* the drain's current libbpf call has consumed a record
    queue,          \* records in the queue
    popped,         \* records the sink has received
    decode_errors, queue_dropped, shutdown_discarded

lifeVars == <<sources, started, finished, detached>>
flagVars == <<abort, deadline, poll_error>>
lossVars == <<decode_errors, queue_dropped, shutdown_discarded>>
kernelVars == <<running, straggler, submitted, ring>>
sinkVars == <<queue, popped>>
vars == <<lifeVars, manager, poller, actor, flagVars, kernelVars, got,
          sinkVars, lossVars>>

TypeOK ==
    /\ sources \in BOOLEAN /\ started \in BOOLEAN
    /\ finished \in BOOLEAN /\ detached \in BOOLEAN
    /\ manager \in {"idle", "join", "joinonly", "drain", "check", "consume", "seal"}
    /\ poller \in {"none", "loop", "poll", "cancelled", "exited"}
    /\ actor \in {"none", "poller", "manager"}
    /\ abort \in BOOLEAN
    /\ deadline \in {"none", "ahead", "passed"}
    /\ poll_error \in {"none", "cancelled", "failed"}
    /\ running \in 0 .. MaxRunning /\ straggler \in BOOLEAN
    /\ submitted \in 0 .. MaxRecords /\ ring \in 0 .. MaxRecords
    /\ got \in BOOLEAN
    /\ queue \in 0 .. QueueCapacity /\ popped \in 0 .. MaxRecords
    /\ decode_errors \in 0 .. MaxRecords /\ queue_dropped \in 0 .. MaxRecords
    /\ shutdown_discarded \in 0 .. MaxRecords

Init ==
    /\ sources = FALSE /\ started = FALSE /\ finished = FALSE /\ detached = FALSE
    /\ manager = "idle" /\ poller = "none" /\ actor = "none"
    /\ abort = FALSE /\ deadline = "none" /\ poll_error = "none"
    /\ running = 0 /\ straggler = FALSE
    /\ submitted = 0 /\ ring = 0 /\ got = FALSE
    /\ queue = 0 /\ popped = 0
    /\ decode_errors = 0 /\ queue_dropped = 0 /\ shutdown_discarded = 0

-----------------------------------------------------------------------------
(* The kernel programs and the sink                                        *)

\* An attached program is called for a packet.
Enter ==
    /\ ~detached /\ running < MaxRunning
    /\ running' = running + 1
    /\ UNCHANGED <<straggler, submitted, ring>>
    /\ UNCHANGED <<lifeVars, manager, poller, actor, flagVars, got, sinkVars, lossVars>>

\* It returns without a record: not selected, not sampled or no room.
Leave ==
    /\ running > 0
    /\ running' = running - 1
    /\ UNCHANGED <<straggler, submitted, ring>>
    /\ UNCHANGED <<lifeVars, manager, poller, actor, flagVars, got, sinkVars, lossVars>>

\* It submits a record to a ring, which is the last thing that concerns us.
Submit ==
    /\ running > 0 /\ submitted < MaxRecords
    /\ running' = running - 1
    /\ submitted' = submitted + 1 /\ ring' = ring + 1
    /\ UNCHANGED straggler
    /\ UNCHANGED <<lifeVars, manager, poller, actor, flagVars, got, sinkVars, lossVars>>

\* EbpfTelemetry::TryPop, by the sink's thread, at any time.
TryPop ==
    /\ queue > 0
    /\ queue' = queue - 1 /\ popped' = popped + 1
    /\ UNCHANGED <<lifeVars, manager, poller, actor, flagVars, kernelVars, got, lossVars>>

-----------------------------------------------------------------------------
(* OnEvent, called by libbpf in thread who                                 *)

ShuttingDown == abort \/ deadline = "passed"

\* libbpf hands over the next record.  One step tests both flags: deadline is
\* stored only when the poller is gone, abort only by the manager itself.
Deliver(who) ==
    /\ actor = "none" /\ ring > 0 /\ ~ShuttingDown
    /\ actor' = who
    /\ ring' = ring - 1 /\ got' = (who = "manager")
    /\ UNCHANGED <<lifeVars, manager, poller, flagVars, running, straggler, submitted, sinkVars, lossVars>>

\* OnEvent returns -ECANCELED, which ends the libbpf call; the record counts
\* as consumed all the same.
Discard ==
    /\ actor = "none" /\ ring > 0 /\ ShuttingDown
    /\ ring' = ring - 1
    /\ shutdown_discarded' = shutdown_discarded + 1
    /\ UNCHANGED <<lifeVars, flagVars, running, straggler, submitted, actor, got, sinkVars,
                   decode_errors, queue_dropped>>

\* OnEvent returns 0: the record is not for us, is queued, or does not fit.
\* The flags were read before: a shutdown may have begun meanwhile.
Reject ==
    /\ decode_errors' = decode_errors + 1
    /\ UNCHANGED <<queue, queue_dropped>>
\* Fault: the queue is not tested for room.
EnqueueUnchecked ==
    /\ queue' = queue + 1
    /\ UNCHANGED <<decode_errors, queue_dropped>>

Enqueue ==
    /\ queue < QueueCapacity
    /\ queue' = queue + 1
    /\ UNCHANGED <<decode_errors, queue_dropped>>
\* Fault: the result of TryPush is ignored.
DropFullSilently ==
    /\ queue = QueueCapacity
    /\ UNCHANGED <<decode_errors, queue, queue_dropped>>

DropFull ==
    /\ queue = QueueCapacity
    /\ queue_dropped' = queue_dropped + 1
    /\ UNCHANGED <<decode_errors, queue>>
Accept ==
    /\ Reject \/ Enqueue \/ DropFull
    /\ actor' = "none"
    /\ UNCHANGED <<lifeVars, flagVars, kernelVars, got, popped, shutdown_discarded>>

-----------------------------------------------------------------------------
(* The poller thread                                                       *)

PollBegin ==
    /\ poller = "loop" /\ ~abort
    /\ poller' = "poll"
    /\ UNCHANGED <<lifeVars, manager, actor, flagVars, kernelVars, got, sinkVars, lossVars>>

PollDeliver == poller = "poll" /\ Deliver("poller")

PollAccept ==
    /\ actor = "poller" /\ Accept
    /\ UNCHANGED <<manager, poller>>

PollDiscard ==
    /\ poller = "poll" /\ Discard
    /\ poller' = "cancelled"
    /\ UNCHANGED manager

\* ring_buffer__poll returns a count, 0 after 50 ms, or -EINTR: once more.
PollReturns ==
    /\ poller = "poll" /\ actor = "none"
    /\ poller' = "loop"
    /\ UNCHANGED <<lifeVars, manager, actor, flagVars, kernelVars, got, sinkVars, lossVars>>

\* ring_buffer__poll fails: the poller records it and ends.
PollFails ==
    /\ poller = "poll" /\ actor = "none"
    /\ poller' = "exited"
    /\ poll_error' = "failed"
    /\ UNCHANGED <<lifeVars, manager, actor, abort, deadline, kernelVars, got, sinkVars, lossVars>>

\* It returns OnEvent's -ECANCELED: expected during an abort, else an error.
PollCancelled ==
    /\ poller = "cancelled"
    /\ poller' = "exited"
    /\ poll_error' = IF abort THEN poll_error ELSE "cancelled"
    /\ UNCHANGED <<lifeVars, manager, actor, abort, deadline, kernelVars, got, sinkVars, lossVars>>

\* Fault: the poller tests abort only after a failure.
PollerStays == FALSE

PollerExits ==
    /\ poller = "loop" /\ abort
    /\ poller' = "exited"
    /\ UNCHANGED <<lifeVars, manager, actor, flagVars, kernelVars, got, sinkVars, lossVars>>

-----------------------------------------------------------------------------
(* The manager thread                                                      *)

\* A source is registered; it is refused once started or finished.
AddSource ==
    /\ manager = "idle" /\ ~started /\ ~finished /\ ~sources
    /\ sources' = TRUE
    /\ UNCHANGED <<started, finished, detached, manager, poller, actor, flagVars, kernelVars,
                   got, sinkVars, lossVars>>

Start ==
    /\ manager = "idle" /\ sources /\ ~started /\ ~finished
    /\ started' = TRUE /\ poller' = "loop"
    /\ UNCHANGED <<sources, finished, detached, manager, actor, flagVars, kernelVars, got,
                   sinkVars, lossVars>>

\* The caller's duty before FinishAfterDetach.
Detach ==
    /\ manager = "idle" /\ ~detached
    /\ detached' = TRUE
    /\ UNCHANGED <<sources, started, finished, manager, poller, actor, flagVars, kernelVars,
                   got, sinkVars, lossVars>>

\* Fault: the poller is not joined.
FinishWithoutJoin(timeout) ==
    /\ manager = "idle" /\ ~finished
    /\ timeout > 0 => detached
    /\ abort' = TRUE
    /\ manager' = IF timeout > 0 /\ sources THEN "drain" ELSE "seal"
    /\ UNCHANGED <<lifeVars, poller, actor, deadline, poll_error, kernelVars, got, sinkVars,
                   lossVars>>

\* FinishAfterDetach, unless it has been called before.  A drain (a positive
\* timeout) is asked for when the programs are detached; the destructor asks
\* for none.
Finish(timeout) ==
    /\ manager = "idle" /\ ~finished
    /\ timeout > 0 => detached
    /\ abort' = TRUE
    /\ manager' = IF timeout > 0 THEN "join" ELSE "joinonly"
    /\ UNCHANGED <<lifeVars, poller, actor, deadline, poll_error, kernelVars, got, sinkVars,
                   lossVars>>

\* The poller is joined, if there is one.
PollerGone == poller \in {"none", "exited"}
Join ==
    /\ manager \in {"join", "joinonly"} /\ PollerGone
    /\ manager' = IF manager = "join" /\ sources THEN "drain" ELSE "seal"
    /\ UNCHANGED <<lifeVars, poller, actor, flagVars, kernelVars, got, sinkVars, lossVars>>

\* The deadline is stored and abort is taken back, for this thread's use.
DrainBegin ==
    /\ manager = "drain"
    /\ deadline' = "ahead" /\ abort' = FALSE
    /\ straggler' = (running > 0)
    /\ manager' = "check"
    /\ UNCHANGED <<lifeVars, poller, actor, poll_error, running, submitted, ring, got, sinkVars,
                   lossVars>>

\* Time passes.
Tick ==
    /\ deadline = "ahead"
    /\ deadline' = "passed"
    /\ UNCHANGED <<lifeVars, manager, poller, actor, abort, poll_error, kernelVars, got, sinkVars,
                   lossVars>>

DrainCheck ==
    /\ manager = "check"
    /\ manager' = IF deadline = "passed" THEN "seal" ELSE "consume"
    /\ got' = FALSE
    /\ UNCHANGED <<lifeVars, poller, actor, flagVars, kernelVars, sinkVars, lossVars>>

DrainDeliver == manager = "consume" /\ Deliver("manager")

DrainAccept ==
    /\ actor = "manager" /\ Accept
    /\ UNCHANGED <<manager, poller>>

\* Fault: OnEvent returns 0 for a record it discards.
DrainDiscardGoesOn ==
    /\ manager = "consume" /\ Discard
    /\ UNCHANGED <<manager, poller>>

DrainDiscard ==
    /\ manager = "consume" /\ Discard
    /\ manager' = "seal"
    /\ UNCHANGED poller

\* Fault: one round of the drain takes one record.
ConsumeReturnsEarly ==
    /\ manager = "consume" /\ actor = "none" /\ got
    /\ manager' = "seal"
    /\ UNCHANGED <<lifeVars, poller, actor, flagVars, kernelVars, got, sinkVars, lossVars>>

\* ring_buffer__consume returns when it sees no more submitted record: the
\* rings are empty, or a record not yet submitted hides the rest.  0 ends the
\* drain, a positive count means another round.
ConsumeReturns ==
    /\ manager = "consume" /\ actor = "none"
    /\ ring = 0 \/ running > 0
    /\ manager' = IF got THEN "check" ELSE "seal"
    /\ UNCHANGED <<lifeVars, poller, actor, flagVars, kernelVars, got, sinkVars, lossVars>>

ConsumeFails ==
    /\ manager = "consume" /\ actor = "none"
    /\ manager' = "seal"
    /\ poll_error' = "failed"
    /\ UNCHANGED <<lifeVars, poller, actor, abort, deadline, kernelVars, got, sinkVars, lossVars>>

Seal ==
    /\ manager = "seal"
    /\ abort' = TRUE /\ finished' = TRUE
    /\ manager' = "idle"
    /\ UNCHANGED <<sources, started, detached, poller, actor, deadline, poll_error, kernelVars, got,
                   sinkVars, lossVars>>

-----------------------------------------------------------------------------
PollerStep ==
    \/ PollBegin \/ PollDeliver \/ PollAccept \/ PollDiscard
    \/ PollReturns \/ PollFails \/ PollCancelled \/ PollerExits

FinishStep ==
    \/ Join \/ DrainBegin \/ DrainCheck \/ DrainDeliver \/ DrainAccept \/ DrainDiscard
    \/ ConsumeReturns \/ ConsumeFails \/ Seal

\* Nothing need happen to an object that is finished and empty.
Idle == finished /\ queue = 0 /\ UNCHANGED vars

Next ==
    \/ Enter \/ Leave \/ Submit \/ TryPop
    \/ PollerStep
    \/ AddSource \/ Start \/ Detach \/ (\E timeout \in {0, 1} : Finish(timeout))
    \/ FinishStep \/ Tick
    \/ Idle

Spec == Init /\ [][Next]_vars

\* The two threads run, libbpf's calls return and time passes.  Nobody has to
\* finish the object, and the sink may stop popping.
FairSpec ==
    /\ Spec
    /\ WF_vars(PollerStep) /\ WF_vars(FinishStep)
    /\ WF_vars(Tick)

-----------------------------------------------------------------------------
(* Properties                                                              *)

\* Every record taken from a ring is accounted for exactly once: received by
\* the sink, in the queue, in a loss counter, or in the hands of OnEvent.
InHand == IF actor = "none" THEN 0 ELSE 1
Conservation ==
    submitted - ring = popped + queue + decode_errors + queue_dropped
                         + shutdown_discarded + InHand

\* The queue has one producer at a time: the manager drains only when the
\* poller has been joined (SpscQueue allows exactly one).
SingleProducer ==
    /\ manager \in {"drain", "check", "consume", "seal"} => PollerGone
    /\ actor = "poller" => poller = "poll"
    /\ actor = "manager" => manager = "consume"

\* The shutdown's own cancellation is never reported as a ring failure, even
\* though abort is taken back for the drain.
CancelIsNotAnError == poll_error # "cancelled"

\* However busy the rings are, a shutdown discards at most two records: one
\* that meets the abort in the poller, one that meets the deadline.
DiscardsBounded == shutdown_discarded <= 2

\* When FinishAfterDetach has ended without error and before its deadline,
\* after a drain, nothing is left in the rings, nor will be: provided that no
\* invocation was still under way when the drain began, which detaching the
\* programs does not ensure.
DrainIsComplete ==
    finished /\ deadline = "ahead" /\ poll_error = "none" /\ ~straggler
        => ring = 0 /\ running = 0

\* FinishAfterDetach returns: the join and the drain both end.
FinishTerminates == manager \in {"join", "joinonly"} ~> finished
=============================================================================
