------------------------- MODULE TelemetryPipeline -------------------------
(***************************************************************************)
(* From the packet to the sink: the observer program on several CPUs       *)
(* (TcObserver) feeds the ring buffer that the consumer (EbpfTelemetry)    *)
(* polls, drains and queues.  A step of the pipeline is a step of one of   *)
(* the two, or one of both at the ring buffer: libbpf takes the record at  *)
(* the head of events, and can take it only when it has been submitted.    *)
(***************************************************************************)
EXTENDS EbpfTelemetry, Sequences, FiniteSets

CONSTANTS CPUs, SampleEvery, RingSlots, MaxPackets

VARIABLES counters, at, direction, events, last

Obs == INSTANCE TcObserver

ASSUME PipelineAssumption ==
    /\ SampleEvery \in Nat /\ RingSlots \in Nat /\ MaxPackets \in Nat
    /\ IsFiniteSet(CPUs)
    /\ MaxRunning >= Cardinality(CPUs)
    /\ MaxRecords >= MaxPackets

observerVars == <<counters, at, direction, events, last>>
PipelineVars == <<vars, observerVars>>

PipelineInit == Init /\ Obs!ObsInit

-----------------------------------------------------------------------------
(* The kernel's side                                                       *)

\* A packet that no record is made for; the programs are attached.
Pass(c) ==
    /\ ~detached
    /\ \E d \in Obs!Directions : Obs!NotSelected(c, d) \/ Obs!NotSampled(c, d)
    /\ UNCHANGED vars

Sample(c) == Enter /\ \E d \in Obs!Directions : Obs!TakeSample(c, d)
Reserve(c) == Obs!Reserve(c) /\ UNCHANGED vars
ReserveFails(c) == Obs!ReserveFails(c) /\ Leave
SubmitRecord(c) == Obs!SubmitRecord(c) /\ Submit
CountEvent(c) == Obs!CountEvent(c) /\ UNCHANGED vars

KernelStep(c) ==
    \/ Sample(c) \/ Pass(c) \/ Reserve(c) \/ ReserveFails(c) \/ SubmitRecord(c)
    \/ CountEvent(c)

-----------------------------------------------------------------------------
(* The consumer's side                                                     *)

\* OnEvent is called with the record at the head of the ring buffer.
TakeRecord ==
    /\ PollDeliver \/ PollDiscard \/ DrainDeliver \/ DrainDiscard
    /\ Obs!Consume

\* ring_buffer__consume returns when the head is not there or not submitted.
EndDrainCall ==
    /\ ConsumeReturns /\ ~Obs!HeadReady
    /\ UNCHANGED observerVars

PollerAlone ==
    \/ PollBegin \/ PollAccept \/ PollReturns \/ PollFails \/ PollCancelled \/ PollerExits

ManagerAlone ==
    \/ AddSource \/ Start \/ Detach \/ (\E timeout \in {0, 1} : Finish(timeout))
    \/ Join \/ DrainBegin \/ DrainCheck \/ DrainAccept \/ ConsumeFails \/ Seal

ConsumerStep ==
    \/ TakeRecord \/ EndDrainCall
    \/ /\ TryPop \/ PollerAlone \/ ManagerAlone \/ Tick \/ Idle
       /\ UNCHANGED observerVars

PipelineNext == ConsumerStep \/ \E c \in CPUs : KernelStep(c)

PipelineSpec == PipelineInit /\ [][PipelineNext]_PipelineVars

-----------------------------------------------------------------------------
(* Properties                                                              *)

\* The observer owes a record for every SampleEvery-th selected packet.
Due(c, d) == IF SampleEvery = 0 THEN 0 ELSE counters[c][d]["SELECTED"] \div SampleEvery
InProgram(c, d) == IF at[c] # "idle" /\ direction[c] = d THEN 1 ELSE 0
SamplesAccounted ==
    \A c \in CPUs, d \in Obs!Directions :
        Due(c, d) = counters[c][d]["EVENTS"] + counters[c][d]["RING_LOST"] + InProgram(c, d)

\* The records published so far, numbered on each CPU and in each direction:
\* those that EVENTS counts, and one whose program has yet to count it.
PublishedBy(c, d) ==
    counters[c][d]["EVENTS"] + (IF at[c] = "count" /\ direction[c] = d THEN 1 ELSE 0)
Published ==
    UNION {{p} \X (1 .. PublishedBy(p[1], p[2])) : p \in CPUs \X Obs!Directions}
Ready == {i \in DOMAIN events : events[i].ready}
RecordsAccounted ==
    Cardinality(Published) =
        Cardinality(Ready) + popped + queue + decode_errors + queue_dropped
          + shutdown_discarded + InHand

\* Accounted delivery.  On every CPU and in both directions, a sample that is
\* due was published, was counted as lost for lack of room, or is in the
\* program's hands.  And what was published on all CPUs together is still in
\* the ring buffer, was received by the sink, or is in one of the consumer's
\* own counters: whatever happens, the counters of the two sides tell exactly
\* how many records are missing.
AccountedDelivery == SamplesAccounted /\ RecordsAccounted

\* The records of one CPU and direction leave the ring buffer with strictly
\* rising sequence numbers, across poller and drain: none twice, none late.
RisingSequence ==
    [][TakeRecord => \E c \in CPUs, d \in Obs!Directions : last'[c][d] > last[c][d]]_PipelineVars
=============================================================================
