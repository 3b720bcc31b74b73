--------------------------- MODULE TelemetryProofs ---------------------------
(***************************************************************************)
(* Proofs about telemetry from the packet to the sink, for every queue     *)
(* capacity, ring size, sampling interval, set of CPUs and number of       *)
(* packets.                                                                *)
(*                                                                         *)
(* The first part is about the consumer alone (EbpfTelemetry).  Its        *)
(* invariant adds to the properties the order of shutdown (who may be      *)
(* where while abort and deadline have which values) and a ledger that     *)
(* ties the discarded records to the threads that have ended.  The second  *)
(* part is about the pipeline: it implements the consumer, so everything   *)
(* of the first part holds in it, and an invariant of the observer program *)
(* and the ring buffer connects the counters of the two sides.             *)
(***************************************************************************)
EXTENDS TelemetryPipeline, SequenceTheorems, FiniteSetTheorems, TLAPS

-----------------------------------------------------------------------------
(* The consumer: inductive invariant                                       *)

\* The order of a thread's end: abort before the join, the deadline after it,
\* abort again at the end; a drain means that the programs are detached.
ShutdownOrder ==
    /\ started \/ poller = "none"
    /\ poller = "cancelled" => abort
    /\ manager \in {"join", "joinonly"} => abort
    /\ manager \in {"check", "consume"} => ~abort
    /\ manager # "idle" => ~finished
    /\ manager \in {"join", "drain", "check", "consume"} => detached
    /\ finished => PollerGone
    /\ deadline # "none" =>
          /\ PollerGone /\ detached
          /\ finished \/ manager \in {"check", "consume", "seal"}

\* Each thread discards at most one record, and then it ends.
PollerShare == IF poller \in {"cancelled", "exited"} THEN 1 ELSE 0
ManagerShare == IF manager = "seal" \/ finished THEN 1 ELSE 0
DiscardLedger == shutdown_discarded <= PollerShare + ManagerShare

\* Once a drain has begun with no invocation under way, none will be.
Quiesced == deadline # "none" /\ ~straggler => running = 0

\* A drain that reaches its end before the deadline and without an error has
\* emptied the rings, unless an invocation was still under way.
DrainEmpties ==
    manager = "seal" \/ finished =>
        (deadline = "ahead" /\ poll_error = "none" /\ ~straggler => ring = 0)

\* No more records have left the rings than were submitted.
RingCounted == ring <= submitted

\* The inductive invariant.
IInv ==
    /\ TypeOK
    /\ Conservation
    /\ SingleProducer
    /\ CancelIsNotAnError
    /\ ShutdownOrder
    /\ DiscardLedger
    /\ Quiesced
    /\ DrainEmpties
    /\ RingCounted

USE DEF lifeVars, flagVars, lossVars, kernelVars, sinkVars

\* The initial state satisfies the invariant.
LEMMA InitInv == Init => IInv
<1> SUFFICES ASSUME Init PROVE IInv
  OBVIOUS
<1> USE DEF Init
<1>1. TypeOK
  <2>1. 0 \in 0 .. QueueCapacity /\ 0 \in 0 .. MaxRecords /\ 0 \in 0 .. MaxRunning
    BY TelemetryAssumption
  <2> QED
    BY <2>1, Zenon DEF TypeOK
<1>2. Conservation /\ RingCounted
  BY DEF Conservation, InHand, RingCounted
<1>3. SingleProducer /\ CancelIsNotAnError /\ ShutdownOrder
  BY DEF SingleProducer, CancelIsNotAnError, ShutdownOrder, PollerGone
<1>4. DiscardLedger /\ Quiesced /\ DrainEmpties
  BY DEF DiscardLedger, PollerShare, ManagerShare, Quiesced, DrainEmpties
<1> QED
  BY <1>1, <1>2, <1>3, <1>4 DEF IInv

\* Every step preserves it.
LEMMA NextInv == IInv /\ [Next]_vars => IInv'
<1> SUFFICES ASSUME IInv, [Next]_vars PROVE IInv'
  OBVIOUS
<1> USE TelemetryAssumption
    DEF IInv, TypeOK, Conservation, InHand, SingleProducer, CancelIsNotAnError, ShutdownOrder,
        PollerGone, DiscardLedger, PollerShare, ManagerShare, Quiesced, DrainEmpties, RingCounted
<1>1. CASE Submit
  BY <1>1 DEF Submit
<1>2. CASE Enter
  BY <1>2 DEF Enter
<1>3. CASE Leave
  BY <1>3 DEF Leave
<1>4. CASE TryPop
  BY <1>4 DEF TryPop
<1>5. CASE PollBegin
  BY <1>5 DEF PollBegin
<1>6. CASE PollDeliver
  BY <1>6 DEF PollDeliver, Deliver, ShuttingDown
<1>7. CASE PollAccept
  BY <1>7 DEF PollAccept, Accept, Reject, Enqueue, DropFull
<1>8. CASE PollDiscard
  BY <1>8 DEF PollDiscard, Discard, ShuttingDown
<1>9. CASE PollReturns
  BY <1>9 DEF PollReturns
<1>10. CASE PollFails
  BY <1>10 DEF PollFails
<1>11. CASE PollCancelled
  BY <1>11 DEF PollCancelled
<1>12. CASE PollerExits
  BY <1>12 DEF PollerExits
<1>13. CASE AddSource
  BY <1>13 DEF AddSource
<1>14. CASE Start
  BY <1>14 DEF Start
<1>15. CASE Detach
  BY <1>15 DEF Detach
<1>16. CASE Join
  BY <1>16 DEF Join
<1>17. CASE DrainBegin
  <2>1. CASE running > 0
    <3>1. straggler' = TRUE
      BY <1>17, <2>1 DEF DrainBegin
    <3> QED
      BY <1>17, <3>1 DEF DrainBegin
  <2>2. CASE ~(running > 0)
    <3>1. straggler' = FALSE /\ running = 0
      BY <1>17, <2>2 DEF DrainBegin
    <3> QED
      BY <1>17, <3>1 DEF DrainBegin
  <2> QED
    BY <2>1, <2>2
<1>18. CASE DrainCheck
  <2>1. manager' \in {"seal", "consume"} /\ got' \in BOOLEAN
    BY <1>18, Zenon DEF DrainCheck
  <2>2. manager' = "seal" => deadline = "passed"
    BY <1>18 DEF DrainCheck
  <2>3. TypeOK'
    BY <1>18, <2>1, Zenon DEF DrainCheck
  <2> QED
    BY <1>18, <2>1, <2>2, <2>3 DEF DrainCheck
<1>19. CASE DrainDeliver
  BY <1>19 DEF DrainDeliver, Deliver, ShuttingDown
<1>20. CASE DrainAccept
  BY <1>20 DEF DrainAccept, Accept, Reject, Enqueue, DropFull
<1>21. CASE DrainDiscard
  BY <1>21 DEF DrainDiscard, Discard, ShuttingDown
<1>22. CASE ConsumeReturns
  BY <1>22 DEF ConsumeReturns
<1>23. CASE ConsumeFails
  BY <1>23 DEF ConsumeFails
<1>24. CASE Seal
  BY <1>24 DEF Seal
<1>25. CASE Tick
  BY <1>25 DEF Tick
<1>26. CASE Idle
  BY <1>26 DEF Idle, vars
<1>27. ASSUME NEW timeout \in {0, 1}, Finish(timeout) PROVE IInv'
  BY <1>27 DEF Finish
<1>28. CASE UNCHANGED vars
  BY <1>28 DEF vars
<1> QED
  BY <1>1, <1>2, <1>3, <1>4, <1>5, <1>6, <1>7, <1>8, <1>9, <1>10, <1>11, <1>12, <1>13,
     <1>14, <1>15, <1>16, <1>17, <1>18, <1>19, <1>20, <1>21, <1>22, <1>23, <1>24, <1>25, <1>26,
     <1>27, <1>28
  DEF Next, PollerStep, FinishStep

\* The invariant holds in every reachable state.
THEOREM InvariantHolds == Spec => []IInv
BY InitInv, NextInv, PTL DEF Spec

\* Type correctness of the telemetry consumer.
THEOREM TypeCorrect == Spec => []TypeOK
<1>1. IInv => TypeOK
  BY DEF IInv
<1> QED
  BY <1>1, InvariantHolds, PTL

\* No record that leaves a ring goes missing: OnEvent's four ways out account
\* for each exactly once, in the poller and in the drain.
THEOREM NothingLostUncounted == Spec => []Conservation
<1>1. IInv => Conservation
  BY DEF IInv
<1> QED
  BY <1>1, InvariantHolds, PTL

\* FinishAfterDetach never makes the SPSC queue a second producer.
THEOREM OneProducer == Spec => []SingleProducer
<1>1. IInv => SingleProducer
  BY DEF IInv
<1> QED
  BY <1>1, InvariantHolds, PTL

\* The -ECANCELED of an abort never ends up in poll_error.
THEOREM CancellationSilent == Spec => []CancelIsNotAnError
<1>1. IInv => CancelIsNotAnError
  BY DEF IInv
<1> QED
  BY <1>1, InvariantHolds, PTL

\* A shutdown discards at most two records, however many are in the rings.
THEOREM AtMostTwoDiscarded == Spec => []DiscardsBounded
<1>1. IInv => DiscardsBounded
  BY DEF IInv, TypeOK, DiscardLedger, PollerShare, ManagerShare, DiscardsBounded
<1> QED
  BY <1>1, InvariantHolds, PTL

\* A drain that FinishAfterDetach completes in time and without error, begun
\* when the last invocation had ended, leaves nothing in the rings.
THEOREM DrainComplete == Spec => []DrainIsComplete
<1>1. IInv => DrainIsComplete
  BY DEF IInv, ShutdownOrder, Quiesced, DrainEmpties, DrainIsComplete
<1> QED
  BY <1>1, InvariantHolds, PTL

-----------------------------------------------------------------------------
(* The pipeline: inductive invariant                                       *)

Records == [cpu : CPUs, direction : Obs!Directions, ready : BOOLEAN, sequence : Nat]

ObserverTypes ==
    /\ counters \in [CPUs -> [Obs!Directions -> [Obs!CounterIds -> Nat]]]
    /\ at \in [CPUs -> {"idle", "reserve", "fill", "count"}]
    /\ direction \in [CPUs -> Obs!Directions]
    /\ events \in Seq(Records)
    /\ last \in [CPUs -> [Obs!Directions -> Nat]]

\* A CPU has at most one record reserved and not submitted, and has one just
\* when its program is filling it.
OneOpenRecord ==
    /\ \A i, j \in DOMAIN events :
          ~events[i].ready /\ ~events[j].ready /\ events[i].cpu = events[j].cpu => i = j
    /\ \A c \in CPUs :
          at[c] = "fill" <=> \E i \in DOMAIN events : events[i].cpu = c /\ ~events[i].ready

\* The records of CPU c and direction d in the ring buffer are numbered in
\* rising order, after the last one consumed and up to the packet counter; a
\* program about to reserve has counted its packet, so its number is new.
Numbered(c, d, s) == s.cpu = c /\ s.direction = d
Top(c, d) == counters[c][d]["PACKETS"]
Fresh(c, d) == at[c] = "reserve" /\ direction[c] = d
RisingFor(c, d) ==
    /\ last[c][d] <= Top(c, d)
    /\ Fresh(c, d) => last[c][d] < Top(c, d)
    /\ \A i \in DOMAIN events :
          Numbered(c, d, events[i]) =>
              /\ last[c][d] < events[i].sequence
              /\ events[i].sequence <= Top(c, d)
              /\ Fresh(c, d) => events[i].sequence < Top(c, d)
    /\ \A i, j \in DOMAIN events :
          i < j /\ Numbered(c, d, events[i]) /\ Numbered(c, d, events[j]) =>
              events[i].sequence < events[j].sequence
RisingRecords == \A c \in CPUs, d \in Obs!Directions : RisingFor(c, d)

\* The consumer counts the submitted records of the ring buffer and the
\* records the programs have published.
SidesAgree ==
    /\ IsFiniteSet(Ready) /\ Cardinality(Ready) = ring
    /\ IsFiniteSet(Published) /\ Cardinality(Published) = submitted

PipelineInv ==
    /\ IInv
    /\ ObserverTypes
    /\ OneOpenRecord
    /\ RisingRecords
    /\ SamplesAccounted
    /\ SidesAgree

-----------------------------------------------------------------------------
(* The pipeline: how the steps change the observer's state                 *)

\* Every step of the pipeline is a step of the consumer, or one that the
\* consumer does not see.
LEMMA PipelineStepMaps == PipelineNext => [Next]_vars
<1> SUFFICES ASSUME PipelineNext PROVE [Next]_vars
  OBVIOUS
<1>1. CASE ConsumerStep
  <2>1. CASE TakeRecord \/ EndDrainCall
    BY <2>1 DEF TakeRecord, EndDrainCall, Next, PollerStep, FinishStep
  <2>2. CASE PollerAlone \/ TryPop \/ Tick \/ Idle
    BY <2>2 DEF PollerAlone, Next, PollerStep
  <2>3. CASE ManagerAlone
    BY <2>3 DEF ManagerAlone, Next, FinishStep
  <2> QED
    BY <1>1, <2>1, <2>2, <2>3 DEF ConsumerStep
<1>2. ASSUME NEW c \in CPUs, KernelStep(c) PROVE [Next]_vars
  BY <1>2 DEF KernelStep, Sample, Pass, Reserve, ReserveFails, SubmitRecord, CountEvent, Next
<1> QED
  BY <1>1, <1>2 DEF PipelineNext

\* Only TakeRecord, of the consumer's steps, touches the observer's state.
LEMMA ConsumerStepSplit ==
  ASSUME ConsumerStep
  PROVE  \/ TakeRecord
         \/ UNCHANGED <<observerVars, ring, submitted>>
<1>1. CASE EndDrainCall
  BY <1>1 DEF EndDrainCall, ConsumeReturns
<1>2. ASSUME TryPop \/ PollerAlone \/ ManagerAlone \/ Tick \/ Idle
      PROVE  UNCHANGED <<ring, submitted>>
  BY <1>2 DEF TryPop, PollerAlone, Tick, Idle, PollBegin, PollAccept, Accept, PollReturns,
    PollFails, PollCancelled, PollerExits, vars, ManagerAlone, AddSource, Start, Detach, Finish,
    Join, DrainBegin, DrainCheck, DrainAccept, ConsumeFails, Seal
<1> QED
  BY <1>1, <1>2 DEF ConsumerStep

\* What libbpf takes is the head of the ring buffer.
LEMMA TakeRecordSteps ==
  ASSUME PipelineInv, TakeRecord
  PROVE  /\ Obs!Consume /\ events # <<>> /\ Head(events).ready
         /\ ring' = ring - 1 /\ ring > 0 /\ submitted' = submitted
BY DEF TakeRecord, PollDeliver, PollDiscard, DrainDeliver, DrainDiscard, Deliver, Discard,
  Obs!Consume, Obs!HeadReady

\* Division by the sampling interval: the quotient grows with the packets
\* that are samples and with no other.
LEMMA DivStep ==
  ASSUME NEW n \in Nat, NEW k \in Nat \ {0}
  PROVE  (n + 1) \div k = IF (n + 1) % k = 0 THEN n \div k + 1 ELSE n \div k
<1> DEFINE q == n \div k
           r == n % k
           q1 == (n + 1) \div k
           r1 == (n + 1) % k
<1>1. q \in Nat /\ r \in 0 .. k - 1 /\ n = k * q + r
  OBVIOUS
<1>2. q1 \in Nat /\ r1 \in 0 .. k - 1 /\ n + 1 = k * q1 + r1
  OBVIOUS
<1> HIDE DEF q, r, q1, r1
<1>3. k * q1 + r1 = k * q + r + 1
  BY <1>1, <1>2
<1>4. q1 <= q + 1
  <2> SUFFICES ASSUME q1 >= q + 2 PROVE FALSE
    BY <1>1, <1>2
  <2>1. k * q1 >= k * (q + 2)
    BY <1>1, <1>2
  <2>2. k * (q + 2) = k * q + 2 * k
    BY <1>1
  <2> QED
    BY <1>1, <1>2, <1>3, <2>1, <2>2
<1>5. q1 >= q
  <2> SUFFICES ASSUME q >= q1 + 1 PROVE FALSE
    BY <1>1, <1>2
  <2>1. k * q >= k * (q1 + 1)
    BY <1>1, <1>2
  <2>2. k * (q1 + 1) = k * q1 + k
    BY <1>2
  <2> QED
    BY <1>1, <1>2, <1>3, <2>1, <2>2
<1>6. CASE q1 = q
  BY <1>1, <1>2, <1>3, <1>6
<1>7. CASE q1 = q + 1
  <2>1. k * (q + 1) = k * q + k
    BY <1>1
  <2> QED
    BY <1>1, <1>2, <1>3, <1>7, <2>1
<1> QED
  BY <1>1, <1>2, <1>4, <1>5, <1>6, <1>7 DEF q, q1, r1

\* Counters count.
LEMMA CounterTypes ==
  ASSUME ObserverTypes, NEW c \in CPUs, NEW d \in Obs!Directions, NEW i \in Obs!CounterIds
  PROVE  counters[c][d][i] \in Nat
BY DEF ObserverTypes

\* A counter update adds one to the counters named and leaves the others.
LEMMA BumpFacts ==
  ASSUME ObserverTypes, NEW c \in CPUs, NEW d \in Obs!Directions,
         NEW ids \in SUBSET Obs!CounterIds, Obs!Bump(c, d, ids)
  PROVE  /\ counters' \in [CPUs -> [Obs!Directions -> [Obs!CounterIds -> Nat]]]
         /\ \A b \in CPUs, e \in Obs!Directions, i \in Obs!CounterIds :
               counters'[b][e][i] = IF b = c /\ e = d /\ i \in ids
                                      THEN counters[b][e][i] + 1 ELSE counters[b][e][i]
<1> DEFINE new == [i \in Obs!CounterIds |-> IF i \in ids THEN counters[c][d][i] + 1
                                                         ELSE counters[c][d][i]]
<1>1. new \in [Obs!CounterIds -> Nat]
  BY DEF ObserverTypes
<1>2. counters' = [counters EXCEPT ![c] = [counters[c] EXCEPT ![d] = new]]
  BY DEF Obs!Bump
<1>3. counters[c] \in [Obs!Directions -> [Obs!CounterIds -> Nat]]
  BY DEF ObserverTypes
<1>4. counters' \in [CPUs -> [Obs!Directions -> [Obs!CounterIds -> Nat]]]
  <2> HIDE DEF new
  <2> QED
    BY <1>1, <1>2, <1>3 DEF ObserverTypes
<1>5. ASSUME NEW b \in CPUs, NEW e \in Obs!Directions
      PROVE  counters'[b][e] = IF b = c /\ e = d THEN new ELSE counters[b][e]
  <2> HIDE DEF new
  <2> QED
    BY <1>2, <1>3 DEF ObserverTypes
<1>6. ASSUME NEW b \in CPUs, NEW e \in Obs!Directions, NEW i \in Obs!CounterIds
      PROVE  counters'[b][e][i] = IF b = c /\ e = d /\ i \in ids
                                    THEN counters[b][e][i] + 1 ELSE counters[b][e][i]
  <2>1. new[i] = IF i \in ids THEN counters[c][d][i] + 1 ELSE counters[c][d][i]
    OBVIOUS
  <2> HIDE DEF new
  <2> QED
    BY <1>5, <2>1
<1> QED
  BY <1>4, <1>6

\* Reserving appends a record that is not ready.
LEMMA ReserveEvents ==
  ASSUME ObserverTypes, NEW c \in CPUs, Obs!Reserve(c)
  PROVE  LET n == Len(events) + 1
         IN  /\ events' \in Seq(Records)
             /\ n \in Nat \ {0} /\ DOMAIN events = 1 .. n - 1 /\ DOMAIN events' = 1 .. n
             /\ \A i \in DOMAIN events : events'[i] = events[i]
             /\ events'[n] = [cpu |-> c, direction |-> direction[c], ready |-> FALSE,
                              sequence |-> counters[c][direction[c]]["PACKETS"]]
<1> DEFINE rec == [cpu |-> c, direction |-> direction[c], ready |-> FALSE,
                   sequence |-> counters[c][direction[c]]["PACKETS"]]
<1>1. rec \in Records
  BY DEF ObserverTypes, Records, Obs!CounterIds
<1>2. events' = Append(events, rec) /\ events \in Seq(Records)
  BY DEF Obs!Reserve, ObserverTypes
<1> HIDE DEF rec
<1>3. /\ events' \in Seq(Records) /\ Len(events) \in Nat
      /\ DOMAIN events = 1 .. Len(events) /\ DOMAIN events' = 1 .. Len(events) + 1
      /\ \A i \in DOMAIN events : events'[i] = events[i]
      /\ events'[Len(events) + 1] = rec
  BY <1>1, <1>2
<1> QED
  BY <1>3 DEF rec

\* Submitting makes the records of one CPU ready and changes nothing else.
LEMMA SubmitEvents ==
  ASSUME ObserverTypes, NEW c \in CPUs, Obs!SubmitRecord(c)
  PROVE  /\ events' \in Seq(Records) /\ DOMAIN events' = DOMAIN events
         /\ \A i \in DOMAIN events :
               /\ events'[i].cpu = events[i].cpu
               /\ events'[i].direction = events[i].direction
               /\ events'[i].sequence = events[i].sequence
               /\ events'[i].ready = (events[i].ready \/ events[i].cpu = c)
<1>1. /\ events \in Seq(Records)
      /\ events' = [i \in DOMAIN events |-> IF events[i].cpu = c /\ ~events[i].ready
                      THEN [events[i] EXCEPT !.ready = TRUE] ELSE events[i]]
  BY DEF Obs!SubmitRecord, ObserverTypes
<1>2. DOMAIN events' = DOMAIN events /\ DOMAIN events = 1 .. Len(events) /\ Len(events) \in Nat
  BY <1>1
<1>3. ASSUME NEW i \in DOMAIN events
      PROVE  /\ events'[i] \in Records
             /\ events'[i].cpu = events[i].cpu
             /\ events'[i].direction = events[i].direction
             /\ events'[i].sequence = events[i].sequence
             /\ events'[i].ready = (events[i].ready \/ events[i].cpu = c)
  <2>1. events[i] \in Records
    BY <1>1, <1>2
  <2>2. CASE events[i].cpu = c /\ ~events[i].ready
    <3>1. events'[i] = [events[i] EXCEPT !.ready = TRUE]
      BY <1>1, <2>2
    <3> QED
      BY <2>1, <2>2, <3>1 DEF Records
  <2>3. CASE ~(events[i].cpu = c /\ ~events[i].ready)
    <3>1. events'[i] = events[i]
      BY <1>1, <2>3
    <3>2. events[i].ready \in BOOLEAN
      BY <2>1 DEF Records
    <3>3. events[i].ready = (events[i].ready \/ events[i].cpu = c)
      BY <2>3, <3>2
    <3> QED
      BY <2>1, <3>1, <3>3
  <2> QED
    BY <2>2, <2>3
<1>4. events' \in Seq(Records)
  <2>1. events' \in [1 .. Len(events) -> Records]
    BY <1>1, <1>2, <1>3
  <2> QED
    BY <1>2, <2>1, SeqDef
<1> QED
  BY <1>2, <1>3, <1>4

\* Consuming removes the head.
LEMMA ConsumeEvents ==
  ASSUME ObserverTypes, Obs!Consume
  PROVE  /\ events # <<>> /\ Len(events) \in Nat \ {0}
         /\ events' \in Seq(Records) /\ events[1] \in Records /\ events[1].ready
         /\ DOMAIN events = 1 .. Len(events) /\ DOMAIN events' = 1 .. Len(events) - 1
         /\ \A i \in 1 .. Len(events) - 1 : events'[i] = events[i + 1]
         /\ last' = [last EXCEPT ![events[1].cpu][events[1].direction] = events[1].sequence]
<1>1. /\ events \in Seq(Records) /\ events # <<>> /\ Head(events).ready /\ events' = Tail(events)
      /\ last' = [last EXCEPT ![Head(events).cpu][Head(events).direction] = Head(events).sequence]
  BY DEF ObserverTypes, Obs!Consume, Obs!HeadReady
<1>2. Head(events) = events[1]
  BY <1>1
<1>3. Len(events) \in Nat \ {0} /\ DOMAIN events = 1 .. Len(events) /\ events[1] \in Records
  BY <1>1
<1>4. /\ events' \in Seq(Records) /\ DOMAIN events' = 1 .. Len(events) - 1
      /\ \A i \in 1 .. Len(events) - 1 : events'[i] = events[i + 1]
  BY <1>1
<1> QED
  BY <1>1, <1>2, <1>3, <1>4

-----------------------------------------------------------------------------
(* The pipeline: the invariant is inductive                                *)

\* The observer's types are kept.
LEMMA ObserverTypesStep ==
  ASSUME PipelineInv, PipelineNext
  PROVE  ObserverTypes'
<1>1. ObserverTypes
  BY DEF PipelineInv
<1>2. CASE TakeRecord
  <2>1. Obs!Consume
    BY <1>2 DEF TakeRecord
  <2>2. /\ events' \in Seq(Records) /\ events[1] \in Records
        /\ last' = [last EXCEPT ![events[1].cpu][events[1].direction] = events[1].sequence]
    BY <1>1, <2>1, ConsumeEvents
  <2>3. last' \in [CPUs -> [Obs!Directions -> Nat]]
    BY <1>1, <2>2 DEF ObserverTypes, Records
  <2> QED
    BY <1>1, <2>1, <2>2, <2>3 DEF ObserverTypes, Records, Obs!Consume
<1>3. CASE UNCHANGED observerVars
  BY <1>1, <1>3 DEF ObserverTypes, Records, observerVars
<1>4. ASSUME NEW c \in CPUs, NEW d \in Obs!Directions,
             Obs!NotSelected(c, d) \/ Obs!NotSampled(c, d) \/ Obs!TakeSample(c, d)
      PROVE  ObserverTypes'
  <2>1. \E ids \in SUBSET Obs!CounterIds : Obs!Bump(c, d, ids)
    BY <1>4 DEF Obs!NotSelected, Obs!NotSampled, Obs!TakeSample, Obs!CounterIds
  <2>2. counters' \in [CPUs -> [Obs!Directions -> [Obs!CounterIds -> Nat]]]
    BY <1>1, <2>1, BumpFacts
  <2> QED
    BY <1>1, <1>4, <2>2
    DEF ObserverTypes, Records, Obs!NotSelected, Obs!NotSampled, Obs!TakeSample
<1>5. ASSUME NEW c \in CPUs, Obs!Reserve(c) PROVE ObserverTypes'
  BY <1>1, <1>5, ReserveEvents DEF ObserverTypes, Records, Obs!Reserve
<1>6. ASSUME NEW c \in CPUs, Obs!SubmitRecord(c) PROVE ObserverTypes'
  BY <1>1, <1>6, SubmitEvents DEF ObserverTypes, Records, Obs!SubmitRecord
<1>7. ASSUME NEW c \in CPUs, Obs!ReserveFails(c) \/ Obs!CountEvent(c) PROVE ObserverTypes'
  <2>1. direction[c] \in Obs!Directions
    BY <1>1 DEF ObserverTypes
  <2> QED
    BY <1>1, <1>7, <2>1, BumpFacts
    DEF ObserverTypes, Records, Obs!ReserveFails, Obs!CountEvent, Obs!CounterIds
<1> QED
  BY <1>2, <1>3, <1>4, <1>5, <1>6, <1>7, ConsumerStepSplit
  DEF PipelineNext, KernelStep, Pass, Sample, Reserve, ReserveFails, SubmitRecord, CountEvent

\* A CPU reserves only when it has no open record.
LEMMA OneOpenRecordStep ==
  ASSUME PipelineInv, PipelineNext
  PROVE  OneOpenRecord'
<1>1. ObserverTypes /\ OneOpenRecord
  BY DEF PipelineInv
<1>2. CASE TakeRecord
  <2>1. Obs!Consume
    BY <1>2 DEF TakeRecord
  <2>2. /\ Len(events) \in Nat \ {0} /\ events[1].ready
        /\ DOMAIN events = 1 .. Len(events) /\ DOMAIN events' = 1 .. Len(events) - 1
        /\ \A i \in 1 .. Len(events) - 1 : events'[i] = events[i + 1]
    BY <1>1, <2>1, ConsumeEvents
  <2>3. at' = at
    BY <2>1 DEF Obs!Consume
  <2>4. \A i, j \in DOMAIN events' :
           ~events'[i].ready /\ ~events'[j].ready /\ events'[i].cpu = events'[j].cpu => i = j
    BY <1>1, <2>2 DEF OneOpenRecord
  <2>5. ASSUME NEW b \in CPUs
        PROVE  at[b] = "fill" <=> \E i \in DOMAIN events' : events'[i].cpu = b /\ ~events'[i].ready
    <3>1. ASSUME NEW i \in DOMAIN events, events[i].cpu = b, ~events[i].ready
          PROVE  \E j \in DOMAIN events' : events'[j].cpu = b /\ ~events'[j].ready
      <4>1. i - 1 \in DOMAIN events' /\ events'[i - 1] = events[i]
        BY <2>2, <3>1
      <4> QED
        BY <3>1, <4>1
    <3>2. ASSUME NEW i \in DOMAIN events', events'[i].cpu = b, ~events'[i].ready
          PROVE  \E j \in DOMAIN events : events[j].cpu = b /\ ~events[j].ready
      <4>1. i + 1 \in DOMAIN events /\ events'[i] = events[i + 1]
        BY <2>2
      <4> QED
        BY <3>2, <4>1
    <3> QED
      BY <1>1, <3>1, <3>2 DEF OneOpenRecord
  <2> QED
    BY <2>3, <2>4, <2>5 DEF OneOpenRecord
<1>3. CASE UNCHANGED <<at, events>>
  BY <1>1, <1>3 DEF OneOpenRecord
<1>4. ASSUME NEW c \in CPUs, NEW d \in Obs!Directions, Obs!TakeSample(c, d)
      PROVE  OneOpenRecord'
  BY <1>1, <1>4 DEF ObserverTypes, OneOpenRecord, Obs!TakeSample, Obs!Arrives
<1>5. ASSUME NEW c \in CPUs, Obs!Reserve(c) PROVE OneOpenRecord'
  <2> DEFINE n == Len(events) + 1
  <2>1. /\ n \in Nat \ {0} /\ DOMAIN events = 1 .. n - 1 /\ DOMAIN events' = 1 .. n
        /\ \A i \in DOMAIN events : events'[i] = events[i]
        /\ events'[n].cpu = c /\ ~events'[n].ready
    <3>1. /\ n \in Nat \ {0} /\ DOMAIN events = 1 .. n - 1 /\ DOMAIN events' = 1 .. n
          /\ \A i \in DOMAIN events : events'[i] = events[i]
          /\ events'[n] = [cpu |-> c, direction |-> direction[c], ready |-> FALSE,
                           sequence |-> counters[c][direction[c]]["PACKETS"]]
      BY <1>1, <1>5, ReserveEvents, Zenon
    <3> QED
      BY <3>1
  <2>2. at[c] = "reserve" /\ at' = [at EXCEPT ![c] = "fill"]
    BY <1>5 DEF Obs!Reserve
  <2> HIDE DEF n
  <2>3. \A i \in DOMAIN events : events[i].cpu = c => events[i].ready
    BY <1>1, <2>2 DEF OneOpenRecord
  <2>4. \A i, j \in DOMAIN events' :
           ~events'[i].ready /\ ~events'[j].ready /\ events'[i].cpu = events'[j].cpu => i = j
    BY <1>1, <2>1, <2>3 DEF OneOpenRecord
  <2>5. ASSUME NEW b \in CPUs
        PROVE  at'[b] = "fill" <=> \E i \in DOMAIN events' : events'[i].cpu = b /\ ~events'[i].ready
    <3>1. CASE b = c
      <4>1. n \in DOMAIN events' /\ at'[b] = "fill"
        BY <1>1, <2>1, <2>2, <3>1 DEF ObserverTypes
      <4> QED
        BY <2>1, <3>1, <4>1
    <3>2. CASE b # c
      <4>1. at'[b] = at[b]
        BY <1>1, <2>2, <3>2 DEF ObserverTypes
      <4>2. ASSUME NEW i \in DOMAIN events', events'[i].cpu = b
            PROVE  i \in DOMAIN events
        BY <2>1, <3>2, <4>2
      <4> QED
        BY <1>1, <2>1, <4>1, <4>2 DEF OneOpenRecord
    <3> QED
      BY <3>1, <3>2
  <2> QED
    BY <2>4, <2>5 DEF OneOpenRecord
<1>6. ASSUME NEW c \in CPUs, Obs!SubmitRecord(c) PROVE OneOpenRecord'
  <2>1. /\ DOMAIN events' = DOMAIN events
        /\ \A i \in DOMAIN events : /\ events'[i].cpu = events[i].cpu
                                    /\ events'[i].ready <=> events[i].ready \/ events[i].cpu = c
    BY <1>1, <1>6, SubmitEvents
  <2>2. at' = [at EXCEPT ![c] = "count"]
    BY <1>6 DEF Obs!SubmitRecord
  <2>3. \A b \in CPUs : at'[b] = IF b = c THEN "count" ELSE at[b]
    BY <1>1, <2>2 DEF ObserverTypes
  <2> QED
    BY <1>1, <2>1, <2>3 DEF OneOpenRecord
<1>7. ASSUME NEW c \in CPUs, Obs!ReserveFails(c) \/ Obs!CountEvent(c) PROVE OneOpenRecord'
  <2>1. events' = events /\ at[c] # "fill" /\ at' = [at EXCEPT ![c] = "idle"]
    BY <1>7 DEF Obs!ReserveFails, Obs!CountEvent
  <2>2. \A b \in CPUs : at'[b] = "fill" <=> at[b] = "fill"
    BY <1>1, <2>1 DEF ObserverTypes
  <2> QED
    BY <1>1, <2>1, <2>2 DEF OneOpenRecord
<1> QED
  BY <1>2, <1>3, <1>4, <1>5, <1>6, <1>7, ConsumerStepSplit
  DEF PipelineNext, KernelStep, Pass, Sample, Reserve, ReserveFails, SubmitRecord, CountEvent,
      observerVars, Obs!NotSelected, Obs!NotSampled

\* What RisingFor says depends on the sequence numbers, the packet counter,
\* the last number and whether a fresh number is about to be used: it is
\* kept when the first three stay and no number becomes fresh.
LEMMA RisingFrame ==
  ASSUME ObserverTypes, ObserverTypes', NEW c \in CPUs, NEW d \in Obs!Directions, RisingFor(c, d),
         DOMAIN events' = DOMAIN events,
         \A i \in DOMAIN events : /\ events'[i].cpu = events[i].cpu
                                  /\ events'[i].direction = events[i].direction
                                  /\ events'[i].sequence = events[i].sequence,
         last'[c][d] = last[c][d], Top(c, d)' >= Top(c, d),
         Fresh(c, d)' => Fresh(c, d) \/ Top(c, d)' > Top(c, d)
  PROVE  RisingFor(c, d)'
<1>1. last[c][d] \in Nat /\ Top(c, d) \in Nat /\ Top(c, d)' \in Nat
  BY DEF ObserverTypes, Top, Obs!CounterIds
<1>2. ASSUME NEW i \in DOMAIN events PROVE events[i].sequence \in Nat
  <2>1. events \in Seq(Records)
    BY DEF ObserverTypes
  <2>2. events[i] \in Records
    BY <2>1, LenProperties, ElementOfSeq
  <2> QED
    BY <2>2 DEF Records
<1>3. \A i \in DOMAIN events : Numbered(c, d, events[i])' <=> Numbered(c, d, events[i])
  BY DEF Numbered
<1>4. (last[c][d] <= Top(c, d))' /\ (Fresh(c, d) => last[c][d] < Top(c, d))'
  BY <1>1 DEF RisingFor
<1>5. ASSUME NEW i \in DOMAIN events, Numbered(c, d, events[i])
      PROVE  /\ last[c][d] < events[i].sequence
             /\ events[i].sequence <= Top(c, d)'
             /\ Fresh(c, d)' => events[i].sequence < Top(c, d)'
  BY <1>1, <1>2, <1>5 DEF RisingFor
<1>6. ASSUME NEW i \in DOMAIN events', Numbered(c, d, events[i])'
      PROVE  /\ last'[c][d] < events'[i].sequence
             /\ events'[i].sequence <= Top(c, d)'
             /\ Fresh(c, d)' => events'[i].sequence < Top(c, d)'
  BY <1>3, <1>5, <1>6
<1>7. ASSUME NEW i \in DOMAIN events', NEW j \in DOMAIN events', i < j,
             Numbered(c, d, events[i])', Numbered(c, d, events[j])'
      PROVE  events'[i].sequence < events'[j].sequence
  BY <1>3, <1>7 DEF RisingFor
<1> QED
  BY <1>4, <1>6, <1>7 DEF RisingFor

\* Records are numbered by a counter that their own program has increased and
\* leave the ring buffer in the order of their reservation.
LEMMA RisingRecordsStep ==
  ASSUME PipelineInv, PipelineNext
  PROVE  RisingRecords'
<1>1. ObserverTypes /\ RisingRecords /\ ObserverTypes'
  BY ObserverTypesStep DEF PipelineInv
<1>2. CASE TakeRecord
  <2>1. Obs!Consume
    BY <1>2 DEF TakeRecord
  <2>2. /\ Len(events) \in Nat \ {0} /\ events[1] \in Records
        /\ DOMAIN events = 1 .. Len(events) /\ DOMAIN events' = 1 .. Len(events) - 1
        /\ \A i \in 1 .. Len(events) - 1 : events'[i] = events[i + 1]
        /\ last' = [last EXCEPT ![events[1].cpu][events[1].direction] = events[1].sequence]
    BY <1>1, <2>1, ConsumeEvents
  <2> SUFFICES ASSUME NEW c \in CPUs, NEW d \in Obs!Directions PROVE RisingFor(c, d)'
    BY DEF RisingRecords
  <2>3. RisingFor(c, d)
    BY <1>1 DEF RisingRecords
  <2>4. last'[c][d] = IF Numbered(c, d, events[1]) THEN events[1].sequence ELSE last[c][d]
    BY <1>1, <2>2 DEF ObserverTypes, Records, Numbered
  <2>5. Top(c, d)' = Top(c, d) /\ Fresh(c, d)' = Fresh(c, d)
    BY <2>1 DEF Obs!Consume, Top, Fresh
  <2>6. ASSUME NEW i \in DOMAIN events'
        PROVE  /\ i + 1 \in DOMAIN events /\ events'[i] = events[i + 1]
               /\ Numbered(c, d, events[i])' <=> Numbered(c, d, events[i + 1])
    BY <2>2 DEF Numbered
  <2>7. (last[c][d] <= Top(c, d))' /\ (Fresh(c, d) => last[c][d] < Top(c, d))'
    BY <2>2, <2>3, <2>4, <2>5 DEF RisingFor
  <2>8. ASSUME NEW i \in DOMAIN events', Numbered(c, d, events[i])'
        PROVE  last'[c][d] < events'[i].sequence
    BY <2>2, <2>3, <2>4, <2>6, <2>8 DEF RisingFor
  <2>9. ASSUME NEW i \in DOMAIN events', Numbered(c, d, events[i])'
        PROVE  /\ events'[i].sequence <= Top(c, d)
               /\ Fresh(c, d) => events'[i].sequence < Top(c, d)
    BY <2>3, <2>6, <2>9 DEF RisingFor
  <2>10. ASSUME NEW i \in DOMAIN events', NEW j \in DOMAIN events', i < j,
                Numbered(c, d, events[i])', Numbered(c, d, events[j])'
         PROVE  events'[i].sequence < events'[j].sequence
    <3>1. i + 1 < j + 1
      BY <2>2, <2>10
    <3> QED
      BY <2>3, <2>6, <2>10, <3>1 DEF RisingFor
  <2> QED
    BY <2>5, <2>7, <2>8, <2>9, <2>10 DEF RisingFor
<1>3. CASE UNCHANGED observerVars
  BY <1>1, <1>3 DEF RisingRecords, RisingFor, Top, Fresh, Numbered, observerVars
<1>4. ASSUME NEW c \in CPUs, NEW d \in Obs!Directions,
             Obs!NotSelected(c, d) \/ Obs!NotSampled(c, d) \/ Obs!TakeSample(c, d)
      PROVE  RisingRecords'
  <2> SUFFICES ASSUME NEW b \in CPUs, NEW e \in Obs!Directions PROVE RisingFor(b, e)'
    BY DEF RisingRecords
  <2>1. \E ids \in SUBSET Obs!CounterIds : "PACKETS" \in ids /\ Obs!Bump(c, d, ids)
    BY <1>4 DEF Obs!NotSelected, Obs!NotSampled, Obs!TakeSample, Obs!CounterIds
  <2>2. Top(b, e)' = IF b = c /\ e = d THEN Top(b, e) + 1 ELSE Top(b, e)
    BY <1>1, <2>1, BumpFacts DEF Top, Obs!CounterIds
  <2>3. Top(b, e) \in Nat
    BY <1>1 DEF ObserverTypes, Top, Obs!CounterIds
  <2>4. events' = events /\ last' = last /\ at[c] = "idle"
    BY <1>4 DEF Obs!NotSelected, Obs!NotSampled, Obs!TakeSample, Obs!Arrives
  <2>5. Fresh(b, e)' => Fresh(b, e) \/ (b = c /\ e = d)
    BY <1>1, <1>4, <2>4
    DEF ObserverTypes, Fresh, Obs!NotSelected, Obs!NotSampled, Obs!TakeSample
  <2> QED
    BY <1>1, <2>2, <2>3, <2>4, <2>5, RisingFrame DEF RisingRecords
<1>5. ASSUME NEW c \in CPUs, Obs!Reserve(c) PROVE RisingRecords'
  <2>1. PICK n \in Nat \ {0}, d \in Obs!Directions :
           /\ d = direction[c]
           /\ DOMAIN events = 1 .. n - 1 /\ DOMAIN events' = 1 .. n
           /\ \A i \in DOMAIN events : events'[i] = events[i]
           /\ events'[n] = [cpu |-> c, direction |-> d, ready |-> FALSE,
                            sequence |-> counters[c][d]["PACKETS"]]
    <3>1. direction[c] \in Obs!Directions
      BY <1>1 DEF ObserverTypes
    <3> QED
      BY <1>1, <1>5, <3>1, ReserveEvents, Zenon
  <2>2. /\ events'[n].cpu = c /\ events'[n].direction = d /\ events'[n].sequence = Top(c, d)
        /\ Fresh(c, d)
    BY <1>1, <1>5, <2>1 DEF ObserverTypes, Top, Fresh, Obs!Reserve
  <2>3. counters' = counters /\ last' = last /\ direction' = direction
    BY <1>5 DEF Obs!Reserve
  <2> SUFFICES ASSUME NEW b \in CPUs, NEW e \in Obs!Directions PROVE RisingFor(b, e)'
    BY DEF RisingRecords
  <2>4. RisingFor(b, e) /\ Top(b, e)' = Top(b, e)
    BY <1>1, <2>3 DEF RisingRecords, Top
  <2>5. Fresh(b, e)' => Fresh(b, e)
    BY <1>1, <1>5, <2>3 DEF ObserverTypes, Fresh, Obs!Reserve
  <2>6. Numbered(b, e, events[n])' <=> b = c /\ e = d
    BY <2>2 DEF Numbered
  <2>7. Fresh(b, e)' => ~(b = c /\ e = d)
    BY <1>1, <1>5 DEF ObserverTypes, Fresh, Obs!Reserve
  <2>8. \A i \in DOMAIN events : Numbered(b, e, events[i])' <=> Numbered(b, e, events[i])
    BY <2>1 DEF Numbered
  <2>9. (last[b][e] <= Top(b, e))' /\ (Fresh(b, e) => last[b][e] < Top(b, e))'
    BY <2>3, <2>4, <2>5 DEF RisingFor
  <2>10. ASSUME NEW i \in DOMAIN events', Numbered(b, e, events[i])'
         PROVE  /\ last'[b][e] < events'[i].sequence
                /\ events'[i].sequence <= Top(b, e)
                /\ Fresh(b, e)' => events'[i].sequence < Top(b, e)
    <3>1. CASE i = n
      <4>1. b = c /\ e = d /\ events'[i].sequence = Top(b, e) /\ Fresh(b, e)
        BY <2>2, <2>6, <2>10, <3>1
      <4>2. Top(b, e) \in Nat
        BY <1>1 DEF ObserverTypes, Top, Obs!CounterIds
      <4> QED
        BY <2>3, <2>4, <2>7, <4>1, <4>2 DEF RisingFor
    <3>2. CASE i \in DOMAIN events
      BY <2>1, <2>3, <2>4, <2>5, <2>8, <2>10, <3>2 DEF RisingFor
    <3> QED
      BY <2>1, <3>1, <3>2
  <2>11. ASSUME NEW i \in DOMAIN events', NEW j \in DOMAIN events', i < j,
                Numbered(b, e, events[i])', Numbered(b, e, events[j])'
         PROVE  events'[i].sequence < events'[j].sequence
    <3>1. i \in DOMAIN events
      BY <2>1, <2>11
    <3>2. CASE j = n
      <4>1. events'[j].sequence = Top(b, e) /\ Fresh(b, e)
        BY <2>2, <2>6, <2>11, <3>2
      <4> QED
        BY <2>1, <2>4, <2>8, <2>11, <3>1, <4>1 DEF RisingFor
    <3>3. CASE j \in DOMAIN events
      BY <2>1, <2>4, <2>8, <2>11, <3>1, <3>3 DEF RisingFor
    <3> QED
      BY <2>1, <3>2, <3>3
  <2> QED
    BY <2>4, <2>9, <2>10, <2>11 DEF RisingFor
<1>6. ASSUME NEW c \in CPUs, Obs!SubmitRecord(c) PROVE RisingRecords'
  <2>1. /\ DOMAIN events' = DOMAIN events
        /\ \A i \in DOMAIN events : /\ events'[i].cpu = events[i].cpu
                                    /\ events'[i].direction = events[i].direction
                                    /\ events'[i].sequence = events[i].sequence
    BY <1>1, <1>6, SubmitEvents
  <2>2. counters' = counters /\ last' = last
    BY <1>6 DEF Obs!SubmitRecord
  <2> SUFFICES ASSUME NEW b \in CPUs, NEW e \in Obs!Directions PROVE RisingFor(b, e)'
    BY DEF RisingRecords
  <2>3. Top(b, e)' = Top(b, e) /\ Top(b, e) \in Nat
    BY <1>1, <2>2 DEF ObserverTypes, Top, Obs!CounterIds
  <2>4. Fresh(b, e)' => Fresh(b, e)
    BY <1>1, <1>6 DEF ObserverTypes, Fresh, Obs!SubmitRecord
  <2> QED
    BY <1>1, <2>1, <2>2, <2>3, <2>4, RisingFrame DEF RisingRecords
<1>7. ASSUME NEW c \in CPUs, Obs!ReserveFails(c) \/ Obs!CountEvent(c) PROVE RisingRecords'
  <2> SUFFICES ASSUME NEW b \in CPUs, NEW e \in Obs!Directions PROVE RisingFor(b, e)'
    BY DEF RisingRecords
  <2>1. /\ direction[c] \in Obs!Directions
        /\ \E ids \in SUBSET Obs!CounterIds : "PACKETS" \notin ids /\ Obs!Bump(c, direction[c], ids)
    BY <1>1, <1>7 DEF ObserverTypes, Obs!ReserveFails, Obs!CountEvent, Obs!CounterIds
  <2>2. Top(b, e)' = Top(b, e) /\ Top(b, e) \in Nat
    <3>1. Top(b, e) \in Nat
      BY <1>1 DEF ObserverTypes, Top, Obs!CounterIds
    <3>2. Top(b, e)' = Top(b, e)
      BY <1>1, <2>1, BumpFacts DEF Top, Obs!CounterIds
    <3> QED
      BY <3>1, <3>2
  <2>3. events' = events /\ last' = last /\ (Fresh(b, e)' => Fresh(b, e))
    BY <1>1, <1>7 DEF ObserverTypes, Fresh, Obs!ReserveFails, Obs!CountEvent
  <2> QED
    BY <1>1, <2>2, <2>3, RisingFrame DEF RisingRecords
<1> QED
  BY <1>2, <1>3, <1>4, <1>5, <1>6, <1>7, ConsumerStepSplit
  DEF PipelineNext, KernelStep, Pass, Sample, Reserve, ReserveFails, SubmitRecord, CountEvent

\* Every due sample is counted on the way out of the program.
LEMMA SamplesStep ==
  ASSUME PipelineInv, PipelineNext
  PROVE  SamplesAccounted'
<1>1. ObserverTypes /\ SamplesAccounted
  BY DEF PipelineInv
<1>2. CASE UNCHANGED <<counters, at, direction>>
  BY <1>1, <1>2 DEF SamplesAccounted, Due, InProgram
<1>3. ASSUME NEW c \in CPUs, NEW d \in Obs!Directions, Obs!NotSelected(c, d) PROVE SamplesAccounted'
  <2>1. Obs!Bump(c, d, {"PACKETS"}) /\ at' = at /\ direction' = direction
    BY <1>3 DEF Obs!NotSelected
  <2>2. \A b \in CPUs, e \in Obs!Directions, i \in {"SELECTED", "EVENTS", "RING_LOST"} :
           counters'[b][e][i] = counters[b][e][i]
    <3>1. {"PACKETS"} \in SUBSET Obs!CounterIds
      BY DEF Obs!CounterIds
    <3>2. \A b \in CPUs, e \in Obs!Directions, i \in Obs!CounterIds :
             counters'[b][e][i] = IF b = c /\ e = d /\ i \in {"PACKETS"}
                                    THEN counters[b][e][i] + 1 ELSE counters[b][e][i]
      BY <1>1, <2>1, <3>1, BumpFacts
    <3> QED
      BY <3>2 DEF Obs!CounterIds
  <2> QED
    BY <1>1, <2>1, <2>2 DEF SamplesAccounted, Due, InProgram
<1>4. ASSUME NEW c \in CPUs, NEW d \in Obs!Directions,
             Obs!NotSampled(c, d) \/ Obs!TakeSample(c, d)
      PROVE  SamplesAccounted'
  <2> SUFFICES ASSUME NEW b \in CPUs, NEW e \in Obs!Directions
               PROVE  (Due(b, e) = counters[b][e]["EVENTS"] + counters[b][e]["RING_LOST"]
                                     + InProgram(b, e))'
    BY DEF SamplesAccounted
  <2>1. Obs!Bump(c, d, {"PACKETS", "SELECTED"}) /\ at[c] = "idle"
    BY <1>4 DEF Obs!NotSampled, Obs!TakeSample, Obs!Arrives
  <2>2. /\ counters'[b][e]["EVENTS"] = counters[b][e]["EVENTS"]
        /\ counters'[b][e]["RING_LOST"] = counters[b][e]["RING_LOST"]
        /\ counters'[b][e]["SELECTED"] = IF b = c /\ e = d THEN counters[b][e]["SELECTED"] + 1
                                                           ELSE counters[b][e]["SELECTED"]
    BY <1>1, <2>1, BumpFacts DEF Obs!CounterIds
  <2>3. /\ counters[b][e]["SELECTED"] \in Nat /\ counters[b][e]["EVENTS"] \in Nat
        /\ counters[b][e]["RING_LOST"] \in Nat
    BY <1>1, CounterTypes DEF Obs!CounterIds
  <2>4. Due(b, e) = counters[b][e]["EVENTS"] + counters[b][e]["RING_LOST"] + InProgram(b, e)
    BY <1>1 DEF SamplesAccounted
  <2>5. CASE b = c /\ e = d
    <3>1. Due(b, e)' = IF Obs!Sampled(c, d) THEN Due(b, e) + 1 ELSE Due(b, e)
      <4>1. CASE SampleEvery = 0
        BY <4>1 DEF Due, Obs!Sampled
      <4>2. CASE SampleEvery # 0
        <5>1. SampleEvery \in Nat \ {0}
          BY <4>2, PipelineAssumption
        <5>2. Due(b, e) = counters[b][e]["SELECTED"] \div SampleEvery
          BY <4>2 DEF Due
        <5>3. Due(b, e)' = (counters[b][e]["SELECTED"] + 1) \div SampleEvery
          BY <2>2, <2>5, <4>2 DEF Due
        <5>4. Obs!Sampled(c, d) <=> (counters[b][e]["SELECTED"] + 1) % SampleEvery = 0
          BY <2>5, <4>2 DEF Obs!Sampled
        <5> QED
          BY <2>3, <5>1, <5>2, <5>3, <5>4, DivStep
      <4> QED
        BY <4>1, <4>2
    <3>2. InProgram(b, e) = 0
      BY <2>1, <2>5 DEF InProgram
    <3>3. CASE Obs!TakeSample(c, d)
      <4>1. Obs!Sampled(c, d) /\ InProgram(b, e)' = 1
        BY <1>1, <2>5, <3>3 DEF ObserverTypes, InProgram, Obs!TakeSample
      <4> QED
        BY <2>2, <2>3, <2>4, <3>1, <3>2, <4>1
    <3>4. CASE Obs!NotSampled(c, d)
      <4>1. ~Obs!Sampled(c, d) /\ InProgram(b, e)' = 0
        BY <2>1, <2>5, <3>4 DEF InProgram, Obs!NotSampled
      <4> QED
        BY <2>2, <2>3, <2>4, <3>1, <3>2, <4>1
    <3> QED
      BY <1>4, <3>3, <3>4
  <2>6. CASE ~(b = c /\ e = d)
    <3>1. Due(b, e)' = Due(b, e)
      BY <2>2, <2>6 DEF Due
    <3>2. InProgram(b, e)' = InProgram(b, e)
      BY <1>1, <1>4, <2>1, <2>6 DEF ObserverTypes, InProgram, Obs!NotSampled, Obs!TakeSample
    <3> QED
      BY <2>2, <2>4, <3>1, <3>2
  <2> QED
    BY <2>5, <2>6
<1>5. ASSUME NEW c \in CPUs, Obs!Reserve(c) \/ Obs!SubmitRecord(c) PROVE SamplesAccounted'
  <2>1. counters' = counters
    BY <1>5 DEF Obs!Reserve, Obs!SubmitRecord
  <2>2. \A b \in CPUs, e \in Obs!Directions : InProgram(b, e)' = InProgram(b, e)
    BY <1>1, <1>5 DEF ObserverTypes, InProgram, Obs!Reserve, Obs!SubmitRecord
  <2> QED
    BY <1>1, <2>1, <2>2 DEF SamplesAccounted, Due
<1>6. ASSUME NEW c \in CPUs, Obs!ReserveFails(c) \/ Obs!CountEvent(c) PROVE SamplesAccounted'
  <2> SUFFICES ASSUME NEW b \in CPUs, NEW e \in Obs!Directions
               PROVE  (Due(b, e) = counters[b][e]["EVENTS"] + counters[b][e]["RING_LOST"]
                                     + InProgram(b, e))'
    BY DEF SamplesAccounted
  <2>1. PICK id \in {"EVENTS", "RING_LOST"} : Obs!Bump(c, direction[c], {id})
    BY <1>6 DEF Obs!ReserveFails, Obs!CountEvent
  <2>2. /\ direction[c] \in Obs!Directions /\ at[c] # "idle" /\ direction' = direction
        /\ \A a \in CPUs : at'[a] = IF a = c THEN "idle" ELSE at[a]
    BY <1>1, <1>6 DEF ObserverTypes, Obs!ReserveFails, Obs!CountEvent
  <2>3. \A i \in {"SELECTED", "EVENTS", "RING_LOST"} :
           counters'[b][e][i] = IF b = c /\ e = direction[c] /\ i = id
                                  THEN counters[b][e][i] + 1 ELSE counters[b][e][i]
    BY <1>1, <2>1, <2>2, BumpFacts DEF Obs!CounterIds
  <2>4. counters[b][e]["EVENTS"] \in Nat /\ counters[b][e]["RING_LOST"] \in Nat
    BY <1>1, CounterTypes DEF Obs!CounterIds
  <2>5. Due(b, e)' = Due(b, e)
    BY <2>1, <2>3 DEF Due
  <2>6. Due(b, e) = counters[b][e]["EVENTS"] + counters[b][e]["RING_LOST"] + InProgram(b, e)
    BY <1>1 DEF SamplesAccounted
  <2>7. CASE b = c /\ e = direction[c]
    <3>1. InProgram(b, e) = 1 /\ InProgram(b, e)' = 0
      BY <2>2, <2>7 DEF InProgram
    <3> QED
      BY <2>1, <2>3, <2>4, <2>5, <2>6, <2>7, <3>1
  <2>8. CASE ~(b = c /\ e = direction[c])
    <3>1. InProgram(b, e)' = InProgram(b, e)
      BY <2>2, <2>8 DEF InProgram
    <3> QED
      BY <2>3, <2>5, <2>6, <2>8, <3>1
  <2> QED
    BY <2>7, <2>8
<1> QED
  BY <1>2, <1>3, <1>4, <1>5, <1>6, ConsumerStepSplit
  DEF PipelineNext, KernelStep, Pass, Sample, Reserve, ReserveFails, SubmitRecord, CountEvent,
      TakeRecord, Obs!Consume, observerVars

\* The ring buffer's submitted records are counted: a submission makes
\* exactly one record ready, libbpf takes exactly one.
LEMMA ReadyStep ==
  ASSUME PipelineInv, PipelineNext
  PROVE  IsFiniteSet(Ready') /\ Cardinality(Ready') = ring'
<1>1. /\ ObserverTypes /\ OneOpenRecord /\ IsFiniteSet(Ready) /\ Cardinality(Ready) = ring
      /\ ring \in Nat
  BY DEF PipelineInv, SidesAgree, IInv, TypeOK
<1>2. CASE TakeRecord
  <2>1. Obs!Consume /\ ring' = ring - 1
    BY <1>2, TakeRecordSteps
  <2>2. /\ Len(events) \in Nat \ {0} /\ events[1].ready
        /\ DOMAIN events = 1 .. Len(events) /\ DOMAIN events' = 1 .. Len(events) - 1
        /\ \A i \in 1 .. Len(events) - 1 : events'[i] = events[i + 1]
    BY <1>1, <2>1, ConsumeEvents
  <2>3. 1 \in Ready /\ Ready \subseteq 1 .. Len(events)
    BY <2>2 DEF Ready
  <2>4. IsFiniteSet(Ready \ {1}) /\ Cardinality(Ready \ {1}) = ring - 1
    BY <1>1, <2>3, FS_RemoveElement
  <2>5. \A i : i \in Ready' <=> i \in 1 .. Len(events) - 1 /\ i + 1 \in Ready
    BY <2>2 DEF Ready
  <2>6. ExistsBijection(Ready \ {1}, Ready')
    <3> DEFINE f == [i \in Ready \ {1} |-> i - 1]
    <3>1. f \in [Ready \ {1} -> Ready']
      <4>1. ASSUME NEW i \in Ready \ {1} PROVE i - 1 \in Ready'
        <5>1. i \in 2 .. Len(events) /\ i - 1 \in 1 .. Len(events) - 1 /\ (i - 1) + 1 = i
          BY <2>2, <2>3
        <5> QED
          BY <2>5, <5>1
      <4> QED
        BY <4>1
    <3>2. ASSUME NEW i \in Ready \ {1}, NEW j \in Ready \ {1}, f[i] = f[j] PROVE i = j
      BY <2>2, <2>3, <3>2
    <3>3. ASSUME NEW k \in Ready' PROVE \E i \in Ready \ {1} : f[i] = k
      <4>1. k \in 1 .. Len(events) - 1 /\ k + 1 \in Ready
        BY <2>5
      <4>2. k + 1 \in Ready \ {1} /\ (k + 1) - 1 = k
        BY <2>2, <4>1
      <4> QED
        BY <4>2
    <3>4. f \in Bijection(Ready \ {1}, Ready')
      BY <3>1, <3>2, <3>3 DEF Bijection, Injection, Surjection, IsInjective
    <3> QED
      BY <3>4 DEF ExistsBijection
  <2> QED
    BY <2>1, <2>4, <2>6, FS_Bijection
<1>3. CASE UNCHANGED <<events, ring>>
  BY <1>1, <1>3 DEF Ready
<1>4. ASSUME NEW c \in CPUs, Reserve(c)
      PROVE  IsFiniteSet(Ready') /\ Cardinality(Ready') = ring'
  <2>1. Obs!Reserve(c) /\ ring' = ring
    BY <1>4 DEF Reserve, vars
  <2>2. PICK n \in Nat \ {0} :
           /\ DOMAIN events = 1 .. n - 1 /\ DOMAIN events' = 1 .. n
           /\ \A i \in DOMAIN events : events'[i] = events[i]
           /\ events'[n] = [cpu |-> c, direction |-> direction[c], ready |-> FALSE,
                            sequence |-> counters[c][direction[c]]["PACKETS"]]
    BY <1>1, <2>1, ReserveEvents, Zenon
  <2>3. Ready' = Ready
    BY <2>2 DEF Ready
  <2> QED
    BY <1>1, <2>1, <2>3
<1>5. ASSUME NEW c \in CPUs, SubmitRecord(c)
      PROVE  IsFiniteSet(Ready') /\ Cardinality(Ready') = ring'
  <2>1. Obs!SubmitRecord(c) /\ ring' = ring + 1 /\ at[c] = "fill"
    BY <1>5 DEF SubmitRecord, Submit, Obs!SubmitRecord
  <2>2. /\ DOMAIN events' = DOMAIN events
        /\ \A i \in DOMAIN events : events'[i].ready <=> events[i].ready \/ events[i].cpu = c
    BY <1>1, <2>1, SubmitEvents
  <2>3. PICK k \in DOMAIN events : events[k].cpu = c /\ ~events[k].ready
    BY <1>1, <2>1 DEF OneOpenRecord
  <2>4. \A i \in DOMAIN events : events[i].cpu = c /\ ~events[i].ready => i = k
    BY <1>1, <2>3 DEF OneOpenRecord
  <2>5. Ready' = Ready \cup {k} /\ k \notin Ready
    BY <2>2, <2>3, <2>4 DEF Ready
  <2> QED
    BY <1>1, <2>1, <2>5, FS_AddElement
<1>6. ASSUME NEW c \in CPUs, Sample(c) \/ Pass(c) \/ ReserveFails(c) \/ CountEvent(c)
      PROVE  UNCHANGED <<events, ring>>
  BY <1>6 DEF Sample, Pass, ReserveFails, CountEvent, Enter, Leave, vars, Obs!TakeSample,
    Obs!NotSelected, Obs!NotSampled, Obs!ReserveFails, Obs!CountEvent
<1> QED
  BY <1>2, <1>3, <1>4, <1>5, <1>6, ConsumerStepSplit DEF PipelineNext, KernelStep, observerVars

\* A record is published once its number has been reached on its CPU and in
\* its direction, before and after a step.
LEMMA PublishedMembers ==
  /\ \A x : x \in Published <=>
       \E c \in CPUs, d \in Obs!Directions : \E n \in 1 .. PublishedBy(c, d) : x = <<<<c, d>>, n>>
  /\ \A x : x \in Published' <=>
       \E c \in CPUs, d \in Obs!Directions : \E n \in 1 .. PublishedBy(c, d)' : x = <<<<c, d>>, n>>
<1>1. \A p, N, x : x \in {p} \X N <=> \E n \in N : x = <<p, n>>
  OBVIOUS
<1>2. ASSUME NEW x
      PROVE  x \in Published <=>
               \E p \in CPUs \X Obs!Directions : x \in {p} \X (1 .. PublishedBy(p[1], p[2]))
  BY Zenon DEF Published
<1>3. ASSUME NEW x
      PROVE  x \in Published' <=>
               \E p \in CPUs \X Obs!Directions : x \in {p} \X (1 .. PublishedBy(p[1], p[2])')
  BY Zenon DEF Published
<1> QED
  BY <1>1, <1>2, <1>3

\* A submission publishes exactly one record; counting it in EVENTS makes no
\* difference.
LEMMA PublishedStep ==
  ASSUME PipelineInv, PipelineNext
  PROVE  IsFiniteSet(Published') /\ Cardinality(Published') = submitted'
<1>1. /\ ObserverTypes /\ IsFiniteSet(Published) /\ Cardinality(Published) = submitted
      /\ submitted \in Nat
  BY DEF PipelineInv, SidesAgree, IInv, TypeOK
<1>2. ASSUME UNCHANGED submitted,
             \A b \in CPUs, e \in Obs!Directions : PublishedBy(b, e)' = PublishedBy(b, e)
      PROVE  IsFiniteSet(Published') /\ Cardinality(Published') = submitted'
  <2>1. Published' = Published
    BY <1>2 DEF Published
  <2> QED
    BY <1>1, <1>2, <2>1
<1>3. ASSUME NEW c \in CPUs, SubmitRecord(c)
      PROVE  IsFiniteSet(Published') /\ Cardinality(Published') = submitted'
  <2> DEFINE d == direction[c]
             x == <<<<c, d>>, counters[c][d]["EVENTS"] + 1>>
  <2>1. /\ submitted' = submitted + 1 /\ at[c] = "fill" /\ counters' = counters
        /\ direction' = direction /\ at' = [at EXCEPT ![c] = "count"]
        /\ d \in Obs!Directions
    BY <1>1, <1>3 DEF SubmitRecord, Submit, Obs!SubmitRecord, ObserverTypes
  <2>2. ASSUME NEW b \in CPUs, NEW e \in Obs!Directions
        PROVE  PublishedBy(b, e)' = IF b = c /\ e = d THEN PublishedBy(b, e) + 1
                                                      ELSE PublishedBy(b, e)
    <3>1. counters[b][e]["EVENTS"] \in Nat
      BY <1>1, CounterTypes DEF Obs!CounterIds
    <3> QED
      BY <1>1, <2>1, <3>1 DEF PublishedBy, ObserverTypes
  <2>3. PublishedBy(c, d) = counters[c][d]["EVENTS"] /\ PublishedBy(c, d) \in Nat
    BY <1>1, <2>1, CounterTypes DEF PublishedBy, Obs!CounterIds
  <2>4. x \notin Published
    BY <2>3, PublishedMembers
  <2>5. Published' = Published \cup {x}
    <3>1. ASSUME NEW y \in Published' PROVE y \in Published \cup {x}
      <4>1. PICK b \in CPUs, e \in Obs!Directions : \E n \in 1 .. PublishedBy(b, e)' : y = <<<<b, e>>, n>>
        BY <3>1, PublishedMembers
      <4>2. PICK n \in 1 .. PublishedBy(b, e)' : y = <<<<b, e>>, n>>
        BY <4>1
      <4>3. CASE n \in 1 .. PublishedBy(b, e)
        BY <4>2, <4>3, PublishedMembers
      <4>4. CASE n \notin 1 .. PublishedBy(b, e)
        BY <2>2, <2>3, <4>2, <4>4
      <4> QED
        BY <4>3, <4>4
    <3>2. ASSUME NEW y \in Published PROVE y \in Published'
      <4>1. PICK b \in CPUs, e \in Obs!Directions :
               \E n \in 1 .. PublishedBy(b, e) : y = <<<<b, e>>, n>>
        BY <3>2, PublishedMembers
      <4>0. PICK n \in 1 .. PublishedBy(b, e) : y = <<<<b, e>>, n>>
        BY <4>1
      <4>2. n \in 1 .. PublishedBy(b, e)'
        BY <2>2, <2>3, <4>0
      <4> QED
        BY <4>0, <4>2, PublishedMembers
    <3>3. x \in Published'
      <4>1. counters[c][d]["EVENTS"] + 1 \in 1 .. PublishedBy(c, d) + 1
        BY <2>3
      <4>2. PICK n \in Nat, e \in Obs!Directions : n = counters[c][d]["EVENTS"] + 1 /\ e = d
        BY <2>1, <2>3
      <4>3. n \in 1 .. PublishedBy(c, e)'
        BY <2>2, <4>1, <4>2
      <4>4. <<<<c, e>>, n>> \in Published'
        BY <4>3, PublishedMembers
      <4> QED
        BY <4>2, <4>4
    <3> QED
      BY <3>1, <3>2, <3>3
  <2> HIDE DEF x
  <2> QED
    BY <1>1, <2>1, <2>4, <2>5, FS_AddElement
<1>4. ASSUME NEW c \in CPUs, CountEvent(c)
      PROVE  /\ UNCHANGED submitted
             /\ \A b \in CPUs, e \in Obs!Directions : PublishedBy(b, e)' = PublishedBy(b, e)
  <2>1. /\ submitted' = submitted /\ at[c] = "count" /\ at' = [at EXCEPT ![c] = "idle"]
        /\ direction' = direction /\ direction[c] \in Obs!Directions
        /\ Obs!Bump(c, direction[c], {"EVENTS"})
    BY <1>1, <1>4 DEF CountEvent, vars, Obs!CountEvent, ObserverTypes
  <2> SUFFICES ASSUME NEW b \in CPUs, NEW e \in Obs!Directions
               PROVE  PublishedBy(b, e)' = PublishedBy(b, e)
    BY <2>1
  <2>2. counters'[b][e]["EVENTS"] = IF b = c /\ e = direction[c] THEN counters[b][e]["EVENTS"] + 1
                                                                 ELSE counters[b][e]["EVENTS"]
    BY <1>1, <2>1, BumpFacts DEF Obs!CounterIds
  <2>3. counters[b][e]["EVENTS"] \in Nat /\ at'[b] = IF b = c THEN "idle" ELSE at[b]
    BY <1>1, <2>1, CounterTypes DEF Obs!CounterIds, ObserverTypes
  <2> QED
    BY <2>1, <2>2, <2>3 DEF PublishedBy
<1>5. ASSUME NEW c \in CPUs, Sample(c) \/ Pass(c) \/ ReserveFails(c)
      PROVE  /\ UNCHANGED submitted
             /\ \A b \in CPUs, e \in Obs!Directions : PublishedBy(b, e)' = PublishedBy(b, e)
  <2>1. submitted' = submitted
    BY <1>5 DEF Sample, Pass, ReserveFails, Enter, Leave, vars
  <2>2. PICK d \in Obs!Directions, ids \in SUBSET {"PACKETS", "SELECTED", "RING_LOST"} :
           Obs!Bump(c, d, ids)
    BY <1>1, <1>5 DEF Sample, Pass, ReserveFails, ObserverTypes, Obs!TakeSample,
      Obs!NotSelected, Obs!NotSampled, Obs!ReserveFails
  <2> SUFFICES ASSUME NEW b \in CPUs, NEW e \in Obs!Directions
               PROVE  PublishedBy(b, e)' = PublishedBy(b, e)
    BY <2>1
  <2>3. ids \in SUBSET Obs!CounterIds /\ "EVENTS" \notin ids /\ "EVENTS" \in Obs!CounterIds
    BY DEF Obs!CounterIds
  <2>4. counters'[b][e]["EVENTS"] = counters[b][e]["EVENTS"]
    BY <1>1, <2>2, <2>3, BumpFacts
  <2>5. at'[b] = "count" /\ direction'[b] = e <=> at[b] = "count" /\ direction[b] = e
    BY <1>1, <1>5 DEF Sample, Pass, ReserveFails, ObserverTypes, Obs!TakeSample,
      Obs!NotSelected, Obs!NotSampled, Obs!ReserveFails, Obs!Arrives
  <2> QED
    BY <2>4, <2>5 DEF PublishedBy
<1>6. ASSUME NEW c \in CPUs, Reserve(c)
      PROVE  /\ UNCHANGED submitted
             /\ \A b \in CPUs, e \in Obs!Directions : PublishedBy(b, e)' = PublishedBy(b, e)
  BY <1>1, <1>6 DEF Reserve, vars, Obs!Reserve, ObserverTypes, PublishedBy
<1>7. CASE UNCHANGED <<counters, at, direction, submitted>>
  BY <1>2, <1>7 DEF PublishedBy
<1>8. CASE TakeRecord
  BY <1>7, <1>8, TakeRecordSteps DEF Obs!Consume
<1> QED
  BY <1>2, <1>3, <1>4, <1>5, <1>6, <1>7, <1>8, ConsumerStepSplit
  DEF PipelineNext, KernelStep, observerVars

\* The invariant holds before the first packet.
LEMMA PipelineInitInv == PipelineInit => PipelineInv
<1> SUFFICES ASSUME PipelineInit PROVE PipelineInv
  OBVIOUS
<1>1. IInv /\ ring = 0 /\ submitted = 0
  BY InitInv DEF PipelineInit, Init
<1>2. /\ counters = [c \in CPUs |-> [d \in Obs!Directions |-> [i \in Obs!CounterIds |-> 0]]]
      /\ at = [c \in CPUs |-> "idle"] /\ direction = [c \in CPUs |-> "ingress"]
      /\ events = <<>> /\ last = [c \in CPUs |-> [d \in Obs!Directions |-> 0]]
  BY DEF PipelineInit, Obs!ObsInit
<1>3. ObserverTypes
  <2>1. events \in Seq(Records)
    BY <1>2
  <2> QED
    BY <1>2, <2>1 DEF ObserverTypes, Obs!Directions
<1>4. DOMAIN events = {}
  BY <1>2
<1>5. OneOpenRecord
  BY <1>2, <1>4 DEF OneOpenRecord
<1>6. ASSUME NEW c \in CPUs, NEW d \in Obs!Directions
      PROVE  /\ \A i \in Obs!CounterIds : counters[c][d][i] = 0
             /\ last[c][d] = 0 /\ at[c] = "idle"
  BY <1>2
<1>7. RisingRecords
  BY <1>4, <1>6 DEF RisingRecords, RisingFor, Top, Fresh, Obs!CounterIds
<1>8. SamplesAccounted
  <2>1. SampleEvery # 0 => 0 \div SampleEvery = 0
    BY PipelineAssumption
  <2> QED
    BY <1>6, <2>1 DEF SamplesAccounted, Due, InProgram, Obs!CounterIds
<1>9. SidesAgree
  <2>1. Ready = {}
    BY <1>4 DEF Ready
  <2>2. \A c \in CPUs, d \in Obs!Directions : PublishedBy(c, d) = 0
    BY <1>6 DEF PublishedBy, Obs!CounterIds
  <2>3. Published = {}
    BY <2>2, PublishedMembers
  <2> QED
    BY <1>1, <2>1, <2>3, FS_EmptySet DEF SidesAgree
<1> QED
  BY <1>1, <1>3, <1>5, <1>7, <1>8, <1>9 DEF PipelineInv

\* Every step of the pipeline keeps it.
LEMMA PipelineNextInv == PipelineInv /\ [PipelineNext]_PipelineVars => PipelineInv'
<1>1. ASSUME PipelineInv, PipelineNext PROVE PipelineInv'
  <2>1. IInv'
    BY <1>1, PipelineStepMaps, NextInv DEF PipelineInv
  <2> QED
    BY <1>1, <2>1, ObserverTypesStep, OneOpenRecordStep, RisingRecordsStep, SamplesStep,
      ReadyStep, PublishedStep DEF PipelineInv, SidesAgree
<1>2. ASSUME PipelineInv, UNCHANGED PipelineVars PROVE PipelineInv'
  <2>1. UNCHANGED vars /\ UNCHANGED <<counters, at, direction, events, last>>
    BY <1>2 DEF PipelineVars, observerVars
  <2>2. UNCHANGED <<ring, submitted>>
    BY <2>1 DEF vars, kernelVars
  <2>3. IInv'
    BY <1>2, <2>1, NextInv DEF PipelineInv
  <2>4. ObserverTypes' /\ OneOpenRecord'
    BY <1>2, <2>1 DEF PipelineInv, ObserverTypes, OneOpenRecord
  <2>5. RisingRecords'
    BY <1>2, <2>1 DEF PipelineInv, RisingRecords, RisingFor, Top, Fresh, Numbered
  <2>6. SamplesAccounted'
    BY <1>2, <2>1 DEF PipelineInv, SamplesAccounted, Due, InProgram
  <2>7. Ready' = Ready /\ Published' = Published
    BY <2>1 DEF Ready, Published, PublishedBy
  <2>8. SidesAgree'
    BY <1>2, <2>2, <2>7 DEF PipelineInv, SidesAgree
  <2> QED
    BY <2>3, <2>4, <2>5, <2>6, <2>8 DEF PipelineInv
<1> QED
  BY <1>1, <1>2

-----------------------------------------------------------------------------
(* The pipeline: theorems                                                  *)

\* The invariant of the composed specification, for every number of CPUs,
\* sampling rate, ring size and queue capacity.
THEOREM PipelineInvariant == PipelineSpec => []PipelineInv
BY PipelineInitInv, PipelineNextInv, PTL DEF PipelineSpec

\* The observer's programs use the consumer as its specification allows: the
\* composed system implements EbpfTelemetry, whose guarantees (conservation,
\* one producer, at most two discarded records, a complete drain) it has.
THEOREM PipelineImplementsConsumer == PipelineSpec => Spec
<1>1. PipelineInit => Init
  BY DEF PipelineInit
<1>2. [PipelineNext]_PipelineVars => [Next]_vars
  BY PipelineStepMaps DEF PipelineVars
<1> QED
  BY <1>1, <1>2, PTL DEF PipelineSpec, Spec

\* AccountedDelivery: the counters of the kernel programs and of the consumer
\* together account for every sample that was due.
THEOREM DeliveryAccounted == PipelineSpec => []AccountedDelivery
<1>1. ASSUME PipelineInv PROVE AccountedDelivery
  <2>1. Conservation /\ TypeOK /\ SamplesAccounted
    BY <1>1 DEF PipelineInv, IInv
  <2>2. Cardinality(Published) = submitted /\ Cardinality(Ready) = ring
    BY <1>1 DEF PipelineInv, SidesAgree
  <2>3. RecordsAccounted
    BY <2>1, <2>2, TelemetryAssumption DEF RecordsAccounted, Conservation, InHand, TypeOK
  <2> QED
    BY <2>1, <2>3 DEF AccountedDelivery
<1> QED
  BY <1>1, PipelineInvariant, PTL

\* RisingSequence: a record that is taken from the ring buffer, by the poller
\* or by the drain, has a higher number than all records of its CPU and
\* direction taken before.
THEOREM SequenceRises == PipelineSpec => RisingSequence
<1>1. ASSUME PipelineInv, TakeRecord
      PROVE  \E c \in CPUs, d \in Obs!Directions : last'[c][d] > last[c][d]
  <2>1. ObserverTypes /\ RisingRecords /\ Obs!Consume
    BY <1>1, TakeRecordSteps DEF PipelineInv
  <2>2. /\ events[1] \in Records /\ 1 \in DOMAIN events
        /\ last' = [last EXCEPT ![events[1].cpu][events[1].direction] = events[1].sequence]
    BY <2>1, ConsumeEvents
  <2>3. PICK c \in CPUs, d \in Obs!Directions : events[1].cpu = c /\ events[1].direction = d
    BY <2>2 DEF Records
  <2>4. last[c][d] < events[1].sequence
    BY <2>1, <2>2, <2>3 DEF RisingRecords, RisingFor, Numbered
  <2>5. last'[c][d] = events[1].sequence
    BY <2>1, <2>2, <2>3 DEF ObserverTypes
  <2>6. last[c][d] \in Nat /\ events[1].sequence \in Nat
    BY <2>1, <2>2 DEF ObserverTypes, Records
  <2> QED
    BY <2>4, <2>5, <2>6
<1>2. PipelineInv /\ [PipelineNext]_PipelineVars =>
        [TakeRecord => \E c \in CPUs, d \in Obs!Directions : last'[c][d] > last[c][d]]_PipelineVars
  BY <1>1
<1> QED
  BY <1>2, PipelineInvariant, PTL DEF PipelineSpec, RisingSequence
=============================================================================
