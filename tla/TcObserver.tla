----------------------------- MODULE TcObserver -----------------------------
(***************************************************************************)
(* The observer program (bpf/elephantshrew_tc.bpf.c, es_observe) on        *)
(* several CPUs that share one ring buffer.  Every CPU has counters of its *)
(* own for each direction; sampling takes every sample_every-th selected   *)
(* packet.                                                                 *)
(*                                                                         *)
(* A program is not preempted on its CPU, and nothing else touches that    *)
(* CPU's counters.  One step is therefore everything up to the next access *)
(* to the ring buffer: counting and sampling, the reservation, filling and *)
(* submitting the record, and the counter after it.  The contents of a     *)
(* record other than its sequence number are in TelemetryRecord.           *)
(***************************************************************************)
EXTENDS Integers, Sequences, FiniteSetsExt

CONSTANTS
    CPUs,
    SampleEvery,    \* sample_every, set before load
    RingSlots,      \* records the ring buffer has room for
    MaxPackets      \* bound: packets on all CPUs together

Directions == {"ingress", "egress"}

VARIABLES
    counters,   \* counters[c][d]: the per-CPU map
    at,         \* where the program is on each CPU
    direction,  \* of the packet it is working on
    events,     \* the ring buffer, oldest reservation first
    last        \* last[c][d]: sequence of the newest record consumed

CounterIds == {"PACKETS", "SELECTED", "EVENTS", "RING_LOST"}

ObsInit ==
    /\ counters = [c \in CPUs |-> [d \in Directions |-> [i \in CounterIds |-> 0]]]
    /\ at = [c \in CPUs |-> "idle"]
    /\ direction = [c \in CPUs |-> "ingress"]
    /\ events = <<>>
    /\ last = [c \in CPUs |-> [d \in Directions |-> 0]]

Bump(c, d, ids) ==
    counters' = [counters EXCEPT ![c][d] = [i \in CounterIds |->
                    IF i \in ids THEN @[i] + 1 ELSE @[i]]]

Seen == MapThenSumSet(LAMBDA p : counters[p[1]][p[2]]["PACKETS"], CPUs \X Directions)
Arrives(c) == at[c] = "idle" /\ Seen < MaxPackets

-----------------------------------------------------------------------------
(* es_observe(skb, d) on CPU c                                             *)

\* Whether the packet about to be counted as selected is a sample.
Sampled(c, d) ==
    SampleEvery # 0 /\ (counters[c][d]["SELECTED"] + 1) % SampleEvery = 0

\* select_l4_proto is set and the packet is of another protocol, or could not
\* be parsed.
NotSelected(c, d) ==
    /\ Arrives(c)
    /\ Bump(c, d, {"PACKETS"})
    /\ UNCHANGED <<at, direction, events, last>>

NotSampled(c, d) ==
    /\ Arrives(c) /\ ~Sampled(c, d)
    /\ Bump(c, d, {"PACKETS", "SELECTED"})
    /\ UNCHANGED <<at, direction, events, last>>

TakeSample(c, d) ==
    /\ Arrives(c) /\ Sampled(c, d)
    /\ Bump(c, d, {"PACKETS", "SELECTED"})
    /\ direction' = [direction EXCEPT ![c] = d]
    /\ at' = [at EXCEPT ![c] = "reserve"]
    /\ UNCHANGED <<events, last>>

\* Fault: both directions number their records by the ingress counters.
ReserveIngressNumber(c) ==
    /\ at[c] = "reserve" /\ Len(events) < RingSlots
    /\ events' = Append(events, [cpu |-> c, direction |-> direction[c], ready |-> FALSE,
                                 sequence |-> counters[c]["ingress"]["PACKETS"]])
    /\ at' = [at EXCEPT ![c] = "fill"]
    /\ UNCHANGED <<counters, direction, last>>

\* bpf_ringbuf_reserve: room is taken in the order of the calls, and libbpf
\* sees nothing of the record yet.
Reserve(c) ==
    /\ at[c] = "reserve" /\ Len(events) < RingSlots
    /\ events' = Append(events, [cpu |-> c, direction |-> direction[c], ready |-> FALSE,
                                 sequence |-> counters[c][direction[c]]["PACKETS"]])
    /\ at' = [at EXCEPT ![c] = "fill"]
    /\ UNCHANGED <<counters, direction, last>>

\* Fault: a record that finds no room is forgotten.
ReserveFailsSilently(c) ==
    /\ at[c] = "reserve" /\ Len(events) = RingSlots
    /\ at' = [at EXCEPT ![c] = "idle"]
    /\ UNCHANGED <<counters, direction, events, last>>

ReserveFails(c) ==
    /\ at[c] = "reserve" /\ Len(events) = RingSlots
    /\ Bump(c, direction[c], {"RING_LOST"})
    /\ at' = [at EXCEPT ![c] = "idle"]
    /\ UNCHANGED <<direction, events, last>>

\* The record is filled and submitted.
SubmitRecord(c) ==
    /\ at[c] = "fill"
    /\ events' = [i \in DOMAIN events |->
                    IF events[i].cpu = c /\ ~events[i].ready
                      THEN [events[i] EXCEPT !.ready = TRUE] ELSE events[i]]
    /\ at' = [at EXCEPT ![c] = "count"]
    /\ UNCHANGED <<counters, direction, last>>

CountEvent(c) ==
    /\ at[c] = "count"
    /\ Bump(c, direction[c], {"EVENTS"})
    /\ at' = [at EXCEPT ![c] = "idle"]
    /\ UNCHANGED <<direction, events, last>>

-----------------------------------------------------------------------------
(* libbpf's side of the ring buffer                                        *)

\* The oldest record, if it has been submitted: one that has not hides all
\* those behind it.
HeadReady == events # <<>> /\ Head(events).ready

Consume ==
    /\ HeadReady
    /\ events' = Tail(events)
    /\ last' = [last EXCEPT ![Head(events).cpu][Head(events).direction] = Head(events).sequence]
    /\ UNCHANGED <<counters, at, direction>>
=============================================================================
