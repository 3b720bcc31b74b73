# ElephantShrew: specifications, model checking and proofs

ElephantShrew captures packets on network interfaces, optionally forwards them
from one interface to another, and records them in a Redis stream.  Beside
this capture path the repository holds the building blocks of an eBPF
telemetry path: kernel programs that publish records in ring buffers, an
object that owns a TC filter, a consumer thread and a lock-free queue; and a
thread pool.

This directory models the parts that run concurrently, fail part way, are shut
down under load or decide on packets, checks them with TLC, and proves with
TLAPS every safety property that TLC checks.

## 1. The system

| Component | State it keeps | Operations | Module |
|---|---|---|---|
| Supervisor (`src/ElephantShrewMain.cpp`, `main`) | `g_stopRequested` | signal handler, retry loop, interruptible sleep | `CaptureService` |
| Bootstrapper, `ElephantShrew::Init`, destructor | `opened_devices_`, `receivers_` | resolve, open, start each interface; stop, release, close in reverse | `CaptureService` |
| `PcapReceiver` | `capturing_`, a capture thread of libpcap | `Receive`, `Stop`, `onPacketArrives` (forward, record) | `CaptureService` |
| `RedisPacketStore` | `pending_writes_`, `accepting_writes_`, an `io_context` and its thread | construct (PING with timeout), `Store`, destroy (drain with timeout) | `RedisPacketStore` |
| Command line, runtime configuration | `CliOptions`, `RuntimeConfig` | parse, load JSON, merge, validate | `CommandLine`, `RuntimeConfig` |
| `SpscQueue` | ring, `head_`, `tail_` | `TryPush`, `TryPop` | `SpscQueue`, `BoundedFifo` |
| `EbpfTelemetry` | `abort`, `deadline_ns`, loss counters, a poller thread | `AddSource`, `Start`, `OnEvent`, `FinishAfterDetach`, `TryPop` | `EbpfTelemetry`, `TelemetryPipeline` |
| `TcAttachment` | `attached_`, the filter's identity; the kernel's filter | `Attach`, `Detach`, destructor | `TcAttachment` |
| Observer (`bpf/elephantshrew_tc.bpf.c`) | per-CPU counters, the ring buffer | `es_observe` on ingress and egress | `TcObserver`, `TelemetryRecord` |
| Packet parser (`bpf/packet_parser.bpf.h`) | none | `es_parse` | `PacketParser` |
| Record decoding (`inc/TelemetryTypes.hpp`) | none | `DecodeEvent` | `TelemetryRecord` |
| XDP programs, active policy (`bpf/`) | `active_rules`, counters | `es_xdp`, `es_xsk`, `es_active_ingress` | `IngressPath` |
| `ThreadPool` | `m_pending_jobs`, `m_is_active`, the workers | constructor, `Post`, `Run`, destructor | `ThreadPool` |

How they interact.  `main` parses and merges the configuration and then runs
attempts: each attempt builds a Bootstrapper, which resolves an ElephantShrew
and calls `Init`.  `Init` builds the store (when recording), opens devices and
starts one receiver per capture interface; the receivers share the store.  The
capture threads belong to libpcap and call `onPacketArrives`, which calls
`Store()`; the store hands the request to its own I/O thread.  The main thread
owns everything: teardown destroys receivers (joining their threads), then the
store, then closes the devices.  In the telemetry path the observer runs on
every CPU that handles a packet and submits records to a ring buffer; the
poller thread calls `OnEvent` through libbpf, which decodes a record and pushes
it into the SPSC queue; a sink thread pops; the manager thread starts, finishes
and drains.  The active policy runs on the same hook as the observer and
consults a table that a control plane replaces as a whole.

What is hard: blocked callers against shutdown, a condition variable notified
outside its mutex, slots leaked on error paths, a timeout racing a late
answer, an `Init` that fails half way and is retried, threads inside an object
being destroyed, stale atomics and plain memory in the queue, the hand-over of
the single producer role, deadlines that pass in the middle of a drain,
programs still under way after they are detached, check-then-act on kernel
state that other tools share, lengths at the edge of a packet or of its copied
prefix, and one notification per job in the thread pool.  `PROJECT.json` lists
each hazard at its line, with the properties aimed at it.

## 2. Modules

Every module is parameterised by CONSTANTS; a definition whose comment begins
with "Fault:" is a faulty variant of the definition after it, used to confirm
that the properties can fail.  No other definition uses it.

### RedisPacketStore

One step is one critical section of `pending_mutex_`, one `notify_all`, one
handler of the `io_context`, or one call of the owning thread.  `owner` is the
owning thread's place in the lifetime (`gone`, `validate`, `open`, `closing`,
`drain`, ...), `pc[t]` a caller's place in `Store()`, `io` that of the I/O
thread.  Packets have no identity: `posted` and `inflight` count handlers queued
and requests Redis has not answered.  A request may be answered, fail or be
cancelled at any time or never; `post`, the posted lambda and `async_exec` may
throw.  The condition variable may wake threads spuriously.  The calls that
read or write `conn_` from two threads (`conn_.cancel()` in the owner) are a data
race in the code; the model gives them the outcomes "completed" and "not".

Two rules are left to the store's user and appear as guards: `CallStore` needs a
constructed store, `Free` needs that no caller is inside.

### CaptureService

Composes the store (`Store == INSTANCE RedisPacketStore WITH Callers <- Devices`)
with the main thread and one capture thread per device.  `InitPlan` turns a
configuration into the list of operations `Init` performs, so that each may
fail; `step` is how far control has come in it and stands for no variable of the
code.  The store's two usage rules are dropped (`EnterStore`, `FreeMembers`)
and checked instead, by `StoreUsedCorrectly == Store!Spec`.

### BoundedFifo, SpscQueue

`SpscQueue` splits both operations at every shared access.  `seen_tail` and
`seen_head` are the values the acquire loads return; they lag behind and catch up
one store at a time, which is what coherence of an atomic allows.  Slots are
plain memory.  `BoundedFifo` is the promise: a FIFO of at most `Capacity`
values whose steps are atomic.  The refinement maps the queue to the slots from
`tail` to `head`, so an operation takes effect at its release store.

### EbpfTelemetry

Records are counted, not told apart.  OnEvent is two steps (the shutdown test,
the rest); each libbpf call has a start and an end; time passes at any moment.
The queue is a counter here because `SpscQueue` is shown to be a bounded FIFO,
provided it has one producer, which `SingleProducer` shows.

Detaching a TC program does not wait for invocations under way, so `running`
counts them: one that is in the kernel when the drain begins (`straggler`) may
submit its record behind the drain, or hold a reservation that hides the
records after it from `ring_buffer__consume`.  `DrainIsComplete` therefore speaks
of drains without stragglers.

### TcObserver, TelemetryPipeline

`TcObserver` is `es_observe` on several CPUs.  A program is not preempted on its CPU
and the counters are per CPU, so a step reaches to the next access to the shared
ring buffer: count and sample, reserve, submit, count the event.  `events` keeps
the order of reservations and says which records have been submitted.

`TelemetryPipeline` puts observer and consumer together at the ring buffer.  It
EXTENDS `EbpfTelemetry`, instantiates `TcObserver` and joins their actions: a sample is
an `Enter`, a submission a `Submit`, and libbpf delivers only a record that stands
submitted at the head.  `AccountedDelivery` relates counters that no single
component can see together.

### PacketParser, TelemetryRecord, IngressPath

`PacketParser` is `es_parse` as a chain of operators, one per header.  A frame is a
record of what its headers declare, with real offsets and lengths.  The kernel
passes the parser the first 128 bytes in a zeroed buffer, so `Field` yields 0 for a
byte behind the copy: reading too early is visible as a wrong answer.  The second
half of the module defines from the frame as a whole what a parse should find
(`HasPorts`); the parser's own steps do not appear in it.

`TelemetryRecord` has the contents of a record and the decoder's conditions.
`IngressPath` sends one packet through an XDP program, the observer and the policy.
The copies of packet bytes (`bpf_skb_load_bytes`) and the clone may fail; the
policy's map accesses are separate steps, between which the control plane may
install another table.  Programs keep nothing but counters from one packet to the
next, so one packet is enough here.

### ThreadPool

One step is one critical section or one access to `m_is_active` outside of one.
`m_cv.wait` is split into test, sleep and wake-up, because the destructor stores
`m_is_active` and notifies without the mutex.  Threads may fail to start; jobs may
post jobs, also while the destructor waits for them.  The number of workers may be
zero, as in the code; `JobTaken` is checked with two.

### TcAttachment

Several objects and other tools use one filter identity.  One step is one netlink
call, so anything may happen between the query and the delete of `Detach`.  The state is
the filter at the identity; the clsact qdisc that a failed `Attach` may leave behind is
not part of it.

### RuntimeConfig, CommandLine

Pure operators for the JSON loader and a state machine for argument parsing.  A
text is a sequence of pieces (names and separators).  Unsigned fields keep their
width: `Converted` is modulo `Modulus` (2^64 in the code, 256 in the runs), and
`Milliseconds` converts back to a signed count.  The numbers of a file are integers: the
JSON library would also accept a fraction and truncate it (0.5 becomes 0 and is refused,
1.5 becomes 1), and read an integer from 2^64 on as a floating-point number.

## 3. Runs

| Run | Shows | Bounds |
|---|---|---|
| `packet_store` | `SlotAccounting`, `PendingBounded`, `NoLostWakeup`, `DrainedMeansAnswered`, `DrainMonotone`; `DestructorTerminates`, `ShutdownReleasesCallers`, `ConstructorSettles` | 3 callers, 2 slots: two can hold slots while a third waits |
| `service` | `StoreUsedCorrectly`, `CaptureOnOpenDevices`, `CleanRestart`; `StopEndsProcess`, `FailureRetried` | 2 devices, 8 configurations (auto-selection, two interfaces, one twice, an unknown one, routes in one and both directions, a route to itself), 2 slots |
| `service_dead_redis` | violation of `StopEndsProcess` | one route, 1 slot |
| `spsc_queue` | `NoSlotRace`, `ImplementsFifo`, `FrontLeaves` | 2 values, capacity 3: the ring wraps with every combination of stale views |
| `command_line` | `ServiceConfigUsable`, `CommandLineWins` | all lists of at most 4 arguments over 16 words (routes with each separator, two of one kind and two of different kinds, both ends the same), 14 files, the shipped one included |
| `negative_delay` | violation of `DelaysPositive` | the same words and files, at most 2 arguments |
| `telemetry` | `Conservation`, `SingleProducer`, `CancelIsNotAnError`, `DiscardsBounded`, `DrainIsComplete`, `FinishTerminates` | 4 records, queue of 2, 2 programs at once: overflow, leftovers and stragglers all happen |
| `tc_attachment` | `OwnershipKnown`, `LeakReported` | 2 objects and another tool |
| `tc_detach_race` | violation of `DeletesOwnOnly` | the same |
| `telemetry_pipeline` | `AccountedDelivery`, `RisingSequence` | 2 CPUs (symmetric), both directions, every 2nd packet sampled, 6 packets, ring of 2, queue of 1: the ring fills, a reservation hides a submitted record, and each kind of loss happens |
| `ingress_path` | `ParserExact`, `RecordsDecode`, `OneGeneration` | 2171 frames: four good ones and all that differ from one in at most two fields, with values on both sides of every boundary; 4 set-ups, 4 tables and none, 1 replacement |
| `thread_pool` | `NoIdleWhileQueued`, `JobTaken`, `JoinEnds` | 2 workers, 3 jobs: a notified worker can be overtaken, and jobs outnumber workers |

The runs of the store, the service, the queue, the consumer and the attachment also
check the module's type invariant; that of `ThreadPool` is proved instead.  In
every run the counters are bounded by the code's own limits or by a named
constant: `MaxRecords`, `MaxRunning`, `MaxPackets`, `MaxArgs`, `MaxSwaps`.  Deadlock is checked in every run; states in which
the system is really at its end stutter explicitly (`Terminated`, `Idle`,
`Finished`, `AllGone`).

### What the violations mean

* `service_dead_redis`: when Redis stops completing requests and all slots are
  taken, a capture thread waits in `ReservePendingWriteSlot` without a timeout.
  Ctrl+C makes the main thread stop the receivers, and `stopCapture` joins that
  thread.  `accepting_writes_` would release it, but only the store's destructor
  clears it, and that comes after the join.  `drain_timeout_ms` is never
  reached.
* `tc_detach_race`: the delete of `Detach` removes whatever is at the identity by
  then.

* `negative_delay`: the loader says of a delay or timeout that its "value must be greater
  than 0" (`RuntimeConfig.cpp:42`) and tests an unsigned count for 0.  A negative number
  in the file has been wrapped to a huge count by then, passes, and is negative again as a
  duration; so is a number of 2^63 and more.  `DelaysPositiveInRange` proves that there
  is no other way.

Disagreements that a passing run or a proof states, without a run of their own:

* The repository's README (217-218) says that `-i` overrides the JSON file.
  `CommandLineWins` says what happens instead when the file routes: the command line is
  refused and never runs.  Naming an interface in the file turns routing on, whatever
  `"enabled"` says, so the shipped `elephantshrew.json`, which names two and says false,
  cannot be combined with `-i`.
* The command line accepts `--route a:a`, although the loader refuses equal ends:
  `ServiceConfigUsable` allows them for `--route` only.  With `--bidirectional` the second
  receiver finds the device capturing, `Init` fails, and the supervisor retries for ever;
  so it does for an interface that `-i` names twice.  `FailureRetried` is about these
  attempts too.
* The thread pool's destructor can wait for ever: a worker that has found the
  queue empty and is not asleep yet misses the one notification.  `JoinEnds`
  excludes this case and no other.  No comment, test or document of the repository says
  that the destructor returns, so the case is recorded as a hazard and not as a violation.

## 4. Fairness

* Threads that can run do run, and timed waits end (`OwnerFairness`,
  `ThreadFairness`, `MainStep`, `CaptureStep`): the scheduler and the clock.
* Redis owes nothing in `FairSpec`.  `AnsweringSpec` adds weak fairness for its
  answers; the liveness properties of `service` need it, and `service_dead_redis` shows
  what happens without.
* With two threads recording, one could in principle starve the other: neither
  the mutex nor the condition variable is fair.  `StopEndsProcess` and
  `FailureRetried` therefore speak of configurations in which at most one thread
  records (`OneRecorder`); they do not claim more.
* In `ThreadPool`, threads run, the mutex is granted in the end and jobs return.
  Nobody has to post, no wait has to wake spuriously, and the destructor need
  not be called.
* No packet, signal, destructor call, `FinishAfterDetach` or pop by the
  telemetry sink has to happen.  The consumer of `SpscQueue` polls for ever in
  `FrontLeaves`, which is the premise of that property.

## 5. Proofs

All proofs hold for every value of the constants, under the ASSUMEs of the
modules (finite set of callers, positive limits and capacities, distinct
markers), and are checked to the last leaf.

* **RedisPacketStoreProofs.**  The inductive invariant `IInv` is `TypeOK`, `Lifetime`
  (which I/O and caller states go with which owner state),
  `SlotAccounting`, the bound `pending_writes <= MaxPendingWrites`, `NoLostWakeup`
  and `DrainedSettled` (after a successful drain, writes are refused, nothing is
  pending and nothing can become pending).  `PendingBounded` follows from the
  accounting and the bound.
  `DrainedMeansAnswered` is not inductive on its own: that no
  caller can reserve after the drain needs `accepting_writes` to be false.
  The accounting needs the cardinality of the set of
  slot holders to change by exactly one, from `FiniteSetTheorems`.
* **SpscQueueProofs.**  `IInv` is `TypeOK`, `RingOrder` and `SlotContents` (what each
  thread knows of the slot it is working on).  `RingOrder` states that the
  distances from `seen_tail` over `tail` and `seen_head` to `head` add up, which is
  what makes stale views harmless.  `RaceFree` follows, and
  `QueueImplementsFifo` proves the refinement step by step.
  `RingOrder` is proved for every capacity and not part of a run.
* **TelemetryProofs.**  For the consumer alone, `IInv` adds to the properties
  `ShutdownOrder` (abort before
  the join, the deadline after it, a drain only when detached), `DiscardLedger`
  (a thread that discarded a record has ended), `DrainEmpties`, `RingCounted` and
  `Quiesced` (a drain that began with no program under way meets none later),
  without which a completed drain would not stay complete.  For the pipeline,
  `PipelineStepMaps` shows that each step of observer and consumer together is a step
  of the consumer or invisible to it; hence `PipelineImplementsConsumer`, and `IInv`
  need not be proved again.  `PipelineInv` adds the observer's types, `OneOpenRecord`
  (a CPU has at most one record between reserve and submit), `RisingRecords` (the
  numbers in the ring rise per CPU and direction, from the last one taken on),
  `SamplesAccounted`, and `SidesAgree`: the ring's submitted records and the published
  ones, counted on the observer's side, are as many as the consumer's `ring` and
  `submitted` say.  `DeliveryAccounted` is the consumer's `Conservation` carried over
  by that bridge.
* **CaptureServiceProofs.**  `IInv` contains the store's own inductive invariant
  (through an instance of `RedisPacketStoreProofs`), `StorePlace`, `ReceiverPlace` and
  `DevicePlace` (which store, receivers and open devices go with each position of
  `main` and of `Init`), `ThreadPlace` (only a started receiver has a thread),
  `ThreadDevices` (it works on devices that are open) and `Resolved` (what `Init` has
  passed is known to the host).  `ServiceObeysStoreContract` is the refinement, one
  lemma per action; `StorePromisesKept` transfers the store's theorems.
* **TcAttachmentProofs.**  `IInv` is the type invariant with `OwnershipKnown` and
  `LeakReported`.
* **ThreadPoolProofs.**  `NoIdleWhileQueued` is not inductive: a worker that goes to
  sleep must have seen an empty queue, and one that takes a job must have found
  one.  `IInv` adds `MutualExclusion` and `SectionKnows` (what the holder of the mutex
  tested still holds).  The count of awake workers changes by one per step, from
  `FiniteSetTheorems`.

* **CommandLineProofs.**  `Loaded` says that options are accepted before they are merged,
  that what the service runs with is the merger of options and file that
  `LoadEffectiveConfig` did not refuse, and that it refused only what it throws for.  The
  properties are then facts about operators: `SplitAtIs` and `RouteSays` (where a route is
  split; that a set of positions has a first one is the well-foundedness of the naturals),
  `MergedFacts`, `BaseFacts`, and for the delays `CountRead` and `Duration` (a count modulo
  2^64 and back to a signed one).  `DelaysPositiveInRange` assumes of the files
  (`NumbersInRange`) exactly what `negative_delay` shows to be needed.
* **IngressPathProofs.**  `ParserIsExact` holds for every packet: any number of VLAN
  tags and extension headers, any lengths.  The parser is a pipeline of stages; for each
  stage a lemma says that it keeps the state well formed (`Stage`), takes nothing back
  (`Later`), does under a shorter buffer the same or returns `TRUNCATED` with the
  tuple as it was (`Cut`), and when exactly it goes on, with which offsets.  `Agree`
  composes these along the pipeline, `Tagged` and `Walked` count the rounds of the two loops,
  and `ParsedFacts` puts the stages together.  `ExtTyping` shows that the code's test for
  an extension header of less than 8 bytes, which the model leaves out, never succeeds.
  `EveryRecordDecodes` follows from the shape of the parser's answers (`Answer`) and of the
  snapshot.  For `JudgedByOneGeneration` the invariant is `Judged`: the table the policy holds was
  active since it took the packet, and the rule it found is the one that table
  prescribes.

The assumptions are those of the code and its environment: lists are sequences, flags
are booleans, limits are positive where the configuration loader rejects zero, a frame is any
member of `Frame`, a rule table holds rules.  TLC evaluates each of them on the
instances of the runs.

Only model-checked: the liveness properties (`DestructorTerminates`,
`ShutdownReleasesCallers`, `ConstructorSettles`, `StopEndsProcess`, `FailureRetried`,
`FrontLeaves`, `FinishTerminates`, `JobTaken`, `JoinEnds`), since TLAPS 1.4.5 proves neither
liveness under fairness nor ENABLED; and the three violations, which are counterexamples.

## 6. Not modelled

* What captured packets contain: address extraction, protocol names, hex encoding,
  XADD fields, log lines; in the parser, addresses and port numbers.
* The observer's flow table (`es_count_flow`): which element the kernel's LRU map
  evicts or recycles is the kernel's policy, and a model would repeat an assumption
  about it.
* The eBPF object loader: a straight sequence of libbpf calls under one handle.  The
  capability probes, the interface scanner and the Redis tester: pure I/O.
* `Executor.hpp`: templates that nothing instantiates.
* `ElephantShrewSuper`, the handlers, `UdpReceiver` and `UdpTransmitter`: an
  earlier design the executable does not construct.  `EbpfManager`,
  `EbpfPolicyManager`, `XdpAttachment`, `AfXdpReceiver` and `EbpfOptions` are empty
  files.
* Memory errors inside libraries, and exhaustion of memory outside the paths whose
  exceptions the code catches.

## 7. Plan

Done: RedisPacketStore with proofs; CaptureService over it, with proofs; BoundedFifo and
SpscQueue with proofs; RuntimeConfig and CommandLine with proofs; EbpfTelemetry with proofs;
TcAttachment with proofs; ThreadPool with proofs; TcObserver, composed with
EbpfTelemetry into TelemetryPipeline, with proofs; PacketParser, TelemetryRecord and
IngressPath with proofs.

Next, in this order:

1. The safety parts of the liveness arguments: for `StopEndsProcess` and
   `DestructorTerminates`, that no state under shutdown is stuck, and the measure that each
   step of the main thread lowers.
2. `NoJobWaitsForSleepers` extended to the state in which the thread pool's destructor
   misses a worker, as an invariant that says exactly which worker may sleep on.
