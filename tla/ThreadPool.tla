----------------------------- MODULE ThreadPool -----------------------------
(***************************************************************************)
(* The thread pool (src/ThreadPool.cpp): workers take packaged tasks from  *)
(* a queue under a mutex and a condition variable; Post() adds one and     *)
(* notifies inside the critical section; the destructor clears m_is_active *)
(* without the mutex, notifies all and joins.                              *)
(*                                                                         *)
(* One step is one critical section or one access to m_is_active outside   *)
(* of one.  m_cv.wait is three steps: the predicate is tested with the     *)
(* mutex held, the thread blocks and gives the mutex up, and once notified *)
(* it takes the mutex to test again.                                       *)
(***************************************************************************)
EXTENDS Integers, Sequences, FiniteSets

CONSTANTS
    Workers,    \* the num_threads threads of the pool
    Jobs,       \* packaged tasks
    NoJob       \* what a worker holds that has taken none

\* The constructor accepts a pool without threads.
ASSUME PoolAssumption == IsFiniteSet(Workers) /\ NoJob \notin Jobs

VARIABLES
    pool,           \* where the thread that owns the pool is in its lifetime
    m_is_active,
    m_pending_jobs,
    posted,         \* the jobs that were ever posted
    at,             \* where each worker is
    job             \* the thread_local job of each worker

vars == <<pool, m_is_active, m_pending_jobs, posted, at, job>>

\* Places of a worker: not spawned; at the loop's test; about to lock (for the
\* first test or after a notification); holding the mutex with a false or a
\* true predicate; asleep; in the job; returned from Run.
Places == {"unborn", "loop", "lock", "blocking", "leave", "waiting", "run", "exited"}

\* Type invariant.
TypeOK ==
    /\ pool \in {"constructing", "live", "closing", "joining", "gone", "terminated"}
    /\ m_is_active \in BOOLEAN
    /\ m_pending_jobs \in Seq(Jobs)
    /\ posted \subseteq Jobs
    /\ at \in [Workers -> Places]
    /\ job \in [Workers -> Jobs \cup {NoJob}]
    /\ \A w \in Workers : at[w] = "run" => job[w] \in Jobs

Init ==
    /\ pool = "constructing"
    /\ m_is_active = TRUE
    /\ m_pending_jobs = <<>>
    /\ posted = {}
    /\ at = [w \in Workers |-> "unborn"]
    /\ job = [w \in Workers |-> NoJob]

MutexFree == \A w \in Workers : at[w] \notin {"blocking", "leave"}

-----------------------------------------------------------------------------
(* The constructor                                                         *)

Spawn(w) ==
    /\ pool = "constructing" /\ at[w] = "unborn"
    /\ at' = [at EXCEPT ![w] = "loop"]
    /\ UNCHANGED <<pool, m_is_active, m_pending_jobs, posted, job>>

Constructed ==
    /\ pool = "constructing" /\ \A w \in Workers : at[w] # "unborn"
    /\ pool' = "live"
    /\ UNCHANGED <<m_is_active, m_pending_jobs, posted, at, job>>

\* emplace_back cannot start a thread.  The vector is destroyed; with a
\* joinable thread in it that is std::terminate.
SpawnFails ==
    /\ pool = "constructing" /\ \E w \in Workers : at[w] = "unborn"
    /\ pool' = IF \A w \in Workers : at[w] = "unborn" THEN "gone" ELSE "terminated"
    /\ UNCHANGED <<m_is_active, m_pending_jobs, posted, at, job>>

-----------------------------------------------------------------------------
(* Post                                                                    *)

Alive == pool \notin {"gone", "terminated"}

\* notify_one: some sleeper, if there is one, goes to take the mutex.
NotifyOne ==
    IF \E w \in Workers : at[w] = "waiting"
      THEN \E w \in Workers : at[w] = "waiting" /\ at' = [at EXCEPT ![w] = "lock"]
      ELSE UNCHANGED at

\* Fault: only the job that ends an empty queue is announced.
PostQuietly(j) ==
    /\ pool = "live" \/ (Alive /\ \E w \in Workers : at[w] = "run")
    /\ j \notin posted /\ MutexFree
    /\ m_pending_jobs' = Append(m_pending_jobs, j)
    /\ posted' = posted \cup {j}
    /\ IF m_pending_jobs = <<>> THEN NotifyOne ELSE UNCHANGED at
    /\ UNCHANGED <<pool, m_is_active, job>>

\* Whoever uses the pool posts while it is alive; a job may post as long as it
\* runs, even while the destructor waits for it.
Post(j) ==
    /\ pool = "live" \/ (Alive /\ \E w \in Workers : at[w] = "run")
    /\ j \notin posted /\ MutexFree
    /\ m_pending_jobs' = Append(m_pending_jobs, j)
    /\ posted' = posted \cup {j}
    /\ NotifyOne
    /\ UNCHANGED <<pool, m_is_active, job>>

-----------------------------------------------------------------------------
(* Run, in worker w                                                        *)

LoopTest(w) ==
    /\ Alive /\ at[w] = "loop"
    /\ at' = [at EXCEPT ![w] = IF m_is_active THEN "lock" ELSE "exited"]
    /\ UNCHANGED <<pool, m_is_active, m_pending_jobs, posted, job>>

\* The predicate of m_cv.wait.
MayProceed == m_pending_jobs # <<>> \/ ~m_is_active

TestPredicate(w) ==
    /\ Alive /\ at[w] = "lock" /\ MutexFree
    /\ at' = [at EXCEPT ![w] = IF MayProceed THEN "leave" ELSE "blocking"]
    /\ UNCHANGED <<pool, m_is_active, m_pending_jobs, posted, job>>

\* The wait proper: the mutex is released and the thread sleeps, in one step.
Block(w) ==
    /\ Alive /\ at[w] = "blocking"
    /\ at' = [at EXCEPT ![w] = "waiting"]
    /\ UNCHANGED <<pool, m_is_active, m_pending_jobs, posted, job>>

\* m_cv.wait may return without a notification.
SpuriousWake(w) ==
    /\ Alive /\ at[w] = "waiting"
    /\ at' = [at EXCEPT ![w] = "lock"]
    /\ UNCHANGED <<pool, m_is_active, m_pending_jobs, posted, job>>

\* m_is_active is read once more: shutdown comes before pending jobs.
Break(w) ==
    /\ Alive /\ at[w] = "leave" /\ ~m_is_active
    /\ at' = [at EXCEPT ![w] = "exited"]
    /\ UNCHANGED <<pool, m_is_active, m_pending_jobs, posted, job>>

\* Fault: the worker copies the front and leaves it in the queue.
TakeCopy(w) ==
    /\ Alive /\ at[w] = "leave" /\ m_is_active
    /\ job' = [job EXCEPT ![w] = Head(m_pending_jobs)]
    /\ at' = [at EXCEPT ![w] = "run"]
    /\ UNCHANGED <<pool, m_is_active, m_pending_jobs, posted>>

TakeJob(w) ==
    /\ Alive /\ at[w] = "leave" /\ m_is_active
    /\ job' = [job EXCEPT ![w] = Head(m_pending_jobs)]
    /\ m_pending_jobs' = Tail(m_pending_jobs)
    /\ at' = [at EXCEPT ![w] = "run"]
    /\ UNCHANGED <<pool, m_is_active, posted>>

\* job() returns; what it throws goes to its future.
JobEnds(w) ==
    /\ Alive /\ at[w] = "run"
    /\ at' = [at EXCEPT ![w] = "loop"]
    /\ UNCHANGED <<pool, m_is_active, m_pending_jobs, posted, job>>

-----------------------------------------------------------------------------
(* The destructor                                                          *)

Close ==
    /\ pool = "live"
    /\ m_is_active' = FALSE
    /\ pool' = "closing"
    /\ UNCHANGED <<m_pending_jobs, posted, at, job>>

\* Fault: one worker is notified.
NotifyOnlyOne ==
    /\ pool = "closing"
    /\ NotifyOne
    /\ pool' = "joining"
    /\ UNCHANGED <<m_is_active, m_pending_jobs, posted, job>>

NotifyAll ==
    /\ pool = "closing"
    /\ at' = [w \in Workers |-> IF at[w] = "waiting" THEN "lock" ELSE at[w]]
    /\ pool' = "joining"
    /\ UNCHANGED <<m_is_active, m_pending_jobs, posted, job>>

\* Every thread is joined; the jobs left in the queue are destroyed unrun.
Join ==
    /\ pool = "joining" /\ \A w \in Workers : at[w] = "exited"
    /\ pool' = "gone"
    /\ m_pending_jobs' = <<>>
    /\ UNCHANGED <<m_is_active, posted, at, job>>

-----------------------------------------------------------------------------
WorkerStep(w) ==
    \/ LoopTest(w) \/ TestPredicate(w) \/ Block(w)
    \/ Break(w) \/ TakeJob(w) \/ JobEnds(w)

OwnerStep == Constructed \/ NotifyAll \/ Join

\* The pool is gone, or its construction failed.
Finished == ~Alive /\ UNCHANGED vars

Next ==
    \/ \E w \in Workers : Spawn(w) \/ WorkerStep(w) \/ SpuriousWake(w)
    \/ SpawnFails \/ OwnerStep \/ Close
    \/ \E j \in Jobs : Post(j)
    \/ Finished

Spec == Init /\ [][Next]_vars

\* Threads run when they can, the mutex included, and jobs end.  Nobody has to
\* post or to destroy the pool, and no wait has to wake spuriously.
FairSpec ==
    /\ Spec
    /\ \A w \in Workers : WF_vars(WorkerStep(w))
    /\ WF_vars(OwnerStep)

-----------------------------------------------------------------------------
(* Properties                                                              *)

\* Workers that will test the predicate before they sleep.
Awake == {w \in Workers : at[w] \in {"loop", "lock", "leave"}}

\* No worker sleeps while a job waits that no other worker is about to take:
\* notify_one per Post() is enough, although a notified worker may find its
\* job gone and others take jobs without having been notified.
NoIdleWhileQueued ==
    m_is_active /\ (\E w \in Workers : at[w] = "waiting")
        => Len(m_pending_jobs) <= Cardinality(Awake)

\* Every posted job is taken, unless the destructor begins first.  A pool
\* without threads takes none: the runs have two.
JobTaken ==
    \A j \in Jobs :
        (\E i \in DOMAIN m_pending_jobs : m_pending_jobs[i] = j) ~>
            (\/ ~m_is_active
             \/ ~ \E i \in DOMAIN m_pending_jobs : m_pending_jobs[i] = j)

\* The destructor returns if no worker is inside m_cv.wait, between its test
\* and its sleep, when it notifies.  A worker that is there misses the
\* notification, because m_is_active is cleared outside the mutex, and join()
\* waits for it for ever: the condition cannot be dropped.
JoinEnds ==
    (pool = "closing" /\ \A w \in Workers : at[w] # "blocking") ~> pool = "gone"
=============================================================================
