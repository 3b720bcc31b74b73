-------------------------- MODULE ThreadPoolProofs --------------------------
(***************************************************************************)
(* Proofs about ThreadPool for every number of workers and jobs.  The      *)
(* invariant adds the mutex: one worker at most is in a critical section,  *)
(* and what it found there (a job, or an empty queue) still holds.         *)
(***************************************************************************)
EXTENDS ThreadPool, FiniteSetTheorems, TLAPS

InSection(w) == at[w] \in {"blocking", "leave"}

\* The mutex is held by one worker at most.
MutualExclusion == \A v, w \in Workers : InSection(v) /\ InSection(w) => v = w

\* What the holder has tested cannot change before it lets the mutex go; only
\* m_is_active can.
SectionKnows ==
    \A w \in Workers : /\ at[w] = "blocking" => m_pending_jobs = <<>>
                       /\ at[w] = "leave" /\ m_is_active => m_pending_jobs # <<>>

\* The inductive invariant.
IInv == TypeOK /\ MutualExclusion /\ SectionKnows /\ NoIdleWhileQueued

USE PoolAssumption

\* The initial state satisfies the invariant.
LEMMA InitInv == Init => IInv
BY DEF Init, IInv, TypeOK, Places, InSection, MutualExclusion, SectionKnows, NoIdleWhileQueued

\* The awake workers are finitely many.
LEMMA AwakeFinite ==
    /\ IsFiniteSet(Awake) /\ Cardinality(Awake) \in Nat
    /\ IsFiniteSet(Awake') /\ Cardinality(Awake') \in Nat
<1>1. Awake \subseteq Workers /\ Awake' \subseteq Workers
  BY DEF Awake
<1> QED
  BY <1>1, FS_Subset, FS_CardinalityType

\* A worker that wakes up adds one to them.
LEMMA AwakeGrows ==
    ASSUME NEW w \in Workers, NEW place \in {"loop", "lock"}, TypeOK,
           at[w] \notin {"loop", "lock", "leave"}, at' = [at EXCEPT ![w] = place]
    PROVE  Cardinality(Awake') = Cardinality(Awake) + 1
<1>1. Awake' = Awake \cup {w} /\ w \notin Awake
  BY DEF Awake, TypeOK
<1> QED
  BY <1>1, AwakeFinite, FS_AddElement

\* A worker that takes a job, or is about to sleep, takes one away.
LEMMA AwakeShrinks ==
    ASSUME NEW w \in Workers, NEW place \in {"run", "blocking", "exited"}, TypeOK,
           at[w] \in {"loop", "lock", "leave"}, at' = [at EXCEPT ![w] = place]
    PROVE  Cardinality(Awake') = Cardinality(Awake) - 1
<1>1. Awake' = Awake \ {w} /\ w \in Awake
  BY DEF Awake, TypeOK
<1> QED
  BY <1>1, AwakeFinite, FS_RemoveElement

\* One that moves on without sleeping leaves them as they are.
LEMMA AwakeStays ==
    ASSUME NEW w \in Workers, NEW place \in {"loop", "lock", "leave"}, TypeOK,
           at[w] \in {"loop", "lock", "leave"}, at' = [at EXCEPT ![w] = place]
    PROVE  Awake' = Awake
BY DEF Awake, TypeOK

\* Every step preserves the invariant.
LEMMA NextInv == IInv /\ [Next]_vars => IInv'
<1> SUFFICES ASSUME IInv, [Next]_vars PROVE IInv'
  OBVIOUS
<1> USE DEF IInv, TypeOK, Places, InSection, MutualExclusion, SectionKnows, NoIdleWhileQueued
<1>1. ASSUME NEW w \in Workers, Spawn(w) PROVE IInv'
  <2>1. Cardinality(Awake') = Cardinality(Awake) + 1
    BY <1>1, AwakeGrows DEF Spawn
  <2> QED
    BY <1>1, <2>1, AwakeFinite DEF Spawn
<1>2. ASSUME NEW w \in Workers, LoopTest(w) PROVE IInv'
  <2>1. CASE m_is_active
    <3>1. Awake' = Awake
      BY <1>2, <2>1, AwakeStays DEF LoopTest
    <3> QED
      BY <1>2, <2>1, <3>1 DEF LoopTest
  <2>2. CASE ~m_is_active
    BY <1>2, <2>2 DEF LoopTest
  <2> QED
    BY <2>1, <2>2
<1>3. ASSUME NEW w \in Workers, TestPredicate(w) PROVE IInv'
  <2>1. CASE MayProceed
    <3>1. Awake' = Awake
      BY <1>3, <2>1, AwakeStays DEF TestPredicate
    <3> QED
      BY <1>3, <2>1, <3>1 DEF TestPredicate, MayProceed, MutexFree
  <2>2. CASE ~MayProceed
    <3>1. Len(m_pending_jobs) = 0
      BY <2>2 DEF MayProceed
    <3> QED
      BY <1>3, <2>2, <3>1, AwakeFinite DEF TestPredicate, MayProceed, MutexFree
  <2> QED
    BY <2>1, <2>2
<1>4. ASSUME NEW w \in Workers, Block(w) PROVE IInv'
  <2>1. Len(m_pending_jobs) = 0
    BY <1>4 DEF Block
  <2> QED
    BY <1>4, <2>1, AwakeFinite DEF Block
<1>5. ASSUME NEW w \in Workers, SpuriousWake(w) PROVE IInv'
  <2>1. Cardinality(Awake') = Cardinality(Awake) + 1
    BY <1>5, AwakeGrows DEF SpuriousWake
  <2> QED
    BY <1>5, <2>1, AwakeFinite DEF SpuriousWake
<1>6. ASSUME NEW w \in Workers, Break(w) PROVE IInv'
  BY <1>6 DEF Break
<1>7. ASSUME NEW w \in Workers, TakeJob(w) PROVE IInv'
  <2>1. m_pending_jobs # <<>>
    BY <1>7 DEF TakeJob
  <2>2. /\ Head(m_pending_jobs) \in Jobs
        /\ Tail(m_pending_jobs) \in Seq(Jobs)
        /\ Len(Tail(m_pending_jobs)) = Len(m_pending_jobs) - 1
    BY <2>1
  <2>3. Cardinality(Awake') = Cardinality(Awake) - 1
    BY <1>7, AwakeShrinks DEF TakeJob
  <2>4. TypeOK' /\ MutualExclusion'
    BY <1>7, <2>2 DEF TakeJob
  <2>5. SectionKnows'
    BY <1>7 DEF TakeJob
  <2>6. NoIdleWhileQueued'
    BY <1>7, <2>2, <2>3, AwakeFinite DEF TakeJob
  <2> QED
    BY <2>4, <2>5, <2>6
<1>8. ASSUME NEW w \in Workers, JobEnds(w) PROVE IInv'
  <2>1. Cardinality(Awake') = Cardinality(Awake) + 1
    BY <1>8, AwakeGrows DEF JobEnds
  <2> QED
    BY <1>8, <2>1, AwakeFinite DEF JobEnds
<1>9. CASE SpawnFails
  BY <1>9 DEF SpawnFails, Awake
<1>10. CASE Constructed
  BY <1>10 DEF Constructed, Awake
<1>11. CASE NotifyAll
  <2>1. ~m_is_active \/ \A w \in Workers : at'[w] # "waiting"
    BY <1>11 DEF NotifyAll
  <2> QED
    BY <1>11, <2>1 DEF NotifyAll
<1>12. CASE Join
  BY <1>12, AwakeFinite DEF Join
<1>13. CASE Close
  BY <1>13 DEF Close
<1>14. ASSUME NEW j \in Jobs, Post(j) PROVE IInv'
  <2>1. /\ Append(m_pending_jobs, j) \in Seq(Jobs)
        /\ Append(m_pending_jobs, j) # <<>>
        /\ Len(Append(m_pending_jobs, j)) = Len(m_pending_jobs) + 1
    OBVIOUS
  <2>2. CASE \E w \in Workers : at[w] = "waiting"
    <3>1. PICK w \in Workers : at[w] = "waiting" /\ at' = [at EXCEPT ![w] = "lock"]
      BY <1>14, <2>2 DEF Post, NotifyOne
    <3>2. Cardinality(Awake') = Cardinality(Awake) + 1
      BY <3>1, AwakeGrows
    <3>3. TypeOK' /\ MutualExclusion' /\ SectionKnows'
      BY <1>14, <2>1, <3>1 DEF Post, MutexFree
    <3>4. NoIdleWhileQueued'
      BY <1>14, <2>1, <3>1, <3>2, AwakeFinite DEF Post
    <3> QED
      BY <3>3, <3>4
  <2>3. CASE ~ \E w \in Workers : at[w] = "waiting"
    BY <1>14, <2>1, <2>3 DEF Post, NotifyOne, MutexFree
  <2> QED
    BY <2>2, <2>3
<1>15. CASE UNCHANGED vars
  BY <1>15 DEF vars, Awake
<1> QED
  BY <1>1, <1>2, <1>3, <1>4, <1>5, <1>6, <1>7, <1>8, <1>9, <1>10, <1>11, <1>12, <1>13, <1>14,
     <1>15
  DEF Next, WorkerStep, OwnerStep, Finished

\* The invariant holds in every reachable state.
THEOREM InvariantHolds == Spec => []IInv
BY InitInv, NextInv, PTL DEF Spec

\* Type correctness of the pool; in particular a worker in job() has a job.
THEOREM TypeCorrect == Spec => []TypeOK
<1>1. IInv => TypeOK
  BY DEF IInv
<1> QED
  BY <1>1, InvariantHolds, PTL

\* One notify_one per Post() is enough: no worker sleeps beside a job that no
\* awake worker will take.
THEOREM NoJobWaitsForSleepers == Spec => []NoIdleWhileQueued
<1>1. IInv => NoIdleWhileQueued
  BY DEF IInv
<1> QED
  BY <1>1, InvariantHolds, PTL
=============================================================================
