---------------------------- MODULE WorkQueueProofs ----------------------------
(***************************************************************************)
(* Proofs about WorkQueue, for every set of workers, every set of items    *)
(* and every capacity.                                                     *)
(***************************************************************************)
EXTENDS WorkQueue, Sequences, FiniteSetTheorems, TLAPS

(* The invariants of the runs, together, are inductive. *)
IInv ==
  /\ TypeOK
  /\ PendingJobsExact
  /\ NoLostJobSignal
  /\ CallerWillBeWoken
  /\ JobPointersValid

--------------------------------------------------------------------------------
(* Lemmas on sets of workers and on the circular locations. *)

(* A location stays inside the buffer when it is advanced, and wraps at    *)
(* the end (m_iCurrReadLoc and m_iCurrWriteLoc).                           *)
LEMMA Advance ==
  ASSUME NEW n \in Nat, NEW x \in Nat, x < n
  PROVE  /\ (x + 1) % n = IF x + 1 = n THEN 0 ELSE x + 1
         /\ (x + 1) % n \in Nat
         /\ (x + 1) % n < n
OBVIOUS

LEMMA WorkersFinite ==
  ASSUME NEW S, S \subseteq Workers
  PROVE  IsFiniteSet(S) /\ Cardinality(S) \in Nat
BY WorkQueueAssumption, FS_Subset, FS_CardinalityType

(* The sets of workers by program counter, after one worker has moved. *)
LEMMA MoveWorker ==
  ASSUME TypeOK, NEW w \in Workers, NEW b \in WorkerPcs,
         pc' = [pc EXCEPT ![w] = b]
  PROVE  \A l \in WorkerPcs :
           At(l)' = IF l = b THEN At(l) \cup {w} ELSE At(l) \ {w}
BY DEF TypeOK, At

(* SignalJobAvail moves at most one worker, and only out of the wait set. *)
LEMMA SignalMoves ==
  ASSUME TypeOK, SignalJobAvail
  PROVE  \/ At("waitJobAvail") = {} /\ pc' = pc
         \/ \E w \in Workers : /\ pc[w] = "waitJobAvail"
                               /\ pc' = [pc EXCEPT ![w] = "GetNextJob"]
BY DEF SignalJobAvail, At

--------------------------------------------------------------------------------
LEMMA InitIInv == Init => IInv
<1> SUFFICES ASSUME Init PROVE IInv
  OBVIOUS
<1>1. TypeOK
  BY WorkQueueAssumption DEF Init, TypeOK, WorkerPcs, CallerPcs, Slots
<1>2. PendingJobsExact
  <2>1. UnderProcess = {}
    BY DEF Init, UnderProcess, At
  <2> QED
    BY <2>1, FS_EmptySet DEF Init, PendingJobsExact
<1>3. NoLostJobSignal
  BY DEF Init, NoLostJobSignal, At
<1>4. CallerWillBeWoken
  BY DEF Init, CallerWillBeWoken
<1>5. JobPointersValid
  BY WorkQueueAssumption DEF Init, JobPointersValid, LiveSlot
<1> QED
  BY <1>1, <1>2, <1>3, <1>4, <1>5 DEF IInv

(* Everything has its type: the size stays within the capacity and both    *)
(* locations within the buffer.                                            *)
LEMMA StepTypeOK ==
  ASSUME IInv, [Next]_vars
  PROVE  TypeOK'
<1> USE WorkQueueAssumption DEF IInv, TypeOK, WorkerPcs, CallerPcs, Slots
<1>1. CASE AddToJobFull
  BY <1>1 DEF AddToJobFull, buffer
<1>2. ASSUME NEW item \in Items, AddToJob(item) PROVE TypeOK'
  <2>1. iSize > 0 /\ m_iCurrSize < iSize
    BY <1>2 DEF AddToJob
  <2>2. m_iCurrWriteLoc' \in Nat /\ m_iCurrWriteLoc' < iSize
    BY <1>2, <2>1, Advance DEF AddToJob
  <2>3. pc' \in [Workers -> WorkerPcs]
    BY <1>2, SignalMoves DEF AddToJob
  <2> QED
    BY <1>2, <2>1, <2>2, <2>3 DEF AddToJob
<1>3. CASE CallWaitQueueEmpty
  BY <1>3 DEF CallWaitQueueEmpty, buffer
<1>4. CASE WaitQueueEmptyWait
  BY <1>4 DEF WaitQueueEmptyWait, buffer
<1>5. CASE WaitQueueEmptyReturn
  BY <1>5 DEF WaitQueueEmptyReturn, buffer
<1>6. CASE CallerSpuriousWakeup
  BY <1>6 DEF CallerSpuriousWakeup, buffer
<1>7. ASSUME NEW w \in Workers, GetNextJobWait(w) PROVE TypeOK'
  BY <1>7 DEF GetNextJobWait, buffer
<1>8. ASSUME NEW w \in Workers, GetNextJob(w) PROVE TypeOK'
  <2>1. iSize > 0 /\ m_iCurrSize > 0
    BY <1>8 DEF GetNextJob
  <2>2. m_iCurrReadLoc' \in Nat /\ m_iCurrReadLoc' < iSize
    BY <1>8, <2>1, Advance DEF GetNextJob
  <2> QED
    BY <1>8, <2>1, <2>2 DEF GetNextJob
<1>9. ASSUME NEW w \in Workers, SpuriousWakeup(w) PROVE TypeOK'
  BY <1>9 DEF SpuriousWakeup, buffer
<1>10. ASSUME NEW w \in Workers, IncNumJobsUnderProcess(w) PROVE TypeOK'
  BY <1>10 DEF IncNumJobsUnderProcess, buffer
<1>11. ASSUME NEW w \in Workers, JobReturns(w) PROVE TypeOK'
  BY <1>11 DEF JobReturns, buffer
<1>12. ASSUME NEW w \in Workers, JobDone(w) PROVE TypeOK'
  <2>1. w \in UnderProcess
    BY <1>12 DEF JobDone, UnderProcess, At
  <2>2. UnderProcess \subseteq Workers
    BY DEF UnderProcess, At
  <2>3. m_iPendingJobs > 0
    BY <2>1, <2>2, WorkersFinite, FS_EmptySet DEF PendingJobsExact
  <2> QED
    BY <1>12, <2>3 DEF JobDone, SignalQueueEmpty, buffer
<1>13. CASE UNCHANGED vars
  BY <1>13 DEF vars
<1> QED
  BY <1>1, <1>2, <1>3, <1>4, <1>5, <1>6, <1>7, <1>8, <1>9, <1>10, <1>11, <1>12, <1>13
  DEF Next, RunThread

LEMMA StepPendingJobsExact ==
  ASSUME IInv, [Next]_vars
  PROVE  PendingJobsExact'
<1> USE DEF IInv, PendingJobsExact, WorkerPcs
<1>0. UnderProcess \subseteq Workers /\ IsFiniteSet(UnderProcess)
  BY WorkersFinite DEF UnderProcess, At
<1>1. CASE AddToJobFull
  BY <1>1 DEF AddToJobFull, UnderProcess, At
<1>2. ASSUME NEW item \in Items, AddToJob(item) PROVE PendingJobsExact'
  <2>1. UnderProcess' = UnderProcess
    BY <1>2, SignalMoves DEF AddToJob, TypeOK, UnderProcess, At
  <2> QED
    BY <1>2, <2>1 DEF AddToJob
<1>3. CASE CallWaitQueueEmpty \/ WaitQueueEmptyWait \/ WaitQueueEmptyReturn
           \/ CallerSpuriousWakeup
  BY <1>3 DEF CallWaitQueueEmpty, WaitQueueEmptyWait, WaitQueueEmptyReturn,
              CallerSpuriousWakeup, UnderProcess, At
<1>4. ASSUME NEW w \in Workers,
             GetNextJobWait(w) \/ GetNextJob(w) \/ SpuriousWakeup(w) \/ JobReturns(w)
      PROVE  PendingJobsExact'
  <2>1. UnderProcess' = UnderProcess
    BY <1>4 DEF GetNextJobWait, GetNextJob, SpuriousWakeup, JobReturns,
                UnderProcess, At, TypeOK
  <2> QED
    BY <1>4, <2>1 DEF GetNextJobWait, GetNextJob, SpuriousWakeup, JobReturns
<1>5. ASSUME NEW w \in Workers, IncNumJobsUnderProcess(w) PROVE PendingJobsExact'
  <2>1. w \notin UnderProcess /\ UnderProcess' = UnderProcess \cup {w}
    BY <1>5 DEF IncNumJobsUnderProcess, UnderProcess, At, TypeOK
  <2> QED
    BY <1>0, <1>5, <2>1, FS_AddElement DEF IncNumJobsUnderProcess
<1>6. ASSUME NEW w \in Workers, JobDone(w) PROVE PendingJobsExact'
  <2>1. w \in UnderProcess /\ UnderProcess' = UnderProcess \ {w}
    BY <1>6 DEF JobDone, UnderProcess, At, TypeOK
  <2> QED
    BY <1>0, <1>6, <2>1, FS_RemoveElement DEF JobDone
<1>7. CASE UNCHANGED vars
  BY <1>7 DEF vars, UnderProcess, At
<1> QED
  BY <1>1, <1>2, <1>3, <1>4, <1>5, <1>6, <1>7 DEF Next, RunThread

LEMMA StepNoLostJobSignal ==
  ASSUME IInv, [Next]_vars
  PROVE  NoLostJobSignal'
<1> USE DEF IInv, NoLostJobSignal, WorkerPcs
<1>0. \A l : IsFiniteSet(At(l)) /\ Cardinality(At(l)) \in Nat
  BY WorkersFinite DEF At
<1>a. \A l : IsFiniteSet(At(l)') /\ Cardinality(At(l)') \in Nat
  BY WorkersFinite DEF At
<1>b. ASSUME UNCHANGED <<m_iCurrSize, pc>> PROVE NoLostJobSignal'
  BY <1>b DEF At
<1>1. CASE AddToJobFull
  BY <1>1, <1>b DEF AddToJobFull, buffer
<1>2. ASSUME NEW item \in Items, AddToJob(item) PROVE NoLostJobSignal'
  <2>1. CASE At("waitJobAvail") = {} /\ pc' = pc
    BY <2>1 DEF At
  <2>2. ASSUME NEW w \in Workers, pc[w] = "waitJobAvail",
               pc' = [pc EXCEPT ![w] = "GetNextJob"]
        PROVE  NoLostJobSignal'
    <3>1. At("GetNextJob")' = At("GetNextJob") \cup {w}
      BY <2>2, MoveWorker
    <3>2. w \notin At("GetNextJob") /\ w \in At("waitJobAvail")
      BY <2>2 DEF At
    <3>3. Cardinality(At("GetNextJob")') = Cardinality(At("GetNextJob")) + 1
      BY <1>0, <3>1, <3>2, FS_AddElement
    <3> QED
      BY <1>0, <1>2, <3>2, <3>3 DEF AddToJob, TypeOK
  <2> QED
    BY <1>2, <2>1, <2>2, SignalMoves DEF AddToJob
<1>3. CASE CallWaitQueueEmpty \/ WaitQueueEmptyWait \/ WaitQueueEmptyReturn
           \/ CallerSpuriousWakeup
  BY <1>3, <1>b DEF CallWaitQueueEmpty, WaitQueueEmptyWait, WaitQueueEmptyReturn,
              CallerSpuriousWakeup, buffer
<1>4. ASSUME NEW w \in Workers, GetNextJobWait(w) PROVE NoLostJobSignal'
  BY <1>a, <1>4 DEF GetNextJobWait, buffer
<1>5. ASSUME NEW w \in Workers, GetNextJob(w) PROVE NoLostJobSignal'
  <2>1. w \in At("GetNextJob") /\ At("GetNextJob")' = At("GetNextJob") \ {w}
    BY <1>5, MoveWorker DEF GetNextJob, At
  <2>2. At("waitJobAvail")' = At("waitJobAvail")
    BY <1>5 DEF GetNextJob, At, TypeOK
  <2>3. Cardinality(At("GetNextJob")') = Cardinality(At("GetNextJob")) - 1
    BY <1>0, <2>1, FS_RemoveElement
  <2> QED
    BY <1>0, <1>5, <2>2, <2>3 DEF GetNextJob, TypeOK
<1>6. ASSUME NEW w \in Workers, SpuriousWakeup(w) \/ JobDone(w) PROVE NoLostJobSignal'
  <2>1. /\ At("GetNextJob")' = At("GetNextJob") \cup {w}
        /\ At("waitJobAvail")' \subseteq At("waitJobAvail")
        /\ w \notin At("GetNextJob")
    BY <1>6, MoveWorker DEF SpuriousWakeup, JobDone, At
  <2>2. Cardinality(At("GetNextJob")') = Cardinality(At("GetNextJob")) + 1
    BY <1>0, <2>1, FS_AddElement
  <2>3. m_iCurrSize' = m_iCurrSize
    BY <1>6 DEF SpuriousWakeup, JobDone, buffer
  <2> QED
    BY <1>0, <2>1, <2>2, <2>3 DEF TypeOK
<1>7. ASSUME NEW w \in Workers, IncNumJobsUnderProcess(w) \/ JobReturns(w)
      PROVE  NoLostJobSignal'
  <2>1. /\ At("GetNextJob")' = At("GetNextJob")
        /\ At("waitJobAvail")' = At("waitJobAvail")
    BY <1>7 DEF IncNumJobsUnderProcess, JobReturns, At, TypeOK
  <2>2. m_iCurrSize' = m_iCurrSize
    BY <1>7 DEF IncNumJobsUnderProcess, JobReturns, buffer
  <2> QED
    BY <2>1, <2>2
<1>8. CASE UNCHANGED vars
  BY <1>8, <1>b DEF vars
<1> QED
  BY <1>1, <1>2, <1>3, <1>4, <1>5, <1>6, <1>7, <1>8 DEF Next, RunThread

LEMMA StepCallerWillBeWoken ==
  ASSUME IInv, [Next]_vars
  PROVE  CallerWillBeWoken'
<1> USE DEF IInv, CallerWillBeWoken, Uncounted
<1>1. CASE AddToJobFull
  BY <1>1 DEF AddToJobFull, buffer, At
<1>2. ASSUME NEW item \in Items, AddToJob(item) PROVE CallerWillBeWoken'
  BY <1>2 DEF AddToJob
<1>3. CASE CallWaitQueueEmpty \/ WaitQueueEmptyReturn \/ CallerSpuriousWakeup
  BY <1>3 DEF CallWaitQueueEmpty, WaitQueueEmptyReturn, CallerSpuriousWakeup
<1>4. CASE WaitQueueEmptyWait
  BY <1>4 DEF WaitQueueEmptyWait, buffer
<1>5. ASSUME NEW w \in Workers, GetNextJobWait(w) \/ SpuriousWakeup(w) \/ JobReturns(w)
      PROVE  CallerWillBeWoken'
  <2>1. At("IncNumJobsUnderProcess")' = At("IncNumJobsUnderProcess")
    BY <1>5 DEF GetNextJobWait, SpuriousWakeup, JobReturns, At, TypeOK
  <2> QED
    BY <1>5, <2>1 DEF GetNextJobWait, SpuriousWakeup, JobReturns, buffer
<1>6. ASSUME NEW w \in Workers, GetNextJob(w) PROVE CallerWillBeWoken'
  BY <1>6 DEF GetNextJob, At, TypeOK
<1>7. ASSUME NEW w \in Workers, IncNumJobsUnderProcess(w) PROVE CallerWillBeWoken'
  BY <1>7 DEF IncNumJobsUnderProcess, TypeOK
<1>8. ASSUME NEW w \in Workers, JobDone(w) PROVE CallerWillBeWoken'
  <2>1. At("IncNumJobsUnderProcess")' = At("IncNumJobsUnderProcess")
    BY <1>8 DEF JobDone, At, TypeOK
  <2>2. m_iPendingJobs' \in Nat /\ m_iCurrSize \in Nat
    BY WorkQueueAssumption, StepTypeOK DEF TypeOK
  <2>3. m_iCurrSize' = m_iCurrSize
    BY <1>8 DEF JobDone, buffer
  <2>4. callerPc' = "waitQueueEmpty" =>
          callerPc = "waitQueueEmpty" /\ ~(m_iPendingJobs' = 0 /\ m_iCurrSize = 0)
    BY <1>8 DEF JobDone, SignalQueueEmpty
  <2> QED
    BY <2>1, <2>2, <2>3, <2>4
<1>9. CASE UNCHANGED vars
  BY <1>9 DEF vars, At
<1> QED
  BY <1>1, <1>2, <1>3, <1>4, <1>5, <1>6, <1>7, <1>8, <1>9 DEF Next, RunThread

LEMMA StepJobPointersValid ==
  ASSUME IInv, [Next]_vars
  PROVE  JobPointersValid'
<1> USE WorkQueueAssumption DEF IInv, JobPointersValid, WorkerPcs
<1>a. ASSUME UNCHANGED <<buffer, pc, pcWorkItem>> PROVE JobPointersValid'
  BY <1>a DEF buffer, LiveSlot
<1>1. CASE AddToJobFull
  BY <1>1, <1>a DEF AddToJobFull
<1>2. ASSUME NEW item \in Items, AddToJob(item) PROVE JobPointersValid'
  <2>1. iSize > 0 /\ m_iCurrSize < iSize
    BY <1>2 DEF AddToJob, TypeOK
  <2>2. \A w \in Workers : pcWorkItem'[w] \in Items <=>
                             pc'[w] \notin {"GetNextJob", "waitJobAvail"}
    BY <1>2, SignalMoves DEF AddToJob, TypeOK
  <2>3. \A k \in 0 .. m_iCurrSize :
          /\ LiveSlot(k)' = LiveSlot(k)
          /\ LiveSlot(k) \in Slots
          /\ k < m_iCurrSize => LiveSlot(k) # m_iCurrWriteLoc
    BY <1>2, <2>1 DEF AddToJob, TypeOK, LiveSlot, Slots
  <2>4. \A k \in 0 .. (m_iCurrSize' - 1) : m_ppcWorkItemQueue'[LiveSlot(k)'] \in Items
    <3> SUFFICES ASSUME NEW k \in 0 .. m_iCurrSize
                 PROVE  m_ppcWorkItemQueue'[LiveSlot(k)'] \in Items
      BY <1>2 DEF AddToJob, TypeOK
    <3>1. CASE k = m_iCurrSize
      BY <1>2, <2>1, <2>3, <3>1 DEF AddToJob, TypeOK
    <3>2. CASE k # m_iCurrSize
      <4>1. k \in 0 .. (m_iCurrSize - 1)
        BY <3>2 DEF TypeOK
      <4> QED
        BY <1>2, <2>1, <2>3, <4>1 DEF AddToJob, TypeOK
    <3> QED
      BY <3>1, <3>2
  <2>5. m_iCurrWriteLoc' = LiveSlot(m_iCurrSize)'
    BY <1>2, <2>1, Advance DEF AddToJob, TypeOK, LiveSlot
  <2> QED
    BY <2>2, <2>4, <2>5
<1>3. CASE CallWaitQueueEmpty \/ WaitQueueEmptyWait \/ WaitQueueEmptyReturn
           \/ CallerSpuriousWakeup
  BY <1>3, <1>a DEF CallWaitQueueEmpty, WaitQueueEmptyWait, WaitQueueEmptyReturn,
              CallerSpuriousWakeup
<1>4. ASSUME NEW w \in Workers,
             GetNextJobWait(w) \/ SpuriousWakeup(w) \/ IncNumJobsUnderProcess(w)
               \/ JobReturns(w) \/ JobDone(w)
      PROVE  JobPointersValid'
  <2>1. \A k \in 0 .. m_iCurrSize : LiveSlot(k)' = LiveSlot(k)
    BY <1>4 DEF GetNextJobWait, SpuriousWakeup, IncNumJobsUnderProcess, JobReturns,
                JobDone, buffer, LiveSlot
  <2>2. \A v \in Workers : pcWorkItem'[v] \in Items <=>
                             pc'[v] \notin {"GetNextJob", "waitJobAvail"}
    BY <1>4 DEF GetNextJobWait, SpuriousWakeup, IncNumJobsUnderProcess, JobReturns,
                JobDone, TypeOK
  <2> QED
    BY <1>4, <2>1, <2>2 DEF GetNextJobWait, SpuriousWakeup, IncNumJobsUnderProcess,
                            JobReturns, JobDone, buffer, TypeOK
<1>5. ASSUME NEW w \in Workers, GetNextJob(w) PROVE JobPointersValid'
  <2>1. iSize > 0 /\ m_iCurrSize > 0
    BY <1>5 DEF GetNextJob, TypeOK
  <2>2. m_iCurrReadLoc = LiveSlot(0)
    BY <2>1 DEF LiveSlot, TypeOK
  <2>3. \A k \in 0 .. (m_iCurrSize - 1) : LiveSlot(k)' = LiveSlot(k + 1)
    BY <1>5, <2>1, Advance DEF GetNextJob, TypeOK, LiveSlot
  <2>4. \A v \in Workers : pcWorkItem'[v] \in Items <=>
                             pc'[v] \notin {"GetNextJob", "waitJobAvail"}
    BY <1>5, <2>1, <2>2 DEF GetNextJob, TypeOK
  <2>5. \A k \in 0 .. (m_iCurrSize' - 1) : m_ppcWorkItemQueue'[LiveSlot(k)'] \in Items
    BY <1>5, <2>1, <2>3 DEF GetNextJob, TypeOK
  <2>6. m_iCurrWriteLoc' = LiveSlot(m_iCurrSize)'
    BY <1>5, <2>1, <2>3 DEF GetNextJob, TypeOK
  <2> QED
    BY <2>4, <2>5, <2>6
<1>6. CASE UNCHANGED vars
  BY <1>6, <1>a DEF vars, buffer
<1> QED
  BY <1>1, <1>2, <1>3, <1>4, <1>5, <1>6 DEF Next, RunThread

--------------------------------------------------------------------------------
(* The inductive invariant. *)
LEMMA Invariance == Spec => []IInv
<1>1. IInv /\ [Next]_vars => IInv'
  BY StepTypeOK, StepPendingJobsExact, StepNoLostJobSignal, StepCallerWillBeWoken,
     StepJobPointersValid DEF IInv
<1> QED
  BY InitIInv, <1>1, PTL DEF Spec

(***************************************************************************)
(* Type correctness: in every reachable state the size is within the       *)
(* capacity, both locations are within the circular buffer, and the number *)
(* of pending jobs, decremented by JobDone, is not negative.               *)
(***************************************************************************)
THEOREM TypeCorrectness == Spec => []TypeOK
BY Invariance, PTL DEF IInv

(***************************************************************************)
(* m_iPendingJobs is exact: the count that WaitQueueEmpty tests is the     *)
(* number of workers between IncNumJobsUnderProcess and JobDone.           *)
(***************************************************************************)
THEOREM PendingJobsCount == Spec => []PendingJobsExact
BY Invariance, PTL DEF IInv

(***************************************************************************)
(* GetNextJob loses no wake-up: as long as a worker sleeps, there are as   *)
(* many awake workers about to take a job as there are jobs queued.        *)
(***************************************************************************)
THEOREM NoLostWakeup == Spec => []NoLostJobSignal
BY Invariance, PTL DEF IInv

(***************************************************************************)
(* WaitQueueEmpty loses no wake-up: while the caller sleeps, there is a    *)
(* job queued, taken or under process whose JobDone is still to come.      *)
(***************************************************************************)
THEOREM CallerWakeup == Spec => []CallerWillBeWoken
BY Invariance, PTL DEF IInv

(***************************************************************************)
(* Workers and the live window of the circular buffer hold valid work      *)
(* items only.                                                             *)
(***************************************************************************)
THEOREM PointersValid == Spec => []JobPointersValid
BY Invariance, PTL DEF IInv

(***************************************************************************)
(* What WaitQueueEmpty really gives its caller: on return nothing is       *)
(* queued, and a job that is not finished was taken by a worker that has   *)
(* not counted it yet.                                                     *)
(***************************************************************************)
THEOREM WaitReturn == Spec => WaitReturnsEmpty
<1> DEFINE A == callerPc = "WaitQueueEmpty" /\ callerPc' = "run" =>
                  /\ m_iCurrSize = 0
                  /\ \A w \in Workers : pcWorkItem[w] # NoItem => w \in Uncounted
<1>1. ASSUME IInv, Next, callerPc = "WaitQueueEmpty", callerPc' = "run" PROVE A
  <2> USE <1>1 DEF IInv
  <2>1. WaitQueueEmptyReturn
    BY DEF Next, RunThread, AddToJobFull, AddToJob, CallWaitQueueEmpty,
           WaitQueueEmptyWait, CallerSpuriousWakeup, GetNextJobWait, GetNextJob,
           SpuriousWakeup, IncNumJobsUnderProcess, JobReturns, JobDone,
           SignalQueueEmpty
  <2>2. m_iPendingJobs = 0 /\ m_iCurrSize = 0
    BY <2>1, WorkQueueAssumption DEF WaitQueueEmptyReturn, TypeOK
  <2>3. UnderProcess = {}
    <3>1. IsFiniteSet(UnderProcess)
      BY WorkersFinite DEF UnderProcess, At
    <3> QED
      BY <2>2, <3>1, FS_EmptySet DEF PendingJobsExact
  <2>4. ASSUME NEW w \in Workers, pcWorkItem[w] # NoItem PROVE w \in Uncounted
    BY <2>3, <2>4 DEF TypeOK, JobPointersValid, WorkerPcs, UnderProcess, Uncounted, At
  <2> QED
    BY <2>2, <2>4
<1>2. IInv /\ [Next]_vars => [A]_vars
  BY <1>1
<1> QED
  BY Invariance, <1>2, PTL DEF Spec, WaitReturnsEmpty

--------------------------------------------------------------------------------
(* The circular buffer, its counters and its condition variables implement *)
(* JobPool, for every set of workers, every set of items and every         *)
(* capacity.                                                               *)

(* The queue of the pool. *)
PoolQueue == [k \in 1 .. m_iCurrSize |-> m_ppcWorkItemQueue[LiveSlot(k - 1)]]

PoolQueueFacts ==
  /\ m_iCurrSize \in Nat
  /\ PoolQueue \in Seq(Items)
  /\ Len(PoolQueue) = m_iCurrSize
  /\ \A k \in 1 .. m_iCurrSize : PoolQueue[k] = m_ppcWorkItemQueue[LiveSlot(k - 1)]

LEMMA PoolQueueIsSeq == IInv => PoolQueueFacts
<1> SUFFICES ASSUME IInv PROVE PoolQueueFacts
  OBVIOUS
<1> USE DEF IInv, PoolQueue
<1>1. m_iCurrSize \in Nat
  BY WorkQueueAssumption DEF TypeOK
<1>2. \A k \in 1 .. m_iCurrSize : m_ppcWorkItemQueue[LiveSlot(k - 1)] \in Items
  <2> TAKE k \in 1 .. m_iCurrSize
  <2>1. k - 1 \in 0 .. (m_iCurrSize - 1)
    BY <1>1
  <2> QED
    BY <2>1 DEF JobPointersValid
<1> QED
  BY <1>1, <1>2 DEF PoolQueueFacts

(* The same facts of the next state. *)
LEMMA PoolQueueIsSeqNext == IInv' => PoolQueueFacts'
BY PoolQueueIsSeq, PTL

(* A sequence is determined by its length and its elements. *)
LEMMA EqualSeqs ==
  ASSUME NEW S, NEW s \in Seq(S), NEW t \in Seq(S), Len(s) = Len(t),
         \A k \in 1 .. Len(s) : s[k] = t[k]
  PROVE  s = t
OBVIOUS

LEMMA AddIsSubmit ==
  ASSUME IInv, IInv', NEW item \in Items, AddToJob(item)
  PROVE  Pool!Submit(item)
<1>1. iSize > 0 /\ m_iCurrSize < iSize
  BY WorkQueueAssumption DEF AddToJob, IInv, TypeOK
<1>2. PoolQueueFacts /\ PoolQueueFacts' /\ m_iCurrSize' = m_iCurrSize + 1
  BY PoolQueueIsSeq, PoolQueueIsSeqNext DEF AddToJob
<1>3. PoolQueue' = Append(PoolQueue, item)
  <2>1. \A k \in 0 .. m_iCurrSize :
          /\ LiveSlot(k)' = LiveSlot(k)
          /\ LiveSlot(k) \in Slots
          /\ k < m_iCurrSize <=> LiveSlot(k) # m_iCurrWriteLoc
    BY <1>1, WorkQueueAssumption DEF AddToJob, IInv, TypeOK, JobPointersValid, LiveSlot, Slots
  <2>2. \A k \in 0 .. m_iCurrSize : m_ppcWorkItemQueue'[LiveSlot(k)'] =
          IF k = m_iCurrSize THEN item ELSE m_ppcWorkItemQueue[LiveSlot(k)]
    BY <2>1 DEF AddToJob, IInv, TypeOK
  <2>3. \A k \in 1 .. (m_iCurrSize + 1) :
           PoolQueue'[k] = IF k = m_iCurrSize + 1 THEN item ELSE PoolQueue[k]
    <3> TAKE k \in 1 .. (m_iCurrSize + 1)
    <3>1. k - 1 \in 0 .. m_iCurrSize
      BY <1>2 DEF PoolQueueFacts
    <3>2. PoolQueue'[k] = m_ppcWorkItemQueue'[LiveSlot(k - 1)']
      BY <1>2 DEF PoolQueueFacts
    <3> QED
      BY <1>2, <2>2, <3>1, <3>2 DEF PoolQueueFacts
  <2> QED
    BY <1>2, <2>3, EqualSeqs DEF PoolQueueFacts
<1>4. UnderProcess' = UnderProcess
  BY SignalMoves DEF AddToJob, IInv, TypeOK, UnderProcess, At
<1> QED
  BY <1>1, <1>2, <1>3, <1>4 DEF Pool!Submit, AddToJob, PoolQueue, PoolQueueFacts

LEMMA GetIsTake ==
  ASSUME IInv, IInv', NEW w \in Workers, GetNextJob(w)
  PROVE  Pool!Take(w)
<1>1. iSize > 0 /\ m_iCurrSize > 0
  BY WorkQueueAssumption DEF GetNextJob, IInv, TypeOK
<1>2. PoolQueueFacts /\ PoolQueueFacts' /\ m_iCurrSize' = m_iCurrSize - 1
  BY PoolQueueIsSeq, PoolQueueIsSeqNext DEF GetNextJob
<1>3. PoolQueue' = Tail(PoolQueue)
  <2>1. \A k \in 0 .. (m_iCurrSize - 1) : LiveSlot(k)' = LiveSlot(k + 1)
    BY <1>1, WorkQueueAssumption, Advance DEF GetNextJob, IInv, TypeOK, LiveSlot
  <2>2. \A k \in 1 .. (m_iCurrSize - 1) : PoolQueue'[k] = PoolQueue[k + 1]
    <3> TAKE k \in 1 .. (m_iCurrSize - 1)
    <3>1. PoolQueue'[k] = m_ppcWorkItemQueue'[LiveSlot(k - 1)']
      BY <1>2 DEF PoolQueueFacts
    <3>2. PoolQueue[k + 1] = m_ppcWorkItemQueue[LiveSlot(k)]
      BY <1>2 DEF PoolQueueFacts
    <3>3. LiveSlot(k - 1)' = LiveSlot(k)
      BY <1>2, <2>1 DEF PoolQueueFacts
    <3> QED
      BY <3>1, <3>2, <3>3 DEF GetNextJob
  <2> QED
    BY <1>1, <1>2, <2>2, EqualSeqs DEF PoolQueueFacts
<1>4. Head(PoolQueue) = m_ppcWorkItemQueue[m_iCurrReadLoc] /\ PoolQueue # << >>
  <2>1. LiveSlot(0) = m_iCurrReadLoc
    BY <1>1, WorkQueueAssumption DEF LiveSlot, IInv, TypeOK
  <2> QED
    BY <1>1, <1>2, <2>1 DEF PoolQueueFacts
<1>5. pcWorkItem[w] = NoItem
  BY DEF GetNextJob, IInv, TypeOK, JobPointersValid
<1>6. UnderProcess' = UnderProcess
  BY DEF GetNextJob, IInv, TypeOK, UnderProcess, At
<1> QED
  BY <1>3, <1>4, <1>5, <1>6 DEF Pool!Take, GetNextJob, PoolQueue

(* Every step that leaves the buffer alone leaves the pool's queue alone. *)
LEMMA PoolQueueSame ==
  ASSUME UNCHANGED buffer
  PROVE  PoolQueue' = PoolQueue
BY DEF buffer, PoolQueue, LiveSlot

LEMMA StepSimulation ==
  ASSUME IInv, IInv', [Next]_vars
  PROVE  [Pool!Next]_(Pool!poolVars)
<1> USE DEF Pool!poolVars
<1>a. ASSUME UNCHANGED <<buffer, pcWorkItem, callerPc>>, UnderProcess' = UnderProcess
      PROVE  UNCHANGED Pool!poolVars
  BY <1>a, PoolQueueSame DEF PoolQueue
<1>1. CASE AddToJobFull
  BY <1>1, <1>a DEF AddToJobFull, UnderProcess, At
<1>2. ASSUME NEW item \in Items, AddToJob(item) PROVE Pool!Next
  BY <1>2, AddIsSubmit DEF Pool!Next
<1>3. CASE CallWaitQueueEmpty
  <2>1. UnderProcess' = UnderProcess
    BY <1>3 DEF CallWaitQueueEmpty, UnderProcess, At
  <2> QED
    BY <1>3, <2>1, PoolQueueSame DEF CallWaitQueueEmpty, PoolQueue, Pool!Next, Pool!EnterBarrier
<1>4. CASE WaitQueueEmptyWait \/ CallerSpuriousWakeup
  <2>1. UnderProcess' = UnderProcess
    BY <1>4 DEF WaitQueueEmptyWait, CallerSpuriousWakeup, UnderProcess, At
  <2> QED
    BY <1>4, <2>1, PoolQueueSame DEF WaitQueueEmptyWait, CallerSpuriousWakeup, PoolQueue
<1>5. CASE WaitQueueEmptyReturn
  <2>1. UnderProcess' = UnderProcess
    BY <1>5 DEF WaitQueueEmptyReturn, UnderProcess, At
  <2>2. m_iPendingJobs = 0 /\ m_iCurrSize = 0
    BY <1>5, WorkQueueAssumption DEF WaitQueueEmptyReturn, IInv, TypeOK
  <2>3. UnderProcess = {}
    <3>1. IsFiniteSet(UnderProcess)
      BY WorkersFinite DEF UnderProcess, At
    <3> QED
      BY <2>2, <3>1, FS_EmptySet DEF IInv, PendingJobsExact
  <2>4. PoolQueue = << >>
    BY <2>2, PoolQueueIsSeq DEF PoolQueueFacts
  <2> QED
    BY <1>5, <2>1, <2>3, <2>4, PoolQueueSame
    DEF WaitQueueEmptyReturn, PoolQueue, Pool!Next, Pool!LeaveBarrier
<1>6. ASSUME NEW w \in Workers, GetNextJobWait(w) \/ SpuriousWakeup(w) \/ JobReturns(w)
      PROVE  UNCHANGED Pool!poolVars
  <2>1. UnderProcess' = UnderProcess
    BY <1>6 DEF GetNextJobWait, SpuriousWakeup, JobReturns, IInv, TypeOK, UnderProcess, At
  <2> QED
    BY <1>6, <1>a, <2>1 DEF GetNextJobWait, SpuriousWakeup, JobReturns
<1>7. ASSUME NEW w \in Workers, GetNextJob(w) PROVE Pool!Next
  BY <1>7, GetIsTake DEF Pool!Next
<1>8. ASSUME NEW w \in Workers, IncNumJobsUnderProcess(w) PROVE Pool!Next
  <2>1. w \notin UnderProcess /\ UnderProcess' = UnderProcess \cup {w}
    BY <1>8 DEF IncNumJobsUnderProcess, IInv, TypeOK, UnderProcess, At
  <2>2. pcWorkItem[w] # NoItem
    BY <1>8, WorkQueueAssumption DEF IncNumJobsUnderProcess, IInv, JobPointersValid
  <2>3. Pool!Count(w)
    BY <1>8, <2>1, <2>2, PoolQueueSame DEF IncNumJobsUnderProcess, PoolQueue, Pool!Count
  <2> QED
    BY <2>3 DEF Pool!Next
<1>9. ASSUME NEW w \in Workers, JobDone(w) PROVE Pool!Next
  <2>1. w \in UnderProcess /\ UnderProcess' = UnderProcess \ {w}
    BY <1>9 DEF JobDone, IInv, TypeOK, UnderProcess, At
  <2>2. (callerPc # "run")' = (callerPc # "run")
    BY <1>9 DEF JobDone, SignalQueueEmpty
  <2>3. Pool!Finish(w)
    BY <1>9, <2>1, <2>2, PoolQueueSame DEF JobDone, PoolQueue, Pool!Finish
  <2> QED
    BY <2>3 DEF Pool!Next
<1>10. CASE UNCHANGED vars
  BY <1>10, <1>a DEF vars, buffer, UnderProcess, At
<1> QED
  BY <1>1, <1>2, <1>3, <1>4, <1>5, <1>6, <1>7, <1>8, <1>9, <1>10 DEF Next, RunThread

(***************************************************************************)
(* The work queue and its threads implement the job pool: jobs leave in    *)
(* the order in which they were added, each is handed to one worker, the   *)
(* capacity is kept, and WaitQueueEmpty gives the pool's barrier.          *)
(***************************************************************************)
THEOREM Refinement == Spec => ImplementsJobPool
<1>1. Init => Pool!Init
  <2> SUFFICES ASSUME Init PROVE Pool!Init
    OBVIOUS
  <2>1. UnderProcess = {}
    BY DEF Init, UnderProcess, At
  <2>2. PoolQueue = << >>
    BY InitIInv, PoolQueueIsSeq DEF PoolQueueFacts, Init
  <2> QED
    BY <2>1, <2>2 DEF Init, Pool!Init, PoolQueue
<1>2. IInv /\ IInv' /\ [Next]_vars => [Pool!Next]_(Pool!poolVars)
  BY StepSimulation
<1> QED
  BY <1>1, <1>2, Invariance, PTL DEF Spec, ImplementsJobPool, Pool!Spec
================================================================================
