------------------------------- MODULE WorkQueue -------------------------------
(***************************************************************************)
(* The circular work queue of WorkQueue.cpp and the threads of             *)
(* ThreadHandler.cpp that serve it.                                        *)
(*                                                                         *)
(* One action is one critical section of m_ptMutex.  pthread_cond_wait     *)
(* ends the critical section: the thread's pc goes to a "wait" label, a    *)
(* signal (or a spurious wake-up) moves it back to the label of the call,  *)
(* whose loop condition is then tested again.  m_ptJobAvailCond has the    *)
(* workers at "waitJobAvail" as its wait set, m_ptQueueEmptyCond the       *)
(* caller at "waitQueueEmpty".                                             *)
(*                                                                         *)
(* The thread that feeds the queue (the caller) is left open here: it adds *)
(* any job and waits for the empty queue in any order.  SliceCompressor    *)
(* gives it its program.                                                   *)
(***************************************************************************)
EXTENDS Naturals, FiniteSets

CONSTANTS Workers,    \* the threads StartThread has created
          Items,      \* the work items (pointers) the caller owns
          NoItem,     \* no work item: a null or uninitialised pointer
          iSize       \* the capacity given to the constructor, 0 included

ASSUME WorkQueueAssumption ==
  /\ IsFiniteSet(Workers)
  /\ NoItem \notin Items
  /\ iSize \in Nat

VARIABLES
  m_ppcWorkItemQueue, \* the iSize slots of the circular buffer
  m_iCurrSize,        \* jobs in the buffer
  m_iCurrReadLoc,     \* slot of the oldest job
  m_iCurrWriteLoc,    \* slot of the next job
  m_iPendingJobs,     \* jobs under process, as far as the queue knows
  pc,                 \* where each worker is in RunThread
  pcWorkItem,         \* the local pcWorkItem of RunThread
  callerPc,           \* where the caller is with respect to WaitQueueEmpty
  addRet              \* what the caller's last AddToJob returned

buffer == <<m_ppcWorkItemQueue, m_iCurrSize, m_iCurrReadLoc, m_iCurrWriteLoc>>
vars   == <<m_ppcWorkItemQueue, m_iCurrSize, m_iCurrReadLoc, m_iCurrWriteLoc,
            m_iPendingJobs, pc, pcWorkItem, callerPc, addRet>>

--------------------------------------------------------------------------------
(* Control points. *)

WorkerPcs == {"GetNextJob", "waitJobAvail", "IncNumJobsUnderProcess",
              "m_pfPtrToFunc", "JobDone"}
CallerPcs == {"run", "WaitQueueEmpty", "waitQueueEmpty"}

At(l) == {w \in Workers : pc[w] = l}

Slots == 0 .. (iSize - 1)

(* A worker has taken a job and not yet called IncNumJobsUnderProcess. *)
Uncounted == At("IncNumJobsUnderProcess")

(* The workers m_iPendingJobs stands for. *)
UnderProcess == At("m_pfPtrToFunc") \cup At("JobDone")

--------------------------------------------------------------------------------
Init ==
  /\ m_ppcWorkItemQueue = [s \in Slots |-> NoItem]
  /\ m_iCurrSize = 0
  /\ m_iCurrReadLoc = 0
  /\ m_iCurrWriteLoc = 0
  /\ m_iPendingJobs = 0
  /\ pc = [w \in Workers |-> "GetNextJob"]
  /\ pcWorkItem = [w \in Workers |-> NoItem]
  /\ callerPc = "run"
  /\ addRet = 0

(* Faulty variants: the signal is forgotten; it is sent only when the      *)
(* queue was empty, which wakes one worker for two jobs.                   *)
SignalJobAvailForgotten == UNCHANGED pc

SignalJobAvailWhenEmpty ==
  IF m_iCurrSize # 0 \/ At("waitJobAvail") = {}
  THEN UNCHANGED pc
  ELSE \E w \in At("waitJobAvail") : pc' = [pc EXCEPT ![w] = "GetNextJob"]

(* pthread_cond_signal(&m_ptJobAvailCond): one waiter, if there is one. *)
SignalJobAvail ==
  IF At("waitJobAvail") = {}
  THEN UNCHANGED pc
  ELSE \E w \in At("waitJobAvail") : pc' = [pc EXCEPT ![w] = "GetNextJob"]

AddToJobFull ==
  /\ callerPc = "run"
  /\ m_iCurrSize = iSize
  /\ addRet' = 1
  /\ UNCHANGED <<buffer, m_iPendingJobs, pc, pcWorkItem, callerPc>>

(* Faulty variants: a full queue is not refused; the write location is     *)
(* advanced before the slot is written.                                    *)
AddToJobUnbounded(item) ==
  /\ callerPc = "run"
  /\ m_ppcWorkItemQueue' = [m_ppcWorkItemQueue EXCEPT ![m_iCurrWriteLoc] = item]
  /\ m_iCurrWriteLoc' = (m_iCurrWriteLoc + 1) % iSize
  /\ m_iCurrSize' = m_iCurrSize + 1
  /\ SignalJobAvail
  /\ addRet' = 0
  /\ UNCHANGED <<m_iCurrReadLoc, m_iPendingJobs, pcWorkItem, callerPc>>

AddToJobAdvanceFirst(item) ==
  /\ callerPc = "run"
  /\ m_iCurrSize # iSize
  /\ m_iCurrWriteLoc' = (m_iCurrWriteLoc + 1) % iSize
  /\ m_ppcWorkItemQueue' = [m_ppcWorkItemQueue EXCEPT ![m_iCurrWriteLoc'] = item]
  /\ m_iCurrSize' = m_iCurrSize + 1
  /\ SignalJobAvail
  /\ addRet' = 0
  /\ UNCHANGED <<m_iCurrReadLoc, m_iPendingJobs, pcWorkItem, callerPc>>

AddToJob(item) ==
  /\ callerPc = "run"
  /\ m_iCurrSize # iSize
  /\ m_ppcWorkItemQueue' = [m_ppcWorkItemQueue EXCEPT ![m_iCurrWriteLoc] = item]
  /\ m_iCurrWriteLoc' = (m_iCurrWriteLoc + 1) % iSize
  /\ m_iCurrSize' = m_iCurrSize + 1
  /\ SignalJobAvail
  /\ addRet' = 0
  /\ UNCHANGED <<m_iCurrReadLoc, m_iPendingJobs, pcWorkItem, callerPc>>

(* GetNextJob finds the queue empty and sleeps. *)
GetNextJobWait(w) ==
  /\ pc[w] = "GetNextJob"
  /\ m_iCurrSize = 0
  /\ pc' = [pc EXCEPT ![w] = "waitJobAvail"]
  /\ UNCHANGED <<buffer, m_iPendingJobs, pcWorkItem, callerPc, addRet>>

(* Faulty variant: the read location is advanced before the slot is read. *)
GetNextJobAdvanceFirst(w) ==
  /\ pc[w] = "GetNextJob"
  /\ m_iCurrSize # 0
  /\ m_iCurrReadLoc' = (m_iCurrReadLoc + 1) % iSize
  /\ pcWorkItem' = [pcWorkItem EXCEPT ![w] = m_ppcWorkItemQueue[m_iCurrReadLoc']]
  /\ m_iCurrSize' = m_iCurrSize - 1
  /\ pc' = [pc EXCEPT ![w] = "IncNumJobsUnderProcess"]
  /\ UNCHANGED <<m_ppcWorkItemQueue, m_iCurrWriteLoc, m_iPendingJobs, callerPc, addRet>>

GetNextJob(w) ==
  /\ pc[w] = "GetNextJob"
  /\ m_iCurrSize # 0
  /\ pcWorkItem' = [pcWorkItem EXCEPT ![w] = m_ppcWorkItemQueue[m_iCurrReadLoc]]
  /\ m_iCurrReadLoc' = (m_iCurrReadLoc + 1) % iSize
  /\ m_iCurrSize' = m_iCurrSize - 1
  /\ pc' = [pc EXCEPT ![w] = "IncNumJobsUnderProcess"]
  /\ UNCHANGED <<m_ppcWorkItemQueue, m_iCurrWriteLoc, m_iPendingJobs, callerPc, addRet>>

(* POSIX lets pthread_cond_wait return without a signal. *)
SpuriousWakeup(w) ==
  /\ pc[w] = "waitJobAvail"
  /\ pc' = [pc EXCEPT ![w] = "GetNextJob"]
  /\ UNCHANGED <<buffer, m_iPendingJobs, pcWorkItem, callerPc, addRet>>

(* Faulty variant: the job is not counted. *)
IncNumJobsForgotten(w) ==
  /\ pc[w] = "IncNumJobsUnderProcess"
  /\ pc' = [pc EXCEPT ![w] = "m_pfPtrToFunc"]
  /\ UNCHANGED <<buffer, m_iPendingJobs, pcWorkItem, callerPc, addRet>>

IncNumJobsUnderProcess(w) ==
  /\ pc[w] = "IncNumJobsUnderProcess"
  /\ m_iPendingJobs' = m_iPendingJobs + 1
  /\ pc' = [pc EXCEPT ![w] = "m_pfPtrToFunc"]
  /\ UNCHANGED <<buffer, pcWorkItem, callerPc, addRet>>

(* pcWorkItem->m_pfPtrToFunc(pcWorkItem->m_pArgs) returns. *)
JobReturns(w) ==
  /\ pc[w] = "m_pfPtrToFunc"
  /\ pc' = [pc EXCEPT ![w] = "JobDone"]
  /\ UNCHANGED <<buffer, m_iPendingJobs, pcWorkItem, callerPc, addRet>>

(* Faulty variant: the condition is tested before m_iPendingJobs drops. *)
SignalQueueEmptyTooEarly ==
  callerPc' = IF m_iPendingJobs = 0 /\ m_iCurrSize = 0 /\ callerPc = "waitQueueEmpty"
              THEN "WaitQueueEmpty" ELSE callerPc

(* pthread_cond_signal(&m_ptQueueEmptyCond), under JobDone's condition. *)
SignalQueueEmpty ==
  callerPc' = IF m_iPendingJobs' = 0 /\ m_iCurrSize = 0 /\ callerPc = "waitQueueEmpty"
              THEN "WaitQueueEmpty" ELSE callerPc

JobDone(w) ==
  /\ pc[w] = "JobDone"
  /\ m_iPendingJobs' = m_iPendingJobs - 1
  /\ SignalQueueEmpty
  /\ pc' = [pc EXCEPT ![w] = "GetNextJob"]
  /\ pcWorkItem' = [pcWorkItem EXCEPT ![w] = NoItem]
  /\ UNCHANGED <<buffer, addRet>>

(* The caller calls WaitQueueEmpty; the next two actions are its critical  *)
(* section, entered here or again after a wake-up.                         *)
CallWaitQueueEmpty ==
  /\ callerPc = "run"
  /\ callerPc' = "WaitQueueEmpty"
  /\ UNCHANGED <<buffer, m_iPendingJobs, pc, pcWorkItem, addRet>>

WaitQueueEmptyWait ==
  /\ callerPc = "WaitQueueEmpty"
  /\ m_iPendingJobs > 0 \/ m_iCurrSize > 0
  /\ callerPc' = "waitQueueEmpty"
  /\ UNCHANGED <<buffer, m_iPendingJobs, pc, pcWorkItem, addRet>>

(* Faulty variants: only one half of the loop condition is tested. *)
WaitQueueEmptyIgnoresPending ==
  /\ callerPc = "WaitQueueEmpty"
  /\ ~(m_iCurrSize > 0)
  /\ callerPc' = "run"
  /\ UNCHANGED <<buffer, m_iPendingJobs, pc, pcWorkItem, addRet>>

WaitQueueEmptyIgnoresQueue ==
  /\ callerPc = "WaitQueueEmpty"
  /\ ~(m_iPendingJobs > 0)
  /\ callerPc' = "run"
  /\ UNCHANGED <<buffer, m_iPendingJobs, pc, pcWorkItem, addRet>>

WaitQueueEmptyReturn ==
  /\ callerPc = "WaitQueueEmpty"
  /\ ~(m_iPendingJobs > 0 \/ m_iCurrSize > 0)
  /\ callerPc' = "run"
  /\ UNCHANGED <<buffer, m_iPendingJobs, pc, pcWorkItem, addRet>>

CallerSpuriousWakeup ==
  /\ callerPc = "waitQueueEmpty"
  /\ callerPc' = "WaitQueueEmpty"
  /\ UNCHANGED <<buffer, m_iPendingJobs, pc, pcWorkItem, addRet>>

(* RunThread's loop, without the wake-ups nobody asked for. *)
RunThread(w) ==
  \/ GetNextJobWait(w)
  \/ GetNextJob(w)
  \/ IncNumJobsUnderProcess(w)
  \/ JobReturns(w)
  \/ JobDone(w)

Next ==
  \/ AddToJobFull
  \/ \E item \in Items : AddToJob(item)
  \/ CallWaitQueueEmpty
  \/ WaitQueueEmptyWait
  \/ WaitQueueEmptyReturn
  \/ CallerSpuriousWakeup
  \/ \E w \in Workers : RunThread(w) \/ SpuriousWakeup(w)

Spec == Init /\ [][Next]_vars

(***************************************************************************)
(* A thread that can run does run (the scheduler is fair to threads), and  *)
(* pthread_cond_wait may return early but need not.  The caller may stop   *)
(* adding jobs, but a WaitQueueEmpty it has called goes on.  The body of a *)
(* job terminates: CompressTile is a loop over the CTUs of a tile.         *)
(***************************************************************************)
Fairness ==
  /\ \A w \in Workers : WF_vars(RunThread(w))
  /\ WF_vars(WaitQueueEmptyWait \/ WaitQueueEmptyReturn)

FairSpec == Spec /\ Fairness

--------------------------------------------------------------------------------
(* Invariants. *)

TypeOK ==
  /\ m_ppcWorkItemQueue \in [Slots -> Items \cup {NoItem}]
  /\ m_iCurrSize \in 0 .. iSize
  /\ m_iCurrReadLoc \in Nat /\ (iSize > 0 => m_iCurrReadLoc < iSize)
  /\ m_iCurrWriteLoc \in Nat /\ (iSize > 0 => m_iCurrWriteLoc < iSize)
  /\ m_iPendingJobs \in Nat
  /\ pc \in [Workers -> WorkerPcs]
  /\ pcWorkItem \in [Workers -> Items \cup {NoItem}]
  /\ callerPc \in CallerPcs
  /\ addRet \in {0, 1}

(***************************************************************************)
(* m_iPendingJobs, which IncNumJobsUnderProcess and JobDone change in      *)
(* critical sections of their own, is the number of workers between these  *)
(* two calls: it is never negative and never counts a job twice.           *)
(***************************************************************************)
PendingJobsExact == m_iPendingJobs = Cardinality(UnderProcess)

(***************************************************************************)
(* No lost wake-up in GetNextJob: AddToJob signals once per job, and JobDone*)
(* and GetNextJob never signal, yet a worker sleeps only while the awake   *)
(* workers that are about to look at the queue can take all that is in it. *)
(***************************************************************************)
NoLostJobSignal ==
  At("waitJobAvail") # {} => m_iCurrSize <= Cardinality(At("GetNextJob"))

(***************************************************************************)
(* No lost wake-up in WaitQueueEmpty: JobDone signals only when it sees the *)
(* queue empty and nothing pending, and a sleeping caller always has a     *)
(* JobDone ahead of it that will.                                          *)
(***************************************************************************)
CallerWillBeWoken ==
  callerPc = "waitQueueEmpty" =>
    m_iPendingJobs > 0 \/ m_iCurrSize > 0 \/ Uncounted # {}

(***************************************************************************)
(* What a thread holds: a worker has a job exactly from GetNextJob to      *)
(* JobDone, and the buffer's live slots, which lie in a circular window    *)
(* from the read to the write location, hold jobs (never a stale or an     *)
(* uninitialised pointer).                                                 *)
(***************************************************************************)
LiveSlot(k) == IF m_iCurrReadLoc + k >= iSize
               THEN m_iCurrReadLoc + k - iSize ELSE m_iCurrReadLoc + k

JobPointersValid ==
  /\ \A w \in Workers :
       pcWorkItem[w] \in Items <=> pc[w] \notin {"GetNextJob", "waitJobAvail"}
  /\ \A k \in 0 .. (m_iCurrSize - 1) : m_ppcWorkItemQueue[LiveSlot(k)] \in Items
  /\ iSize > 0 => m_iCurrWriteLoc = LiveSlot(m_iCurrSize)

(***************************************************************************)
(* WaitQueueEmpty's promise as its declaration words it, "Wait until the   *)
(* job queue is empty": it returns on an empty queue, no job is under      *)
(* process, and a job it leaves unfinished is one that a worker took but   *)
(* had not counted yet.                                                    *)
(***************************************************************************)
WaitReturnsEmpty ==
  [][callerPc = "WaitQueueEmpty" /\ callerPc' = "run" =>
       /\ m_iCurrSize = 0
       /\ \A w \in Workers : pcWorkItem[w] # NoItem => w \in Uncounted]_vars

(* The refinement of the job pool: the live window of the buffer is its    *)
(* queue, the workers m_iPendingJobs stands for are the counted ones.      *)
Pool == INSTANCE JobPool
          WITH Jobs     <- Items,
               NoJob    <- NoItem,
               Capacity <- iSize,
               queue    <- [k \in 1 .. m_iCurrSize |->
                              m_ppcWorkItemQueue[LiveSlot(k - 1)]],
               holding  <- pcWorkItem,
               counted  <- UnderProcess,
               waiting  <- callerPc # "run"

(* The queue and its threads implement the job pool: first in first out,   *)
(* each job to one worker, the barrier as described there.                 *)
ImplementsJobPool == Pool!Spec

(***************************************************************************)
(* Liveness: the oldest job in the queue is taken, whatever jobs come      *)
(* after it.  (With one slot, taking it leaves the location unchanged.)    *)
(***************************************************************************)
OldestJobTaken ==
  \A r \in Slots :
    m_iCurrSize > 0 /\ m_iCurrReadLoc = r ~> m_iCurrSize = 0 \/ m_iCurrReadLoc # r

(* Liveness: a WaitQueueEmpty that has been called returns.                *)
WaitReturns == callerPc # "run" ~> callerPc = "run"
================================================================================
