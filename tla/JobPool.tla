-------------------------------- MODULE JobPool --------------------------------
(***************************************************************************)
(* What the tile work queue of the encoder and its threads promise to the  *)
(* thread that feeds them, with no circular buffer, no counter and no      *)
(* condition variable:                                                     *)
(*                                                                         *)
(*   - submitted jobs wait in one first-in first-out queue that never      *)
(*     holds more than Capacity of them;                                   *)
(*   - each queued job is handed to exactly one worker, oldest first;      *)
(*   - a worker holds a job for a while before the job is "counted", i.e.  *)
(*     before the barrier knows of it;                                     *)
(*   - the barrier opens only when nothing is queued and no held job is    *)
(*     counted.                                                            *)
(*                                                                         *)
(* The third item is the weak spot of the design, and it is stated here    *)
(* because it is what the code does.  WorkQueue.tla implements this        *)
(* specification.                                                          *)
(***************************************************************************)
EXTENDS Naturals, Sequences

CONSTANTS Workers,    \* the threads that take jobs
          Jobs,       \* what can be submitted
          NoJob,      \* "holds no job"
          Capacity    \* how many jobs the queue can hold

VARIABLES queue,      \* the submitted jobs nobody has taken, oldest first
          holding,    \* the job each worker has taken and not finished
          counted,    \* the workers whose job the barrier knows of
          waiting     \* is the feeding thread inside the barrier?

poolVars == <<queue, holding, counted, waiting>>

Init ==
  /\ queue = << >>
  /\ holding = [w \in Workers |-> NoJob]
  /\ counted = {}
  /\ waiting = FALSE

(* The feeding thread submits a job. *)
Submit(j) ==
  /\ ~waiting
  /\ Len(queue) < Capacity
  /\ queue' = Append(queue, j)
  /\ UNCHANGED <<holding, counted, waiting>>

(* An idle worker takes the oldest job. *)
Take(w) ==
  /\ holding[w] = NoJob
  /\ queue # << >>
  /\ holding' = [holding EXCEPT ![w] = Head(queue)]
  /\ queue' = Tail(queue)
  /\ UNCHANGED <<counted, waiting>>

(* The job of w becomes visible to the barrier. *)
Count(w) ==
  /\ holding[w] # NoJob
  /\ w \notin counted
  /\ counted' = counted \cup {w}
  /\ UNCHANGED <<queue, holding, waiting>>

(* Only a counted job is ever finished. *)
Finish(w) ==
  /\ w \in counted
  /\ holding' = [holding EXCEPT ![w] = NoJob]
  /\ counted' = counted \ {w}
  /\ UNCHANGED <<queue, waiting>>

EnterBarrier ==
  /\ ~waiting
  /\ waiting' = TRUE
  /\ UNCHANGED <<queue, holding, counted>>

LeaveBarrier ==
  /\ waiting
  /\ queue = << >>
  /\ counted = {}
  /\ waiting' = FALSE
  /\ UNCHANGED <<queue, holding, counted>>

Next ==
  \/ \E j \in Jobs : Submit(j)
  \/ \E w \in Workers : Take(w) \/ Count(w) \/ Finish(w)
  \/ EnterBarrier
  \/ LeaveBarrier

Spec == Init /\ [][Next]_poolVars
================================================================================
