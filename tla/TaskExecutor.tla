---------------------------- MODULE TaskExecutor ----------------------------
(***************************************************************************)
(* What ThreadPool promises to whoever submits a task: the task is run at  *)
(* most once, and its future becomes available, with the result (a value   *)
(* or the exception the task threw) or, when the pool is destroyed before  *)
(* the task could run, with a broken promise.  The latter never happens to *)
(* a task submitted by the pool's owner, who cannot submit any more once   *)
(* it destroys the pool; it may happen to a task submitted by a task.      *)
(***************************************************************************)
CONSTANTS
  Tasks,  \* all the tasks that are ever submitted
  Roots   \* those submitted by the owner of the pool

VARIABLES
  fate,   \* what became of each task
  closed  \* the owner is destroying the pool

vars == <<fate, closed>>

Init ==
  /\ fate = [t \in Tasks |-> "unborn"]
  /\ closed = FALSE

\* A task that is not a root is submitted by a running one.
Submit(t) ==
  /\ fate[t] = "unborn"
  /\ IF t \in Roots THEN ~closed ELSE \E s \in Tasks : fate[s] = "running"
  /\ fate' = [fate EXCEPT ![t] = "waiting"]
  /\ UNCHANGED closed

Start(t) ==
  /\ fate[t] = "waiting"
  /\ fate' = [fate EXCEPT ![t] = "running"]
  /\ UNCHANGED closed

Finish(t) ==
  /\ fate[t] = "running"
  /\ fate' = [fate EXCEPT ![t] = "ready"]
  /\ UNCHANGED closed

Close ==
  /\ ~closed
  /\ closed' = TRUE
  /\ UNCHANGED fate

\* The pool is gone, and with it the tasks that were not run.
Abandon ==
  /\ closed
  /\ \A t \in Tasks : fate[t] # "running"
  /\ \A t \in Roots : fate[t] # "waiting"
  /\ fate' = [t \in Tasks |-> IF fate[t] = "waiting" THEN "broken" ELSE fate[t]]
  /\ UNCHANGED closed

Next ==
  \/ \E t \in Tasks : Submit(t) \/ Start(t) \/ Finish(t)
  \/ Close
  \/ Abandon

Spec == Init /\ [][Next]_vars

=============================================================================
