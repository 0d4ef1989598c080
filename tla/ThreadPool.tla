----------------------------- MODULE ThreadPool -----------------------------
(***************************************************************************)
(* The task-stealing ThreadPool: one queue and one thread per index, an    *)
(* owner that submits tasks and then destroys the pool, and tasks that may *)
(* submit further tasks to the pool that runs them.  Every use of a queue  *)
(* is two steps, to lock it and to use and unlock it, because a thread     *)
(* that looks for a task passes by the queues that are locked.  The state  *)
(* before the startup latch opens, when no thread does anything, is left   *)
(* out.                                                                    *)
(***************************************************************************)
EXTENDS Naturals, Sequences

CONSTANTS
  N,      \* num_threads_
  Tasks,  \* all the tasks that are ever submitted
  Roots,  \* those submitted by the owner of the pool, before it destroys it
  NoTask  \* a thread that runs no task

ASSUME PoolAssumption ==
  /\ N \in Nat \ {0}
  /\ Roots \subseteq Tasks
  /\ NoTask \notin Tasks

Threads == 0..(N - 1)
Owner   == N
Nobody  == N + 1

VARIABLES
  queue,    \* per_thread_tasks_
  holder,   \* who holds the mutex of each queue
  at,       \* where each thread is in execution_loop()
  offset,   \* how many queues it has looked at in try_fetch_or_steal()
  task,     \* the task it runs
  emplacing, \* the task that each thread, or the owner, has yet to push
  future,   \* the state a task shares with its Future
  owner,    \* the owner of the pool: submitting, in ~ThreadPool(), done
  stopped   \* the threads that ~ThreadPool() requested to stop

threadVars == <<at, offset, task>>
ownerVars  == <<owner, stopped>>
submitVars == <<emplacing, future>>
vars == <<queue, holder, threadVars, submitVars, ownerVars>>

TypeOK ==
  /\ queue \in [Threads -> Seq(Tasks)]
  /\ holder \in [Threads -> 0..Nobody]
  /\ at \in [Threads -> {"fetch", "run", "wait", "drain", "drain run", "exited"}]
  /\ offset \in [Threads -> 0..(N - 1)]
  /\ task \in [Threads -> Tasks \cup {NoTask}]
  /\ emplacing \in [0..N -> Tasks \cup {NoTask}]
  /\ future \in [Tasks -> {"none", "pending", "ready", "broken"}]
  /\ owner \in {"submitting", "destroying", "done"}
  /\ stopped \in SUBSET Threads

Init ==
  /\ queue = [i \in Threads |-> <<>>]
  /\ holder = [q \in Threads |-> Nobody]
  /\ at = [i \in Threads |-> "fetch"]
  /\ offset = [i \in Threads |-> 0]
  /\ task = [i \in Threads |-> NoTask]
  /\ emplacing = [a \in 0..N |-> NoTask]
  /\ future = [t \in Tasks |-> "none"]
  /\ owner = "submitting"
  /\ stopped = {}

-----------------------------------------------------------------------------
Running(i)  == at[i] \in {"run", "drain run"}
Holds(a, q) == holder[q] = a

Lock(a, q) ==
  /\ Holds(Nobody, q)
  /\ holder' = [holder EXCEPT ![q] = a]

Unlock(a, q) ==
  /\ Holds(a, q)
  /\ holder' = [holder EXCEPT ![q] = Nobody]

-----------------------------------------------------------------------------
(* emplace().  It goes round the queues from last_emplaced_idx_, passes    *)
(* by those it finds locked and, when all of them are, blocks on the last. *)
(* What the others held by then is not recorded and the index is a hint    *)
(* read and written without order, so the task may land in any queue.      *)

Emplace(self, t) ==
  /\ emplacing[self] = NoTask
  /\ future[t] = "none"
  /\ future' = [future EXCEPT ![t] = "pending"]
  /\ emplacing' = [emplacing EXCEPT ![self] = t]
  /\ \E q \in Threads : Lock(self, q)
  /\ UNCHANGED <<queue, threadVars, ownerVars>>

Push(self) ==
  /\ emplacing[self] # NoTask
  /\ \E q \in Threads :
       /\ Unlock(self, q)
       /\ queue' = [queue EXCEPT ![q] = Append(@, emplacing[self])]
  /\ emplacing' = [emplacing EXCEPT ![self] = NoTask]
  /\ UNCHANGED <<threadVars, future, ownerVars>>

OwnerSubmits == owner = "submitting" /\ \E t \in Roots : Emplace(Owner, t)

TaskSubmits(i) == Running(i) /\ \E t \in Tasks \ Roots : Emplace(i, t)

-----------------------------------------------------------------------------
(* execution_loop() *)

Pop(i, q, next) ==
  /\ queue[q] # <<>>
  /\ task' = [task EXCEPT ![i] = Head(queue[q])]
  /\ queue' = [queue EXCEPT ![q] = Tail(@)]
  /\ at' = [at EXCEPT ![i] = next]
  /\ UNCHANGED <<submitVars, ownerVars>>

\* Its own queue first, then the others.
Candidate(i) == (i + offset[i]) % N

\* try_lock() succeeds.
TryLock(i) ==
  /\ at[i] = "fetch"
  /\ Lock(i, Candidate(i))
  /\ UNCHANGED <<queue, threadVars, submitVars, ownerVars>>

FetchOrSteal(i) ==
  /\ at[i] = "fetch"
  /\ Unlock(i, Candidate(i))
  /\ Pop(i, Candidate(i), "run")
  /\ offset' = [offset EXCEPT ![i] = 0]

\* Mutant: one look too many.
LookTooFar(i) ==
  /\ at[i] = "fetch"
  /\ \/ Unlock(i, Candidate(i)) /\ queue[Candidate(i)] = <<>>
     \/ holder[Candidate(i)] \notin {i, Nobody} /\ UNCHANGED holder
  /\ IF offset[i] < N
     THEN offset' = [offset EXCEPT ![i] = @ + 1] /\ UNCHANGED at
     ELSE /\ offset' = [offset EXCEPT ![i] = 0]
          /\ at' = [at EXCEPT ![i] = "wait"]
  /\ UNCHANGED <<queue, task, submitVars, ownerVars>>

\* The queue is empty, or locked by somebody else.
LookFurther(i) ==
  /\ at[i] = "fetch"
  /\ \/ Unlock(i, Candidate(i)) /\ queue[Candidate(i)] = <<>>
     \/ holder[Candidate(i)] \notin {i, Nobody} /\ UNCHANGED holder
  /\ IF offset[i] + 1 < N
     THEN offset' = [offset EXCEPT ![i] = @ + 1] /\ UNCHANGED at
     ELSE /\ offset' = [offset EXCEPT ![i] = 0]
          /\ at' = [at EXCEPT ![i] = "wait"]
  /\ UNCHANGED <<queue, task, submitVars, ownerVars>>

\* Mutant: emplace() does not notify.
WakeOnStopOnly(i) ==
  /\ at[i] = "drain" \/ (at[i] = "wait" /\ i \in stopped)
  /\ Lock(i, i)
  /\ UNCHANGED <<queue, threadVars, submitVars, ownerVars>>

\* lock(): a thread that waits is woken by a notification or a stop request.
LockOwn(i) ==
  /\ \/ at[i] = "drain"
     \/ at[i] = "wait" /\ (queue[i] # <<>> \/ i \in stopped)
  /\ Lock(i, i)
  /\ UNCHANGED <<queue, threadVars, submitVars, ownerVars>>

\* wait_and_pop(stoken) tests the queue before it obeys a stop request.
WaitAndPop(i) ==
  /\ at[i] = "wait"
  /\ Unlock(i, i)
  /\ Pop(i, i, "run")
  /\ UNCHANGED offset

\* Mutant: a stopped thread leaves its loop at once.
StopWithoutDraining(i) ==
  /\ at[i] = "wait" /\ i \in stopped
  /\ Unlock(i, i)
  /\ at' = [at EXCEPT ![i] = "exited"]
  /\ UNCHANGED <<queue, offset, task, submitVars, ownerVars>>

WaitStopped(i) ==
  /\ at[i] = "wait" /\ i \in stopped /\ queue[i] = <<>>
  /\ Unlock(i, i)
  /\ at' = [at EXCEPT ![i] = "drain"]
  /\ UNCHANGED <<queue, offset, task, submitVars, ownerVars>>

Drain(i) ==
  /\ at[i] = "drain"
  /\ Unlock(i, i)
  /\ \/ /\ Pop(i, i, "drain run")
        /\ UNCHANGED offset
     \/ /\ queue[i] = <<>>
        /\ at' = [at EXCEPT ![i] = "exited"]
        /\ UNCHANGED <<queue, offset, task, submitVars, ownerVars>>

\* The task returns or throws: either way its promise is kept.
FinishTask(i) ==
  /\ Running(i)
  /\ emplacing[i] = NoTask
  /\ future' = [future EXCEPT ![task[i]] = "ready"]
  /\ task' = [task EXCEPT ![i] = NoTask]
  /\ at' = [at EXCEPT ![i] = IF at[i] = "run" THEN "fetch" ELSE "drain"]
  /\ UNCHANGED <<queue, holder, offset, emplacing, ownerVars>>

-----------------------------------------------------------------------------
(* ~ThreadPool(): threads_ goes first.  Each jthread is requested to stop  *)
(* and joined before the next one, in the order the vector destroys them.  *)

RequestStop(i) ==
  /\ owner # "done"
  /\ emplacing[Owner] = NoTask
  /\ i \notin stopped
  /\ \A j \in stopped : at[j] = "exited"
  /\ owner' = "destroying"
  /\ stopped' = stopped \cup {i}
  /\ UNCHANGED <<queue, holder, threadVars, submitVars>>

Queued == UNION {{queue[i][k] : k \in 1..Len(queue[i])} : i \in Threads}

\* Mutant: the threads are requested to stop but not joined.
DestroyUnderThreads ==
  /\ owner = "destroying"
  /\ stopped = Threads
  /\ owner' = "done"
  /\ queue' = [i \in Threads |-> <<>>]
  /\ future' = [t \in Tasks |-> IF t \in Queued THEN "broken" ELSE future[t]]
  /\ UNCHANGED <<holder, threadVars, emplacing, stopped>>

\* Then per_thread_tasks_, with the promises of the tasks left in it.
DestroyQueues ==
  /\ owner = "destroying"
  /\ stopped = Threads /\ \A i \in Threads : at[i] = "exited"
  /\ owner' = "done"
  /\ queue' = [i \in Threads |-> <<>>]
  /\ future' = [t \in Tasks |-> IF t \in Queued THEN "broken" ELSE future[t]]
  /\ UNCHANGED <<holder, threadVars, emplacing, stopped>>

Step(i) == \/ TryLock(i) \/ FetchOrSteal(i) \/ LookFurther(i)
           \/ LockOwn(i) \/ WaitAndPop(i) \/ WaitStopped(i) \/ Drain(i)
           \/ FinishTask(i)

Terminated == owner = "done" /\ UNCHANGED vars

Next ==
  \/ OwnerSubmits
  \/ \E a \in 0..N : Push(a)
  \/ \E i \in Threads : Step(i) \/ TaskSubmits(i) \/ RequestStop(i)
  \/ DestroyQueues
  \/ Terminated

Spec == Init /\ [][Next]_vars

(***************************************************************************)
(* The OS runs every thread, a task ends (tasks do not wait for tasks of   *)
(* the same pool), an emplace() and a destructor that were entered go on.  *)
(* Nobody has to submit a task or to destroy the pool.                     *)
(***************************************************************************)
Fairness ==
  /\ \A i \in Threads : WF_vars(Step(i))
  /\ \A a \in 0..N : WF_vars(Push(a))
  /\ \A i \in Threads : WF_vars(owner = "destroying" /\ RequestStop(i))
  /\ WF_vars(DestroyQueues)

FairSpec == Spec /\ Fairness

-----------------------------------------------------------------------------
(* Properties *)

\* A task is in one place: a submitted task that has not ended is in one
\* queue, once, or run by one thread, and no other task is anywhere.  So
\* stealing neither loses a task nor runs it twice.
QueuedOnce ==
  \A i, j \in Threads : \A k \in 1..Len(queue[i]), l \in 1..Len(queue[j]) :
    queue[i][k] = queue[j][l] => i = j /\ k = l

RunOnce ==
  \A i, j \in Threads : Running(i) /\ task[i] = task[j] => i = j

OnePlace ==
  /\ QueuedOnce
  /\ RunOnce
  /\ \A i \in Threads : Running(i) <=> task[i] # NoTask
  /\ \A a, b \in 0..N : emplacing[a] = emplacing[b] => a = b \/ emplacing[a] = NoTask
  /\ \A i \in Threads, a \in 0..N :
       /\ task[i] \notin Queued /\ emplacing[a] \notin Queued
       /\ task[i] = emplacing[a] => task[i] = NoTask
  /\ \A t \in Tasks : future[t] = "pending" <=>
                        \/ t \in Queued
                        \/ \E i \in Threads : task[i] = t
                        \/ \E a \in 0..N : emplacing[a] = t

\* A thread that has left its loop leaves no task of the owner in its queue:
\* the destructor finishes all that was submitted before it was called.
RootsFinished ==
  \A i \in Threads : at[i] = "exited" =>
    \A k \in 1..Len(queue[i]) : queue[i][k] \notin Roots

\* No task is lost, run twice, or left in the queue of a thread that is gone.
NoTaskLeftBehind == OnePlace /\ RootsFinished

\* The pool does what TaskExecutor promises.
Fate(t) ==
  CASE future[t] = "none" -> "unborn"
    [] future[t] = "pending" ->
         IF \E i \in Threads : task[i] = t THEN "running" ELSE "waiting"
    [] OTHER -> future[t]

Executor == INSTANCE TaskExecutor WITH
              fate <- [t \in Tasks |-> Fate(t)], closed <- owner # "submitting"

ImplementsExecutor == Executor!Spec

\* Every submitted task ends, or its promise is broken: no task is forgotten
\* in the queue of a thread that sleeps, even though an idle thread waits on
\* its own queue only.
EveryFutureAvailable ==
  \A t \in Tasks : future[t] = "pending" ~> future[t] \in {"ready", "broken"}

\* The destructor returns.
DestructorReturns == owner = "destroying" ~> owner = "done"

\* Nobody who waits for the pool waits for ever: for a task, or for its threads.
EveryWaitEnds == EveryFutureAvailable /\ DestructorReturns

=============================================================================
