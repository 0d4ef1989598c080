---------------------------- MODULE AsyncCradle ----------------------------
(***************************************************************************)
(* AsyncCradle: the executors that jobs hop between, and how the engine    *)
(* shuts them down.  A job is a coroutine; its steps are what it awaits.   *)
(* It runs on the thread of an executor until the next of them suspends    *)
(* it.  The loading pool (a thread pool, abstracted by what TaskExecutor   *)
(* says of one), the offscreen GPU context, the completion context and the *)
(* local context, run by the main thread, each have a queue.               *)
(*                                                                         *)
(* The frame of a job lives until the job ended and nobody holds its Job.  *)
(* The frame of a guarded job holds a SingleTaskGuard.  At shutdown the    *)
(* main thread runs the local context until the counter says that no task  *)
(* is in flight, and only then destroys what the jobs use.                 *)
(*                                                                         *)
(* A started job runs at once on the thread that starts it; a child is     *)
(* shown from its first reschedule on.                                     *)
(***************************************************************************)
EXTENDS Naturals, Sequences, FiniteSets

CONSTANTS
  Jobs,
  Steps,     \* what each job awaits, in order
  Children,  \* the jobs each job starts and holds
  Guarded,   \* jobs whose context has a task guard
  Viewed,    \* jobs whose Job the viewer keeps until it sees the result
  PoolSize,  \* threads of the loading pool
  QuitsAnytime \* whether the user quits while jobs without a guard go on

Executors == {"pool", "offscreen", "local"}
Threads   == Executors \cup {"completion"}
Nowhere   == "nowhere"

\* reschedule_to(e), until_ready_on(e, fence), the starting of all children,
\* until_all_succeed(children), and CompletionContext::until_all_ready(children).
Go(e)    == [op |-> "go", on |-> e]
Fence(e) == [op |-> "fence", on |-> e]
Spawn    == [op |-> "spawn", on |-> Nowhere]
Join     == [op |-> "join", on |-> Nowhere]
Poll     == [op |-> "poll", on |-> Nowhere]
StepKinds ==
  {Go(e) : e \in Executors} \cup {Fence(e) : e \in {"offscreen", "local"}}
  \cup {Spawn, Join, Poll}

ASSUME CradleAssumption ==
  /\ Steps \in [Jobs -> Seq(StepKinds)]
  /\ Children \in [Jobs -> SUBSET Jobs]
  /\ \A c, d \in Jobs : c # d => Children[c] \cap Children[d] = {}
  /\ \A c \in Jobs : \A d \in Children[c] :
       d # c /\ Steps[d] # <<>> /\ Steps[d][1].op = "go"
  /\ Guarded \subseteq Jobs
  /\ Viewed \subseteq Jobs
  /\ PoolSize \in Nat \ {0}
  /\ QuitsAnytime \in BOOLEAN

Roots == {c \in Jobs : \A p \in Jobs : c \notin Children[p]}

VARIABLES
  at,          \* unborn, running, suspended, ready (the result is set), ended
  step,        \* the next step of each job
  thread,      \* the executor whose thread runs the job
  signaled,    \* jobs whose last fence has signaled
  remaining,   \* the children that a joining job still waits for
  pool,        \* entries of the queues of the loading pool
  queue,       \* entries of the queues of the other three
  completables, \* local_completables
  frames,      \* the coroutine frames that exist
  viewed,      \* the frames that the viewer holds
  count,       \* TaskCounterGuard::count_
  main,        \* what the main thread does
  worked,      \* drain_all_tasks() has run some task
  members      \* what the jobs use still exists

vars == <<at, step, thread, signaled, remaining, pool, queue, completables,
          frames, viewed, count, main, worked, members>>
jobVars  == <<at, step, thread, remaining>>
heapVars == <<frames, viewed, count>>
mainVars == <<main, worked, members>>

\* An entry resumes the job, checks its fence, checks it again later, or has
\* its children watched.
Entry(c, act) == [job |-> c, act |-> act]

Init ==
  /\ at = [c \in Jobs |-> "unborn"]
  /\ step = [c \in Jobs |-> 1]
  /\ thread = [c \in Jobs |-> Nowhere]
  /\ signaled = {}
  /\ remaining = [c \in Jobs |-> {}]
  /\ pool = {}
  /\ queue = [e \in Threads \ {"pool"} |-> <<>>]
  /\ completables = {}
  /\ frames = {}
  /\ viewed = {}
  /\ count = 0
  /\ main = "frame"
  /\ worked = FALSE
  /\ members = TRUE

-----------------------------------------------------------------------------

On(t)   == {c \in Jobs : thread[c] = t}
Busy(t) == On(t) # {}

Emplace(e, entry) ==
  IF e = "pool" THEN /\ pool' = pool \cup {entry}
                     /\ UNCHANGED queue
                ELSE /\ queue' = [queue EXCEPT ![e] = Append(@, entry)]
                     /\ UNCHANGED pool

Awaits(c, op) == at[c] = "running" /\ step[c] <= Len(Steps[c]) /\ Steps[c][step[c]].op = op

Suspend(c) ==
  /\ at' = [at EXCEPT ![c] = "suspended"]
  /\ thread' = [thread EXCEPT ![c] = Nowhere]
  /\ step' = [step EXCEPT ![c] = @ + 1]

HasResult(c) == at[c] \in {"ready", "ended"}

Reschedule(c) ==
  /\ Awaits(c, "go")
  /\ Emplace(Steps[c][step[c]].on, Entry(c, "resume"))
  /\ Suspend(c)
  /\ UNCHANGED <<signaled, remaining, completables, heapVars, mainVars>>

AwaitFence(c) ==
  /\ Awaits(c, "fence")
  /\ Emplace(Steps[c][step[c]].on, Entry(c, "check"))
  /\ signaled' = signaled \ {c}
  /\ Suspend(c)
  /\ UNCHANGED <<remaining, completables, heapVars, mainVars>>

SpawnChild(c) ==
  /\ Awaits(c, "spawn")
  /\ \E d \in {d \in Children[c] : at[d] = "unborn"} :
       /\ at' = [at EXCEPT ![d] = "suspended"]
       /\ step' = [step EXCEPT ![c] = IF \E x \in Children[c] \ {d} : at[x] = "unborn"
                                      THEN @ ELSE @ + 1,
                               ![d] = 2]
       /\ Emplace(Steps[d][1].on, Entry(d, "resume"))
       /\ frames' = frames \cup {d}
       /\ count' = IF d \in Guarded THEN count + 1 ELSE count
  /\ UNCHANGED <<thread, signaled, remaining, completables, viewed, mainVars>>

\* Mutant: a child that has its result is waited for as well.
JoinAllChildren(c) ==
  /\ Awaits(c, "join")
  /\ Suspend(c)
  /\ remaining' = [remaining EXCEPT ![c] = Children[c]]
  /\ UNCHANGED <<signaled, pool, queue, completables, heapVars, mainVars>>

\* A child that has its result takes no continuation.
JoinChildren(c) ==
  LET unready == {d \in Children[c] : ~HasResult(d)} IN
  /\ Awaits(c, "join")
  /\ IF unready = {} THEN /\ step' = [step EXCEPT ![c] = @ + 1]
                          /\ UNCHANGED <<at, thread>>
                     ELSE Suspend(c)
  /\ remaining' = [remaining EXCEPT ![c] = unready]
  /\ UNCHANGED <<signaled, pool, queue, completables, heapVars, mainVars>>

PollChildren(c) ==
  /\ Awaits(c, "poll")
  /\ IF \A d \in Children[c] : HasResult(d)
     THEN /\ step' = [step EXCEPT ![c] = @ + 1]
          /\ UNCHANGED <<at, thread, pool, queue>>
     ELSE /\ Emplace("completion", Entry(c, "watch"))
          /\ Suspend(c)
  /\ UNCHANGED <<signaled, remaining, completables, heapVars, mainVars>>

\* The body returns, or throws, wherever it is.
Return(c) ==
  /\ at[c] = "running"
  /\ at' = [at EXCEPT ![c] = "ready"]
  /\ UNCHANGED <<step, thread, signaled, remaining, pool, queue, completables,
                 heapVars, mainVars>>

\* Mutant: a parent that has ended still holds its children.
HeldForever(c) == \/ c \in viewed
                  \/ \E p \in Jobs : c \in Children[p] /\ at[p] # "unborn"

Held(c) == \/ c \in viewed
           \/ \E p \in Jobs : c \in Children[p] /\ at[p] \notin {"unborn", "ended"}

Free(freed) ==
  /\ frames' = frames \ freed
  /\ count' = count - Cardinality(freed \cap Guarded)

\* The Jobs of the children go with the locals of c, the frame of c with its
\* last owner, and the thread to the parent that waited for c alone.
FinalSuspend(c) ==
  LET waiting == {p \in Jobs : remaining[p] = {c}} IN
  /\ at[c] = "ready"
  /\ at' = [d \in Jobs |-> IF d = c THEN "ended"
                           ELSE IF d \in waiting THEN "running" ELSE at[d]]
  /\ thread' = [d \in Jobs |-> IF d = c THEN Nowhere
                               ELSE IF d \in waiting THEN thread[c] ELSE thread[d]]
  /\ remaining' = [p \in Jobs |-> remaining[p] \ {c}]
  /\ Free({d \in Children[c] : at[d] = "ended"} \cup (IF Held(c) THEN {} ELSE {c}))
  /\ UNCHANGED <<step, signaled, pool, queue, completables, viewed, mainVars>>

Run(c) == \/ Reschedule(c) \/ AwaitFence(c) \/ SpawnChild(c)
          \/ JoinChildren(c) \/ PollChildren(c) \/ Return(c) \/ FinalSuspend(c)

-----------------------------------------------------------------------------
(* The executors *)

Resume(c, t) ==
  /\ at' = [at EXCEPT ![c] = "running"]
  /\ thread' = [thread EXCEPT ![c] = t]

FenceSignals(c) ==
  /\ at[c] = "suspended" /\ step[c] > 1 /\ Steps[c][step[c] - 1].op = "fence"
  /\ c \notin signaled
  /\ signaled' = signaled \cup {c}
  /\ UNCHANGED <<jobVars, pool, queue, completables, heapVars, mainVars>>

PoolTake(c) ==
  /\ Cardinality(On("pool")) < PoolSize
  /\ Entry(c, "resume") \in pool
  /\ pool' = pool \ {Entry(c, "resume")}
  /\ Resume(c, "pool")
  /\ UNCHANGED <<step, signaled, remaining, queue, completables, heapVars, mainVars>>

\* A check that fails is put off: the completion context will emplace another.
Take(t) ==
  LET entry == Head(queue[t])
      c     == entry.job
      rest  == [queue EXCEPT ![t] = Tail(@)]
  IN
  /\ queue[t] # <<>> /\ ~Busy(t)
  /\ \/ /\ entry.act = "resume" \/ (entry.act = "check" /\ c \in signaled)
        /\ Resume(c, t)
        /\ queue' = rest
     \/ /\ entry.act = "check" /\ c \notin signaled
        /\ queue' = [rest EXCEPT !["completion"] = Append(@, Entry(c, "again"))]
        /\ UNCHANGED <<at, thread>>
  /\ UNCHANGED <<step, signaled, remaining, pool, completables, heapVars>>

OffscreenTake == Take("offscreen") /\ UNCHANGED mainVars

\* Mutant: the completion context checks the fence itself.
CompletionChecks ==
  LET entry == Head(queue["completion"])
      c     == entry.job
      rest  == [queue EXCEPT !["completion"] = Tail(@)]
  IN
  /\ queue["completion"] # <<>> /\ ~Busy("completion")
  /\ \/ /\ entry.act = "again" /\ c \in signaled
        /\ queue' = rest
        /\ Resume(c, "completion")
        /\ UNCHANGED completables
     \/ /\ entry.act = "watch"
        /\ completables' = completables \cup {c}
        /\ queue' = rest
        /\ UNCHANGED <<at, thread>>
  /\ UNCHANGED <<step, signaled, remaining, pool, heapVars, mainVars>>

CompletionTake ==
  LET entry == Head(queue["completion"])
      c     == entry.job
      e     == Steps[c][step[c] - 1].on
      rest  == [queue EXCEPT !["completion"] = Tail(@)]
  IN
  /\ queue["completion"] # <<>> /\ ~Busy("completion")
  /\ \/ /\ entry.act = "again"
        /\ queue' = [rest EXCEPT ![e] = Append(@, Entry(c, "check"))]
        /\ UNCHANGED completables
     \/ /\ entry.act = "watch"
        /\ completables' = completables \cup {c}
        /\ queue' = rest
  /\ UNCHANGED <<jobVars, signaled, pool, heapVars, mainVars>>

CompletionSweep(c) ==
  /\ c \in completables /\ ~Busy("completion")
  /\ \A d \in Children[c] : HasResult(d)
  /\ completables' = completables \ {c}
  /\ Resume(c, "completion")
  /\ UNCHANGED <<step, signaled, remaining, pool, queue, heapVars, mainVars>>

-----------------------------------------------------------------------------
(* The main thread *)

MainIdle == ~Busy("local")

Start(c) ==
  /\ main = "frame" /\ MainIdle
  /\ c \in Roots /\ at[c] = "unborn"
  /\ Resume(c, "local")
  /\ frames' = frames \cup {c}
  /\ viewed' = IF c \in Viewed THEN viewed \cup {c} ELSE viewed
  /\ count' = IF c \in Guarded THEN count + 1 ELSE count
  /\ UNCHANGED <<step, remaining, signaled, pool, queue, completables, mainVars>>

\* Mutant: the viewer destroys the frame of a job that is still to suspend.
RetireAndDestroy(c) ==
  /\ main = "frame" /\ MainIdle
  /\ c \in viewed /\ HasResult(c)
  /\ viewed' = viewed \ {c}
  /\ Free({c})
  /\ UNCHANGED <<jobVars, signaled, pool, queue, completables, mainVars>>

\* The viewer sees the result and lets go of the Job.
Retire(c) ==
  /\ main = "frame" /\ MainIdle
  /\ c \in viewed /\ HasResult(c)
  /\ viewed' = viewed \ {c}
  /\ Free(IF at[c] = "ended" THEN {c} ELSE {})
  /\ UNCHANGED <<jobVars, signaled, pool, queue, completables, mainVars>>

\* flush_nonblocking() in a frame, flush_strong() in drain_all_tasks().
FlushLocal ==
  /\ main \in {"frame", "drain", "respin"}
  /\ Take("local")
  /\ worked' = (main # "frame")
  /\ UNCHANGED <<main, members>>

Quit ==
  /\ main = "frame" /\ MainIdle
  /\ QuitsAnytime \/ \A c \in Jobs \ Guarded : at[c] \in {"unborn", "ended"}
  /\ main' = "drain"
  /\ UNCHANGED <<jobVars, signaled, pool, queue, completables, heapVars, worked, members>>

\* The first flush has emptied the queue, and the flush of a round of the loop.
Flushed ==
  /\ main \in {"drain", "respin"} /\ MainIdle /\ queue["local"] = <<>>
  /\ main' = "spin"
  /\ UNCHANGED <<jobVars, signaled, pool, queue, completables, heapVars, worked, members>>

\* Mutant: the loop ends when the queue is empty.
SpinOnQueue ==
  /\ main = "spin"
  /\ IF worked THEN main' = "drain" /\ worked' = FALSE /\ UNCHANGED members
     ELSE IF members THEN main' = "drain" /\ members' = FALSE /\ UNCHANGED worked
     ELSE main' = "counter" /\ UNCHANGED <<worked, members>>
  /\ UNCHANGED <<jobVars, signaled, pool, queue, completables, heapVars>>

\* drain_all_tasks() is called until a call runs no task: first by the
\* application, before its members and those of the engine are destroyed, then
\* by the local context itself.
Spin ==
  /\ main = "spin"
  /\ IF count > 0 THEN main' = "respin" /\ UNCHANGED <<worked, members>>
     ELSE IF worked THEN main' = "drain" /\ worked' = FALSE /\ UNCHANGED members
     ELSE IF members THEN main' = "drain" /\ members' = FALSE /\ UNCHANGED worked
     ELSE main' = "counter" /\ UNCHANGED <<worked, members>>
  /\ UNCHANGED <<jobVars, signaled, pool, queue, completables, heapVars>>

\* The destructor of the next executor has joined its threads.  The requests
\* that the offscreen context still has, and the awaitables that the completion
\* context watches, are dropped.
Joined ==
  /\ \/ main = "counter" /\ count = 0 /\ main' = "offscreen"
        /\ UNCHANGED <<queue, completables>>
     \/ main = "offscreen" /\ ~Busy("offscreen") /\ main' = "completion"
        /\ queue' = [queue EXCEPT !["offscreen"] = <<>>]
        /\ UNCHANGED completables
     \/ main = "completion" /\ ~Busy("completion") /\ queue["completion"] = <<>>
        /\ main' = "pool" /\ completables' = {}
        /\ UNCHANGED queue
     \/ main = "pool" /\ ~Busy("pool") /\ pool = {} /\ main' = "exited"
        /\ UNCHANGED <<queue, completables>>
  /\ UNCHANGED <<jobVars, signaled, pool, heapVars, worked, members>>

Exited == main = "exited" /\ UNCHANGED vars

Next ==
  \/ \E c \in Jobs : \/ Run(c) \/ FenceSignals(c) \/ PoolTake(c) \/ CompletionSweep(c)
                     \/ Start(c) \/ Retire(c)
  \/ OffscreenTake \/ CompletionTake
  \/ FlushLocal \/ Quit \/ Flushed \/ Spin \/ Joined \/ Exited

\* Threads that have something to do get to run, the GPU signals its fences,
\* and frames are rendered until the user quits.  The user need not start
\* anything, look at a result, or quit.
Fairness ==
  /\ \A c \in Jobs : /\ WF_vars(Run(c))
                     /\ WF_vars(FenceSignals(c))
                     /\ WF_vars(PoolTake(c))
                     /\ WF_vars(CompletionSweep(c))
  /\ WF_vars(OffscreenTake) /\ WF_vars(CompletionTake)
  /\ WF_vars(FlushLocal) /\ WF_vars(Flushed) /\ WF_vars(Spin) /\ WF_vars(Joined)

Spec     == Init /\ [][Next]_vars
FairSpec == Spec /\ Fairness

-----------------------------------------------------------------------------
(* Properties *)

Entries(acts) == {Entry(c, act) : c \in Jobs, act \in acts}

TypeOK ==
  /\ at \in [Jobs -> {"unborn", "running", "suspended", "ready", "ended"}]
  /\ step \in [Jobs -> Nat] /\ \A c \in Jobs : step[c] \in 1..(Len(Steps[c]) + 1)
  /\ thread \in [Jobs -> Threads \cup {Nowhere}]
  /\ signaled \subseteq Jobs /\ completables \subseteq Jobs
  /\ remaining \in [Jobs -> SUBSET Jobs]
  /\ pool \subseteq Entries({"resume"})
  /\ DOMAIN queue = Threads \ {"pool"}
  /\ \A e \in {"offscreen", "local"} : queue[e] \in Seq(Entries({"resume", "check"}))
  /\ queue["completion"] \in Seq(Entries({"again", "watch"}))
  /\ frames \subseteq Jobs /\ viewed \subseteq frames
  /\ count \in Nat
  /\ main \in {"frame", "drain", "spin", "respin", "counter", "offscreen",
               "completion", "pool", "exited"}
  /\ worked \in BOOLEAN /\ members \in BOOLEAN

\* any_tasks_in_flight() is false only when no guarded job is under way: a job
\* counts its children before it stops counting itself.
CountCoversTasks ==
  count = 0 => \A c \in Guarded : at[c] \in {"unborn", "ended"}

\* "We have to drain tasks manually before destruction of any of the class
\* members, since some of the tasks might depend on those members being alive"
\* (DemoScene.cpp:247).
MembersOutliveTasks ==
  ~members => \A c \in Jobs : at[c] \in {"unborn", "ended"}

\* While a task is under way it is counted, and what it refers to is there.
TasksAreCovered == CountCoversTasks /\ MembersOutliveTasks

\* "Both the readiness check and resumption are guaranteed to happen in the
\* context of the specified executor" (CompletionContext.hpp:36), and no job
\* passes a fence that has not signaled.
RunsWhereScheduled ==
  \A c \in Jobs : at[c] = "running" /\ step[c] > 1 =>
    LET last == Steps[c][step[c] - 1] IN
    /\ last.op \in {"go", "fence"} => thread[c] = last.on
    /\ last.op = "fence" => c \in signaled

\* No job is stranded: not between executors, not when its last child ends as
\* it starts to wait, and not by a shutdown.
EveryJobEnds == \A c \in Jobs : at[c] # "unborn" ~> at[c] = "ended"

\* Once the user quits the program exits, if the viewer holds no job.
QuietShutdownEnds == main = "drain" /\ viewed = {} ~> main = "exited"

\* Every job that is there ends, and so does the program.
NothingStranded == EveryJobEnds /\ QuietShutdownEnds

=============================================================================
