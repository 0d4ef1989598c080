--------------------------- MODULE ResourceLoader ---------------------------
(***************************************************************************)
(* The asynchronous resource cache: ResourceLoader::get_resource() called  *)
(* by coroutines ("tasks"), and the loading jobs that create, update or    *)
(* fail a resource through ResourceLoaderContext, over one                 *)
(* ResourceRegistry::Storage (all resources of one type).                  *)
(*                                                                         *)
(* A step is what the code does between taking a lock and releasing it;    *)
(* the one lock held across steps is the shared map_mutex that             *)
(* await_suspend() keeps from its look at the entry to its insertion into  *)
(* `pending` (pc = "push"), which keeps create_resource() out and nothing  *)
(* else.  A failed assert() stops the program: `aborted` names it.         *)
(***************************************************************************)
EXTENDS Naturals

CONSTANTS
  Tasks,        \* coroutines that request resources
  Jobs,         \* frames of loading jobs; a finished frame is reused
  UUIDs,        \* the resources of this storage
  Incremental,  \* those whose loader publishes partial results (meshes, textures)
  FinalEpoch    \* stands for u32(-1): bounds the number of partial updates

ASSUME LoaderAssumption ==
  /\ Incremental \subseteq UUIDs
  /\ FinalEpoch \in Nat \ {0}

VARIABLES
  entry,        \* map: the epoch of each entry, NullEpoch if there is none
  pending,      \* the keys of the pending map: "is being loaded"
  incremental,  \* PendingLists::incremental of each key
  only_final,   \* PendingLists::only_final of each key
  pc,           \* where each task is
  req,          \* the Awaiter of its latest request
  jpc,          \* where each loading job is
  job,          \* its uuid and what it passes to resolve_pending()
  handles,      \* the handles moved out of `pending` it has yet to resume
  aborted       \* the assertion that stopped the program, "none" while it runs

taskVars    == <<pc, req>>
pendingVars == <<pending, incremental, only_final>>
jobVars     == <<jpc, job, handles>>
vars == <<entry, pendingVars, taskVars, jobVars, aborted>>

NullEpoch == 0
Epochs    == NullEpoch..FinalEpoch

\* `epoch` is *inout_epoch, which stays null for a caller that passes no pointer.
Requests == [uuid: UUIDs, only_final: BOOLEAN, epoch: Epochs]
Loads    == [uuid: UUIDs, epoch: Epochs, failed: BOOLEAN]

Assertions == {"already cached", "not wanted", "failed after create",
               "no entry", "not pending", "already complete"}

TypeOK ==
  /\ entry \in [UUIDs -> Epochs]
  /\ pending \in SUBSET UUIDs
  /\ incremental \in [UUIDs -> SUBSET Tasks]
  /\ only_final \in [UUIDs -> SUBSET Tasks]
  /\ pc \in [Tasks -> {"idle", "suspend", "push", "suspended", "resumed",
                       "rethrow", "got", "failed"}]
  /\ req \in [Tasks -> Requests]
  /\ jpc \in [Jobs -> {"free", "loading", "updating", "failing",
                       "resolving", "resuming"}]
  /\ job \in [Jobs -> Loads]
  /\ handles \in [Jobs -> SUBSET Tasks]
  /\ aborted \in Assertions \cup {"none"}

Init ==
  /\ entry = [u \in UUIDs |-> NullEpoch]
  /\ pending = {}
  /\ incremental = [u \in UUIDs |-> {}]
  /\ only_final = [u \in UUIDs |-> {}]
  /\ pc = [t \in Tasks |-> "idle"]
  /\ req \in [Tasks -> [uuid: UUIDs, only_final: {TRUE}, epoch: {NullEpoch}]]
  /\ jpc = [j \in Jobs |-> "free"]
  /\ job \in [Jobs -> [uuid: UUIDs, epoch: {NullEpoch}, failed: {FALSE}]]
  /\ handles = [j \in Jobs |-> {}]
  /\ aborted = "none"

-----------------------------------------------------------------------------
(* The requesting side. *)

\* Awaiter::_caller_wants(); an entry that does not exist is wanted by nobody.
CallerWants(r, e) ==
  /\ e # NullEpoch
  /\ IF r.only_final THEN e = FinalEpoch ELSE e > r.epoch

Take(r) == IF r.only_final THEN r ELSE [r EXCEPT !.epoch = entry[r.uuid]]

\* A request takes the cached entry if it wants it, and goes `next` if not.
TakeOr(t, r, next) ==
  \/ /\ CallerWants(r, entry[r.uuid])
     /\ req' = [req EXCEPT ![t] = Take(r)]
     /\ pc' = [pc EXCEPT ![t] = "got"]
  \/ /\ ~CallerWants(r, entry[r.uuid])
     /\ req' = [req EXCEPT ![t] = r]
     /\ pc' = [pc EXCEPT ![t] = next]

\* co_await get_resource() by a new coroutine, up to the end of await_ready().
GetResource(t, u, f) ==
  /\ aborted = "none"
  /\ pc[t] \in {"idle", "got", "failed"}
  /\ TakeOr(t, [uuid |-> u, only_final |-> f, epoch |-> NullEpoch], "suspend")
  /\ UNCHANGED <<entry, pendingVars, jobVars, aborted>>

\* The same coroutine comes back for the epochs after the one it was given.
GetNextEpoch(t) ==
  /\ aborted = "none"
  /\ pc[t] = "got"
  /\ ~req[t].only_final
  /\ req[t].epoch # FinalEpoch
  /\ TakeOr(t, req[t], "suspend")
  /\ UNCHANGED <<entry, pendingVars, jobVars, aborted>>

\* await_suspend() locks the map and looks at the entry once more.
AwaitSuspend(t) ==
  /\ aborted = "none"
  /\ pc[t] = "suspend"
  /\ TakeOr(t, req[t], "push")
  /\ UNCHANGED <<entry, pendingVars, jobVars, aborted>>

\* _start_loading(): the job gets as far as rescheduling itself to the pool.
StartLoading(j, u) ==
  /\ jpc[j] = "free"
  /\ jpc' = [jpc EXCEPT ![j] = "loading"]
  /\ job' = [job EXCEPT ![j] = [uuid |-> u, epoch |-> NullEpoch, failed |-> FALSE]]
  /\ UNCHANGED handles

PushHandle(t, u) ==
  IF req[t].only_final
  THEN /\ only_final' = [only_final EXCEPT ![u] = @ \cup {t}]
       /\ UNCHANGED incremental
  ELSE /\ incremental' = [incremental EXCEPT ![u] = @ \cup {t}]
       /\ UNCHANGED only_final

\* Whoever creates the pending entry starts the load.
PushPending(t) ==
  LET u == req[t].uuid IN
  /\ aborted = "none"
  /\ pc[t] = "push"
  /\ pending' = pending \cup {u}
  /\ PushHandle(t, u)
  /\ \/ u \in pending /\ UNCHANGED jobVars
     \/ u \notin pending /\ \E j \in Jobs : StartLoading(j, u)
  /\ pc' = [pc EXCEPT ![t] = "suspended"]
  /\ UNCHANGED <<entry, req, aborted>>

Abort(a) == aborted' = a

\* await_resume() of a task resumed with a new epoch.
AwaitResume(t) ==
  LET e == entry[req[t].uuid] IN
  /\ aborted = "none"
  /\ pc[t] = "resumed"
  /\ \/ e = NullEpoch /\ Abort("no entry") /\ UNCHANGED taskVars
     \/ /\ e # NullEpoch /\ ~CallerWants(req[t], e)
        /\ Abort("not wanted") /\ UNCHANGED taskVars
     \/ /\ CallerWants(req[t], e)
        /\ req' = [req EXCEPT ![t] = Take(req[t])]
        /\ pc' = [pc EXCEPT ![t] = "got"]
        /\ UNCHANGED aborted
  /\ UNCHANGED <<entry, pendingVars, jobVars>>

\* await_resume() of a task resumed inside the catch block of resolve_pending().
AwaitRethrow(t) ==
  /\ aborted = "none"
  /\ pc[t] = "rethrow"
  /\ pc' = [pc EXCEPT ![t] = "failed"]
  /\ UNCHANGED <<entry, pendingVars, req, jobVars, aborted>>

-----------------------------------------------------------------------------
(* The loading side. *)

\* Mutant: create_resource() takes map_mutex shared.
MapIsShared == TRUE

MapIsUnlocked == \A t \in Tasks : pc[t] # "push"

\* What create_resource() and update_resource() publish, then resolve.
Publish(j, e) ==
  /\ entry' = [entry EXCEPT ![job[j].uuid] = e]
  /\ job' = [job EXCEPT ![j].epoch = e]
  /\ jpc' = [jpc EXCEPT ![j] = "resolving"]

\* Mutant: final_epoch is one past the last epoch.
NextEpochsPastFinal(u) == {entry[u] + 1, FinalEpoch + 1}

NextEpochs(u) ==
  {e \in {entry[u] + 1, FinalEpoch} : e <= FinalEpoch /\ (u \notin Incremental => e = FinalEpoch)}

CreateResource(j) ==
  LET u == job[j].uuid IN
  /\ aborted = "none"
  /\ jpc[j] = "loading"
  /\ MapIsUnlocked
  /\ \/ /\ entry[u] # NullEpoch
        /\ Abort("already cached") /\ UNCHANGED <<entry, jobVars>>
     \/ /\ entry[u] = NullEpoch
        /\ \E e \in NextEpochs(u) : Publish(j, e)
        /\ UNCHANGED <<handles, aborted>>
  /\ UNCHANGED <<pendingVars, taskVars>>

UpdateResource(j) ==
  LET u == job[j].uuid IN
  /\ aborted = "none"
  /\ jpc[j] = "updating"
  /\ \/ entry[u] = NullEpoch /\ Abort("no entry") /\ UNCHANGED <<entry, jobVars>>
     \/ entry[u] = FinalEpoch /\ Abort("already complete") /\ UNCHANGED <<entry, jobVars>>
     \/ /\ entry[u] \notin {NullEpoch, FinalEpoch}
        /\ \E e \in NextEpochs(u) : Publish(j, e)
        /\ UNCHANGED <<handles, aborted>>
  /\ UNCHANGED <<pendingVars, taskVars>>

\* An exception leaves the body of the loader, before or after create_resource().
Throw(j) ==
  /\ aborted = "none"
  /\ jpc[j] \in {"loading", "updating"}
  /\ jpc' = [jpc EXCEPT ![j] = "failing"]
  /\ UNCHANGED <<entry, pendingVars, taskVars, job, handles, aborted>>

\* Mutant: fail_resource() does not look at the entry.
FailResourceUnchecked(j) ==
  /\ aborted = "none"
  /\ jpc[j] = "failing"
  /\ job' = [job EXCEPT ![j].epoch = FinalEpoch, ![j].failed = TRUE]
  /\ jpc' = [jpc EXCEPT ![j] = "resolving"]
  /\ UNCHANGED <<entry, handles, aborted, pendingVars, taskVars>>

\* catch (...) { context.fail_resource(uuid); }
FailResource(j) ==
  /\ aborted = "none"
  /\ jpc[j] = "failing"
  /\ \/ /\ entry[job[j].uuid] # NullEpoch
        /\ Abort("failed after create") /\ UNCHANGED jobVars
     \/ /\ entry[job[j].uuid] = NullEpoch
        /\ job' = [job EXCEPT ![j].epoch = FinalEpoch, ![j].failed = TRUE]
        /\ jpc' = [jpc EXCEPT ![j] = "resolving"]
        /\ UNCHANGED <<handles, aborted>>
  /\ UNCHANGED <<entry, pendingVars, taskVars>>

\* Mutant: the pending entry is erased on every update.
FinalResolveAlways(j) == TRUE

FinalResolve(j) == job[j].epoch = FinalEpoch \/ job[j].failed

\* Mutants: the final epoch resumes the incremental list only, or only if
\* there is one.
TakenIncremental(j) == incremental[job[j].uuid]
TakenOneList(j) ==
  LET u == job[j].uuid IN
  IF FinalResolve(j) /\ incremental[u] = {} THEN only_final[u] ELSE incremental[u]

Taken(j) ==
  LET u == job[j].uuid IN
  IF FinalResolve(j) THEN incremental[u] \cup only_final[u] ELSE incremental[u]

\* resolve_pending(), under pending_mutex: move the handles out.
ResolvePending(j) ==
  LET u == job[j].uuid IN
  /\ aborted = "none"
  /\ jpc[j] = "resolving"
  /\ \/ /\ u \notin pending
        /\ Abort("not pending") /\ UNCHANGED <<pendingVars, jobVars>>
     \/ /\ u \in pending
        /\ handles' = [handles EXCEPT ![j] = Taken(j)]
        /\ incremental' = [incremental EXCEPT ![u] = {}]
        /\ \/ /\ FinalResolve(j)
              /\ only_final' = [only_final EXCEPT ![u] = {}]
              /\ pending' = pending \ {u}
           \/ /\ ~FinalResolve(j)
              /\ UNCHANGED <<only_final, pending>>
        /\ jpc' = [jpc EXCEPT ![j] = "resuming"]
        /\ UNCHANGED <<job, aborted>>
  /\ UNCHANGED <<entry, taskVars>>

\* handle.resume(), outside every lock.
ResumeHandle(j, t) ==
  /\ aborted = "none"
  /\ jpc[j] = "resuming"
  /\ t \in handles[j]
  /\ handles' = [handles EXCEPT ![j] = @ \ {t}]
  /\ pc' = [pc EXCEPT ![t] = IF job[j].failed THEN "rethrow" ELSE "resumed"]
  /\ UNCHANGED <<entry, pendingVars, req, jpc, job, aborted>>

\* resolve_pending() returns; the loader goes on with the next part or finishes.
ResolveReturns(j) ==
  /\ aborted = "none"
  /\ jpc[j] = "resuming"
  /\ handles[j] = {}
  /\ jpc' = [jpc EXCEPT ![j] = IF job[j].epoch = FinalEpoch THEN "free" ELSE "updating"]
  /\ UNCHANGED <<entry, pendingVars, taskVars, job, handles, aborted>>

Aborted == aborted # "none" /\ UNCHANGED vars

-----------------------------------------------------------------------------

TaskStep(t) ==
  \/ AwaitSuspend(t)
  \/ PushPending(t)
  \/ AwaitResume(t)
  \/ AwaitRethrow(t)

JobStep(j) ==
  \/ UpdateResource(j)
  \/ FailResource(j)
  \/ ResolvePending(j)
  \/ \E t \in Tasks : ResumeHandle(j, t)
  \/ ResolveReturns(j)

Next ==
  \/ \E t \in Tasks, u \in UUIDs, f \in BOOLEAN : GetResource(t, u, f)
  \/ \E t \in Tasks : GetNextEpoch(t) \/ TaskStep(t)
  \/ \E j \in Jobs : CreateResource(j) \/ Throw(j) \/ JobStep(j)
  \/ Aborted

Spec == Init /\ [][Next]_vars

(***************************************************************************)
(* A thread of the pool that runs a task or a job keeps running it; nobody *)
(* has to make a request and no load has to fail.  create_resource() waits *)
(* for readers to leave map_mutex, who come and go: it gets the lock in    *)
(* the end (strong fairness), as every reader holds it briefly.            *)
(***************************************************************************)
Fairness ==
  /\ \A t \in Tasks : WF_vars(TaskStep(t))
  /\ \A j \in Jobs : WF_vars(JobStep(j)) /\ SF_vars(CreateResource(j))

FairSpec == Spec /\ Fairness

-----------------------------------------------------------------------------
(* Properties. *)

\* The loading job that has yet to take u's handles out of `pending` for good.
Loading(j, u) ==
  /\ job[j].uuid = u
  /\ \/ jpc[j] \in {"loading", "updating", "failing", "resolving"}
     \/ jpc[j] = "resuming" /\ job[j].epoch # FinalEpoch

\* The presence of a key in `pending` means that the resource is being loaded
\* (ResourceRegistry::Storage::PendingLists): by one job, and never by two.
PendingIffLoading ==
  /\ \A u \in UUIDs : u \in pending <=> \E j \in Jobs : Loading(j, u)
  /\ \A u \in UUIDs : \A i, j \in Jobs : Loading(i, u) /\ Loading(j, u) => i = j

\* A suspended coroutine is in the hands of a job that will resume it, or in a
\* list such a job will take: no interleaving of await_suspend() with
\* resolve_pending() leaves a request that nobody answers.
NoLostRequest ==
  \A t \in Tasks : pc[t] = "suspended" =>
    LET u == req[t].uuid IN
    \/ u \in pending /\ t \in incremental[u] \cup only_final[u]
    \/ \E j \in Jobs : t \in handles[j] /\ job[j].uuid = u /\ jpc[j] = "resuming"

\* A handle is held in one place only and only while its coroutine is suspended
\* on that resource: nothing resumes a coroutine twice or while it runs.
ResumedOnce ==
  /\ \A u \in UUIDs : \A t \in incremental[u] \cup only_final[u] :
       pc[t] = "suspended" /\ req[t].uuid = u
  /\ \A u \in UUIDs : incremental[u] \cap only_final[u] = {}
  /\ \A j \in Jobs : \A t \in handles[j] :
       /\ jpc[j] = "resuming" /\ pc[t] = "suspended"
       /\ \A u \in UUIDs : t \notin incremental[u] \cup only_final[u]
       /\ \A i \in Jobs : t \in handles[i] => i = j

\* Who waits for a resource is held by those who load it, and once.
WaitersHeldOnce == NoLostRequest /\ ResumedOnce

\* A resource whose loader publishes it complete is loaded once: no second load
\* ever starts from a request that saw it missing (the assertion of
\* create_resource()), and no load fails after having published it.
OneShotLoadedOnce ==
  \A j \in Jobs :
    /\ job[j].uuid \notin Incremental
    /\ jpc[j] \in {"loading", "failing"}
    => entry[job[j].uuid] = NullEpoch

\* Nothing is loaded by two at once, nor again after it was published complete.
LoadedOnce == PendingIffLoading /\ OneShotLoadedOnce

\* resolve_pending() always finds the pending entry of what it publishes, a resumed
\* request finds an entry, and update_resource() one that is not complete.
AssertionsHold == aborted \notin {"no entry", "not pending", "already complete"}

\* No interleaving of requests, loads and failures trips any of the assertions.
NeverAborted == aborted = "none"

\* A published resource is never unpublished or taken back to an older epoch.
EpochsGrow == [][\A u \in UUIDs : entry'[u] >= entry[u]]_vars

\* The loader does what ResourceCache promises, until an assertion stops it: a
\* request waits from its look at the entry until it is given one or the exception,
\* and it is as good as failed once a job that failed has it in hand.
Status(t) == IF pc[t] \in {"idle", "got", "failed"} THEN pc[t] ELSE "waiting"

Unlucky ==
  {t \in Tasks : pc[t] = "rethrow" \/ \E j \in Jobs : t \in handles[j] /\ job[j].failed}

Cache == INSTANCE ResourceCache WITH
  epoch <- entry, loading <- pending, request <- req,
  status <- [t \in Tasks |-> Status(t)], unlucky <- Unlucky

ImplementsCache == Cache!Spec

\* Every suspended request is answered, with a resource or an exception (unless
\* an assertion stops the program, which takes a partial resource).
EveryRequestAnswered ==
  \A t \in Tasks :
    pc[t] = "suspended" ~> pc[t] \in {"got", "failed"} \/ aborted # "none"

\* ResourceLoader.hpp:405: "Attempted to create a new resource, but it was already cached."
NeverAlreadyCached == aborted # "already cached"

=============================================================================
