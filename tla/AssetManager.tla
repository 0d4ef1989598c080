---------------------------- MODULE AssetManager ----------------------------
(***************************************************************************)
(* resource/AssetManager.{hpp,cpp} with its AssetCache, and the            *)
(* AssetUnpacker that holds the jobs of the main thread.                   *)
(*                                                                         *)
(* A job loads a texture, or a model with a child job for each of its      *)
(* textures.  The hops between the loading pool, the GPU context and the   *)
(* fence are those of AsyncCradle: here a job just goes on, at any time.   *)
(* Only the queue of the main thread matters, as nobody else empties it.   *)
(*                                                                         *)
(* A job is a coroutine frame, kept by a reference count: by who made the  *)
(* job, by the promise until the job ends, or, while the job is suspended  *)
(* in the cache, by the list that it waits in.                             *)
(***************************************************************************)
EXTENDS Integers, FiniteSets

CONSTANTS Requests,   \* the jobs that the main thread may start, 1 .. n
          Holders,    \* what holds a job: entities, the window of the manager
          Textures, Models,
          TexturesOf, \* TexturesOf[m]: what the materials of m refer to
          MaxThrows   \* bound of the loads that throw by themselves

ASSUME AssetsAssumption == /\ Requests \subseteq Nat
                           /\ TexturesOf \in [Models -> SUBSET Textures]
                           /\ Textures \cap Models = {}
                           /\ MaxThrows \in Nat

VARIABLES
    cache,    \* the assets that are stored
    pending,  \* the assets that have a list of those who wait
    waiting,  \* waiting[k]: that list
    job,
    Pending,  \* Pending[e]: the job that e holds, or NoJob
    main,     \* what the main thread does: "frame", "destroying", "done"
    throws,
    crashed   \* rethrow_exception() was called with a null pointer

cached == <<cache, pending, waiting>>
vars   == <<cached, job, Pending, main, throws, crashed>>

Assets == Textures \cup Models
NoJob  == <<>>
Jobs   == {<<r>> : r \in Requests} \cup (Requests \X Textures)

Steps == {"unborn", "queued", "asked", "suspended", "loading", "parsed", "local", "joining",
          "loaded", "failing", "resolving", "rejecting", "ready", "ended"}

(* list: those that the job is resuming; kids: its texture jobs. *)
Unborn == [at |-> "unborn", asset |-> "none", result |-> "none", owning |-> FALSE,
           list |-> {}, kids |-> {}]

TypeOK == /\ cache \subseteq Assets /\ pending \subseteq Assets
          /\ waiting \in [Assets -> SUBSET Jobs]
          /\ job \in [Jobs -> [at : Steps, asset : Assets \cup {"none"},
                               result : {"none", "value", "exception"}, owning : BOOLEAN,
                               list : SUBSET Jobs, kids : SUBSET Jobs]]
          /\ \A j \in Jobs : /\ job[j].at # "unborn" => job[j].asset \in Assets
                             /\ job[j].at \in {"ready", "ended"} <=> job[j].result # "none"
          /\ Pending \in [Holders -> Jobs \cup {NoJob}]
          /\ main \in {"frame", "destroying", "done"} /\ throws \in 0 .. MaxThrows
          /\ crashed \in BOOLEAN

Init == /\ cache = {} /\ pending = {} /\ waiting = [k \in Assets |-> {}]
        /\ job = [j \in Jobs |-> Unborn]
        /\ Pending = [e \in Holders |-> NoJob]
        /\ main = "frame" /\ throws = 0 /\ crashed = FALSE

IsModel(j) == job[j].asset \in Models
Ready(j)   == job[j].result # "none"

(* The task guard is a local of the coroutine. *)
InFlight == {j \in Jobs : job[j].at \notin {"unborn", "ended"}}

-----------------------------------------------------------------------------
(* The main thread *)

Started(k) == [Unborn EXCEPT !.at = "queued", !.asset = k, !.owning = TRUE]

(* In their order. *)
StartJob(r, k) == /\ main = "frame" /\ job[<<r>>].at = "unborn"
                  /\ \A q \in Requests : q < r => job[<<q>>].at # "unborn"
                  /\ job' = [job EXCEPT ![<<r>>] = Started(k)]

(* submit_model_for_unpacking() for a new job: one that was there is discarded. *)
Submit(r, e, k) ==
    /\ StartJob(r, k)
    /\ Pending' = [Pending EXCEPT ![e] = <<r>>]
    /\ UNCHANGED <<cached, main, throws, crashed>>

DestroyEntity(e) ==
    /\ main = "frame" /\ Pending[e] # NoJob
    /\ Pending' = [Pending EXCEPT ![e] = NoJob]
    /\ UNCHANGED <<cached, job, main, throws, crashed>>

Local == {j \in Jobs : job[j].at = "local"}

(* DemoScene::update(): the tasks of the jobs, then what is ready is unpacked. *)
update ==
    /\ main = "frame"
    /\ job' = [j \in Jobs |-> IF j \in Local THEN [job[j] EXCEPT !.at = "joining"] ELSE job[j]]
    /\ Pending' = [e \in Holders |-> IF Pending[e] # NoJob /\ Ready(Pending[e])
                                      THEN NoJob ELSE Pending[e]]
    /\ UNCHANGED <<cached, main, throws, crashed>>

(* The registry goes before the asset manager. *)
Quit ==
    /\ main = "frame" /\ main' = "destroying"
    /\ Pending' = [e \in Holders |-> NoJob]
    /\ UNCHANGED <<cached, job, throws, crashed>>

(* ~TaskCounterGuard() *)
Destroy ==
    /\ main = "destroying" /\ InFlight = {}
    /\ main' = "done"
    /\ UNCHANGED <<cached, job, Pending, throws, crashed>>

-----------------------------------------------------------------------------
(* get_if_cached_or_join_pending() *)

Returned(j, result) == [job EXCEPT ![j].at = "ready", ![j].result = result, ![j].list = {},
                                   ![j].kids = {}]

AwaitReady(j) ==
    /\ job[j].at = "queued"
    /\ job' = IF job[j].asset \in cache THEN Returned(j, "value")
              ELSE [job EXCEPT ![j].at = "asked"]
    /\ UNCHANGED <<cached, Pending, main, throws, crashed>>

Found(j) ==
    /\ job[j].asset \in cache
    /\ job' = Returned(j, "value")
    /\ UNCHANGED cached

\* Mutant: who finds a list does not look whether it is there already.
BecomeAnotherLoader(j) ==
    /\ job[j].asset \notin cache
    /\ pending' = pending \cup {job[j].asset}
    /\ job' = [job EXCEPT ![j].at = "loading"]
    /\ UNCHANGED <<cache, waiting>>

BecomeLoader(j) ==
    /\ job[j].asset \notin cache \cup pending
    /\ pending' = pending \cup {job[j].asset}
    /\ job' = [job EXCEPT ![j].at = "loading"]
    /\ UNCHANGED <<cache, waiting>>

JoinPending(j) ==
    /\ job[j].asset \notin cache /\ job[j].asset \in pending
    /\ waiting' = [waiting EXCEPT ![job[j].asset] = @ \cup {j}]
    /\ job' = [job EXCEPT ![j].at = "suspended", ![j].owning = FALSE]
    /\ UNCHANGED <<cache, pending>>

(* One step: cache_mutex is held while `pending` is looked at, and the only *)
(* step that takes pending_mutex alone does not touch the cache.            *)
AwaitSuspend(j) ==
    /\ job[j].at = "asked"
    /\ Found(j) \/ BecomeLoader(j) \/ JoinPending(j)
    /\ UNCHANGED <<Pending, main, throws, crashed>>

-----------------------------------------------------------------------------
(* load_texture(), load_model() *)

(* An exception: the locals go, and with them the jobs of the textures. *)
Unwound(j) == [job EXCEPT ![j].at = "failing", ![j].kids = {}]

Throw(j) ==
    /\ job[j].at \in {"loading", "parsed"} /\ throws < MaxThrows
    /\ throws' = throws + 1
    /\ job' = Unwound(j)
    /\ UNCHANGED <<cached, Pending, main, crashed>>

Kid(j, t) == <<j[1], t>>

SubmitTextures(j) ==
    /\ job[j].at = "loading" /\ IsModel(j)
    /\ LET kids == {Kid(j, t) : t \in TexturesOf[job[j].asset]}
       IN  job' = [i \in Jobs |-> IF i = j THEN [job[j] EXCEPT !.at = "parsed", !.kids = kids]
                                  ELSE IF i \in kids THEN Started(i[2])
                                  ELSE job[i]]
    /\ UNCHANGED <<cached, Pending, main, throws, crashed>>

RescheduleToLocal(j) ==
    /\ job[j].at = "parsed"
    /\ job' = [job EXCEPT ![j].at = "local"]
    /\ UNCHANGED <<cached, Pending, main, throws, crashed>>

(* until_all_ready(texture_jobs), then the result of each. *)
Join(j) ==
    /\ job[j].at = "joining" /\ \A i \in job[j].kids : Ready(i)
    /\ job' = IF \E i \in job[j].kids : job[i].result = "exception" THEN Unwound(j)
              ELSE [job EXCEPT ![j].at = "loaded", ![j].kids = {}]
    /\ UNCHANGED <<cached, Pending, main, throws, crashed>>

Loaded(j) == job[j].at = "loaded" \/ (job[j].at = "loading" /\ ~IsModel(j))

Resolve(j, at) ==
    /\ pending' = pending \ {job[j].asset}
    /\ waiting' = [waiting EXCEPT ![job[j].asset] = {}]
    /\ job' = [job EXCEPT ![j].at = at, ![j].list = waiting[job[j].asset]]
    /\ UNCHANGED <<Pending, main, throws, crashed>>

cache_and_resolve_pending(j) ==
    /\ Loaded(j)
    /\ cache' = cache \cup {job[j].asset}
    /\ Resolve(j, "resolving")

\* Mutant: a failure erases the list with those who wait.
fail_and_forget_pending(j) ==
    /\ job[j].at = "failing"
    /\ pending' = pending \ {job[j].asset}
    /\ waiting' = [waiting EXCEPT ![job[j].asset] = {}]
    /\ job' = [job EXCEPT ![j].at = "rejecting"]
    /\ UNCHANGED <<cache, Pending, main, throws, crashed>>

fail_and_resolve_pending(j) ==
    /\ job[j].at = "failing"
    /\ UNCHANGED cache
    /\ Resolve(j, "rejecting")

(* One at a time: resume() returns when the coroutine has ended. *)
NextToResume(j, h) == /\ h \in job[j].list /\ job[h].at = "suspended"
                      /\ \A g \in job[j].list : job[g].at # "ready"

\* Mutant: a handle is moved out of the list and only resumed.
ResumeReleased(j, h) ==
    /\ job[j].at = "resolving" /\ NextToResume(j, h)
    /\ job' = [Returned(h, "value") EXCEPT ![j].list = @ \ {h}]
    /\ UNCHANGED <<cached, Pending, main, throws, crashed>>

ResumeWithValue(j, h) ==
    /\ job[j].at = "resolving" /\ NextToResume(j, h)
    /\ job' = Returned(h, "value")
    /\ UNCHANGED <<cached, Pending, main, throws, crashed>>

(* The guard of ON_SCOPE_FAIL() runs while the stack is unwound, where no    *)
(* handler is active: current_exception() is null, and to rethrow that is    *)
(* undefined, a crash with the libraries there are.                          *)
ResumeWithNull(j, h) ==
    /\ job[j].at = "rejecting" /\ NextToResume(j, h)
    /\ crashed' = TRUE
    /\ UNCHANGED <<cached, job, Pending, main, throws>>

\* Mutant: a load that failed returns without its exception.
ReturnNothing(j) ==
    /\ \A h \in job[j].list : job[h].at = "ended"
    /\ \/ job[j].at = "resolving" /\ job' = Returned(j, "value")
       \/ job[j].at = "rejecting" /\ job' = Returned(j, "none")
    /\ UNCHANGED <<cached, Pending, main, throws, crashed>>

\* Mutant: a load that failed returns as if it had loaded.
ReturnAnyway(j) ==
    /\ \A h \in job[j].list : job[h].at = "ended"
    /\ job[j].at \in {"resolving", "rejecting"} /\ job' = Returned(j, "value")
    /\ UNCHANGED <<cached, Pending, main, throws, crashed>>

Return(j) ==
    /\ \A h \in job[j].list : job[h].at = "ended"
    /\ \/ job[j].at = "resolving" /\ job' = Returned(j, "value")
       \/ job[j].at = "rejecting" /\ job' = Returned(j, "exception")
    /\ UNCHANGED <<cached, Pending, main, throws, crashed>>

FinalSuspend(j) ==
    /\ job[j].at = "ready"
    /\ job' = [job EXCEPT ![j].at = "ended", ![j].owning = FALSE]
    /\ UNCHANGED <<cached, Pending, main, throws, crashed>>

-----------------------------------------------------------------------------

JobStep(j) == \/ AwaitReady(j) \/ AwaitSuspend(j)
              \/ SubmitTextures(j) \/ RescheduleToLocal(j) \/ Join(j)
              \/ cache_and_resolve_pending(j) \/ fail_and_resolve_pending(j)
              \/ \E h \in Jobs : ResumeWithValue(j, h) \/ ResumeWithNull(j, h)
              \/ Return(j) \/ FinalSuspend(j)

MainStep == \/ \E r \in Requests, e \in Holders, k \in Assets : Submit(r, e, k)
            \/ \E e \in Holders : DestroyEntity(e)
            \/ update \/ Quit \/ Destroy

(* The main thread blocks in the destructor, or is gone. *)
Blocked == main # "frame" /\ UNCHANGED vars

Next == \/ ~crashed /\ (MainStep \/ \E j \in Jobs : JobStep(j) \/ Throw(j))
        \/ crashed /\ UNCHANGED vars
        \/ Blocked

(* The threads of the executors run what they are given, frames follow each  *)
(* other, and the destructor does not wait longer than it has to.           *)
Spec == /\ Init /\ [][Next]_vars
        /\ WF_vars(~crashed /\ update) /\ WF_vars(~crashed /\ Destroy)
        /\ WF_vars(~crashed /\ \E j \in Jobs : JobStep(j))

-----------------------------------------------------------------------------
(* Properties *)

(***************************************************************************)
(* A coroutine that is to go on is in memory: when the one who asked drops *)
(* the job, when the parent fails before its textures are loaded, and when *)
(* the list that took it over from its promise is being resolved.          *)
(***************************************************************************)
Kept(j) == \/ job[j].owning
           \/ \E e \in Holders : Pending[e] = j
           \/ \E k \in Assets : j \in waiting[k]
           \/ \E i \in Jobs : j \in job[i].list \cup job[i].kids

FramesOutliveTheirRuns == \A j \in InFlight : Kept(j)

(***************************************************************************)
(* An asset is loaded by one job at a time, which the list stands for, and *)
(* never again once it is stored; who waits, waits in the list of a load;  *)
(* and a model is stored after all of its textures, whoever loaded them.   *)
(***************************************************************************)
Loading(j) == job[j].at \in {"loading", "parsed", "local", "joining", "loaded", "failing"}

OneLoadPerAsset ==
    \A k \in Assets :
        LET loaders == {j \in Jobs : job[j].asset = k /\ Loading(j)}
        IN  /\ Cardinality(loaders) = IF k \in pending THEN 1 ELSE 0
            /\ k \in pending => k \notin cache
            /\ k \notin pending => waiting[k] = {}

ModelsAreWhole == \A m \in cache \cap Models : TexturesOf[m] \subseteq cache

CacheSound == OneLoadPerAsset /\ ModelsAreWhole

(***************************************************************************)
(* The manager does what AssetStore promises, while it does not crash: a   *)
(* job waits until it has a result, and those that a load took out of the  *)
(* list to hand them its exception are as good as refused.                 *)
(***************************************************************************)
Status(j) == IF job[j].at = "unborn" THEN "none"
             ELSE IF Ready(j) THEN job[j].result ELSE "waiting"

Refused(j) == \/ job[j].at = "rejecting"
              \/ \E i \in Jobs : job[i].at = "rejecting" /\ j \in job[i].list

Unlucky == {j \in Jobs : Status(j) = "waiting" /\ Refused(j)}

Store == INSTANCE AssetStore WITH
    stored <- cache, loading <- pending,
    asset <- [j \in Jobs |-> job[j].asset], status <- [j \in Jobs |-> Status(j)],
    unlucky <- Unlucky, closed <- main = "done"

ImplementsStore == Store!Spec

(***************************************************************************)
(* The job of an entity ends and is unpacked, unless the program quits; and *)
(* if it quits when no model is on its way, the destructor returns.  (With *)
(* one on its way it does not: nobody runs its task on the main thread.)   *)
(***************************************************************************)
SubmissionsAreUnpacked ==
    \A e \in Holders : Pending[e] # NoJob ~> Pending[e] = NoJob \/ crashed

QuietQuitEnds == main = "destroying" /\ ~(\E j \in InFlight : IsModel(j))
                     ~> main = "done" \/ crashed

EveryLoadEnds == SubmissionsAreUnpacked /\ QuietQuitEnds

(***************************************************************************)
(* "Resolve the pending requests with the same exception"                  *)
(* (AssetManager.cpp:188).                                                 *)
(***************************************************************************)
WaitersGetTheException == ~crashed

=============================================================================
