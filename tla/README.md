# A verification development for josh3d

josh3d is an OpenGL engine in C++20. What is hard to get right in it is not the
rendering, which is a fixed order of GL calls once a frame, but what happens
beside the frame: resources are loaded by coroutines that hop between thread
pools, a GPU context, a completion thread and the main thread; requests for the
same resource meet in a shared cache; a thread pool steals tasks; a database of
imported files must be readable after the program died at any moment; shaders
are reloaded while an editor saves them; at shutdown all of it must drain in an
order in which nothing is used after it is gone; and long-lived data structures
(an allocator of ranges, the linked lists of the scene graph) must survive any
sequence of operations. This directory models that part in TLA+, checks it with
TLC on small instances, and proves parts of it with TLAPS for instances of any
size.

All source paths below are relative to `src/src/josh3d/`, except `DemoScene.cpp`
and `main.cpp`, which are in `src/src/`.

## How to run

    tlc -config ResourceLoader.cfg MCResourceLoader.tla
    tlapm ResourceLoaderProofs.tla

and so for each run, and for each of the eight modules of proofs:
`ResourceLoaderProofs`, `ThreadPoolProofs`, `CoroutinesProofs`,
`AsyncCradleProofs`, `AssetManagerProofs`, `ResourceDatabaseProofs`,
`MainThreadProofs` (the skeleton storage and the shader pool) and
`SceneGraphProofs`. The longest, `SceneGraphProofs`, takes some minutes.

`PROJECT.json` lists every run with its module, its configuration and what to
expect, the mutants that show that each property can fail, the source lines of
every definition, the findings, the hazards and the theorems.

## Inventory

For each component: the state it keeps, its operations, whom it meets, what is
hard, and what makes it correct. `PROJECT.json` gives the sources and the status
of each.

| component | state | operations | meets | hard | correct if |
|---|---|---|---|---|---|
| Resource loader (`resource2/ResourceLoader`) | a map of entries with epochs, a map of pending lists, two mutexes per storage | `get_resource()`, `create_resource()`, `update_resource()`, `fail_resource()`, `resolve_pending()` | coroutines that request, jobs that load | three critical sections of a request interleave with two of a publication; partial results; failure midway | one load at a time, no request lost or resumed twice, epochs grow, assertions hold |
| Resource registry (`resource2/ResourceRegistry`) | the storages, usage counts | type-erased access | the loader | locking discipline | as the loader |
| Thread pool (`util/async/ThreadPool`, `ThreadsafeQueue`) | one queue and thread per index | `emplace()`, fetch, steal, wait, drain, destroy | tasks that submit tasks | a thread passes by locked queues, waits on its own only; destruction while tasks submit | each task run once, each future kept, the destructor returns |
| Futures (`util/async/Future`) | a shared state | set, get, wait, abandon | the pool | a promise destroyed unkept | every future becomes available |
| Coroutine jobs (`util/async/CoroCore`, `Coroutines`, `detail/Coroutines`) | packed flag and continuation, result, shared handles, the state of a join | start, return, notify, suspend, join, wait, copy, let go | executors, owners, viewers, notifiers in several threads | ready between the look and the registration; who frees a frame; who resumes the parent | no wake-up lost, frames and join state outlive their use, one resumption, the exception is seen |
| Async cradle (`core/AsyncCradle`) | the four executors and the counter | construction, destruction | every job | order of destruction | nothing outlived by its users |
| Offscreen context (`core/OffscreenContext`) | a queue, a thread with a GL context | emplace, loop, stop | jobs that upload | requests dropped at a stop | no coroutine stranded |
| Completion context (`util/async/CompletionContext`) | requests and watched completables | `until_ready_on()`, `until_all_ready()`, sweep | every other executor | a check must happen where the GL context is | jobs resume where they said, after their fence |
| Local context, task counter (`util/async/LocalContext`, `TaskCounterGuard`) | the queue of the main thread, a count | flush, drain, guard | main thread, every guarded job | a task starts tasks while it is polled | count above zero while any task is under way |
| Asset cache and manager (`resource/AssetCache`, `AssetManager`) | cache, pending lists of frames | get or join, cache and resolve, fail and resolve, update, destroy | jobs of the older loader, entities that wait | ownership of a frame passes to a list; a model fails while its textures load | frames outlive their runs, one load per asset, every waiter answered |
| Unpackers, loaders, throughporters (`resource2/`) | frames of jobs | one coroutine per kind of resource | loader, cradle, registry | handles kept over an await | end, and touch nothing that is gone |
| Resource database (`resource2/ResourceDatabase`) and importers | rows in a mapped file, table, empty rows, path uses, files | generate, locate, map, unlink, remove, remove later, update | importers, loaders, the file system, the main thread | crash between row and file; removal while an import writes; `try_lock` | memory mirrors rows, recorded references are readable, contents kept, removals happen |
| Shader pool and watcher (`resource/ShaderPool`, `detail/ShaderWatcher`) | include trees as entities, two maps of descriptors, a thread with a queue | get, hot reload, force reload, sweep, watch, stop watching | inotify, the editor, the frame | reload while events arrive; includes that change; failed compiles | the maps agree with the files, a saved file is compiled in the end |
| Land (`util/memory/Land`) | three ordered sets of ranges, two counters | occupy, release, expand | storages | splits, merges, lookups by base alone | ranges tile the land |
| Skeleton storage (`render/SkeletonStorage`) | a land, a table, vectors | insert, remove, query | unpackers, animation | growth | a table: what was inserted is found |
| Scene graph (`scene/SceneGraph`, `ObjectLifecycle`) | two components per entity, a mark | attach, detach, destroy, sweep, traverse | scene list, importers, unpackers | six links per operation; a sweep of the whole registry; handles kept over an await | the links are lists, the lists a forest |
| Mesh storage and GPU buffers (`render/`) | buffers, offsets, staging | insert, upload, read back | stages | capacity | no overlap, nothing stale |
| Engine, pipeline, stages, GL wrappers, UI, input, file system, math, small containers | | | | | left out, see below |

The main thread runs the frame: `Runtime`, the pipeline, the UI, the updates of
the database and of the shader pool, and `LocalContext::flush_nonblocking()`.
Everything else runs on the two loading pools, the offscreen thread, the
completion thread and the thread of the shader watcher. A coroutine is resumed
by an entry in one of the queues (`reschedule_to()`), by the last child it waits
for, by the completion thread, or by a load that resolves its request.

How the modules stand to one another: `TaskExecutor` is what `ThreadPool` is
shown to implement and what `AsyncCradle` assumes of a pool; `ResourceCache` is
what `ResourceLoader` implements, `AssetStore` what `AssetManager` does; `JobJoin`
is what `Coroutines` implements, and how the jobs of `AsyncCradle` and `AssetManager`
join others in one step; `Land` is a part of `SkeletonStorage`, `ShaderWatcher`
one of `ShaderPool`; `ResourceCatalog`, `SkeletonTable` and `SceneTree` are what
the database, the storage and the graph implement. The `MC` modules hold the
instances for TLC.

## Modules and runs

### ResourceCache and ResourceLoader

`ResourceCache` is the promise to those who request resources: a request is given
what is published, if that is what it asked for, and waits otherwise; a resource
is loaded only for someone who waits for it, by one load at a time, and once if
its loader publishes it complete; a load publishes growing epochs and ends with
the final one, or fails before the first; the exception goes to some of those who
waited when it failed, and to nobody else.

`ResourceLoader` is one storage of the registry. `entry[u]` is the epoch of the
entry in `map` (0 for none), `pending`, `incremental` and `only_final` the
pending map and its two lists of handles. A task is a coroutine in
`get_resource()`: `await_ready()` is `GetResource` (and `GetNextEpoch` when an
unpacker comes back for the next epoch), `await_suspend()` is `AwaitSuspend`
followed by `PushPending`, with the shared `map_mutex` held in between (`pc =
"push"`), `await_resume()` is `AwaitResume` or `AwaitRethrow`. A loading job is
`CreateResource`, `UpdateResource`, `Throw`, `FailResource`, then
`ResolvePending`, `ResumeHandle` for each handle it moved out, and
`ResolveReturns`. One step is what the code does under one lock. A failed
assertion is the last step: `aborted` names it and the program stops.

- `loader_mixed`: two tasks, two job frames, a resource loaded in parts and one
  loaded whole, one partial epoch. The refinement of `ResourceCache` (a request
  waits from its look at the entry until it is given one, and is as good as failed
  once a job that failed has its handle), one load at a time and none after a
  complete one (`LoadedOnce`), nothing lost or resumed twice (`WaitersHeldOnce`), and
  every request answered, whatever fails in between. Two tasks are what it takes
  to have one in a list, or between the look and the insertion, when another
  comes or comes back; two loads at once of two resources need two frames; a
  second partial epoch adds nothing that the loop over one does not have. For
  any numbers of them the safety part is proved.
- `loader_already_cached` (violated): a finding, below.

### TaskExecutor and ThreadPool

`TaskExecutor` is the promise: a task is run once at most, its future becomes
ready or is broken, and never broken for what the owner submitted.
`ThreadPool` is the implementation: a queue and its mutex per thread; each use
of a queue is a step that locks it and a step that uses and unlocks it, because
a thread that looks for work passes by the queues it finds locked. `TryLock`,
`FetchOrSteal` and `LookFurther` are `try_fetch_or_steal()`, `LockOwn`,
`WaitAndPop` and `WaitStopped` are `wait_and_pop()`, `Drain` is the loop after
it, `Emplace` and `Push` are `emplace()`, `RequestStop` and `DestroyQueues` the
destructor. `emplace()` may choose any queue: it passes by locked queues from an
index that other threads write without order.

- `thread_pool`: three threads, one task of the owner and two that tasks submit,
  so that one thread runs, one steals and one sleeps or has exited. The
  refinement of `TaskExecutor`, no task left behind by threads that stop
  (`NoTaskLeftBehind`), and the end of every future and of the destructor
  (`EveryWaitEnds`).

### JobJoin and Coroutines

`JobJoin` is the promise: a job goes on until it ends, whoever lets go of it; its
frame goes once, when it has ended and nobody holds it; a coroutine that
suspends until all jobs of a range are ready is resumed after the last of them,
with an exception if it asked for success and one failed. `Coroutines` is the
implementation with a step per operation on an atomic: `packed_state_` is
`ready` and `continued`, the flag and the pointer of one word, so that
`try_set_continuation` is one exchange; `refcount` is the counter of
`shared_coroutine_handle` and `owners` whose handles it counts, the promise's
own among them; `state` is the `WhenAllState` in the frame of the parent, and
`notifier[c]` where the `CompletionNotifier` of job c is. The thread of a job is
`Return`, `became_ready`, `NotifyAll`, `LookForContinuation`, `FinalSuspend`;
a notifier is `Notify`, `try_set_continuation`, `GetResult`, `TestAndSet`,
`SetException`, `CountDown`, run by the parent in its loop or by the thread of
its job. Viewers hold copies of a `SharedJob`, poll it, or block on it (`Load`,
`Block`). A job runs in a thread of its own from its start: that it first runs on
the thread that starts it is one of the interleavings.

- `coroutines`: a join of two jobs, or of one beside a job shared by two viewers
  (`MaxJobs` is 2). Two jobs give a first and a last notifier, one run by the
  loop and one by a thread, and two exceptions that race for one place. No frame
  or join state is used after it is gone or left when it is not needed
  (`MemoryIsSafe`), the refinement of `JobJoin`, and no lost wake-up
  (`EveryWaiterGoesOn`). For any numbers the safety part is proved. The run ends
  when all jobs ended and were let go of.

### AsyncCradle

A job is a list of what it awaits: `Go` (`reschedule_to`), `Fence`
(`until_ready_on`), `Spawn` (start the children), `Join` (`until_all_succeed`),
`Poll` (`until_all_ready`). It may throw at any point (`Return`). The queues of
the offscreen, completion and local contexts are sequences; the loading pool is
a set of entries of which any free thread takes any, which is what
`TaskExecutor` says of it. `FinalSuspend` hands the thread to the parent that
waited for this job alone, drops the Jobs of the children and, when nobody holds
it, the frame; a frame that goes takes its task guard along (`count`). The main
thread is `main`: frames, then `Quit`, and `drain_all_tasks()` (`FlushLocal`,
`Flushed`, `Spin`) once for the members of the application and once for the
local context, then the counter, and the offscreen, completion and pool threads
joined in the order of destruction (`Joined`).

- `async_cradle`: an unpacking of a scene with two children (one ends where it
  is loaded, one on the main thread) and a throughporting job with an image that
  is uploaded and waited for by polling: between them every kind of await, every
  executor, a job that the viewer holds, and both kinds of guard. Nothing is
  under way uncounted or without the members it uses (`TasksAreCovered`), a job
  runs where it rescheduled itself and after its fence (`RunsWhereScheduled`),
  every job ends, and so does a shutdown in which the viewer holds none. The
  user quits when the unguarded jobs have ended (`QuitsAnytime` is FALSE).

### AssetStore and AssetManager

`AssetStore` is the promise to those who ask for an asset: who asks is given it once
it is stored, or refused it because a load that they waited for failed; an asset is
loaded for someone who waits, by one load at a time and never again once it is
stored; a model is stored after its textures, which its load asks for like anyone
else; the manager goes when nobody waits and nothing is on its way.

`AssetManager` is the older loader. A request is a job: `get_if_cached_or_join_pending()` with
what its three await functions decide, then the load, or the wait in the list of
another. The load of a texture is one part; that of a model starts the requests
of its textures, hops to the main thread, waits for them and stores the model.
`job[j].owning` is the handle that a promise has of its own frame, which a
pending request gives to the list it joins; `waiting` and `list` are the lists
before and while they are resolved. `Pending[e]` is the job that an entity holds
(`AssetUnpacker`), and `update` and `Destroy` are the main thread.

- `asset_manager`: three requests for one texture and one model that uses it,
  one holder, one exception: a request finds its asset cached, being loaded by
  another request or by a model, or failed by either. `FramesOutliveTheirRuns`
  is the ownership that passes from a promise to a list, which a FIXME
  (`AssetCache.hpp:126`) says will fail: it does not, because a resumed
  request has nothing more to wait for, and ends before the list of its handle
  goes. `CacheSound`, `EveryLoadEnds`, and the refinement of `AssetStore`, in which
  those whose handles a failed load has taken are as good as refused: it says what
  the manager does until it crashes (the next run) and says nothing after that.
- `asset_manager_failure` (violated): a finding.

Requests start in the order of their numbers; the hops to pools and offscreen
context are left to `AsyncCradle`; a cubemap is a load like a texture.
`wait_until_all_pending_are_complete()`, which a debug scene calls, is left out.

### ResourceCatalog and ResourceDatabase

`ResourceCatalog` is the promise: a set of resources, each with a file that is
there while one of them needs it, to which imports add and from which removals
take. `ResourceDatabase` keeps `rows` (the mapped table), `files` (the
directory), and what the constructor builds from the rows: `table_`,
`empty_rows_`, `path_uses_`. An import is `GenerateUuid`, `TryPath`, `MapFile`
(with `Retry` up to the version limit), `GrowFile`, `NewEntry`, `FillFile`, one
resource after another with those referred to first. `update()` is `UpdatePop`,
`UpdateLock`, `UpdateRemove`, `UpdateRemoveFile`, `UpdateDone`; a client unlinks,
removes and opens. `Crash` may come between any two steps: mapped and written
data stays, memory does not, and `Restart` is the constructor. A record is
written before the contents of its file, and an import that fails later does not
take it back, so that a recorded resource may be unwritten; what the properties
claim is that nothing recorded *refers* to such a one (`RecordsCanBeRead`).

- `resource_database`: two assets of one name and a scene of both, from an empty
  directory and from one where two resources share a file, which refers to one
  that was removed before (`Found` says what a directory of an earlier run may be:
  every record has a file, and what is referred to is recorded and written, or
  was removed), with one crash or
  failure to map a file and one call of a client at any time; `MaxRows` 6,
  versions up to 3, nine ids. `MemoryMirrorsRows`, `ContentsKept` (no import
  writes into a file that is not its own any more), the refinement of the
  catalog, and `RemovalsHappen`. One fault and one call are what it takes to
  interrupt each step once; a second crash starts from a table that the first
  one may have left, which the second directory stands for.

### ShaderWatcher and ShaderPool

`ShaderWatcher` is a value: the maps `wd2id_` and `id2wd_`, inotify's descriptors
(`kernel`), and the queue of its thread. Descriptors fall in `Buckets` buckets,
because `stop_watching()` asks for the size of a bucket where it means the
number of ids of a descriptor. `ShaderPool` has the entities of the files of a
program, the compiled `object` of each, and what the editor writes; a load is
`ReadPrimary` and `ReadInclude` for each file, `LoadSucceeds` or `LoadFails`,
`DestroySecondary` for the files it had, `EmplaceFile` for those it has, and
`LoadEnds`, in `get`, `hot_reload` or `force_reload`. The order in which a hash table
hands out events is fixed; a `get()` that failed is not repeated. `PoolInit`,
`PoolNext`, `PoolSpec` and `PoolTypeOK` carry the pool's name because a module of
proofs extends it together with the skeleton storage.

- `shader_pool`: two programs with a stage each that may include a library, two
  saves, one forced reload, two buckets. `WatchesAreRight`: the maps agree with
  the entities and inotify, and between two loads what is watched for a program
  is what it was compiled from. `StaleIsReloaded`: a saved file is compiled in
  the end, unless the program itself was being loaded at the time of the save.
  For any number of them that the maps agree is proved. A watch that stays
  because of its bucket is harmless; an id whose version wraps around is out of
  reach of the run and, as ids are not reused in the model, of the proof.

### Land, SkeletonTable and SkeletonStorage

A `Land` is a value, a record with the three sets and the two counters of the
class; `Occupied`, `ExpandedBy`, `Amortized` and `Unoccupied` map a land to the
land after the call. `Insert` and `Erase` find a range by its base alone, like
the ordered set. `SkeletonStorage` is the storage over it; `SkeletonTable` is
the promise, a table.

- `skeleton_storage`: five insertions of skeletons of one, two and three joints
  with removals in any order: splits, merges on both sides, growth at the right
  of an empty and of an occupied range. `RangesAccounted` (tiling, both lookups,
  one id per range), `GrowthSuffices`, and the refinement of the table.

### SceneTree and SceneGraph

`SceneTree` is the promise: every entity has a list of children and is in one
list at most, until it is broken. `SceneGraph` keeps the two components of every
entity, `AsParent` (`num`, `first`) and `AsChild` (`parent`, `next`, `prev`), and
three things beside them:

- `marked`: `MarkedForDestruction`. An import marks what it creates and sweeps
  what has failed; but an exception that its catches do not take (`AbortImport`)
  leaves it without the sweep, and the entities stay, marked and linked as they
  are. The next sweep takes every marked entity of the registry: that of
  `ImportScene` detaches each of them before, that of `DestroySubtree` does not.
- `unpacking`: the handles that jobs of `unpack_scene()` hold while they wait for
  their scene. `ViewScene` starts one, `UnpackScene` starts others for the nodes
  that are scenes. Any step may come between, the destruction of the entity
  among them; the identifier of a destroyed entity has its version in it and is
  not given out again as long as a job holds it (`New`).
- `fault`: one of three things that the code does not survive. The assertion of
  `mark_for_destruction()` fails (`"marked twice"`), a leftover that has
  relatives is destroyed by the sweep of somebody else (`"swept"`), nodes are
  attached to an entity that is gone (`"gone"`). What happens after one is
  undefined, or nothing, and the model stops there. All three are reached in
  `scene_graph`; what it claims, it claims until then.

Each function of `SceneGraph.hpp` is an operator on the graph; what the main
thread does in one go is a list of calls, and each is a step, so that the
invariants are checked between them. The callers are the scene list
(`DetachFromParent`, `AttachSelected`, `DestroySubtree`, `DestroyAndOrphan`,
`CreateNode`), the model and scene importers (`EmplaceModel`, `ImportScene`,
`AbortImport`), the resource viewer (`ViewScene`) and the unpackers
(`UnpackScene`, `UnpackFails`). What a traversal visits (`Subtree`, `Listed`) is
defined as a least closed set.

- `scene_graph`: four entities, imports of two, two leftovers, one waiting job,
  symmetry over entities (all are alike; no liveness is checked). Four make a
  first, a middle and a last sibling and a parent; two leftovers can be
  relatives of each other, or be among the living. `LinksWhole` (no dangling
  link, neighbours agree, every child is in the list of its parent),
  `AttachedAreRoots`, the refinement of `SceneTree`, where a fault is the step
  that breaks the lists. Deadlock is not checked: entities in a cycle are not
  displayed, and when all are in one nothing can be done; nor is anything after
  a fault.
- `scene_graph_cycle` (violated): a finding.

## Fairness

- ResourceLoader: a task or job that a thread runs goes on (weak fairness of
  each). `create_resource()` takes `map_mutex` exclusively while readers come and
  go, each for a moment: strong fairness. No fairness for requests or failures.
- ThreadPool: the OS runs every thread; a task ends, since tasks do not wait for
  tasks of the same pool; a call of `emplace()` and a destructor go on. Nobody
  has to submit or destroy.
- Coroutines: a thread goes on, a body returns, and who blocks goes on when it
  can. Nobody has to start a job, await one or look at one, or let go of it.
- AsyncCradle: threads with an entry get to run, the GPU signals its fences, and
  the frame loop flushes. Nobody has to start a job, look at a result, or quit.
- AssetManager: jobs go on, the frame calls `update()`, and a destructor that was
  entered goes on. Nobody has to request, drop, or quit.
- ResourceDatabase: an import and the return of a call go on, and the frame calls
  `update()`. Its `try_to_lock` succeeds in the end because imports and calls are
  bounded in number; under a stream of them nothing in the code would see to it.
- ShaderPool: the frame calls `hot_reload()` (`DemoScene.cpp:165`) and the watcher's
  thread runs. Nobody has to save, or ask for a program.

## Findings

Each is a run that TLC finds violated, with the line it contradicts quoted in
`PROJECT.json`.

- `loader_already_cached`: a request may slip between the publication of the
  final epoch and its resolution, while it holds `map_mutex` shared; a second
  load starts and trips the assertion of `create_resource()`. Only resources
  published in parts are exposed; that the others are not is a theorem.
- `asset_manager_failure`: a failed load resolves its waiters from a scope guard
  while the stack unwinds, when `std::current_exception()` is null: the waiters
  get no exception to rethrow.
- `scene_graph_cycle`: an entity attached below its own descendant.

Further disagreements of the code with its comments, in the models but without a
run of their own:

- A caller that takes a new epoch from the cache and asks for the next before
  that epoch is resolved is queued, and resumed with the epoch it has (the
  assertion of `await_resume()`, `"not wanted"` in the model), in the window of
  the first finding. `AssertionsHold` therefore leaves out `"already cached"`,
  `"not wanted"`, and `"failed after create"`, which a FIXME in the code admits.
- A task that a running task submits to the queue of a thread that has been
  stopped and joined is dropped and its promise broken (`ThreadPool.cpp:69`; line
  63 says otherwise).
- An import of a scene catches `std::runtime_error` only (`SceneImporter.cpp:174`,
  196, 218, 259). nlohmann's exceptions are no such: a field of the wrong type in
  the JSON leaves the import without its sweep, and what it created stays, marked
  and linked, although "The handles that failed the import" are to be destroyed at
  its end (line 273). When the user then destroys a subtree with one of them in
  it, `mark_for_destruction()` meets the mark that it asserts is not there
  (`ObjectLifecycle.hpp:78`; the fault `"marked twice"`); when the subtree is
  elsewhere, its sweep destroys them all the same, without detaching them, and
  their relatives keep links to them (line 84; the fault `"swept"`), against "Must
  exist if you have the component." (`SceneGraph.hpp:38`, 49).
- `unpack_scene()` attaches nodes to the handle it was given, although the entity
  may have been destroyed while the scene was loaded (`Unpackers.cpp:333`; the
  fault `"gone"`), against the comment at `SceneGraph.hpp:49`.
- The viewer keeps a Job, and with it the task guard in its frame, in a
  `thread_local` (`imgui/ImGuiResourceViewer.cpp:45`): quit before it has looked at
  the result and `drain_all_tasks()` never ends (`LocalContext.hpp:25`).
- Throughporting jobs have no task guard (`Throughporters.hpp:32`), so the drain
  does not wait for them, against `DemoScene.cpp:247`.
- A released range is merged with its empty left neighbour only if an empty
  range follows it (`Land.hpp:479`, against the comment at line 446).
- `generate_resource()` counts an attempt that succeeds with the last version as
  a failure: it throws and leaves the new file without a row
  (`ResourceDatabase.cpp:456`, against line 353). It takes as many files of one
  name as there are versions.
- A save while the program itself is being loaded is not seen
  (`ShaderPool.cpp:278`): the file was read before it is watched again.
- The asset manager's destructor blocks the main thread until no load is in
  flight, while a model needs the main thread to end (`TaskCounterGuard.hpp:65`):
  `EveryLoadEnds` claims the return of the destructor when no model is on its way.

## Proofs

`ResourceLoaderProofs`, for any tasks, job frames, resources and number of
partial epochs. Assumptions: `Incremental \subseteq UUIDs` and a positive final
epoch. The invariant is built in three layers, each used by the next:

1. `LoadInv`: types, a failed load is final, and a key is in `pending` exactly
   while one job loads it (`PendingIffLoading`, itself inductive with the two).
2. `RequestInv`: handles are in one place (`ResumedOnce`), those a job moved out
   are of its resource (`HandlesMatch`), and every suspended task is found
   (`NoLostRequest`). None of the three is inductive alone: a job that takes the
   lists must not find a handle that somebody else has.
3. `EntryInv`: what a job has published is what the entry shows (`Publishing`),
   what an Awaiter knew of the entry when it got where it is (`Awaiting`), and
   for resources published complete that a task between its look and its
   insertion keeps the entry from being created (`OneShot`). This is the lock
   argument: `create_resource()` is the only step that creates such an entry, and
   it waits for readers.

From it: `OneLoadAtATime` and `OneShotResources`, together
`ResourcesAreLoadedOnce`; `NothingLost` and `NothingResumedTwice`, together
`WaitersAreHeldOnce`; `SomeAssertionsHold`, and `OneShotLoadersAreSafe`: if no
resource is published in parts, no assertion fails. `EpochsOnlyGrow` is an action
property from the same invariant. `LoaderIsACache` is the refinement; it needs one
fact more, `FailedUnpublished`: nothing is published by a load that failed, as only
the one job that loads a resource publishes it, and each step then maps to a step
of `ResourceCache` or to none.

`CoroutinesProofs`, for any number of awaited jobs, any shared jobs and any finite
set of viewers. The parts of its invariant:

- `Counted`: a count is the number of handles, and a frame is there while there
  is one. `Held`: who uses a frame has one: the promise exactly while its thread
  runs, the parent from the start to the end of a join, a viewer while it looks.
  From the two follows that frames outlive their use; neither is inductive alone,
  since the last one to let go is known by the count.
- `Flagged`: the flag comes with the result. `Continued`: a continuation that was
  stored belongs to a notifier that waits for it; a notifier that is past that
  point has a job that is ready. This is what the packed word is for.
- `Joined`: what is left in `num_remaining` is the number of notifiers that are
  not gone; those before `index` have started, those after it have not. So the
  one who counts down to zero is the last to touch the state.
- `Thrown`: the place of the exception is filled or about to be whenever a
  notifier has passed the test, which needs that all are gone before it is read.

From it: `TypeCorrect`, `MemoryStaysSafe`, and the refinement `JobsJoin`, with a
lemma for each step of `JobJoin` (`MakeStarts`, `BecameReadyEnds`,
`FinalSuspendSeen`, `ReleaseLetsGo`, `AwaitAllSuspends`, `AwaitResumeResumes`) and
for the steps that are not seen (`UnseenByJobs`, `UnseenByNotifiers`,
`UnseenByViewers`).

`NoWakeUpIsLost` is what `EveryWaiterGoesOn` needs of the code besides threads
that go on: a continuation that was stored belongs to a job whose thread has still
to look at the packed word (`ContinuationsAreTaken`), who blocks on a job does so
before its `notify_all()` (`SleepersAreWoken`), and a parent that suspended has
a notifier that has still to count down (`SomebodyResumesTheParent`).

`MainThreadProofs` is about two components that only the main thread calls.

The skeleton storage, for any skeletons with joints and any number of
insertions. Its first part is about tilings only: taking a range or its left
part, giving one back, merging two and growing to the right keep a tiling
(`TakeWhole`, `TakeLeft`, `GiveBack`, `MergeTwo`, `GrowRight`). A base belongs to
one range of a tiling (`UniqueBase`), so lookups by base find what was meant:
that is why tiling must be part of the invariant of the table. The operations of
the land follow (`OccupiedOK`, `ExpandedOK`, `UnoccupiedOK`, `AmortizedOK`), and
the invariant `IInv` (the land is tiled and its lookups agree, the vector is as
long as the land, the table and the land know the same ranges, ids are below the
next one) gives `RangesTileTheLand`, `EmptyLookupsAgree`, `LandStaysSound`,
`TableAndLandAgree`, `EveryRangeAccounted`, `AmortizedGrowthSuffices` and the
refinement `StorageIsATable`.

Its type invariant has the two counters of a land: `Total` counts the positions
of a set of ranges. They need no induction over the set: a tiling divides the
positions of the land among the two kinds (`TilingCovers`), so that one counter
determines the other (`TilingCounts`), and the occupied ranges change by one
(`OneMore`). `Counted` says just that, and every operation keeps it.

The shader pool, for any files, buckets, programs, texts and saves. The parts of its
invariant, after the types:

- `Watching`: `wd2id_` has every file entity once, under the descriptor of its file,
  and inotify watches these files. `IdsFresh`: an id is watched once and never
  again, so that what stays in `id2wd_` does no harm. `LastOfBucket` is why a watch is
  removed at the right time: a descriptor goes only when its bucket has one id
  left, and then that id was its last; when a bucket is shared it stays, with
  nobody to hear of it.
- `FilesOnce`, `StagesStay`, `TreesMatch`: an entity is in one program and a file once
  in a program; the primary files of a program never change; and between two
  loads the files of a program are those that its text included.
- `NothingYet`, `LoadInOrder`: how far a load has come, since in the middle of one
  the tree, the watches and the object are of different texts.

From it: `PoolTypeCorrect`, `WatchesStayRight`, and two more that no run checks:
`EventsReachTheirPrograms` (an event in either queue whose descriptor somebody has
is found under the file it was for) and `DescriptorsStay` (a file keeps its
descriptor while somebody has it, and is never given one that a queued event still
names; stale events are for the same file or for nobody). The last rests on
inotify numbering its descriptors anew each time, which `ShaderPool.cpp:515` relies
on as well.

`ThreadPoolProofs`, for any number of threads and any set of tasks, finite or
not. To the places of the tasks (`OnePlace`) and what is known of the owner's
(`RootsFinished`), which `NoTaskLeftBehind` states, the invariant adds who may
submit: `EmplacersLive` (a thread within a task of its own, or the owner before
the destructor) and `StopsAreRequested` (no thread leaves its loop before the
destructor has begun). Without them a thread that is gone could still push, or a
task of the owner come after the last look at the queue. From it: `TypeCorrect`,
`NothingLeftBehind`, `PoolIsAnExecutor`, with `Fate` as the refinement mapping, and
`FuturesAreSetOnce`, an action property. `NobodyKeepsALock` is the safety half of
`EveryWaitEnds`: who holds the mutex of a queue holds no other and has a step
that unlocks it (`LocksAreLetGo`), which needs of the invariant that a thread within
an `emplace()` is not in its loop.

`AsyncCradleProofs`, for any jobs with any lists of awaits and a loading pool of
any size. The parts of its invariant: `EntriesDue` (what is queued for a job is
what its last await asked for, and is queued once: nobody resumes a job twice),
`UnbornAreIdle`, `RunsWhereScheduled` itself, `FramesNeeded` (a job that has not
ended has its frame) and `CountIsFrames` (the counter is the number of frames of
guarded jobs). From it: `TypeCorrect`, `ContinuesWhereScheduled`, and
`CounterIsRight`, which hold whenever the user quits. `ShutdownWaitsForTasks` has
two hypotheses more: `~QuitsAnytime` (the jobs without a guard have ended when
the user quits; without it the claim is false, see the findings) and
`GuardsInherited` (what a guarded job starts is guarded, since
`ResourceUnpacker.hpp:107` and `AssetImporter.hpp:81` give a child a context of its
own). Its invariant is `NoneLeft`.

`NobodyStranded` is the safety half of `EveryJobEnds`. `EntriesDue` says that what is
queued is due; `NobodyIsStranded` is the converse: who is suspended is queued,
watched, or waits for children that have still to end. It needs that a push keeps
every entry of a queue, and a pop all but the head (`PushedKeeps`, `PoppedKeeps`),
and holds until the destructors of the executors drop what is left. Under the
hypotheses of `ShutdownWaitsForTasks` they find nothing to drop:
`ShutdownStrandsNobody`. `ResultsStay` is an action property: what was seen of a job
before an await still holds after it.

`AssetManagerProofs`, for any requests, textures and models and any number of
exceptions. The heart is `Owned`: who is in flight has its own handle, or is
suspended (or resumed) and in a list; with `WaitersKnown` and `ListsResolved`
(only a job that resolves has a list) nobody is in a list that goes before him.
`KidsFollow`, `OneLoad`, `ResultsStored` and `ModelsAreWhole` say what a job that
has come so far may count on: the cache has what was loaded, a model its
textures. From it: `TypeCorrect`, `FramesAreKept`, `CacheIsSound`.
`ManagerIsAStore` is the refinement. It needs one fact more, `ListedOnce`: a handle is
in one list, of a suspended job before it is taken and of one load after, so that
who returns or asks is in nobody's hands, and who is resumed is in those of one
load. `StoreStepMaps` takes each step to one of `AssetStore` or to none.
`NoLoadIsStranded` is the safety half of `EveryLoadEnds`: who is on the way can go
on, or waits for another who is on the way and of a lower rank (a ready job, a
texture, who waits for one, a model, who waits for one), so that no two wait for
each other. It needs `Waited`: a list has whoever is suspended, and the texture
jobs that a model holds were made. The exception is a model whose task is left
with a main thread that runs no more frames, which hangs the destructor.

`ResourceDatabaseProofs`, for any assets and what they refer to, names, limits,
directories to begin with and any number of rows, crashes and calls.

- `Roles` and `LockHeld`: which thread is where, and that who is in the middle of
  something holds the lock.
- `Mirrored`: the memory is made of the rows while the program is up, and no two
  rows are of one resource even when it is down.
- `Issued` and `Fresh`: the id and the file of an import are nobody else's.
  `RowsHaveFiles`: every record has a file.
- `Imported`, `Removing`, `Looking`: what a job knows of the part of its work that
  is done, whatever others did between its steps.
- `RefsResolve`: what a recorded file refers to is recorded and written, or was
  removed. It depends on the order of an import (what is referred to first) and
  holds after each single store, which is why a crash cannot break it.

From it: `TypeCorrect`, `MemoryIsOfTheRows`, `RecordsAreReadable`,
`ContentsAreKept` (an action property) and the refinement `DatabaseIsACatalog`.
`NoRemovalIsLost`, an action property as well, is the safety half of
`RemovalsHappen`: a request is in the queue or the list until the resource is out
of the table. (A crash loses the queue, and empties the table in memory.)

`SceneGraphProofs`, for any finite set of entities, imports of any size, and any
number of leftovers and of waiting jobs. The invariant `IInv` is `Typed`, always,
and as long as there is no fault `Whole` and `PlanGood`.
The links are six fields per entity, and no part of them is an invariant on its
own. The invariant says that *there are lists*: `Whole` claims a list of children
for every entity, nobody in two or twice in one (`Lists`), of which the two
components of each entity are the image (`Shows`), all of living entities
(`Living`). Each function is then a change of the lists and the proof that the
links it writes are the image of the new ones: `AttachWrites` (by induction along
the list that is attached, done as a choice of the first place where it would
fail), `DetachWrites`, `DetachAllShows`, `DestroyedShows`. That entities in a
cycle exist is no obstacle: nothing is said of a root.

The second part is the plan: the calls that are left will find what they count
on (`PlanGood`). Who is to be attached is a root, or a call before detaches it
(`AttachGood`); what is to be destroyed will be out of everyone's list, with no
child outside. For a sweep this includes the leftovers it takes along: the plan
of `ImportScene` isolates them first; that of `DestroySubtree` does not, which is
why its step is a fault when one of them has a relative that stays.
`BeginNextGoesOn` shows that each of the eleven callers makes a good plan,
`AbortImport` among them, `CallNextGoesOn` that a call leaves the rest of it good.

From the two: `TypeCorrect`, `LinksAreWhole`, `OnlyRootsAttached`, and the
refinement `SceneIsATree`: what the iterator visits is the list (`ChildSequenceIs`),
and each change of the lists is a step of `SceneTree`; `Break`, its step to the
broken lists, is taken by the steps that set `fault`, and by no other.

Only model-checked: every liveness property, which is beyond the prover, as is
ENABLED. Every other property of the runs has a theorem. The theorems that no run
states (`EventsReachTheirPrograms`, `DescriptorsStay`, `NoWakeUpIsLost`,
`NobodyStranded`, `ShutdownStrandsNobody`, `ResultsStay`, `NobodyKeepsALock`,
`FuturesAreSetOnce`, `NoLoadIsStranded`, `NoRemovalIsLost`) define what they
claim in the module of proofs.

## Abstractions to know of

- A resource is its epoch; an exception is not a value. `Throw` may happen at any
  point of a loader.
- The thread pool's startup latch is left out: no thread does anything before.
  The order in which the destructor stops the threads is left open.
- The operations on one atomic are in one order that all threads see; that other
  data is ordered by them is what the acquires and releases in the code give,
  and is not modelled again.
- In `AsyncCradle` a started coroutine runs at once on the thread that starts it;
  a child is shown from its first reschedule. Jobs that a throughporter polls are
  its children, like those that an unpacker joins. Readiness and registration of
  a continuation are one step, as `Coroutines` shows them to appear.
- `Land::_unoccupy()` reads a range through an iterator it has just erased; it is
  taken to read what was there, as the allocators in use leave it.
- Any entities may be selected, in any order; an import never names an entity as
  its own child (which runs into an assertion).
- After a `fault` of the scene graph the model does nothing: the program has
  stopped at an assertion or its behaviour is undefined. Which entities of an
  aborted import are left is any choice that is not empty.
- In the database the store of one row is one step, and so is a clearing; a file
  has the text of an asset, or nothing.
- Bounds: `FinalEpoch`, `MaxInserts`, `MaxNew`, `MaxLeft`, `MaxJobs`,
  `MaxThrows`, `MaxRows`, `MaxFaults`, `MaxCalls`, `VersionLimit`, `MaxEdits`,
  `MaxForced`, `Buckets`, and the sets of tasks, jobs, requests, threads, assets, files and entities. No
  other counter is bounded.

## Not modelled

Most lines of the repository are of this kind, which is why the map covers a
small share of them all and most of those of the parts above: wrappers of GL
objects and their enumerations, fonts, the stages of the pipeline and their
shaders, widgets, decoders of images, meshes and scenes.

- The GL wrappers, stages, pipeline, UI, input, transforms and volumes are GL
  calls, widgets and floating point: no state that interleaves.
- The virtual file system and shader sources are pure functions over paths and
  text, the small containers sequential and unit tested.
- Importers and loaders decode data; what they do to shared state is in the
  modules above.
- Of the coroutine library: the deprecated `co_await` of a `SharedJob`, which does
  not store a continuation and can sleep for ever, `if_not_ready()`, `Generator`,
  and `only_owner()`, which nobody calls.
- Mesh storage and the staging of GPU buffers: what the buffers hold is known to
  the GPU alone; the arithmetic of offsets could be a module beside `Land`.

## Plan

What is left is `UploadBuffer` and `MeshStorage`, with `Land` as the model of a
range table.
