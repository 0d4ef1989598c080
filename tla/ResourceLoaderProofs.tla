------------------------ MODULE ResourceLoaderProofs ------------------------
(***************************************************************************)
(* Proofs about ResourceLoader, for any sets of tasks, jobs and resources. *)
(*                                                                         *)
(* The inductive invariant adds to the checked properties what each step   *)
(* relies on: which job may write an entry (Publishing), what an Awaiter   *)
(* saw of the entry before it got to its current step (Awaiting), and, for *)
(* resources published complete, that a task between its look at the entry *)
(* and its insertion into `pending` keeps the entry from being created     *)
(* (OneShot).                                                              *)
(***************************************************************************)
EXTENDS ResourceLoader, TLAPS

\* Every step but the assertion failures, as the proofs split Next.
LEMMA StepCases ==
  ASSUME Next
  PROVE  \/ \E t \in Tasks, u \in UUIDs, f \in BOOLEAN : GetResource(t, u, f)
         \/ \E t \in Tasks : GetNextEpoch(t)
         \/ \E t \in Tasks : AwaitSuspend(t)
         \/ \E t \in Tasks : PushPending(t)
         \/ \E t \in Tasks : AwaitResume(t)
         \/ \E t \in Tasks : AwaitRethrow(t)
         \/ \E j \in Jobs : CreateResource(j)
         \/ \E j \in Jobs : UpdateResource(j)
         \/ \E j \in Jobs : Throw(j)
         \/ \E j \in Jobs : FailResource(j)
         \/ \E j \in Jobs : ResolvePending(j)
         \/ \E j \in Jobs, t \in Tasks : ResumeHandle(j, t)
         \/ \E j \in Jobs : ResolveReturns(j)
         \/ UNCHANGED vars
  BY DEF Next, TaskStep, JobStep, Aborted

LEMMA EpochTypes ==
  /\ NullEpoch \in Epochs /\ FinalEpoch \in Epochs /\ FinalEpoch # NullEpoch
  /\ Epochs \subseteq Nat
  /\ \A u \in UUIDs : entry \in [UUIDs -> Epochs] => NextEpochs(u) \subseteq Epochs
  BY LoaderAssumption DEF Epochs, NullEpoch, NextEpochs

LEMMA TakeOrType ==
  ASSUME TypeOK, NEW t \in Tasks, NEW r \in Requests,
         NEW next \in {"suspend", "push"}, TakeOr(t, r, next)
  PROVE  /\ req' \in [Tasks -> Requests]
         /\ pc' \in [Tasks -> {"idle", "suspend", "push", "suspended", "resumed",
                               "rethrow", "got", "failed"}]
  <1>1. Take(r) \in Requests
    BY DEF Take, Requests, TypeOK
  <1>2. QED
    BY <1>1 DEF TakeOr, TypeOK

LEMMA PublishType ==
  ASSUME TypeOK, NEW j \in Jobs, NEW e \in NextEpochs(job[j].uuid), Publish(j, e)
  PROVE  /\ entry' \in [UUIDs -> Epochs]
         /\ job' \in [Jobs -> Loads]
         /\ jpc' \in [Jobs -> {"free", "loading", "updating", "failing",
                               "resolving", "resuming"}]
  <1>1. job[j].uuid \in UUIDs /\ e \in Epochs
    BY EpochTypes DEF TypeOK, Loads
  <1>2. QED
    BY <1>1 DEF Publish, TypeOK, Loads

LEMMA TypeInit == Init => TypeOK
  <1> SUFFICES ASSUME Init PROVE TypeOK
    OBVIOUS
  <1>1. [uuid: UUIDs, only_final: {TRUE}, epoch: {NullEpoch}] \subseteq Requests
    BY EpochTypes DEF Requests
  <1>2. [uuid: UUIDs, epoch: {NullEpoch}, failed: {FALSE}] \subseteq Loads
    BY EpochTypes DEF Loads
  <1>3. req \in [Tasks -> Requests]
    BY <1>1 DEF Init
  <1>4. job \in [Jobs -> Loads]
    BY <1>2 DEF Init
  <1>5. QED
    BY <1>3, <1>4, EpochTypes DEF Init, TypeOK

\* Every variable keeps its type.
THEOREM TypeCorrect == Spec => []TypeOK
  <1>1. Init => TypeOK
    BY TypeInit
  <1>2. ASSUME TypeOK, [Next]_vars PROVE TypeOK'
    <2>1. ASSUME NEW t \in Tasks, NEW u \in UUIDs, NEW f \in BOOLEAN, GetResource(t, u, f)
          PROVE  TypeOK'
      <3>1. [uuid |-> u, only_final |-> f, epoch |-> NullEpoch] \in Requests
        BY EpochTypes DEF Requests
      <3>2. QED
        BY <1>2, <2>1, <3>1, TakeOrType DEF GetResource, TypeOK, pendingVars, jobVars
    <2>2. ASSUME NEW t \in Tasks, GetNextEpoch(t) PROVE TypeOK'
      <3>1. req[t] \in Requests
        BY <1>2 DEF TypeOK
      <3>2. QED
        BY <1>2, <2>2, <3>1, TakeOrType DEF GetNextEpoch, TypeOK, pendingVars, jobVars
    <2>3. ASSUME NEW t \in Tasks, AwaitSuspend(t) PROVE TypeOK'
      <3>1. req[t] \in Requests
        BY <1>2 DEF TypeOK
      <3>2. QED
        BY <1>2, <2>3, <3>1, TakeOrType DEF AwaitSuspend, TypeOK, pendingVars, jobVars
    <2>4. ASSUME NEW t \in Tasks, PushPending(t) PROVE TypeOK'
      <3>1. req[t].uuid \in UUIDs
        BY <1>2 DEF TypeOK, Requests
      <3>2. jpc' \in [Jobs -> {"free", "loading", "updating", "failing", "resolving", "resuming"}]
            /\ job' \in [Jobs -> Loads] /\ handles' \in [Jobs -> SUBSET Tasks]
        <4>1. [uuid |-> req[t].uuid, epoch |-> NullEpoch, failed |-> FALSE] \in Loads
          BY <3>1, EpochTypes DEF Loads
        <4>2. CASE UNCHANGED jobVars
          BY <1>2, <4>2 DEF TypeOK, jobVars
        <4>3. ASSUME NEW j \in Jobs, StartLoading(j, req[t].uuid) PROVE <3>2!:
          BY <1>2, <4>1, <4>3 DEF StartLoading, TypeOK
        <4>4. QED
          BY <2>4, <4>2, <4>3 DEF PushPending
      <3>3. incremental' \in [UUIDs -> SUBSET Tasks] /\ only_final' \in [UUIDs -> SUBSET Tasks]
        BY <1>2, <2>4, <3>1 DEF PushPending, PushHandle, TypeOK
      <3>4. QED
        BY <1>2, <2>4, <3>1, <3>2, <3>3 DEF PushPending, TypeOK
    <2>5. ASSUME NEW t \in Tasks, AwaitResume(t) PROVE TypeOK'
      <3>1. Take(req[t]) \in Requests
        BY <1>2 DEF TypeOK, Take, Requests
      <3>2. QED
        BY <1>2, <2>5, <3>1 DEF AwaitResume, Abort, Assertions, TypeOK, pendingVars, jobVars, taskVars
    <2>6. ASSUME NEW t \in Tasks, AwaitRethrow(t) PROVE TypeOK'
      BY <1>2, <2>6 DEF AwaitRethrow, TypeOK, pendingVars, jobVars
    <2>7. ASSUME NEW j \in Jobs, CreateResource(j) PROVE TypeOK'
      BY <1>2, <2>7, PublishType
      DEF CreateResource, Abort, Assertions, TypeOK, pendingVars, jobVars, taskVars
    <2>8. ASSUME NEW j \in Jobs, UpdateResource(j) PROVE TypeOK'
      BY <1>2, <2>8, PublishType
      DEF UpdateResource, Abort, Assertions, TypeOK, pendingVars, jobVars, taskVars
    <2>9. ASSUME NEW j \in Jobs, Throw(j) PROVE TypeOK'
      BY <1>2, <2>9 DEF Throw, TypeOK, pendingVars, taskVars
    <2>10. ASSUME NEW j \in Jobs, FailResource(j) PROVE TypeOK'
      <3>1. [job[j] EXCEPT !.epoch = FinalEpoch, !.failed = TRUE] \in Loads
        BY <1>2, EpochTypes DEF TypeOK, Loads
      <3>2. aborted' \in Assertions \cup {"none"}
        BY <1>2, <2>10 DEF FailResource, Abort, Assertions, TypeOK
      <3>3. job' \in [Jobs -> Loads]
        BY <1>2, <2>10, <3>1 DEF FailResource, TypeOK, jobVars, Loads
      <3>4. jpc' \in [Jobs -> {"free", "loading", "updating", "failing",
                               "resolving", "resuming"}] /\ handles' = handles
        BY <1>2, <2>10 DEF FailResource, TypeOK, jobVars
      <3>5. QED
        BY <1>2, <2>10, <3>2, <3>3, <3>4 DEF FailResource, TypeOK, pendingVars, taskVars
    <2>11. ASSUME NEW j \in Jobs, ResolvePending(j) PROVE TypeOK'
      <3>1. job[j].uuid \in UUIDs
        BY <1>2 DEF TypeOK, Loads
      <3>2. QED
        <4>1. CASE job[j].uuid \notin pending
          BY <1>2, <2>11, <4>1
          DEF ResolvePending, Abort, Assertions, TypeOK, pendingVars, jobVars, taskVars
        <4>2. CASE job[j].uuid \in pending
          <5>1. handles' \in [Jobs -> SUBSET Tasks]
            <6>1. Taken(j) \in SUBSET Tasks
              BY <1>2, <3>1 DEF Taken, TypeOK
            <6>2. QED
              BY <1>2, <2>11, <4>2, <6>1 DEF ResolvePending, TypeOK
          <5>2. incremental' \in [UUIDs -> SUBSET Tasks] /\ only_final' \in [UUIDs -> SUBSET Tasks]
            BY <1>2, <2>11, <3>1, <4>2 DEF ResolvePending, TypeOK
          <5>3. pending' \in SUBSET UUIDs
            BY <1>2, <2>11, <4>2 DEF ResolvePending, TypeOK
          <5>4. jpc' \in [Jobs -> {"free", "loading", "updating", "failing",
                                   "resolving", "resuming"}]
            BY <1>2, <2>11, <4>2 DEF ResolvePending, TypeOK
          <5>5. UNCHANGED <<entry, taskVars, job, aborted>>
            BY <2>11, <4>2 DEF ResolvePending
          <5>6. QED
            BY <1>2, <5>1, <5>2, <5>3, <5>4, <5>5 DEF TypeOK, taskVars
        <4>3. QED
          BY <4>1, <4>2
    <2>12. ASSUME NEW j \in Jobs, NEW t \in Tasks, ResumeHandle(j, t) PROVE TypeOK'
      BY <1>2, <2>12 DEF ResumeHandle, TypeOK, pendingVars
    <2>13. ASSUME NEW j \in Jobs, ResolveReturns(j) PROVE TypeOK'
      BY <1>2, <2>13 DEF ResolveReturns, TypeOK, pendingVars, taskVars
    <2>14. CASE UNCHANGED vars
      BY <1>2, <2>14 DEF vars, TypeOK, pendingVars, jobVars, taskVars
    <2>15. QED
      BY <1>2, <2>1, <2>2, <2>3, <2>4, <2>5, <2>6, <2>7, <2>8, <2>9, <2>10, <2>11,
         <2>12, <2>13, <2>14, StepCases
  <1>3. QED
    BY <1>1, <1>2, PTL DEF Spec

-----------------------------------------------------------------------------
(* One load at a time: PendingIffLoading. *)

\* Only a job that resolves a failure has failed, and it resolves the final epoch.
FailedIsFinal ==
  \A j \in Jobs : job[j].failed /\ jpc[j] # "free" =>
    jpc[j] \in {"resolving", "resuming"} /\ job[j].epoch = FinalEpoch

LoadInv == TypeOK /\ FailedIsFinal /\ PendingIffLoading

LEMMA LoadInvStep ==
  ASSUME LoadInv, TypeOK', [Next]_vars
  PROVE  LoadInv'
  <1> USE DEF LoadInv
  <1>1. ASSUME UNCHANGED <<pending, jpc, job>>
        PROVE  LoadInv'
    BY <1>1 DEF FailedIsFinal, PendingIffLoading, Loading
  <1>2. ASSUME NEW t \in Tasks, PushPending(t)
        PROVE  LoadInv'
    <2> DEFINE u == req[t].uuid
    <2>1. u \in UUIDs
      BY DEF TypeOK, Requests
    <2>2. CASE u \in pending
      <3>1. UNCHANGED <<pending, jpc, job>>
        BY <1>2, <2>2 DEF PushPending, jobVars, StartLoading
      <3>2. QED
        BY <1>1, <3>1
    <2>3. ASSUME u \notin pending, NEW j \in Jobs, StartLoading(j, u)
          PROVE  LoadInv'
      <3>1. /\ pending' = pending \cup {u}
            /\ jpc[j] = "free" /\ jpc'[j] = "loading"
            /\ job'[j].uuid = u /\ ~job'[j].failed
            /\ \A i \in Jobs \ {j} : jpc'[i] = jpc[i] /\ job'[i] = job[i]
        BY <1>2, <2>3 DEF PushPending, StartLoading, TypeOK
      <3>2. FailedIsFinal'
        BY <3>1 DEF FailedIsFinal
      <3>3. \A v \in UUIDs, i \in Jobs :
              Loading(i, v)' <=> (Loading(i, v) \/ (i = j /\ v = u))
        BY <3>1 DEF Loading
      <3>4. \A i \in Jobs : ~Loading(i, u)
        BY <2>1, <2>3 DEF PendingIffLoading
      <3>5. \A v \in UUIDs : ~Loading(j, v)
        BY <3>1 DEF Loading
      <3>6. PendingIffLoading'
        BY <2>1, <3>1, <3>3, <3>4, <3>5 DEF PendingIffLoading
      <3>7. QED
        BY <3>2, <3>6
    <2>4. QED
      BY <1>2, <2>2, <2>3 DEF PushPending
  <1>3. ASSUME NEW j \in Jobs,
               pending' = pending,
               \A i \in Jobs \ {j} : jpc'[i] = jpc[i] /\ job'[i] = job[i],
               job'[j].uuid = job[j].uuid,
               \A u \in UUIDs : Loading(j, u)' <=> Loading(j, u),
               job'[j].failed /\ jpc'[j] # "free" =>
                 jpc'[j] \in {"resolving", "resuming"} /\ job'[j].epoch = FinalEpoch
        PROVE  LoadInv'
    <2>1. FailedIsFinal'
      BY <1>3 DEF FailedIsFinal
    <2>2. \A u \in UUIDs, i \in Jobs : Loading(i, u)' <=> Loading(i, u)
      BY <1>3 DEF Loading
    <2>3. PendingIffLoading'
      BY <1>3, <2>2 DEF PendingIffLoading
    <2>4. QED
      BY <2>1, <2>3
  <1>4. ASSUME NEW j \in Jobs, ResolvePending(j)
        PROVE  LoadInv'
    <2> DEFINE u == job[j].uuid
               final == FinalResolve(j)
    <2>1. jpc[j] = "resolving" /\ u \in UUIDs
      BY <1>4 DEF ResolvePending, TypeOK, Loads
    <2>2. Loading(j, u) /\ u \in pending
      BY <2>1 DEF PendingIffLoading, Loading
    <2>3. /\ job' = job /\ jpc' = [jpc EXCEPT ![j] = "resuming"]
          /\ pending' = IF final THEN pending \ {u} ELSE pending
      BY <1>4, <2>2 DEF ResolvePending
    <2>4. final <=> job[j].epoch = FinalEpoch
      BY <2>1 DEF FailedIsFinal, FinalResolve
    <2>5. FailedIsFinal'
      BY <2>1, <2>3 DEF FailedIsFinal, TypeOK
    <2>6. \A i \in Jobs, v \in UUIDs :
            Loading(i, v)' <=> Loading(i, v) /\ ~(i = j /\ final)
      BY <2>1, <2>3, <2>4 DEF Loading, TypeOK
    <2>7. PendingIffLoading'
      <3>1. CASE final
        BY <2>1, <2>2, <2>3, <2>6, <3>1 DEF PendingIffLoading, Loading
      <3>2. CASE ~final
        BY <2>3, <2>6, <3>2 DEF PendingIffLoading
      <3>3. QED
        BY <3>1, <3>2
    <2>8. QED
      BY <2>5, <2>7
  <1>5. ASSUME NEW j \in Jobs, CreateResource(j) \/ UpdateResource(j)
        PROVE  LoadInv'
    <2>1. CASE UNCHANGED jobVars
      BY <1>1, <1>5, <2>1 DEF CreateResource, UpdateResource, pendingVars, jobVars
    <2>2. ASSUME NEW e \in NextEpochs(job[j].uuid), Publish(j, e)
          PROVE  LoadInv'
      <3>1. jpc[j] \in {"loading", "updating"} /\ pending' = pending
        BY <1>5 DEF CreateResource, UpdateResource, pendingVars
      <3>2. /\ jpc' = [jpc EXCEPT ![j] = "resolving"]
            /\ job' = [job EXCEPT ![j].epoch = e]
        BY <2>2 DEF Publish
      <3>3. job'[j].uuid = job[j].uuid /\ job'[j].failed = job[j].failed
        BY <3>2 DEF TypeOK, Loads
      <3>4. \A i \in Jobs \ {j} : jpc'[i] = jpc[i] /\ job'[i] = job[i]
        BY <3>2 DEF TypeOK
      <3>5. jpc'[j] = "resolving"
        BY <3>2 DEF TypeOK
      <3>6. \A u \in UUIDs : Loading(j, u)' <=> Loading(j, u)
        BY <3>1, <3>3, <3>5 DEF Loading
      <3>7. ~job[j].failed
        BY <3>1 DEF FailedIsFinal
      <3>8. QED
        BY <1>3, <3>1, <3>3, <3>4, <3>6, <3>7
    <2>3. QED
      BY <1>5, <2>1, <2>2 DEF CreateResource, UpdateResource
  <1>6. ASSUME NEW j \in Jobs, Throw(j)
        PROVE  LoadInv'
    <2>1. /\ jpc[j] \in {"loading", "updating"} /\ jpc'[j] = "failing"
          /\ \A i \in Jobs \ {j} : jpc'[i] = jpc[i]
          /\ job' = job /\ pending' = pending
      BY <1>6 DEF Throw, TypeOK, pendingVars
    <2>2. ~job[j].failed
      BY <2>1 DEF FailedIsFinal
    <2>3. \A u \in UUIDs : Loading(j, u)' <=> Loading(j, u)
      BY <2>1 DEF Loading
    <2>4. QED
      BY <1>3, <2>1, <2>2, <2>3
  <1>7. ASSUME NEW j \in Jobs, FailResource(j)
        PROVE  LoadInv'
    <2>1. CASE UNCHANGED jobVars
      BY <1>1, <1>7, <2>1 DEF FailResource, pendingVars, jobVars
    <2>2. CASE /\ job' = [job EXCEPT ![j].epoch = FinalEpoch, ![j].failed = TRUE]
               /\ jpc' = [jpc EXCEPT ![j] = "resolving"]
      <3>1. /\ job'[j].uuid = job[j].uuid /\ job'[j].epoch = FinalEpoch
            /\ jpc'[j] = "resolving" /\ jpc[j] = "failing"
            /\ \A i \in Jobs \ {j} : jpc'[i] = jpc[i] /\ job'[i] = job[i]
            /\ pending' = pending
        BY <1>7, <2>2 DEF FailResource, TypeOK, Loads, pendingVars
      <3>2. \A u \in UUIDs : Loading(j, u)' <=> Loading(j, u)
        BY <3>1 DEF Loading
      <3>3. QED
        BY <1>3, <3>1, <3>2
    <2>3. QED
      BY <1>7, <2>1, <2>2 DEF FailResource
  <1>8. ASSUME NEW j \in Jobs, ResolveReturns(j)
        PROVE  LoadInv'
    <2>1. /\ job' = job /\ pending' = pending
          /\ jpc[j] = "resuming"
          /\ jpc'[j] = IF job[j].epoch = FinalEpoch THEN "free" ELSE "updating"
          /\ \A i \in Jobs \ {j} : jpc'[i] = jpc[i]
      BY <1>8 DEF ResolveReturns, TypeOK, pendingVars
    <2>2. job[j].failed => jpc'[j] = "free"
      BY <2>1 DEF FailedIsFinal
    <2>3. \A u \in UUIDs : Loading(j, u)' <=> Loading(j, u)
      BY <2>1 DEF Loading
    <2>4. QED
      BY <1>3, <2>1, <2>2, <2>3
  <1>9. QED
    <2>1. ASSUME NEW t \in Tasks, NEW u \in UUIDs, NEW f \in BOOLEAN, GetResource(t, u, f)
          PROVE  LoadInv'
      BY <1>1, <2>1 DEF GetResource, pendingVars, jobVars
    <2>2. ASSUME NEW t \in Tasks, GetNextEpoch(t) \/ AwaitSuspend(t) PROVE LoadInv'
      BY <1>1, <2>2 DEF GetNextEpoch, AwaitSuspend, pendingVars, jobVars
    <2>3. ASSUME NEW t \in Tasks, AwaitResume(t) \/ AwaitRethrow(t) PROVE LoadInv'
      BY <1>1, <2>3 DEF AwaitResume, AwaitRethrow, pendingVars, jobVars
    <2>4. ASSUME NEW j \in Jobs, NEW t \in Tasks, ResumeHandle(j, t) PROVE LoadInv'
      BY <1>1, <2>4 DEF ResumeHandle, pendingVars
    <2>5. CASE UNCHANGED vars
      BY <1>1, <2>5 DEF vars, pendingVars, jobVars
    <2>6. QED
      BY <1>2, <1>4, <1>5, <1>6, <1>7, <1>8, <2>1, <2>2, <2>3, <2>4, <2>5, StepCases

\* A key is in `pending` exactly while one job loads the resource: two requests
\* never start two loads of it at once.
THEOREM OneLoadAtATime == Spec => []PendingIffLoading
  <1>1. ASSUME Init PROVE FailedIsFinal /\ PendingIffLoading
    BY <1>1 DEF Init, FailedIsFinal, PendingIffLoading, Loading
  <1>2. ASSUME TypeOK, TypeOK', FailedIsFinal, PendingIffLoading, [Next]_vars
        PROVE  (FailedIsFinal /\ PendingIffLoading)'
    BY <1>2, LoadInvStep DEF LoadInv
  <1>3. QED
    BY <1>1, <1>2, TypeCorrect, PTL DEF Spec

-----------------------------------------------------------------------------
(* Every handle in one place: ResumedOnce and NoLostRequest. *)

\* The lists hold the right kind of request, and a job resumes requests of its
\* own resource.
HandlesMatch ==
  /\ \A u \in UUIDs :
       /\ \A t \in incremental[u] : ~req[t].only_final
       /\ \A t \in only_final[u] : req[t].only_final
  /\ \A j \in Jobs : \A t \in handles[j] : job[j].uuid = req[t].uuid

RequestInv == HandlesMatch /\ ResumedOnce /\ NoLostRequest

\* Steps of a task that neither was suspended nor becomes so.
LEMMA AwakeTaskStep ==
  ASSUME TypeOK, RequestInv, NEW t \in Tasks,
         pc[t] # "suspended", pc'[t] # "suspended",
         \A s \in Tasks \ {t} : pc'[s] = pc[s] /\ req'[s] = req[s],
         UNCHANGED <<pendingVars, jobVars>>
  PROVE  RequestInv'
  <1> USE DEF RequestInv, pendingVars, jobVars
  <1>1. /\ \A u \in UUIDs : t \notin incremental[u] \cup only_final[u]
        /\ \A j \in Jobs : t \notin handles[j]
    BY DEF ResumedOnce
  <1>2. \A j \in Jobs : handles[j] \subseteq Tasks
    BY DEF TypeOK
  <1>3. \A u \in UUIDs : incremental[u] \subseteq Tasks /\ only_final[u] \subseteq Tasks
    BY DEF TypeOK
  <1>4. HandlesMatch'
    BY <1>1, <1>2, <1>3 DEF HandlesMatch
  <1>5. ResumedOnce'
    BY <1>1, <1>2, <1>3 DEF ResumedOnce
  <1>6. NoLostRequest'
    BY <1>1, <1>2, <1>3 DEF NoLostRequest
  <1>7. QED
    BY <1>4, <1>5, <1>6

\* Steps of a job that holds no handles.
LEMMA EmptyHandedJobStep ==
  ASSUME TypeOK, RequestInv, NEW j \in Jobs, handles[j] = {},
         \A i \in Jobs \ {j} : jpc'[i] = jpc[i] /\ job'[i] = job[i],
         UNCHANGED <<pendingVars, taskVars, handles>>
  PROVE  RequestInv'
  <1> USE DEF RequestInv, pendingVars, taskVars
  <1>1. HandlesMatch'
    BY DEF HandlesMatch
  <1>2. ResumedOnce'
    BY DEF ResumedOnce
  <1>3. NoLostRequest'
    BY DEF NoLostRequest
  <1>4. QED
    BY <1>1, <1>2, <1>3

LEMMA PushKeepsHandles ==
  ASSUME TypeOK, RequestInv, NEW t \in Tasks, PushPending(t)
  PROVE  RequestInv'
  <1> DEFINE u == req[t].uuid
  <1> USE DEF RequestInv
  <1>1. /\ u \in UUIDs /\ pc[t] = "push" /\ req' = req
        /\ pc' = [pc EXCEPT ![t] = "suspended"]
        /\ pending' = pending \cup {u}
    BY DEF PushPending, TypeOK, Requests
  <1>2. /\ \A v \in UUIDs : t \notin incremental[v] \cup only_final[v]
        /\ \A j \in Jobs : t \notin handles[j]
    BY <1>1 DEF ResumedOnce
  <1>3. \A v \in UUIDs, s \in Tasks :
          /\ s \in incremental'[v] <=>
               s \in incremental[v] \/ (s = t /\ v = u /\ ~req[t].only_final)
          /\ s \in only_final'[v] <=>
               s \in only_final[v] \/ (s = t /\ v = u /\ req[t].only_final)
    <2>1. CASE req[t].only_final
      BY <1>1, <2>1 DEF PushPending, PushHandle, TypeOK
    <2>2. CASE ~req[t].only_final
      BY <1>1, <2>2 DEF PushPending, PushHandle, TypeOK
    <2>3. QED
      BY <2>1, <2>2
  <1>4. /\ handles' = handles
        /\ \A j \in Jobs : \A s \in handles[j] : jpc'[j] = jpc[j] /\ job'[j] = job[j]
    <2>1. CASE UNCHANGED jobVars
      BY <2>1 DEF jobVars
    <2>2. ASSUME NEW j \in Jobs, StartLoading(j, u) PROVE <1>4!:
      <3>1. handles[j] = {}
        BY <2>2 DEF StartLoading, ResumedOnce
      <3>2. QED
        BY <2>2, <3>1 DEF StartLoading, TypeOK
    <2>3. QED
      BY <2>1, <2>2 DEF PushPending
  <1>5. \A s \in Tasks : pc'[s] = IF s = t THEN "suspended" ELSE pc[s]
    BY <1>1 DEF TypeOK
  <1>6. \A v \in UUIDs : incremental'[v] \subseteq Tasks /\ only_final'[v] \subseteq Tasks
    BY <1>1 DEF PushPending, PushHandle, TypeOK
  <1>7. \A j \in Jobs : handles[j] \subseteq Tasks
    BY DEF TypeOK
  <1>8. HandlesMatch'
    <2>1. ASSUME NEW v \in UUIDs
          PROVE  /\ \A s \in incremental'[v] : ~req'[s].only_final
                 /\ \A s \in only_final'[v] : req'[s].only_final
      BY <1>1, <1>3, <1>6 DEF HandlesMatch
    <2>2. \A j \in Jobs : \A s \in handles'[j] : job'[j].uuid = req'[s].uuid
      BY <1>1, <1>4 DEF HandlesMatch
    <2>3. QED
      BY <2>1, <2>2 DEF HandlesMatch
  <1>9. ResumedOnce'
    <2>1. ASSUME NEW v \in UUIDs
          PROVE  /\ incremental'[v] \cap only_final'[v] = {}
                 /\ \A s \in incremental'[v] \cup only_final'[v] :
                      pc'[s] = "suspended" /\ req'[s].uuid = v
      BY <1>1, <1>2, <1>3, <1>5, <1>6 DEF ResumedOnce, HandlesMatch
    <2>2. ASSUME NEW j \in Jobs, NEW s \in handles'[j]
          PROVE  /\ jpc'[j] = "resuming" /\ pc'[s] = "suspended"
                 /\ \A v \in UUIDs : s \notin incremental'[v] \cup only_final'[v]
                 /\ \A i \in Jobs : s \in handles'[i] => i = j
      <3>1. s \in handles[j] /\ s \in Tasks /\ s # t
        BY <1>2, <1>4, <1>7, <2>2
      <3>2. QED
        BY <1>3, <1>4, <1>5, <1>6, <3>1 DEF ResumedOnce
    <2>3. QED
      BY <2>1, <2>2 DEF ResumedOnce
  <1>10. NoLostRequest'
    <2>1. u \in pending' /\ t \in incremental'[u] \cup only_final'[u]
      BY <1>1, <1>3
    <2>2. \A v \in UUIDs, s \in Tasks :
            s \in incremental[v] \cup only_final[v] => s \in incremental'[v] \cup only_final'[v]
      BY <1>3
    <2>3. ASSUME NEW s \in Tasks, s # t, pc'[s] = "suspended"
          PROVE  \/ /\ req'[s].uuid \in pending'
                    /\ s \in incremental'[req'[s].uuid] \cup only_final'[req'[s].uuid]
                 \/ \E j \in Jobs : /\ s \in handles'[j] /\ job'[j].uuid = req'[s].uuid
                                   /\ jpc'[j] = "resuming"
      <3>1. pc[s] = "suspended" /\ req'[s] = req[s] /\ req[s].uuid \in UUIDs
        BY <1>1, <1>5, <2>3 DEF TypeOK, Requests
      <3>2. QED
        BY <1>1, <1>4, <2>2, <3>1 DEF NoLostRequest
    <2>4. QED
      BY <1>1, <2>1, <2>3 DEF NoLostRequest
  <1>11. QED
    BY <1>8, <1>9, <1>10

LEMMA ResolveKeepsHandles ==
  ASSUME TypeOK, RequestInv, NEW j \in Jobs, ResolvePending(j)
  PROVE  RequestInv'
  <1> DEFINE u == job[j].uuid
  <1> USE DEF RequestInv
  <1>1. u \in UUIDs /\ jpc[j] = "resolving" /\ handles[j] = {}
    BY DEF ResolvePending, ResumedOnce, TypeOK, Loads
  <1>2. CASE u \notin pending
    BY <1>1, <1>2, EmptyHandedJobStep DEF ResolvePending, pendingVars, jobVars
  <1>3. CASE u \in pending
    <2>1. /\ job' = job /\ pc' = pc /\ req' = req
          /\ \A i \in Jobs : jpc'[i] = IF i = j THEN "resuming" ELSE jpc[i]
          /\ \A i \in Jobs : handles'[i] = IF i = j THEN Taken(j) ELSE handles[i]
          /\ \A v \in UUIDs : incremental'[v] = IF v = u THEN {} ELSE incremental[v]
      BY <1>1, <1>3 DEF ResolvePending, TypeOK, taskVars
    <2>2. \/ /\ FinalResolve(j) /\ Taken(j) = incremental[u] \cup only_final[u]
             /\ \A v \in UUIDs : only_final'[v] = IF v = u THEN {} ELSE only_final[v]
             /\ pending' = pending \ {u}
          \/ /\ ~FinalResolve(j) /\ Taken(j) = incremental[u]
             /\ only_final' = only_final /\ pending' = pending
      BY <1>1, <1>3 DEF ResolvePending, Taken, TypeOK
    <2>3. \A v \in UUIDs : incremental[v] \subseteq Tasks /\ only_final[v] \subseteq Tasks
      BY DEF TypeOK
    <2>4. HandlesMatch'
      BY <1>1, <2>1, <2>2, <2>3 DEF HandlesMatch, ResumedOnce
    <2>5. ResumedOnce'
      <3>1. \A v \in UUIDs : /\ incremental'[v] \subseteq incremental[v]
                             /\ only_final'[v] \subseteq only_final[v]
        BY <2>1, <2>2
      <3>2. \A s \in Taken(j), v \in UUIDs :
              s \notin incremental'[v] \cup only_final'[v]
        BY <1>1, <2>1, <2>2, <2>3 DEF ResumedOnce
      <3>3. \A s \in Taken(j) :
              pc[s] = "suspended" /\ \A i \in Jobs : s \notin handles[i]
        BY <1>1, <2>2 DEF ResumedOnce
      <3>4. QED
        BY <1>1, <2>1, <3>1, <3>2, <3>3 DEF ResumedOnce
    <2>6. NoLostRequest'
      <3>1. ASSUME NEW s \in Tasks, pc[s] = "suspended"
            PROVE  \/ /\ req[s].uuid \in pending'
                      /\ s \in incremental'[req[s].uuid] \cup only_final'[req[s].uuid]
                   \/ \E i \in Jobs : /\ s \in handles'[i] /\ job[i].uuid = req[s].uuid
                                     /\ jpc'[i] = "resuming"
        <4>0. req[s].uuid \in UUIDs
          BY DEF TypeOK, Requests
        <4>1. CASE \E i \in Jobs : s \in handles[i] /\ job[i].uuid = req[s].uuid
                                 /\ jpc[i] = "resuming"
          BY <1>1, <2>1, <4>1
        <4>2. CASE /\ req[s].uuid \in pending
                   /\ s \in incremental[req[s].uuid] \cup only_final[req[s].uuid]
          <5>1. CASE req[s].uuid # u
            BY <2>1, <2>2, <4>0, <4>2, <5>1
          <5>2. CASE req[s].uuid = u
            BY <2>1, <2>2, <4>2, <5>2
          <5>3. QED
            BY <5>1, <5>2
        <4>3. QED
          BY <3>1, <4>1, <4>2 DEF NoLostRequest
      <3>2. QED
        BY <2>1, <3>1 DEF NoLostRequest
    <2>7. QED
      BY <2>4, <2>5, <2>6
  <1>4. QED
    BY <1>2, <1>3

LEMMA ResumeKeepsHandles ==
  ASSUME TypeOK, RequestInv, NEW j \in Jobs, NEW t \in Tasks, ResumeHandle(j, t)
  PROVE  RequestInv'
  <1> USE DEF RequestInv
  <1>1. /\ t \in handles[j] /\ pendingVars' = pendingVars /\ req' = req
        /\ jpc' = jpc /\ job' = job
        /\ \A i \in Jobs, s \in Tasks :
             s \in handles'[i] <=> s \in handles[i] /\ ~(i = j /\ s = t)
        /\ \A i \in Jobs : handles'[i] \subseteq handles[i]
    BY DEF ResumeHandle, TypeOK
  <1>2. /\ pc'[t] # "suspended"
        /\ \A s \in Tasks \ {t} : pc'[s] = pc[s]
    BY DEF ResumeHandle, TypeOK
  <1>3. /\ \A u \in UUIDs : t \notin incremental[u] \cup only_final[u]
        /\ \A i \in Jobs : t \notin handles'[i]
    BY <1>1 DEF ResumedOnce
  <1>4. \A v \in UUIDs : incremental[v] \subseteq Tasks /\ only_final[v] \subseteq Tasks
    BY DEF TypeOK
  <1>5. \A i \in Jobs : handles[i] \subseteq Tasks
    BY DEF TypeOK
  <1>6. HandlesMatch'
    BY <1>1 DEF HandlesMatch, pendingVars
  <1>7. ResumedOnce'
    <2>1. \A u \in UUIDs : incremental'[u] = incremental[u] /\ only_final'[u] = only_final[u]
      BY <1>1 DEF pendingVars
    <2>2. ASSUME NEW u \in UUIDs
          PROVE  /\ incremental'[u] \cap only_final'[u] = {}
                 /\ \A s \in incremental'[u] \cup only_final'[u] :
                      pc'[s] = "suspended" /\ req'[s].uuid = u
      BY <1>1, <1>2, <1>3, <1>4, <2>1 DEF ResumedOnce
    <2>3. ASSUME NEW i \in Jobs, NEW s \in handles'[i]
          PROVE  /\ jpc'[i] = "resuming" /\ pc'[s] = "suspended"
                 /\ \A u \in UUIDs : s \notin incremental'[u] \cup only_final'[u]
                 /\ \A k \in Jobs : s \in handles'[k] => k = i
      <3>1. s \in handles[i] /\ s \in Tasks /\ s # t
        BY <1>1, <1>3, <1>5, <2>3
      <3>2. QED
        BY <1>1, <1>2, <1>5, <2>1, <3>1 DEF ResumedOnce
    <2>4. QED
      BY <2>2, <2>3 DEF ResumedOnce
  <1>8. NoLostRequest'
    <2>1. ASSUME NEW s \in Tasks, pc'[s] = "suspended"
          PROVE  s # t /\ pc[s] = "suspended"
      BY <1>2, <2>1
    <2>2. \A s \in Tasks \ {t}, i \in Jobs : s \in handles[i] => s \in handles'[i]
      BY <1>1
    <2>3. QED
      BY <1>1, <2>1, <2>2 DEF NoLostRequest, pendingVars
  <1>9. QED
    BY <1>6, <1>7, <1>8

LEMMA RequestInvStep ==
  ASSUME TypeOK, RequestInv, [Next]_vars
  PROVE  RequestInv'
  <1>1. ASSUME NEW t \in Tasks, NEW u \in UUIDs, NEW f \in BOOLEAN, GetResource(t, u, f)
        PROVE  RequestInv'
    <2>1. pc[t] # "suspended" /\ pc'[t] # "suspended"
      BY <1>1 DEF GetResource, TakeOr, TypeOK
    <2>2. \A s \in Tasks \ {t} : pc'[s] = pc[s] /\ req'[s] = req[s]
      BY <1>1 DEF GetResource, TakeOr, TypeOK
    <2>3. QED
      BY <1>1, <2>1, <2>2, AwakeTaskStep DEF GetResource
  <1>2. ASSUME NEW t \in Tasks, GetNextEpoch(t) \/ AwaitSuspend(t)
        PROVE  RequestInv'
    <2>1. pc[t] # "suspended" /\ pc'[t] # "suspended"
      BY <1>2 DEF GetNextEpoch, AwaitSuspend, TakeOr, TypeOK
    <2>2. \A s \in Tasks \ {t} : pc'[s] = pc[s] /\ req'[s] = req[s]
      BY <1>2 DEF GetNextEpoch, AwaitSuspend, TakeOr, TypeOK
    <2>3. QED
      BY <1>2, <2>1, <2>2, AwakeTaskStep DEF GetNextEpoch, AwaitSuspend
  <1>3. ASSUME NEW t \in Tasks, AwaitResume(t) \/ AwaitRethrow(t)
        PROVE  RequestInv'
    <2>1. pc[t] # "suspended" /\ pc'[t] # "suspended"
      BY <1>3 DEF AwaitResume, AwaitRethrow, TypeOK, taskVars
    <2>2. \A s \in Tasks \ {t} : pc'[s] = pc[s] /\ req'[s] = req[s]
      BY <1>3 DEF AwaitResume, AwaitRethrow, TypeOK, taskVars
    <2>3. QED
      BY <1>3, <2>1, <2>2, AwakeTaskStep DEF AwaitResume, AwaitRethrow
  <1>4. ASSUME NEW j \in Jobs, CreateResource(j) \/ UpdateResource(j)
        PROVE  RequestInv'
    <2>1. handles[j] = {}
      BY <1>4 DEF CreateResource, UpdateResource, RequestInv, ResumedOnce
    <2>2. /\ \A i \in Jobs \ {j} : jpc'[i] = jpc[i] /\ job'[i] = job[i]
          /\ handles' = handles
      BY <1>4 DEF CreateResource, UpdateResource, Publish, TypeOK, jobVars
    <2>3. QED
      BY <1>4, <2>1, <2>2, EmptyHandedJobStep DEF CreateResource, UpdateResource
  <1>5. ASSUME NEW j \in Jobs, Throw(j) \/ FailResource(j) \/ ResolveReturns(j)
        PROVE  RequestInv'
    <2>1. handles[j] = {}
      BY <1>5 DEF Throw, FailResource, ResolveReturns, RequestInv, ResumedOnce
    <2>2. /\ \A i \in Jobs \ {j} : jpc'[i] = jpc[i] /\ job'[i] = job[i]
          /\ handles' = handles
      BY <1>5 DEF Throw, FailResource, ResolveReturns, TypeOK, jobVars
    <2>3. QED
      BY <1>5, <2>1, <2>2, EmptyHandedJobStep DEF Throw, FailResource, ResolveReturns
  <1>6. CASE UNCHANGED vars
    BY <1>6 DEF RequestInv, HandlesMatch, ResumedOnce, NoLostRequest,
                vars, pendingVars, taskVars, jobVars
  <1>7. QED
    BY <1>1, <1>2, <1>3, <1>4, <1>5, <1>6, PushKeepsHandles, ResolveKeepsHandles,
       ResumeKeepsHandles, StepCases

LEMMA RequestInvInit == Init => RequestInv
  BY DEF Init, RequestInv, HandlesMatch, ResumedOnce, NoLostRequest

\* No coroutine is resumed twice, or while it is not suspended on that resource.
THEOREM NothingResumedTwice == Spec => []ResumedOnce
  <1>1. RequestInv => ResumedOnce
    BY DEF RequestInv
  <1>2. ASSUME TypeOK, RequestInv, [Next]_vars PROVE RequestInv'
    BY <1>2, RequestInvStep
  <1>3. QED
    BY <1>1, <1>2, RequestInvInit, TypeCorrect, PTL DEF Spec

\* No request is lost: a suspended coroutine's handle is where a job of its
\* resource will find it.
THEOREM NothingLost == Spec => []NoLostRequest
  <1>1. RequestInv => NoLostRequest
    BY DEF RequestInv
  <1>2. ASSUME TypeOK, RequestInv, [Next]_vars PROVE RequestInv'
    BY <1>2, RequestInvStep
  <1>3. QED
    BY <1>1, <1>2, RequestInvInit, TypeCorrect, PTL DEF Spec

-----------------------------------------------------------------------------
(* What entries, jobs and awaiters know of each other. *)

\* What a loading job knows of the entry it is about to publish or has published.
Publishing ==
  \A j \in Jobs :
    /\ jpc[j] = "updating" => entry[job[j].uuid] \notin {NullEpoch, FinalEpoch}
    /\ jpc[j] \in {"resolving", "resuming"} /\ ~job[j].failed =>
         entry[job[j].uuid] = job[j].epoch /\ job[j].epoch # NullEpoch

\* What a task knows between its request and the answer.
Awaiting ==
  \A t \in Tasks :
    /\ pc[t] \in {"suspend", "push", "suspended", "resumed"} => req[t].epoch # FinalEpoch
    /\ pc[t] = "resumed" => entry[req[t].uuid] # NullEpoch

\* Resources published complete; a task that holds the map saw no entry.
OneShot ==
  /\ \A u \in UUIDs \ Incremental : entry[u] \in {NullEpoch, FinalEpoch}
  /\ \A t \in Tasks : pc[t] = "push" /\ req[t].uuid \notin Incremental
                      => entry[req[t].uuid] = NullEpoch

EntryInv == Publishing /\ Awaiting /\ OneShot /\ OneShotLoadedOnce

LEMMA UnwantedOneShot ==
  ASSUME TypeOK, OneShot, NEW r \in Requests, r.uuid \notin Incremental,
         r.epoch # FinalEpoch, ~CallerWants(r, entry[r.uuid])
  PROVE  entry[r.uuid] = NullEpoch
  <1>1. r.uuid \in UUIDs \ Incremental /\ r.epoch \in Epochs
    BY DEF Requests
  <1>2. entry[r.uuid] \in {NullEpoch, FinalEpoch}
    BY <1>1 DEF OneShot
  <1>3. FinalEpoch > r.epoch
    BY <1>1, LoaderAssumption DEF Epochs, NullEpoch
  <1>4. QED
    BY <1>2, <1>3, EpochTypes DEF CallerWants

\* Steps of a task that neither push a handle nor resume.
LEMMA TaskKeepsEntryInv ==
  ASSUME TypeOK, EntryInv, NEW t \in Tasks,
         UNCHANGED <<entry, jobVars>>,
         \A s \in Tasks \ {t} : pc'[s] = pc[s] /\ req'[s] = req[s],
         pc'[t] \in {"suspend", "push", "suspended"} => req'[t].epoch # FinalEpoch,
         pc'[t] = "push" /\ req'[t].uuid \notin Incremental
           => entry[req'[t].uuid] = NullEpoch,
         pc'[t] = "resumed" => pc[t] = "resumed" /\ req'[t] = req[t]
  PROVE  EntryInv'
  <1> USE DEF EntryInv, jobVars
  <1>1. Publishing'
    BY DEF Publishing
  <1>2. Awaiting'
    BY DEF Awaiting
  <1>3. OneShot'
    BY DEF OneShot
  <1>4. OneShotLoadedOnce'
    BY DEF OneShotLoadedOnce
  <1>5. QED
    BY <1>1, <1>2, <1>3, <1>4

LEMMA TakeOrKeepsEntryInv ==
  ASSUME TypeOK, EntryInv, NEW t \in Tasks, NEW r \in Requests, r.epoch # FinalEpoch,
         NEW next \in {"suspend", "push"}, TakeOr(t, r, next), UNCHANGED <<entry, jobVars>>
  PROVE  EntryInv'
  <1>1. /\ \A s \in Tasks \ {t} : pc'[s] = pc[s] /\ req'[s] = req[s]
        /\ \/ pc'[t] = "got"
           \/ pc'[t] = next /\ req'[t] = r /\ ~CallerWants(r, entry[r.uuid])
    BY DEF TakeOr, TypeOK
  <1>2. CASE pc'[t] = "got"
    BY <1>1, <1>2, TaskKeepsEntryInv
  <1>3. CASE pc'[t] = next /\ req'[t] = r /\ ~CallerWants(r, entry[r.uuid])
    <2>1. r.uuid \notin Incremental => entry[r.uuid] = NullEpoch
      BY <1>3, UnwantedOneShot DEF EntryInv
    <2>2. QED
      BY <1>1, <1>3, <2>1, TaskKeepsEntryInv
  <1>4. QED
    BY <1>1, <1>2, <1>3

LEMMA PushKeepsEntryInv ==
  ASSUME TypeOK, EntryInv, NEW t \in Tasks, PushPending(t)
  PROVE  EntryInv'
  <1> DEFINE u == req[t].uuid
  <1> USE DEF EntryInv
  <1>1. /\ entry' = entry /\ req' = req /\ pc[t] = "push"
        /\ pc' = [pc EXCEPT ![t] = "suspended"]
    BY DEF PushPending
  <1>2. Awaiting' /\ OneShot'
    BY <1>1 DEF Awaiting, OneShot, TypeOK
  <1>3. CASE UNCHANGED jobVars
    BY <1>1, <1>2, <1>3 DEF Publishing, OneShotLoadedOnce, jobVars
  <1>4. ASSUME NEW j \in Jobs, StartLoading(j, u) PROVE EntryInv'
    <2>1. /\ jpc'[j] = "loading" /\ job'[j].uuid = u
          /\ \A i \in Jobs \ {j} : jpc'[i] = jpc[i] /\ job'[i] = job[i]
      BY <1>4 DEF StartLoading, TypeOK
    <2>2. u \notin Incremental => entry[u] = NullEpoch
      BY <1>1 DEF OneShot
    <2>3. Publishing' /\ OneShotLoadedOnce'
      BY <1>1, <2>1, <2>2 DEF Publishing, OneShotLoadedOnce
    <2>4. QED
      BY <1>2, <2>3
  <1>5. QED
    BY <1>3, <1>4 DEF PushPending

\* create_resource() and update_resource(): no other job has a claim on the entry.
LEMMA PublishKeepsEntryInv ==
  ASSUME TypeOK, LoadInv, EntryInv, NEW j \in Jobs, jpc[j] \in {"loading", "updating"},
         NEW e \in NextEpochs(job[j].uuid), Publish(j, e), UNCHANGED taskVars,
         entry[job[j].uuid] # FinalEpoch,
         entry[job[j].uuid] = NullEpoch =>
           \A t \in Tasks : pc[t] # "push"
  PROVE  EntryInv'
  <1> DEFINE u == job[j].uuid
  <1> USE DEF EntryInv
  <1>1. /\ u \in UUIDs /\ entry[u] \in Epochs /\ e \in Epochs
        /\ e # NullEpoch
        /\ u \notin Incremental => e = FinalEpoch
    BY EpochTypes, LoaderAssumption DEF TypeOK, Loads, NextEpochs, Epochs, NullEpoch
  <1>2. /\ \A v \in UUIDs : entry'[v] = IF v = u THEN e ELSE entry[v]
        /\ jpc'[j] = "resolving" /\ job'[j].uuid = u /\ job'[j].epoch = e
        /\ \A i \in Jobs \ {j} : jpc'[i] = jpc[i] /\ job'[i] = job[i]
    BY <1>1 DEF Publish, TypeOK, Loads
  <1>3. \A i \in Jobs : job[i].uuid \in UUIDs
    BY DEF TypeOK, Loads
  <1>4. \A i \in Jobs \ {j} : ~Loading(i, u)
    BY <1>1 DEF LoadInv, PendingIffLoading, Loading
  <1>5. Publishing'
    <2>1. ASSUME NEW i \in Jobs \ {j}
          PROVE  /\ jpc'[i] = "updating" => entry'[job'[i].uuid] \notin {NullEpoch, FinalEpoch}
                 /\ jpc'[i] \in {"resolving", "resuming"} /\ ~job'[i].failed =>
                      entry'[job'[i].uuid] = job'[i].epoch /\ job'[i].epoch # NullEpoch
      <3>1. CASE job[i].uuid # u
        BY <1>2, <1>3, <3>1 DEF Publishing
      <3>2. CASE job[i].uuid = u
        BY <1>2, <1>4, <3>2 DEF Publishing, Loading
      <3>3. QED
        BY <3>1, <3>2
    <2>2. QED
      BY <1>1, <1>2, <2>1 DEF Publishing
  <1>6. Awaiting'
    BY <1>1, <1>2 DEF Awaiting, TypeOK, Requests, taskVars
  <1>7. OneShot'
    <2>1. \A v \in UUIDs \ Incremental : entry'[v] \in {NullEpoch, FinalEpoch}
      BY <1>1, <1>2 DEF OneShot
    <2>2. \A t \in Tasks : req[t].uuid \in UUIDs
      BY DEF TypeOK, Requests
    <2>3. ASSUME NEW t \in Tasks, pc[t] = "push", req[t].uuid \notin Incremental
          PROVE  entry'[req[t].uuid] = NullEpoch
      BY <1>2, <2>2, <2>3 DEF OneShot
    <2>4. QED
      BY <2>1, <2>3 DEF OneShot, taskVars
  <1>8. OneShotLoadedOnce'
    BY <1>2, <1>3, <1>4 DEF OneShotLoadedOnce, Loading
  <1>9. QED
    BY <1>5, <1>6, <1>7, <1>8

\* Steps of a job that publishes nothing.
LEMMA JobKeepsEntryInv ==
  ASSUME TypeOK, EntryInv, NEW j \in Jobs, UNCHANGED <<entry, taskVars>>,
         \A i \in Jobs \ {j} : jpc'[i] = jpc[i] /\ job'[i] = job[i],
         job'[j].uuid = job[j].uuid,
         jpc'[j] = "updating" => entry[job[j].uuid] \notin {NullEpoch, FinalEpoch},
         jpc'[j] \in {"resolving", "resuming"} /\ ~job'[j].failed =>
           entry[job[j].uuid] = job'[j].epoch /\ job'[j].epoch # NullEpoch,
         job[j].uuid \notin Incremental /\ jpc'[j] \in {"loading", "failing"}
           => entry[job[j].uuid] = NullEpoch
  PROVE  EntryInv'
  <1> USE DEF EntryInv, taskVars
  <1>1. Publishing'
    BY DEF Publishing
  <1>2. Awaiting' /\ OneShot'
    BY DEF Awaiting, OneShot
  <1>3. OneShotLoadedOnce'
    BY DEF OneShotLoadedOnce
  <1>4. QED
    BY <1>1, <1>2, <1>3

LEMMA EntryInvStep ==
  ASSUME TypeOK, LoadInv, RequestInv, EntryInv, [Next]_vars
  PROVE  EntryInv'
  <1>1. ASSUME NEW t \in Tasks, NEW u \in UUIDs, NEW f \in BOOLEAN, GetResource(t, u, f)
        PROVE  EntryInv'
    <2> DEFINE r == [uuid |-> u, only_final |-> f, epoch |-> NullEpoch]
    <2>1. r \in Requests /\ r.epoch # FinalEpoch
      BY EpochTypes DEF Requests
    <2>2. TakeOr(t, r, "suspend") /\ UNCHANGED <<entry, jobVars>>
      BY <1>1 DEF GetResource
    <2>3. QED
      BY <2>1, <2>2, TakeOrKeepsEntryInv
  <1>2. ASSUME NEW t \in Tasks, GetNextEpoch(t)
        PROVE  EntryInv'
    <2>1. req[t] \in Requests /\ req[t].epoch # FinalEpoch
      BY <1>2 DEF GetNextEpoch, TypeOK
    <2>2. QED
      BY <1>2, <2>1, TakeOrKeepsEntryInv DEF GetNextEpoch
  <1>3. ASSUME NEW t \in Tasks, AwaitSuspend(t)
        PROVE  EntryInv'
    <2>1. req[t] \in Requests /\ req[t].epoch # FinalEpoch
      BY <1>3 DEF AwaitSuspend, TypeOK, EntryInv, Awaiting
    <2>2. QED
      BY <1>3, <2>1, TakeOrKeepsEntryInv DEF AwaitSuspend
  <1>4. ASSUME NEW t \in Tasks, AwaitResume(t) \/ AwaitRethrow(t)
        PROVE  EntryInv'
    <2>1. UNCHANGED <<entry, jobVars>>
      BY <1>4 DEF AwaitResume, AwaitRethrow
    <2>2. \A s \in Tasks \ {t} : pc'[s] = pc[s] /\ req'[s] = req[s]
      BY <1>4 DEF AwaitResume, AwaitRethrow, TypeOK, taskVars
    <2>3. \/ pc'[t] \in {"got", "failed"}
          \/ pc'[t] = "resumed" /\ pc[t] = "resumed" /\ req'[t] = req[t]
      BY <1>4 DEF AwaitResume, AwaitRethrow, TypeOK, taskVars
    <2>4. QED
      BY <2>1, <2>2, <2>3, TaskKeepsEntryInv
  <1>5. ASSUME NEW j \in Jobs, CreateResource(j)
        PROVE  EntryInv'
    <2>1. jpc[j] = "loading" /\ MapIsUnlocked /\ UNCHANGED <<pendingVars, taskVars>>
      BY <1>5 DEF CreateResource
    <2>2. CASE UNCHANGED <<entry, jobVars>>
      BY <2>1, <2>2 DEF EntryInv, Publishing, Awaiting, OneShot, OneShotLoadedOnce,
                        jobVars, taskVars
    <2>3. ASSUME entry[job[j].uuid] = NullEpoch, NEW e \in NextEpochs(job[j].uuid), Publish(j, e)
          PROVE  EntryInv'
      BY <2>1, <2>3, EpochTypes, PublishKeepsEntryInv DEF MapIsUnlocked
    <2>4. QED
      BY <1>5, <2>2, <2>3 DEF CreateResource
  <1>6. ASSUME NEW j \in Jobs, UpdateResource(j)
        PROVE  EntryInv'
    <2>1. jpc[j] = "updating" /\ UNCHANGED <<pendingVars, taskVars>>
      BY <1>6 DEF UpdateResource
    <2>2. CASE UNCHANGED <<entry, jobVars>>
      BY <2>1, <2>2 DEF EntryInv, Publishing, Awaiting, OneShot, OneShotLoadedOnce,
                        jobVars, taskVars
    <2>3. ASSUME entry[job[j].uuid] \notin {NullEpoch, FinalEpoch},
                 NEW e \in NextEpochs(job[j].uuid), Publish(j, e)
          PROVE  EntryInv'
      BY <2>1, <2>3, PublishKeepsEntryInv
    <2>4. QED
      BY <1>6, <2>2, <2>3 DEF UpdateResource
  <1>7. ASSUME NEW j \in Jobs, Throw(j)
        PROVE  EntryInv'
    <2>1. /\ jpc[j] \in {"loading", "updating"} /\ jpc'[j] = "failing" /\ job' = job
          /\ \A i \in Jobs \ {j} : jpc'[i] = jpc[i]
          /\ UNCHANGED <<entry, taskVars>>
      BY <1>7 DEF Throw, TypeOK
    <2>2. job[j].uuid \notin Incremental => entry[job[j].uuid] = NullEpoch
      BY <2>1 DEF EntryInv, OneShot, OneShotLoadedOnce, Publishing, TypeOK, Loads
    <2>3. QED
      BY <2>1, <2>2, JobKeepsEntryInv
  <1>8. ASSUME NEW j \in Jobs, FailResource(j)
        PROVE  EntryInv'
    <2>1. jpc[j] = "failing" /\ UNCHANGED <<entry, taskVars>>
      BY <1>8 DEF FailResource
    <2>2. CASE UNCHANGED jobVars
      BY <2>1, <2>2 DEF EntryInv, Publishing, Awaiting, OneShot, OneShotLoadedOnce,
                        jobVars, taskVars
    <2>3. CASE /\ job' = [job EXCEPT ![j].epoch = FinalEpoch, ![j].failed = TRUE]
               /\ jpc' = [jpc EXCEPT ![j] = "resolving"]
      <3>1. /\ job'[j].uuid = job[j].uuid /\ job'[j].failed /\ jpc'[j] = "resolving"
            /\ \A i \in Jobs \ {j} : jpc'[i] = jpc[i] /\ job'[i] = job[i]
        BY <2>3 DEF TypeOK, Loads
      <3>2. QED
        BY <2>1, <3>1, JobKeepsEntryInv
    <2>4. QED
      BY <1>8, <2>2, <2>3 DEF FailResource
  <1>9. ASSUME NEW j \in Jobs, ResolvePending(j)
        PROVE  EntryInv'
    <2>1. /\ jpc[j] = "resolving" /\ UNCHANGED <<entry, taskVars>> /\ job' = job
          /\ jpc'[j] \in {"resolving", "resuming"}
          /\ \A i \in Jobs \ {j} : jpc'[i] = jpc[i]
      BY <1>9 DEF ResolvePending, TypeOK, jobVars
    <2>2. ~job[j].failed => entry[job[j].uuid] = job[j].epoch /\ job[j].epoch # NullEpoch
      BY <2>1 DEF EntryInv, Publishing
    <2>3. QED
      BY <2>1, <2>2, JobKeepsEntryInv
  <1>10. ASSUME NEW j \in Jobs, NEW t \in Tasks, ResumeHandle(j, t)
         PROVE  EntryInv'
    <2>1. /\ jpc[j] = "resuming" /\ t \in handles[j]
          /\ entry' = entry /\ req' = req /\ jpc' = jpc /\ job' = job
          /\ pc'[t] = IF job[j].failed THEN "rethrow" ELSE "resumed"
          /\ \A s \in Tasks \ {t} : pc'[s] = pc[s]
      BY <1>10 DEF ResumeHandle, TypeOK
    <2>2. pc[t] = "suspended" /\ job[j].uuid = req[t].uuid
      BY <2>1 DEF RequestInv, ResumedOnce, HandlesMatch
    <2>3. ~job[j].failed => entry[req[t].uuid] # NullEpoch
      BY <2>1, <2>2 DEF EntryInv, Publishing
    <2>4. Awaiting'
      BY <2>1, <2>2, <2>3 DEF EntryInv, Awaiting
    <2>5. OneShot'
      BY <2>1 DEF EntryInv, OneShot
    <2>6. Publishing' /\ OneShotLoadedOnce'
      BY <2>1 DEF EntryInv, Publishing, OneShotLoadedOnce
    <2>7. QED
      BY <2>4, <2>5, <2>6 DEF EntryInv
  <1>11. ASSUME NEW j \in Jobs, ResolveReturns(j)
         PROVE  EntryInv'
    <2>1. /\ jpc[j] = "resuming" /\ UNCHANGED <<entry, taskVars>> /\ job' = job
          /\ jpc'[j] = IF job[j].epoch = FinalEpoch THEN "free" ELSE "updating"
          /\ \A i \in Jobs \ {j} : jpc'[i] = jpc[i]
      BY <1>11 DEF ResolveReturns, TypeOK
    <2>2. jpc'[j] = "updating" => entry[job[j].uuid] \notin {NullEpoch, FinalEpoch}
      BY <2>1 DEF EntryInv, Publishing, LoadInv, FailedIsFinal
    <2>3. QED
      BY <2>1, <2>2, JobKeepsEntryInv
  <1>12. CASE UNCHANGED vars
    BY <1>12 DEF EntryInv, Publishing, Awaiting, OneShot, OneShotLoadedOnce,
                 vars, jobVars, taskVars
  <1>13. QED
    BY <1>1, <1>2, <1>3, <1>4, <1>5, <1>6, <1>7, <1>8, <1>9, <1>10, <1>11, <1>12,
       PushKeepsEntryInv, StepCases

LEMMA EntryInvInit == Init => LoadInv /\ RequestInv /\ EntryInv
  <1> SUFFICES ASSUME Init PROVE LoadInv /\ RequestInv /\ EntryInv
    OBVIOUS
  <1>1. TypeOK
    BY TypeInit
  <1>2. FailedIsFinal /\ PendingIffLoading
    BY DEF Init, FailedIsFinal, PendingIffLoading, Loading
  <1>3. EntryInv
    BY EpochTypes DEF Init, EntryInv, Publishing, Awaiting, OneShot, OneShotLoadedOnce
  <1>4. QED
    BY <1>1, <1>2, <1>3, RequestInvInit DEF LoadInv

\* The inductive invariant of the loader.
IInv == LoadInv /\ RequestInv /\ EntryInv

THEOREM LoaderInvariant == Spec => []IInv
  <1>1. ASSUME TypeOK', IInv, [Next]_vars PROVE IInv'
    BY <1>1, LoadInvStep, RequestInvStep, EntryInvStep DEF IInv, LoadInv
  <1>2. Init => IInv
    BY EntryInvInit DEF IInv
  <1>3. QED
    BY <1>1, <1>2, TypeCorrect, PTL DEF Spec

\* Who waits for a resource is held by those who load it, and once.
THEOREM WaitersAreHeldOnce == Spec => []WaitersHeldOnce
  BY NothingLost, NothingResumedTwice, PTL DEF WaitersHeldOnce

\* A resource published complete is created by the first load that gets that far:
\* the race of update_resource() with await_suspend() does not concern it.
THEOREM OneShotResources == Spec => []OneShotLoadedOnce
  <1>1. IInv => OneShotLoadedOnce
    BY DEF IInv, EntryInv
  <1>2. QED
    BY <1>1, LoaderInvariant, PTL

\* Nothing is loaded by two at once, nor again after it was published complete.
THEOREM ResourcesAreLoadedOnce == Spec => []LoadedOnce
  BY OneLoadAtATime, OneShotResources, PTL DEF LoadedOnce

\* Whatever the loaders publish, these three assertions hold.
THEOREM SomeAssertionsHold == Spec => []AssertionsHold
  <1>1. Init => AssertionsHold
    BY DEF Init, AssertionsHold
  <1>2. ASSUME IInv, AssertionsHold, [Next]_vars PROVE AssertionsHold'
    <2> USE <1>2 DEF IInv, AssertionsHold, Abort
    <2>1. ASSUME NEW t \in Tasks, AwaitResume(t) PROVE AssertionsHold'
      BY <2>1 DEF AwaitResume, EntryInv, Awaiting
    <2>2. ASSUME NEW j \in Jobs, UpdateResource(j) PROVE AssertionsHold'
      BY <2>2 DEF UpdateResource, EntryInv, Publishing
    <2>3. ASSUME NEW j \in Jobs, ResolvePending(j) PROVE AssertionsHold'
      <3>1. Loading(j, job[j].uuid) /\ job[j].uuid \in UUIDs
        BY <2>3 DEF ResolvePending, Loading, LoadInv, TypeOK, Loads
      <3>2. job[j].uuid \in pending
        BY <3>1 DEF LoadInv, PendingIffLoading
      <3>3. QED
        BY <2>3, <3>2 DEF ResolvePending
    <2>4. ASSUME NEW j \in Jobs, CreateResource(j) \/ FailResource(j) PROVE AssertionsHold'
      BY <2>4 DEF CreateResource, FailResource
    <2>5. CASE UNCHANGED aborted
      BY <2>5
    <2>6. QED
      BY <2>1, <2>2, <2>3, <2>4, <2>5, StepCases
      DEF GetResource, GetNextEpoch, AwaitSuspend, PushPending, AwaitRethrow, Throw,
          ResumeHandle, ResolveReturns, vars
  <1>3. QED
    BY <1>1, <1>2, LoaderInvariant, PTL DEF Spec

\* If every loader publishes its resource complete, no assertion ever fails.
THEOREM OneShotLoadersAreSafe ==
  ASSUME Incremental = {}
  PROVE  Spec => []NeverAborted
  <1>1. Init => NeverAborted
    BY DEF Init, NeverAborted
  <1>2. ASSUME IInv, AssertionsHold', NeverAborted, [Next]_vars PROVE NeverAborted'
    <2> USE <1>2 DEF IInv, EntryInv, NeverAborted, Abort
    <2>1. ASSUME NEW t \in Tasks, AwaitResume(t) PROVE NeverAborted'
      <3>1. /\ pc[t] = "resumed" /\ req[t] \in Requests
            /\ entry[req[t].uuid] # NullEpoch /\ req[t].epoch # FinalEpoch
        BY <2>1 DEF AwaitResume, Awaiting, LoadInv, TypeOK
      <3>2. CallerWants(req[t], entry[req[t].uuid])
        BY <3>1, UnwantedOneShot DEF LoadInv
      <3>3. QED
        BY <2>1, <3>1, <3>2 DEF AwaitResume
    <2>2. ASSUME NEW j \in Jobs, CreateResource(j) \/ FailResource(j) PROVE NeverAborted'
      BY <2>2 DEF CreateResource, FailResource, OneShotLoadedOnce
    <2>3. ASSUME NEW j \in Jobs, UpdateResource(j) \/ ResolvePending(j) PROVE NeverAborted'
      BY <2>3 DEF UpdateResource, ResolvePending, AssertionsHold
    <2>4. CASE UNCHANGED aborted
      BY <2>4
    <2>5. QED
      BY <2>1, <2>2, <2>3, <2>4, StepCases
      DEF GetResource, GetNextEpoch, AwaitSuspend, PushPending, AwaitRethrow, Throw,
          ResumeHandle, ResolveReturns, vars
  <1>3. QED
    BY <1>1, <1>2, LoaderInvariant, SomeAssertionsHold, PTL DEF Spec

\* Published epochs only grow.
THEOREM EpochsOnlyGrow == Spec => EpochsGrow
  <1>1. ASSUME TypeOK, [Next]_vars
        PROVE  [\A u \in UUIDs : entry'[u] >= entry[u]]_vars
    <2>1. \A u \in UUIDs : entry[u] \in Nat
      BY <1>1, EpochTypes DEF TypeOK
    <2>2. ASSUME NEW j \in Jobs, NEW e \in NextEpochs(job[j].uuid), Publish(j, e)
          PROVE  \A u \in UUIDs : entry'[u] >= entry[u]
      <3>1. job[j].uuid \in UUIDs /\ entry[job[j].uuid] \in 0..FinalEpoch
        BY <1>1 DEF TypeOK, Loads, Epochs, NullEpoch
      <3>2. e >= entry[job[j].uuid]
        BY <3>1, LoaderAssumption DEF NextEpochs
      <3>3. QED
        BY <1>1, <2>1, <2>2, <3>1, <3>2 DEF Publish, TypeOK
    <2>3. CASE UNCHANGED entry
      BY <2>1, <2>3
    <2>4. QED
      BY <1>1, <2>2, <2>3, StepCases
      DEF GetResource, GetNextEpoch, AwaitSuspend, PushPending, AwaitResume, AwaitRethrow,
          CreateResource, UpdateResource, Throw, FailResource, ResolvePending,
          ResumeHandle, ResolveReturns
  <1>2. QED
    BY <1>1, TypeCorrect, PTL DEF Spec, EpochsGrow

-----------------------------------------------------------------------------
(* The loader is a cache: each step is one of ResourceCache's, or none. *)

\* A load that failed has published nothing.
FailedUnpublished ==
  \A j \in Jobs : jpc[j] = "resolving" /\ job[j].failed => entry[job[j].uuid] = NullEpoch

\* Only the job that loads a resource publishes it.
LEMMA FailedUnpublishedStep ==
  ASSUME IInv, FailedUnpublished, [Next]_vars
  PROVE  FailedUnpublished'
  <1>0. TypeOK /\ PendingIffLoading /\ FailedIsFinal
    BY DEF IInv, LoadInv
  <1>1. ASSUME UNCHANGED <<entry, jpc, job>> PROVE FailedUnpublished'
    BY <1>1 DEF FailedUnpublished
  <1>2. ASSUME NEW j \in Jobs, entry' = entry,
               \A i \in Jobs \ {j} : jpc'[i] = jpc[i] /\ job'[i] = job[i],
               jpc'[j] # "resolving"
        PROVE  FailedUnpublished'
    BY <1>2 DEF FailedUnpublished
  <1>3. ASSUME NEW t \in Tasks, PushPending(t) PROVE FailedUnpublished'
    <2>1. CASE UNCHANGED jobVars
      BY <1>1, <1>3, <2>1 DEF PushPending, jobVars
    <2>2. ASSUME NEW j \in Jobs, StartLoading(j, req[t].uuid) PROVE FailedUnpublished'
      <3>1. /\ entry' = entry /\ jpc'[j] = "loading"
            /\ \A i \in Jobs \ {j} : jpc'[i] = jpc[i] /\ job'[i] = job[i]
        BY <1>0, <1>3, <2>2 DEF PushPending, StartLoading, TypeOK
      <3>2. QED
        BY <1>2, <3>1
    <2>3. QED
      BY <1>3, <2>1, <2>2 DEF PushPending
  <1>4. ASSUME NEW j \in Jobs, CreateResource(j) \/ UpdateResource(j) PROVE FailedUnpublished'
    <2>1. CASE UNCHANGED <<entry, jobVars>>
      BY <1>1, <2>1 DEF jobVars
    <2>2. ASSUME NEW e, Publish(j, e) PROVE FailedUnpublished'
      <3>1. /\ jpc[j] \in {"loading", "updating"} /\ ~job[j].failed
            /\ job[j].uuid \in UUIDs
        BY <1>0, <1>4 DEF CreateResource, UpdateResource, FailedIsFinal, TypeOK, Loads
      <3>2. /\ job'[j].failed = job[j].failed
            /\ \A i \in Jobs \ {j} : jpc'[i] = jpc[i] /\ job'[i] = job[i]
            /\ \A u \in UUIDs : u # job[j].uuid => entry'[u] = entry[u]
        BY <1>0, <2>2 DEF Publish, TypeOK, Loads
      <3>3. ASSUME NEW i \in Jobs, jpc'[i] = "resolving", job'[i].failed
            PROVE  entry'[job'[i].uuid] = NullEpoch
        <4>1. i # j /\ jpc[i] = "resolving" /\ job'[i] = job[i] /\ job[i].failed
          BY <3>1, <3>2, <3>3
        <4>2. job[i].uuid \in UUIDs /\ entry[job[i].uuid] = NullEpoch
          BY <1>0, <4>1 DEF TypeOK, Loads, FailedUnpublished
        <4>3. Loading(i, job[i].uuid) /\ Loading(j, job[j].uuid)
          BY <3>1, <4>1 DEF Loading
        <4>4. job[i].uuid # job[j].uuid
          BY <1>0, <3>1, <4>1, <4>3 DEF PendingIffLoading
        <4>5. QED
          BY <3>2, <4>1, <4>2, <4>4
      <3>4. QED
        BY <3>3 DEF FailedUnpublished
    <2>3. QED
      BY <1>4, <2>1, <2>2 DEF CreateResource, UpdateResource
  <1>5. ASSUME NEW j \in Jobs, Throw(j) \/ ResolveReturns(j) PROVE FailedUnpublished'
    <2>1. /\ entry' = entry /\ jpc'[j] # "resolving"
          /\ \A i \in Jobs \ {j} : jpc'[i] = jpc[i] /\ job'[i] = job[i]
      BY <1>0, <1>5 DEF Throw, ResolveReturns, TypeOK
    <2>2. QED
      BY <1>2, <2>1
  <1>6. ASSUME NEW j \in Jobs, FailResource(j) PROVE FailedUnpublished'
    <2>1. CASE UNCHANGED jobVars
      BY <1>1, <1>6, <2>1 DEF FailResource, jobVars
    <2>2. CASE entry[job[j].uuid] = NullEpoch /\ ~UNCHANGED jobVars
      <3>1. /\ entry' = entry /\ job'[j].uuid = job[j].uuid
            /\ \A i \in Jobs \ {j} : jpc'[i] = jpc[i] /\ job'[i] = job[i]
        BY <1>0, <1>6, <2>2 DEF FailResource, TypeOK, Loads
      <3>2. QED
        BY <2>2, <3>1 DEF FailedUnpublished
    <2>3. QED
      BY <1>6, <2>1, <2>2 DEF FailResource
  <1>7. ASSUME NEW j \in Jobs, ResolvePending(j) PROVE FailedUnpublished'
    <2>1. CASE UNCHANGED jobVars
      BY <1>1, <1>7, <2>1 DEF ResolvePending, jobVars
    <2>2. CASE jpc' = [jpc EXCEPT ![j] = "resuming"] /\ job' = job
      BY <1>0, <1>2, <1>7, <2>2 DEF ResolvePending, TypeOK
    <2>3. QED
      BY <1>7, <2>1, <2>2 DEF ResolvePending
  <1>8. QED
    BY <1>1, <1>3, <1>4, <1>5, <1>6, <1>7, StepCases
    DEF GetResource, GetNextEpoch, AwaitSuspend, AwaitResume, AwaitRethrow, ResumeHandle,
        jobVars, vars

\* Who waits, as the cache sees it.
LEMMA WaitersAre ==
  ASSUME NEW u, NEW t \in Tasks, req[t].uuid = u,
         pc[t] \in {"suspend", "push", "suspended", "resumed", "rethrow"}
  PROVE  t \in Cache!Waiters(u)
  BY DEF Cache!Waiters, Status

LEMMA WantedIs ==
  ASSUME NEW r
  PROVE  /\ Cache!Wanted(r) <=> CallerWants(r, entry[r.uuid])
         /\ Cache!Given(r) = Take(r)
  BY DEF Cache!Wanted, Cache!Given, Cache!NullEpoch, CallerWants, Take, NullEpoch

\* A job in hand of nobody makes nobody unlucky.
LEMMA UnluckyStays ==
  ASSUME \A t \in Tasks : pc'[t] = "rethrow" <=> pc[t] = "rethrow",
         \A j \in Jobs : handles'[j] = handles[j] /\ (handles[j] # {} => job'[j].failed = job[j].failed)
  PROVE  Unlucky' = Unlucky
  BY DEF Unlucky

LEMMA RequestMaps ==
  ASSUME TypeOK, NEW t \in Tasks, pc[t] # "rethrow", NEW r, NEW next \in {"suspend", "push"},
         TakeOr(t, r, next), UNCHANGED <<entry, pendingVars, jobVars>>
  PROVE  Cache!Request(t, r)
  <1>1. \A s \in Tasks : Status(s)' =
          IF s = t THEN IF Cache!Wanted(r) THEN "got" ELSE "waiting" ELSE Status(s)
    BY WantedIs DEF TakeOr, Status, TypeOK
  <1>2. req' = [req EXCEPT ![t] = IF Cache!Wanted(r) THEN Cache!Given(r) ELSE r]
    BY WantedIs DEF TakeOr
  <1>3. Unlucky' = Unlucky
    <2>1. \A s \in Tasks : pc'[s] = "rethrow" <=> pc[s] = "rethrow"
      BY DEF TakeOr, TypeOK
    <2>2. QED
      BY <2>1, UnluckyStays DEF jobVars
  <1>4. QED
    BY <1>1, <1>2, <1>3 DEF Cache!Request, pendingVars

\* Steps of a job that change neither what is published nor who is being loaded.
LEMMA JobStutters ==
  ASSUME UNCHANGED <<entry, pending, req, pc>>, Unlucky' = Unlucky
  PROVE  UNCHANGED Cache!vars
  BY DEF Cache!vars, Status

LEMMA PublishMaps ==
  ASSUME IInv, NEW j \in Jobs, jpc[j] \in {"loading", "updating"},
         NEW e \in NextEpochs(job[j].uuid), Publish(j, e), entry[job[j].uuid] # FinalEpoch,
         UNCHANGED <<pendingVars, taskVars, handles>>
  PROVE  \E u \in UUIDs, n \in 1..FinalEpoch : Cache!Publish(u, n)
  <1> DEFINE u == job[j].uuid
  <1>0. TypeOK /\ PendingIffLoading
    BY DEF IInv, LoadInv
  <1>1. u \in UUIDs /\ u \in pending
    BY <1>0 DEF TypeOK, Loads, PendingIffLoading, Loading
  <1>2. entry[u] \in 0..FinalEpoch /\ FinalEpoch \in Nat \ {0}
    BY <1>0, <1>1, LoaderAssumption DEF TypeOK, Epochs, NullEpoch
  <1>3. /\ e \in {entry[u] + 1, FinalEpoch} /\ e <= FinalEpoch
        /\ u \notin Incremental => e = FinalEpoch
    BY DEF NextEpochs
  <1>4. e \in 1..FinalEpoch /\ entry[u] < e
    BY <1>2, <1>3
  <1>5. entry' = [entry EXCEPT ![u] = e]
    BY DEF Publish
  <1>6. Unlucky' = Unlucky
    <2>1. \A i \in Jobs : job'[i].failed = job[i].failed
      BY <1>0 DEF Publish, TypeOK, Loads
    <2>2. QED
      BY <2>1, UnluckyStays DEF taskVars
  <1>7. Cache!Publish(u, e)
    BY <1>1, <1>3, <1>4, <1>5, <1>6 DEF Cache!Publish, Status, pendingVars, taskVars
  <1>8. QED
    BY <1>1, <1>4, <1>7

\* The last resolve_pending() of a load ends it.
LEMMA ResolveMaps ==
  ASSUME IInv, FailedUnpublished, NEW j \in Jobs, ResolvePending(j)
  PROVE  [Cache!Next]_(Cache!vars)
  <1> DEFINE u == job[j].uuid
  <1>0. /\ TypeOK /\ PendingIffLoading /\ FailedIsFinal /\ ResumedOnce /\ Publishing
    BY DEF IInv, LoadInv, RequestInv, EntryInv
  <1>1. u \in UUIDs /\ jpc[j] = "resolving" /\ UNCHANGED <<entry, taskVars>>
    BY <1>0 DEF ResolvePending, TypeOK, Loads
  <1>2. u \in pending
    BY <1>0, <1>1 DEF PendingIffLoading, Loading
  <1>3. /\ handles' = [handles EXCEPT ![j] = Taken(j)]
        /\ pending' = IF FinalResolve(j) THEN pending \ {u} ELSE pending
        /\ UNCHANGED job
    BY <1>2 DEF ResolvePending
  <1>4. handles[j] = {}
    BY <1>0, <1>1 DEF ResumedOnce
  <1>5. \A i \in Jobs : handles'[i] = IF i = j THEN Taken(j) ELSE handles[i]
    BY <1>0, <1>3 DEF TypeOK
  <1>6. CASE ~job[j].failed
    <2>1. Unlucky' = Unlucky
      BY <1>1, <1>3, <1>4, <1>5, <1>6 DEF Unlucky, taskVars
    <2>2. CASE FinalResolve(j)
      <3>1. entry[u] = FinalEpoch
        BY <1>0, <1>1, <1>6, <2>2 DEF FinalResolve, Publishing
      <3>2. Cache!Finish(u)
        BY <1>1, <1>2, <1>3, <2>1, <2>2, <3>1 DEF Cache!Finish, Status, taskVars
      <3>3. QED
        BY <1>1, <3>2 DEF Cache!Next
    <2>3. CASE ~FinalResolve(j)
      BY <1>1, <1>3, <2>1, <2>3, JobStutters DEF taskVars
    <2>4. QED
      BY <2>2, <2>3
  <1>7. CASE job[j].failed
    <2>1. entry[u] = NullEpoch /\ FinalResolve(j)
      BY <1>1, <1>7 DEF FailedUnpublished, FinalResolve
    <2>2. Taken(j) \subseteq Cache!Waiters(u)
      <3>1. \A t \in Taken(j) : t \in Tasks /\ pc[t] = "suspended" /\ req[t].uuid = u
        BY <1>0, <1>1 DEF Taken, TypeOK, ResumedOnce
      <3>2. QED
        BY <3>1, WaitersAre
    <2>3. Unlucky' = Unlucky \cup Taken(j)
      <3>1. Taken(j) \subseteq Tasks
        BY <1>0, <1>1 DEF Taken, TypeOK
      <3>2. QED
        BY <1>1, <1>3, <1>4, <1>5, <1>7, <3>1 DEF Unlucky, taskVars
    <2>4. Cache!FailLoad(u)
      BY <1>1, <1>2, <1>3, <2>1, <2>2, <2>3
      DEF Cache!FailLoad, Cache!NullEpoch, NullEpoch, Status, taskVars
    <2>5. QED
      BY <1>1, <2>4 DEF Cache!Next
  <1>8. QED
    BY <1>6, <1>7

LEMMA CacheStepMaps ==
  ASSUME IInv, FailedUnpublished, [Next]_vars
  PROVE  [Cache!Next]_(Cache!vars)
  <1>0. /\ TypeOK /\ PendingIffLoading /\ FailedIsFinal /\ HandlesMatch /\ ResumedOnce
        /\ Publishing /\ OneShot
    BY DEF IInv, LoadInv, RequestInv, EntryInv
  <1>1. ASSUME NEW t \in Tasks, NEW u \in UUIDs, NEW f \in BOOLEAN, GetResource(t, u, f)
        PROVE  Cache!Next
    <2>1. Cache!Request(t, [uuid |-> u, only_final |-> f, epoch |-> NullEpoch])
      BY <1>0, <1>1, RequestMaps DEF GetResource
    <2>2. Status(t) # "waiting"
      BY <1>1 DEF GetResource, Status
    <2>3. Cache!Ask(t, u, f)
      BY <2>1, <2>2 DEF Cache!Ask, Cache!NullEpoch, NullEpoch
    <2>4. QED
      BY <1>1, <2>3 DEF Cache!Next
  <1>2. ASSUME NEW t \in Tasks, GetNextEpoch(t) PROVE Cache!Next
    <2>1. Cache!Request(t, req[t])
      BY <1>0, <1>2, RequestMaps DEF GetNextEpoch
    <2>2. Cache!AskNext(t)
      BY <1>2, <2>1 DEF GetNextEpoch, Cache!AskNext, Status
    <2>3. QED
      BY <2>2 DEF Cache!Next
  <1>3. ASSUME NEW t \in Tasks, pc[t] \in {"suspend", "resumed"} PROVE Status(t) = "waiting" /\ t \notin Unlucky
    BY <1>0, <1>3 DEF Status, Unlucky, ResumedOnce
  <1>4. ASSUME NEW t \in Tasks, AwaitSuspend(t) PROVE [Cache!Next]_(Cache!vars)
    <2>1. Cache!Request(t, req[t])
      BY <1>0, <1>4, RequestMaps DEF AwaitSuspend
    <2>2. CASE CallerWants(req[t], entry[req[t].uuid])
      <3>1. Cache!Answer(t)
        BY <1>3, <1>4, <2>1, <2>2, WantedIs DEF AwaitSuspend, Cache!Answer
      <3>2. QED
        BY <3>1 DEF Cache!Next
    <2>3. CASE ~CallerWants(req[t], entry[req[t].uuid])
      <3>1. /\ req' = req /\ pc' = [pc EXCEPT ![t] = "push"]
            /\ UNCHANGED <<entry, pendingVars, jobVars>>
        BY <1>0, <1>4, <2>3 DEF AwaitSuspend, TakeOr, TypeOK
      <3>2. \A s \in Tasks : Status(s)' = Status(s)
        BY <1>0, <1>3, <1>4, <3>1 DEF AwaitSuspend, Status, TypeOK
      <3>3. Unlucky' = Unlucky
        BY <1>0, <1>4, <3>1, UnluckyStays DEF AwaitSuspend, TypeOK, jobVars
      <3>4. QED
        BY <3>1, <3>2, <3>3 DEF Cache!vars, pendingVars
    <2>4. QED
      BY <2>2, <2>3
  <1>5. ASSUME NEW t \in Tasks, PushPending(t) PROVE [Cache!Next]_(Cache!vars)
    <2> DEFINE u == req[t].uuid
    <2>1. /\ u \in UUIDs /\ pc[t] = "push" /\ pc' = [pc EXCEPT ![t] = "suspended"]
          /\ UNCHANGED <<entry, req>> /\ pending' = pending \cup {u}
      BY <1>0, <1>5 DEF PushPending, TypeOK, Requests
    <2>2. \A s \in Tasks : Status(s)' = Status(s)
      BY <1>0, <2>1 DEF Status, TypeOK
    <2>3. Unlucky' = Unlucky
      <3>1. \A s \in Tasks : pc'[s] = "rethrow" <=> pc[s] = "rethrow"
        BY <1>0, <2>1 DEF TypeOK
      <3>2. CASE UNCHANGED jobVars
        BY <3>1, <3>2, UnluckyStays DEF jobVars
      <3>3. ASSUME NEW j \in Jobs, StartLoading(j, u) PROVE Unlucky' = Unlucky
        <4>1. handles' = handles /\ handles[j] = {}
          BY <1>0, <3>3 DEF StartLoading, ResumedOnce
        <4>2. \A i \in Jobs : i # j => job'[i] = job[i]
          BY <1>0, <3>3 DEF StartLoading, TypeOK
        <4>3. QED
          BY <3>1, <4>1, <4>2, UnluckyStays
      <3>4. QED
        BY <1>5, <3>2, <3>3 DEF PushPending
    <2>4. CASE u \in pending
      <3>1. pending' = pending
        BY <2>1, <2>4
      <3>2. QED
        BY <2>1, <2>2, <2>3, <3>1 DEF Cache!vars
    <2>5. CASE u \notin pending
      <3>1. t \in Cache!Waiters(u)
        BY <2>1, WaitersAre
      <3>2. u \notin Incremental => entry[u] = NullEpoch
        BY <1>0, <2>1 DEF OneShot
      <3>3. Cache!Load(u)
        BY <2>1, <2>2, <2>3, <2>5, <3>1, <3>2 DEF Cache!Load, Cache!NullEpoch, NullEpoch
      <3>4. QED
        BY <2>1, <3>3 DEF Cache!Next
    <2>6. QED
      BY <2>4, <2>5
  <1>6. ASSUME NEW t \in Tasks, AwaitResume(t) PROVE [Cache!Next]_(Cache!vars)
    <2>1. UNCHANGED <<entry, pendingVars, jobVars>> /\ pc[t] = "resumed"
      BY <1>6 DEF AwaitResume
    <2>2. CASE UNCHANGED taskVars
      <3>1. Unlucky' = Unlucky
        BY <2>1, <2>2, UnluckyStays DEF taskVars, jobVars
      <3>2. QED
        BY <2>1, <2>2, <3>1, JobStutters DEF taskVars, pendingVars
    <2>3. CASE CallerWants(req[t], entry[req[t].uuid]) /\ ~UNCHANGED taskVars
      <3>1. TakeOr(t, req[t], "push")
        BY <1>6, <2>3 DEF AwaitResume, TakeOr
      <3>2. Cache!Request(t, req[t])
        BY <1>0, <2>1, <3>1, RequestMaps
      <3>3. Cache!Answer(t)
        BY <1>3, <2>1, <2>3, <3>2, WantedIs DEF Cache!Answer
      <3>4. QED
        BY <3>3 DEF Cache!Next
    <2>4. QED
      BY <1>6, <2>2, <2>3 DEF AwaitResume
  <1>7. ASSUME NEW t \in Tasks, AwaitRethrow(t) PROVE Cache!Next
    <2>1. /\ pc[t] = "rethrow" /\ pc' = [pc EXCEPT ![t] = "failed"]
          /\ UNCHANGED <<entry, pendingVars, req, jobVars>>
      BY <1>7 DEF AwaitRethrow
    <2>2. \A j \in Jobs : t \notin handles[j]
      BY <1>0, <2>1 DEF ResumedOnce
    <2>3. t \in Unlucky /\ Unlucky' = Unlucky \ {t}
      BY <1>0, <2>1, <2>2 DEF Unlucky, TypeOK, jobVars
    <2>4. \A s \in Tasks : Status(s)' = IF s = t THEN "failed" ELSE Status(s)
      BY <1>0, <2>1 DEF Status, TypeOK
    <2>5. Status(t) = "waiting"
      BY <2>1 DEF Status
    <2>6. Cache!Fail(t)
      BY <2>1, <2>3, <2>4, <2>5 DEF Cache!Fail, pendingVars
    <2>7. QED
      BY <2>6 DEF Cache!Next
  <1>8. ASSUME NEW j \in Jobs, CreateResource(j) \/ UpdateResource(j)
        PROVE  [Cache!Next]_(Cache!vars)
    <2>1. UNCHANGED <<pendingVars, taskVars>> /\ jpc[j] \in {"loading", "updating"}
      BY <1>8 DEF CreateResource, UpdateResource
    <2>2. CASE UNCHANGED <<entry, jobVars>>
      <3>1. Unlucky' = Unlucky
        BY <2>1, <2>2, UnluckyStays DEF taskVars, jobVars
      <3>2. QED
        BY <2>1, <2>2, <3>1, JobStutters DEF taskVars, pendingVars
    <2>3. ASSUME NEW e \in NextEpochs(job[j].uuid), Publish(j, e), UNCHANGED handles,
                 entry[job[j].uuid] # FinalEpoch
          PROVE  Cache!Next
      BY <2>1, <2>3, PublishMaps DEF Cache!Next
    <2>4. QED
      BY <1>8, <2>2, <2>3, EpochTypes DEF CreateResource, UpdateResource
  <1>9. ASSUME NEW j \in Jobs, Throw(j) \/ FailResource(j) \/ ResolveReturns(j)
        PROVE  UNCHANGED Cache!vars
    <2>1. UNCHANGED <<entry, pendingVars, taskVars, handles>>
      BY <1>9 DEF Throw, FailResource, ResolveReturns, jobVars
    <2>2. \A i \in Jobs : handles[i] # {} => job'[i].failed = job[i].failed
      <3>1. CASE job' = job
        BY <3>1
      <3>2. CASE job' # job
        <4>1. jpc[j] = "failing" /\ \A i \in Jobs : i # j => job'[i] = job[i]
          BY <1>0, <1>9, <3>2 DEF Throw, FailResource, ResolveReturns, TypeOK, jobVars
        <4>2. handles[j] = {}
          BY <1>0, <4>1 DEF ResumedOnce
        <4>3. QED
          BY <4>1, <4>2
      <3>3. QED
        BY <3>1, <3>2
    <2>3. Unlucky' = Unlucky
      BY <2>1, <2>2, UnluckyStays DEF taskVars
    <2>4. QED
      BY <2>1, <2>3, JobStutters DEF taskVars, pendingVars
  <1>10. ASSUME NEW j \in Jobs, NEW t \in Tasks, ResumeHandle(j, t)
         PROVE  UNCHANGED Cache!vars
    <2>1. /\ t \in handles[j] /\ UNCHANGED <<entry, pendingVars, req, jpc, job>>
          /\ handles' = [handles EXCEPT ![j] = @ \ {t}]
          /\ pc' = [pc EXCEPT ![t] = IF job[j].failed THEN "rethrow" ELSE "resumed"]
      BY <1>10 DEF ResumeHandle
    <2>2. /\ pc[t] = "suspended"
          /\ \A i \in Jobs : t \in handles[i] => i = j
      BY <1>0, <2>1 DEF ResumedOnce
    <2>3. \A s \in Tasks : Status(s)' = Status(s)
      BY <1>0, <2>1, <2>2 DEF Status, TypeOK
    <2>4. Unlucky' = Unlucky
      <3>1. \A s \in Tasks : s # t => (s \in Unlucky' <=> s \in Unlucky)
        BY <1>0, <2>1 DEF Unlucky, TypeOK
      <3>2. t \in Unlucky <=> job[j].failed
        BY <2>1, <2>2 DEF Unlucky
      <3>3. t \in Unlucky' <=> job[j].failed
        BY <1>0, <2>1, <2>2 DEF Unlucky, TypeOK
      <3>4. QED
        BY <3>1, <3>2, <3>3 DEF Unlucky
    <2>5. QED
      BY <2>1, <2>3, <2>4 DEF Cache!vars, pendingVars
  <1>11. CASE UNCHANGED vars
    <2>1. Unlucky' = Unlucky
      BY <1>11, UnluckyStays DEF vars, taskVars, jobVars
    <2>2. QED
      BY <1>11, <2>1, JobStutters DEF vars, taskVars, pendingVars
  <1>12. QED
    BY <1>1, <1>2, <1>4, <1>5, <1>6, <1>7, <1>8, <1>9, <1>10, <1>11, ResolveMaps, StepCases

\* What the callers see of the loader, its locks, lists and jobs is what they are
\* promised: no interleaving gives a request something it did not ask for, loads a
\* resource for nobody, or tells a failure to someone who did not wait for it.
THEOREM LoaderIsACache == Spec => ImplementsCache
  <1>1. Init => Cache!Init
    BY DEF Init, Cache!Init, Cache!NullEpoch, NullEpoch, Status, Unlucky
  <1>2. Init => FailedUnpublished
    BY DEF Init, FailedUnpublished
  <1>3. ASSUME IInv, FailedUnpublished, [Next]_vars PROVE FailedUnpublished'
    BY <1>3, FailedUnpublishedStep
  <1>4. ASSUME IInv, FailedUnpublished, [Next]_vars PROVE [Cache!Next]_(Cache!vars)
    BY <1>4, CacheStepMaps
  <1>5. QED
    BY <1>1, <1>2, <1>3, <1>4, LoaderInvariant, PTL DEF Spec, ImplementsCache, Cache!Spec

=============================================================================
