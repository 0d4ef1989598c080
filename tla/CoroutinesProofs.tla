-------------------------- MODULE CoroutinesProofs --------------------------
(***************************************************************************)
(* Proofs about Coroutines, for any number of jobs that are awaited, any   *)
(* jobs that are shared and any viewers of these.                          *)
(***************************************************************************)
EXTENDS Coroutines, FiniteSetTheorems, TLAPS

(***************************************************************************)
(* Handles: each is counted, the promise has one while the job runs, the   *)
(* parent from the start of a job to its end, a viewer while it looks.     *)
(***************************************************************************)
Counted == \A c \in Jobs : /\ IsFiniteSet(owners[c])
                           /\ refcount[c] = Cardinality(owners[c])
                           /\ c \in frames <=> owners[c] # {}

Held == /\ \A c \in Jobs : Promise \in owners[c] <=> Running(c)
        /\ \A c \in Jobs : job[c] = "unborn" => owners[c] = {}
        /\ \A c \in Shared : Parent \notin owners[c]
        /\ \A v \in Viewers : viewer[v] # Idle => v \in owners[viewer[v].of]
        /\ parent = "starting" =>
              \A c \in Awaited : IF c < index THEN Parent \in owners[c] ELSE job[c] = "unborn"
        /\ parent \in {"joining", "suspended", "resumed"} =>
              \A c \in Awaited : Parent \in owners[c]

(***************************************************************************)
(* The two parts of the packed state: readiness comes with the result, and *)
(* a continuation that was taken is resumed by the thread of the job.      *)
(***************************************************************************)
Flagged == \A c \in Jobs :
              /\ ready[c] <=> job[c] \notin {"unborn", "running", "stored"}
              /\ job[c] \notin {"unborn", "running"} => result[c] \in Results
              /\ job[c] = "continuing" => continued[c]

Continued == /\ \A c \in Shared : ~continued[c]
             /\ \A c \in Awaited :
                   /\ continued[c] /\ job[c] # "done" => notifier[c] = "waiting"
                   /\ notifier[c] \in {"unborn", "setting"} => ~continued[c]
                   /\ notifier[c] \notin {"unborn", "setting", "waiting"} => ready[c]

(***************************************************************************)
(* The join: where the loop is, how many notifiers there are to come, and  *)
(* what they have said of the exceptions.                                  *)
(***************************************************************************)
Remaining == {c \in Awaited : notifier[c] # "gone"}

Joined == /\ state.num_remaining = Cardinality(Remaining)
          /\ state.kind = "none" <=> \/ parent = "starting"
                                     \/ parent = "failed" /\ \A c \in Awaited : notifier[c] = "unborn"
          /\ state.kind = "none" => \A c \in Awaited : notifier[c] = "unborn"
          /\ parent = "joining" =>
                /\ index \in Awaited
                /\ notifier[index] \notin {"waiting", "gone"}
                /\ \A c \in Awaited :
                      /\ c > index => notifier[c] = "unborn"
                      /\ c < index => notifier[c] \notin {"unborn", "setting"}
          /\ parent = "suspended" => \A c \in Awaited : notifier[c] \notin {"unborn", "setting"}
          /\ state.kind # "none" /\ parent \in {"resumed", "passed", "failed"} =>
                \A c \in Awaited : notifier[c] = "gone"

Thrown == /\ state.exception => \E c \in Awaited : result[c] = "exception" /\ ready[c]
          /\ state.exception_is_set => state.exception \/ \E c \in Awaited : notifier[c] = "storing"
          /\ \A c \in Awaited :
                /\ notifier[c] \in {"throwing", "storing"} => result[c] = "exception"
                /\ notifier[c] \in {"storing", "counting", "gone"} /\ result[c] = "exception"
                      => state.exception_is_set

IInv == TypeOK /\ Counted /\ Held /\ Flagged /\ Continued /\ Joined /\ Thrown

-----------------------------------------------------------------------------

LEMMA StepCases ==
    ASSUME [Next]_vars
    PROVE  \/ \E c \in Jobs : \/ Return(c) \/ became_ready(c) \/ NotifyAll(c)
                              \/ LookForContinuation(c) \/ FinalSuspend(c)
           \/ \E c \in Awaited : \/ Notify(c) \/ try_set_continuation(c) \/ GetResult(c)
                                 \/ TestAndSet(c) \/ SetException(c) \/ CountDown(c)
                                 \/ DropJob(c)
           \/ StartNext \/ Throw \/ AwaitResume
           \/ \E kind \in {"until_all_ready", "until_all_succeed"} : AwaitAll(kind)
           \/ \E v \in Viewers, c \in Shared :
                 \/ StartShared(v, c) \/ DropShared(v, c)
                 \/ Poll(v, c) \/ Wait(v, c) \/ Load(v, c) \/ Block(v, c) \/ GetShared(v, c)
                 \/ \E w \in Viewers : Copy(v, w, c)
           \/ UNCHANGED vars
  BY DEF Next, JobStep, NotifierStep, ParentStep, ViewerStep, Blocked

LEMMA Kinds == /\ Awaited \subseteq Jobs /\ Shared \subseteq Jobs
               /\ \A c \in Shared : c \notin Awaited
               /\ \A c \in Awaited : c \in Nat /\ 1 <= c /\ c <= N
               /\ N \in Nat /\ N \in Awaited
               /\ Parent \notin Viewers /\ Promise \notin Holders /\ Promise # Parent
  BY JobsAssumption DEF Awaited, Jobs, Holders

-----------------------------------------------------------------------------
(* Handles *)

LEMMA MakeCounts ==
    ASSUME TypeOK, Counted, Held, NEW c \in Jobs, NEW h \in Holders, Make(c, h)
    PROVE  Counted'
  <1>1. h # Promise
    BY Kinds
  <1>2. IsFiniteSet({h, Promise}) /\ Cardinality({h, Promise}) = 2
    <2>1. IsFiniteSet({h}) /\ Cardinality({h}) = 1
      BY FS_Singleton
    <2>2. {h, Promise} = {h} \cup {Promise}
      OBVIOUS
    <2>3. QED
      BY <1>1, <2>1, <2>2, FS_AddElement
  <1>3. QED
    BY <1>2 DEF Make, TypeOK, Counted

LEMMA AcquireCounts ==
    ASSUME TypeOK, Counted, NEW c \in Jobs, NEW h, h \notin owners[c], Acquire(c, h),
           UNCHANGED frames, c \in frames
    PROVE  Counted'
  <1>1. IsFiniteSet(owners[c] \cup {h})
        /\ Cardinality(owners[c] \cup {h}) = Cardinality(owners[c]) + 1
    BY FS_AddElement DEF Counted
  <1>2. QED
    BY <1>1 DEF Acquire, TypeOK, Counted

LEMMA ReleaseCounts ==
    ASSUME TypeOK, Counted, NEW c \in Jobs, NEW h \in owners[c], Release(c, h)
    PROVE  Counted'
  <1>1. IsFiniteSet(owners[c]) /\ refcount[c] = Cardinality(owners[c])
    BY DEF Counted
  <1>2. IsFiniteSet(owners[c] \ {h})
        /\ Cardinality(owners[c] \ {h}) = Cardinality(owners[c]) - 1
    BY <1>1, FS_RemoveElement
  <1>3. refcount[c] = 1 <=> owners[c] \ {h} = {}
    <2> DEFINE S == owners[c] \ {h}
    <2>1. IsFiniteSet(S) /\ Cardinality(S) = refcount[c] - 1
      BY <1>1, <1>2
    <2>2. refcount[c] \in Nat
      BY DEF TypeOK
    <2> HIDE DEF S
    <2>3. Cardinality(S) = 0 <=> S = {}
      BY <2>1, FS_EmptySet
    <2>4. refcount[c] = 1 <=> S = {}
      BY <2>1, <2>2, <2>3
    <2>5. QED
      BY <2>4 DEF S
  <1>4. QED
    BY <1>1, <1>2, <1>3 DEF Release, TypeOK, Counted

LEMMA CountedStep ==
    ASSUME TypeOK, Counted, Held, [Next]_vars
    PROVE  Counted'
  <1>1. CASE UNCHANGED heap
    BY <1>1 DEF heap, Counted
  <1>2. ASSUME NEW c \in Jobs, FinalSuspend(c) PROVE Counted'
    <2>1. Promise \in owners[c]
      BY <1>2 DEF FinalSuspend, Goes, Held, Running
    <2>2. QED
      BY <1>2, <2>1, ReleaseCounts DEF FinalSuspend
  <1>3. CASE StartNext
    <2>1. index \in Jobs /\ Parent \in Holders
      BY <1>3, Kinds DEF StartNext, TypeOK, Awaited, Holders
    <2>2. QED
      BY <1>3, <2>1, MakeCounts DEF StartNext
  <1>4. ASSUME NEW c \in Awaited, DropJob(c) PROVE Counted'
    BY <1>4, ReleaseCounts, Kinds DEF DropJob
  <1>5. ASSUME NEW v \in Viewers, NEW c \in Shared, StartShared(v, c) PROVE Counted'
    BY <1>5, MakeCounts, Kinds DEF StartShared, Holders
  <1>6. ASSUME NEW v \in Viewers, NEW c \in Shared, DropShared(v, c) PROVE Counted'
    BY <1>6, ReleaseCounts, Kinds DEF DropShared
  <1>7. ASSUME NEW v \in Viewers, NEW w \in Viewers, NEW c \in Shared, Copy(v, w, c)
        PROVE  Counted'
    <2>1. c \in Jobs /\ c \in frames
      BY <1>7, Kinds DEF Copy, Counted
    <2>2. QED
      BY <1>7, <2>1, AcquireCounts DEF Copy
  <1>8. QED
    BY <1>1, <1>2, <1>3, <1>4, <1>5, <1>6, <1>7, StepCases
    DEF Return, became_ready, NotifyAll, LookForContinuation, Notify, try_set_continuation,
        GetResult, TestAndSet, SetException, CountDown, Throw, AwaitResume, AwaitAll,
        Poll, Wait, Load, Block, GetShared, vars

LEMMA ViewerFacts ==
    ASSUME TypeOK
    PROVE  /\ \A v \in Viewers : viewer[v] # Idle => viewer[v].of \in Shared
           /\ \A place, c : At(place, c).of = c
           /\ \A c : \A place \in {"loading", "loaded", "asleep", "getting"} :
                 At(place, c) # Idle
  <1>1. \A place, c : At(place, c).of = c /\ At(place, c).at = place
    BY DEF At
  <1>2. \A c : \A place \in {"loading", "loaded", "asleep", "getting"} : At(place, c) # Idle
    <2>1. Idle.at = "idle"
      BY DEF Idle
    <2>2. QED
      BY <1>1, <2>1
  <1>3. QED
    BY <1>1, <1>2 DEF TypeOK

LEMMA HeldStep ==
    ASSUME TypeOK, Counted, Held, Joined, [Next]_vars
    PROVE  Held'
  <1> USE Kinds
  <1>1. ASSUME NEW c \in Jobs, Return(c) \/ became_ready(c) \/ LookForContinuation(c)
        PROVE  Held'
    BY <1>1 DEF Return, became_ready, LookForContinuation, Goes, Held, Running, TypeOK, heap, join
  <1>2. ASSUME NEW c \in Jobs, NotifyAll(c) PROVE Held'
    <2>1. ASSUME NEW v \in Viewers
          PROVE  viewer'[v] # Idle => viewer[v] # Idle /\ viewer'[v].of = viewer[v].of
      <3>1. viewer'[v] = IF viewer[v] = At("asleep", c) THEN At("loading", c) ELSE viewer[v]
        BY <1>2 DEF NotifyAll
      <3>2. CASE viewer[v] = At("asleep", c)
        BY <3>1, <3>2, ViewerFacts
      <3>3. QED
        BY <3>1, <3>2
    <2>2. \A d \in Jobs : (Running(d)' <=> Running(d)) /\ (job'[d] = "unborn" <=> job[d] = "unborn")
      BY <1>2 DEF NotifyAll, Goes, Running, TypeOK
    <2>3. UNCHANGED <<owners, parent, index>>
      BY <1>2 DEF NotifyAll, heap, join
    <2>4. QED
      BY <2>1, <2>2, <2>3 DEF Held
  <1>3. ASSUME NEW c \in Jobs, FinalSuspend(c) PROVE Held'
    BY <1>3 DEF FinalSuspend, Goes, Release, Held, Running, TypeOK, Holders
  <1>4. ASSUME NEW c \in Awaited, \/ Notify(c) \/ try_set_continuation(c) \/ GetResult(c)
                                  \/ TestAndSet(c) \/ SetException(c) \/ CountDown(c)
        PROVE  Held'
    <2>1. /\ UNCHANGED <<job, owners, viewer>>
          /\ parent' # parent => parent \in {"joining", "suspended"}
                                 /\ parent' \in {"suspended", "resumed"}
          /\ parent' = "starting" => index' = index
      BY <1>4
      DEF Notify, try_set_continuation, GetResult, TestAndSet, SetException, CountDown,
          NotifierGoes, InLoop, NextInLoop, heap, jobs, Joined, TypeOK
    <2>2. /\ parent' = "starting" => parent = "starting" /\ index' = index
          /\ parent' \in {"joining", "suspended", "resumed"} =>
                parent \in {"joining", "suspended", "resumed"}
      BY <2>1
    <2>3. \A d \in Jobs : /\ Promise \in owners'[d] <=> Running(d)'
                          /\ job'[d] = "unborn" => owners'[d] = {}
      BY <2>1 DEF Held, Running
    <2>4. /\ \A d \in Shared : Parent \notin owners'[d]
          /\ \A v \in Viewers : viewer'[v] # Idle => v \in owners'[viewer'[v].of]
      BY <2>1 DEF Held
    <2>5. parent' = "starting" =>
              \A d \in Awaited : IF d < index' THEN Parent \in owners'[d] ELSE job'[d] = "unborn"
      BY <2>1, <2>2 DEF Held
    <2>6. parent' \in {"joining", "suspended", "resumed"} =>
              \A d \in Awaited : Parent \in owners'[d]
      BY <2>1, <2>2 DEF Held
    <2>7. QED
      BY <2>3, <2>4, <2>5, <2>6 DEF Held
  <1>5. CASE StartNext
    <2>1. /\ index \in Awaited /\ index \in Nat
          /\ parent = "starting" /\ parent' = parent /\ index' = index + 1 /\ viewer' = viewer
      BY <1>5 DEF StartNext, TypeOK, Awaited
    <2>2. ASSUME NEW d \in Jobs
          PROVE  /\ job'[d] = IF d = index THEN "running" ELSE job[d]
                 /\ owners'[d] = IF d = index THEN {Parent, Promise} ELSE owners[d]
      BY <1>5, <2>1 DEF StartNext, Make, TypeOK
    <2>3. \A d \in Jobs : /\ Promise \in owners'[d] <=> Running(d)'
                          /\ job'[d] = "unborn" => owners'[d] = {}
      <3>1. ASSUME NEW d \in Jobs, d = index
            PROVE  Promise \in owners'[d] /\ Running(d)' /\ job'[d] # "unborn"
        BY <2>2, <3>1 DEF Running
      <3>2. ASSUME NEW d \in Jobs, d # index
            PROVE  /\ Promise \in owners'[d] <=> Running(d)'
                   /\ job'[d] = "unborn" => owners'[d] = {}
        BY <2>2, <3>2 DEF Held, Running
      <3>3. QED
        BY <3>1, <3>2
    <2>4. \A d \in Shared : Parent \notin owners'[d]
      BY <2>1, <2>2 DEF Held
    <2>5. \A v \in Viewers : viewer[v] # Idle => v \in owners'[viewer[v].of]
      <3> SUFFICES ASSUME NEW v \in Viewers, viewer[v] # Idle PROVE v \in owners'[viewer[v].of]
        OBVIOUS
      <3>1. viewer[v].of \in Jobs /\ viewer[v].of # index
        BY <2>1, ViewerFacts
      <3>2. v \in owners[viewer[v].of]
        BY DEF Held
      <3>3. QED
        BY <2>2, <3>1, <3>2
    <2>6. \A d \in Awaited : IF d < index + 1 THEN Parent \in owners'[d] ELSE job'[d] = "unborn"
      BY <2>1, <2>2 DEF Held
    <2>7. QED
      BY <2>1, <2>3, <2>4, <2>5, <2>6 DEF Held
  <1>6. ASSUME NEW c \in Awaited, DropJob(c) PROVE Held'
    BY <1>6, ViewerFacts DEF DropJob, Release, Held, Running, TypeOK, jobs, join
  <1>7. ASSUME NEW kind, Throw \/ AwaitResume \/ AwaitAll(kind) PROVE Held'
    BY <1>7 DEF Throw, AwaitResume, AwaitAll, Held, Running, TypeOK, jobs, heap, Awaited
  <1>8. ASSUME NEW v \in Viewers, NEW c \in Shared, StartShared(v, c) PROVE Held'
    BY <1>8, ViewerFacts
    DEF StartShared, Make, MayStart, Held, Running, TypeOK, join, Holders
  <1>9. ASSUME NEW v \in Viewers, NEW c \in Shared, DropShared(v, c) PROVE Held'
    BY <1>9, ViewerFacts DEF DropShared, Release, Held, Running, TypeOK, jobs, join, Holders
  <1>10. ASSUME NEW v \in Viewers, NEW w \in Viewers, NEW c \in Shared, Copy(v, w, c) PROVE Held'
    <2>1. job[c] # "unborn"
      BY <1>10 DEF Copy, Held
    <2>2. QED
      BY <1>10, <2>1, ViewerFacts DEF Copy, Acquire, Held, Running, TypeOK, jobs, join, Holders
  <1>11. ASSUME NEW v \in Viewers, NEW c \in Shared,
                Poll(v, c) \/ Wait(v, c) \/ Load(v, c) \/ Block(v, c) \/ GetShared(v, c)
         PROVE  Held'
    BY <1>11, ViewerFacts
    DEF Poll, Wait, Load, Block, GetShared, ViewerGoes, Held, Running, TypeOK, jobs, heap, join
  <1>12. CASE UNCHANGED vars
    BY <1>12 DEF vars, jobs, heap, join, Held, Running
  <1>13. QED
    BY <1>1, <1>2, <1>3, <1>4, <1>5, <1>6, <1>7, <1>8, <1>9, <1>10, <1>11, <1>12, StepCases

-----------------------------------------------------------------------------
(* The packed state *)

LEMMA FlaggedStep ==
    ASSUME TypeOK, Flagged, [Next]_vars
    PROVE  Flagged'
  <1> USE Kinds
  <1>1. ASSUME NEW c \in Jobs, Return(c) PROVE Flagged'
    BY <1>1 DEF Return, Goes, Flagged, TypeOK
  <1>2. ASSUME NEW c \in Jobs, became_ready(c) \/ NotifyAll(c) \/ LookForContinuation(c)
        PROVE  Flagged'
    BY <1>2 DEF became_ready, NotifyAll, LookForContinuation, Goes, Flagged, TypeOK
  <1>3. ASSUME NEW c \in Jobs, FinalSuspend(c) PROVE Flagged'
    BY <1>3 DEF FinalSuspend, Goes, Flagged, TypeOK
  <1>4. ASSUME NEW c \in Jobs, NEW h, Make(c, h), UNCHANGED <<result, ready, continued>>
        PROVE  Flagged'
    BY <1>4 DEF Make, MayStart, Flagged, TypeOK
  <1>5. ASSUME NEW c \in Awaited, try_set_continuation(c) PROVE Flagged'
    BY <1>5 DEF try_set_continuation, Flagged, TypeOK
  <1>6. CASE UNCHANGED jobs
    BY <1>6 DEF jobs, Flagged
  <1>7. StartNext => Flagged'
    BY <1>4 DEF StartNext, TypeOK, Awaited
  <1>8. ASSUME NEW v \in Viewers, NEW c \in Shared, StartShared(v, c) PROVE Flagged'
    BY <1>4, <1>8 DEF StartShared
  <1>9. QED
    BY <1>1, <1>2, <1>3, <1>5, <1>6, <1>7, <1>8, StepCases
    DEF Notify, GetResult, TestAndSet, SetException, CountDown, DropJob, Throw, AwaitResume,
        AwaitAll, DropShared, Poll, Wait, Load, Block, GetShared, Copy, vars

LEMMA ContinuedStep ==
    ASSUME TypeOK, Flagged, Continued, [Next]_vars
    PROVE  Continued'
  <1> USE Kinds
  <1>1. ASSUME NEW c \in Jobs, \/ Return(c) \/ became_ready(c) \/ NotifyAll(c)
                               \/ LookForContinuation(c)
        PROVE  Continued'
    BY <1>1 DEF Return, became_ready, NotifyAll, LookForContinuation, Goes, join, Continued, TypeOK
  <1>2. ASSUME NEW c \in Jobs, FinalSuspend(c) PROVE Continued'
    <2>1. ready[c] /\ (job[c] = "continuing" => c \in Awaited)
      BY <1>2 DEF FinalSuspend, Goes, Flagged, Continued, Jobs
    <2>2. QED
      BY <1>2, <2>1 DEF FinalSuspend, Goes, Continued, TypeOK
  <1>3. ASSUME NEW c \in Jobs, NEW h, Make(c, h), UNCHANGED <<ready, continued, notifier>>
        PROVE  Continued'
    BY <1>3 DEF Make, MayStart, Continued, TypeOK
  <1>4. ASSUME NEW c \in Awaited, \/ Notify(c) \/ GetResult(c) \/ TestAndSet(c)
                                  \/ SetException(c) \/ CountDown(c)
        PROVE  Continued'
    BY <1>4 DEF Notify, GetResult, TestAndSet, SetException, CountDown, NotifierGoes, jobs,
                Continued, TypeOK
  <1>5. ASSUME NEW c \in Awaited, try_set_continuation(c) PROVE Continued'
    BY <1>5 DEF try_set_continuation, NotifierGoes, Continued, TypeOK
  <1>6. CASE UNCHANGED <<jobs, notifier>>
    BY <1>6 DEF jobs, Continued
  <1>7. StartNext => Continued'
    BY <1>3 DEF StartNext, TypeOK, Awaited
  <1>8. ASSUME NEW v \in Viewers, NEW c \in Shared, StartShared(v, c) PROVE Continued'
    BY <1>3, <1>8 DEF StartShared, join
  <1>9. QED
    BY <1>1, <1>2, <1>4, <1>5, <1>6, <1>7, <1>8, StepCases
    DEF DropJob, Throw, AwaitResume, AwaitAll, DropShared, Poll, Wait, Load, Block, GetShared,
        Copy, vars, join

(* What a job that lets go of its frame does to the notifiers. *)
LEMMA Resumes ==
    ASSUME TypeOK, Flagged, Continued, NEW c \in Jobs, FinalSuspend(c)
    PROVE  \/ UNCHANGED notifier
           \/ c \in Awaited /\ notifier[c] = "waiting"
              /\ notifier' = [notifier EXCEPT ![c] = "resumed"]
  BY DEF FinalSuspend, Goes, Flagged, Continued, Jobs

-----------------------------------------------------------------------------
(* The join *)

LEMMA AwaitedBound ==
    /\ Cardinality(Awaited) = N
    /\ \A S \in SUBSET Awaited : IsFiniteSet(S) /\ Cardinality(S) \in Nat /\ Cardinality(S) <= N
  <1>1. IsFiniteSet(Awaited) /\ Cardinality(Awaited) = N
    BY FS_Interval, JobsAssumption DEF Awaited
  <1>2. ASSUME NEW S \in SUBSET Awaited
        PROVE  IsFiniteSet(S) /\ Cardinality(S) \in Nat /\ Cardinality(S) <= N
    <2>1. IsFiniteSet(S) /\ Cardinality(S) <= Cardinality(Awaited)
      BY <1>1, FS_Subset
    <2>2. QED
      BY <1>1, <2>1, FS_CardinalityType
  <1>3. QED
    BY <1>1, <1>2

LEMMA SameRemaining ==
    ASSUME TypeOK, NEW c \in Awaited, notifier[c] # "gone",
           NEW to, to # "gone", notifier' = [notifier EXCEPT ![c] = to]
    PROVE  Remaining' = Remaining
  BY DEF Remaining, TypeOK

LEMMA LastRemaining ==
    ASSUME TypeOK, NEW c \in Remaining
    PROVE  /\ Cardinality(Remaining \ {c}) = Cardinality(Remaining) - 1
           /\ Cardinality(Remaining) = 1 <=> Remaining = {c}
  <1>1. IsFiniteSet(Remaining) /\ Cardinality(Remaining) \in Nat
    BY AwaitedBound DEF Remaining
  <1> DEFINE S == Remaining \ {c}
  <1>2. IsFiniteSet(S) /\ Cardinality(S) = Cardinality(Remaining) - 1
    BY <1>1, FS_RemoveElement
  <1>3. S = {} <=> Remaining = {c}
    OBVIOUS
  <1> HIDE DEF S
  <1>4. Cardinality(S) = 0 <=> S = {}
    BY <1>2, FS_EmptySet
  <1>5. Cardinality(Remaining) = 1 <=> Remaining = {c}
    BY <1>1, <1>2, <1>3, <1>4
  <1>6. QED
    BY <1>2, <1>5 DEF S

LEMMA JoinedStep ==
    ASSUME TypeOK, Flagged, Continued, Joined, [Next]_vars
    PROVE  Joined'
  <1> USE Kinds
  <1>1. CASE UNCHANGED join
    BY <1>1 DEF join, Joined, Remaining
  <1>2. ASSUME NEW c \in Jobs, FinalSuspend(c) PROVE Joined'
    <2>1. CASE UNCHANGED notifier
      BY <1>2, <2>1 DEF FinalSuspend, Joined, Remaining
    <2>2. CASE c \in Awaited /\ notifier[c] = "waiting"
                    /\ notifier' = [notifier EXCEPT ![c] = "resumed"]
      <3>1. Remaining' = Remaining
        BY <2>2, SameRemaining
      <3>2. QED
        BY <1>2, <2>2, <3>1 DEF FinalSuspend, Joined, TypeOK
    <2>3. QED
      BY <1>2, <2>1, <2>2, Resumes
  <1>3. ASSUME NEW c \in Awaited, Notify(c) PROVE Joined'
    <2>1. Remaining' = Remaining
      BY <1>3, SameRemaining DEF Notify, NotifierGoes
    <2>2. QED
      BY <1>3, <2>1 DEF Notify, NotifierGoes, InLoop, Joined, TypeOK
  <1>4. ASSUME NEW c \in Awaited, GetResult(c) \/ TestAndSet(c) \/ SetException(c) PROVE Joined'
    <2>1. Remaining' = Remaining
      BY <1>4, SameRemaining DEF GetResult, TestAndSet, SetException, NotifierGoes
    <2>2. state'.num_remaining = state.num_remaining /\ state'.kind = state.kind
          /\ UNCHANGED <<parent, index>>
      BY <1>4 DEF GetResult, TestAndSet, SetException, TypeOK
    <2>3. /\ notifier[c] \notin {"unborn", "setting", "waiting", "gone"}
          /\ notifier'[c] \notin {"unborn", "setting", "waiting", "gone"}
          /\ \A d \in Awaited : d # c => notifier'[d] = notifier[d]
      BY <1>4 DEF GetResult, TestAndSet, SetException, NotifierGoes, TypeOK
    <2>4. QED
      BY <2>1, <2>2, <2>3 DEF Joined
  <1>5. ASSUME NEW c \in Awaited, try_set_continuation(c) PROVE Joined'
    <2>1. Remaining' = Remaining
      BY <1>5, SameRemaining DEF try_set_continuation, NotifierGoes
    <2>2. notifier[c] = "setting" /\ parent = "joining" /\ index = c
      BY <1>5 DEF try_set_continuation, NotifierGoes, Joined, TypeOK
    <2>3. QED
      BY <1>5, <2>1, <2>2
      DEF try_set_continuation, NotifierGoes, NextInLoop, Joined, TypeOK, Awaited
  <1>6. ASSUME NEW c \in Awaited, CountDown(c) PROVE Joined'
    <2>1. Remaining' = Remaining \ {c} /\ c \in Remaining
      BY <1>6 DEF CountDown, NotifierGoes, Remaining, TypeOK
    <2>2. state'.num_remaining = Cardinality(Remaining') /\ state'.kind = state.kind
          /\ (state.num_remaining = 1 <=> Remaining = {c})
      BY <1>6, <2>1, LastRemaining DEF CountDown, Joined, TypeOK
    <2>3. state.kind # "none" /\ parent \in {"joining", "suspended"}
      BY <1>6 DEF CountDown, NotifierGoes, Joined, TypeOK
    <2>4. notifier[c] = "counting" /\ notifier' = [notifier EXCEPT ![c] = "gone"]
      BY <1>6 DEF CountDown, NotifierGoes
    <2>5. CASE state.num_remaining = 1
      <3>1. \A d \in Awaited : notifier'[d] = "gone"
        BY <2>1, <2>2, <2>5 DEF Remaining
      <3>2. parent' = "resumed"
        BY <1>6, <2>5 DEF CountDown
      <3>3. QED
        BY <2>2, <2>3, <3>1, <3>2 DEF Joined
    <2>6. CASE state.num_remaining # 1 /\ InLoop(c)
      <3>1. NextInLoop
        BY <1>6, <2>6 DEF CountDown
      <3>2. QED
        BY <2>2, <2>3, <2>4, <2>6, <3>1 DEF NextInLoop, InLoop, Joined, TypeOK, Awaited
    <2>7. CASE state.num_remaining # 1 /\ ~InLoop(c)
      <3>1. UNCHANGED <<parent, index>>
        BY <1>6, <2>7 DEF CountDown
      <3>2. QED
        BY <2>2, <2>3, <2>4, <2>7, <3>1 DEF InLoop, Joined, TypeOK
    <2>8. QED
      BY <2>5, <2>6, <2>7
  <1>7. CASE StartNext
    BY <1>7 DEF StartNext, Joined, Remaining
  <1>8. CASE Throw \/ AwaitResume
    BY <1>8 DEF Throw, AwaitResume, Joined, Remaining, TypeOK
  <1>9. ASSUME NEW kind \in {"until_all_ready", "until_all_succeed"}, AwaitAll(kind) PROVE Joined'
    BY <1>9 DEF AwaitAll, Joined, Remaining, TypeOK, Awaited
  <1>10. QED
    BY <1>1, <1>2, <1>3, <1>4, <1>5, <1>6, <1>7, <1>8, <1>9, StepCases
    DEF Return, became_ready, NotifyAll, LookForContinuation, DropJob, StartShared, DropShared,
        Poll, Wait, Load, Block, GetShared, Copy, vars

LEMMA ThrownStep ==
    ASSUME TypeOK, Flagged, Continued, Thrown, [Next]_vars
    PROVE  Thrown'
  <1> USE Kinds
  <1>1. CASE UNCHANGED <<result, ready, notifier, state>>
    BY <1>1 DEF Thrown
  <1>2. ASSUME NEW c \in Jobs, Return(c) PROVE Thrown'
    <2>1. ~ready[c] /\ \A d \in Jobs : d # c => result'[d] = result[d]
      BY <1>2 DEF Return, Goes, Flagged, TypeOK
    <2>2. \A d \in Awaited : notifier[d] \in {"throwing", "storing", "counting", "gone"} => d # c
      BY <2>1 DEF Continued
    <2>3. UNCHANGED <<ready, notifier, state>>
      BY <1>2 DEF Return, join
    <2>4. QED
      BY <2>1, <2>2, <2>3 DEF Thrown
  <1>3. ASSUME NEW c \in Jobs, became_ready(c) PROVE Thrown'
    BY <1>3 DEF became_ready, join, Thrown, TypeOK
  <1>4. ASSUME NEW c \in Jobs, FinalSuspend(c) PROVE Thrown'
    BY <1>4, Resumes DEF FinalSuspend, Thrown, TypeOK
  <1>5. ASSUME NEW c \in Awaited, Notify(c) \/ try_set_continuation(c) \/ CountDown(c) PROVE Thrown'
    <2>1. /\ UNCHANGED <<result, ready>>
          /\ state'.exception = state.exception
          /\ state'.exception_is_set = state.exception_is_set
          /\ \A d \in Awaited : d # c => notifier'[d] = notifier[d]
          /\ notifier[c] # "storing" /\ notifier'[c] \notin {"throwing", "storing", "counting"}
          /\ notifier'[c] = "gone" => notifier[c] = "counting"
      BY <1>5 DEF Notify, try_set_continuation, CountDown, NotifierGoes, TypeOK, jobs
    <2>2. QED
      BY <2>1 DEF Thrown
  <1>6. ASSUME NEW c \in Awaited, GetResult(c) PROVE Thrown'
    BY <1>6 DEF GetResult, NotifierGoes, Thrown, TypeOK, jobs
  <1>7. ASSUME NEW c \in Awaited, TestAndSet(c) PROVE Thrown'
    <2>1. /\ UNCHANGED <<result, ready>>
          /\ state'.exception = state.exception /\ state'.exception_is_set
          /\ \A d \in Awaited : d # c => notifier'[d] = notifier[d]
          /\ notifier[c] = "throwing"
          /\ notifier'[c] = IF state.exception_is_set THEN "counting" ELSE "storing"
      BY <1>7 DEF TestAndSet, NotifierGoes, TypeOK, jobs
    <2>2. QED
      BY <2>1 DEF Thrown
  <1>8. ASSUME NEW c \in Awaited, SetException(c) PROVE Thrown'
    <2>1. /\ UNCHANGED <<result, ready>>
          /\ state'.exception /\ state'.exception_is_set = state.exception_is_set
          /\ \A d \in Awaited : d # c => notifier'[d] = notifier[d]
          /\ notifier[c] = "storing" /\ notifier'[c] = "counting"
      BY <1>8 DEF SetException, NotifierGoes, TypeOK, jobs
    <2>2. ready[c] /\ result[c] = "exception"
      BY <2>1 DEF Continued, Thrown
    <2>3. QED
      BY <2>1, <2>2 DEF Thrown
  <1>9. ASSUME NEW kind, AwaitAll(kind) PROVE Thrown'
    <2>1. state'.exception = state.exception /\ state'.exception_is_set = state.exception_is_set
          /\ UNCHANGED <<result, ready, notifier>>
      BY <1>9 DEF AwaitAll, TypeOK, jobs
    <2>2. QED
      BY <2>1 DEF Thrown
  <1>10. QED
    BY <1>1, <1>2, <1>3, <1>4, <1>5, <1>6, <1>7, <1>8, <1>9, StepCases
    DEF NotifyAll, LookForContinuation, DropJob, StartNext, Throw, AwaitResume, StartShared,
        DropShared, Poll, Wait, Load, Block, GetShared, Copy, vars, join, jobs

-----------------------------------------------------------------------------
(* Types *)

(* The two counters have their types because of what they count. *)
LEMMA CounterTypes ==
    ASSUME TypeOK, Counted, Counted', Joined', [Next]_vars
    PROVE  refcount' \in [Jobs -> Nat] /\ state'.num_remaining \in 0 .. N
  <1>1. refcount' \in [Jobs -> Int]
    BY StepCases, Kinds
    DEF TypeOK, Make, Acquire, Release, FinalSuspend, StartNext, DropJob, StartShared,
        DropShared, Copy,
        Return, became_ready, NotifyAll, LookForContinuation, Notify, try_set_continuation,
        GetResult, TestAndSet, SetException, CountDown, Throw, AwaitResume, AwaitAll,
        Poll, Wait, Load, Block, GetShared, vars, heap
  <1>2. \A c \in Jobs : refcount'[c] \in Nat
    BY FS_CardinalityType DEF Counted
  <1>3. Remaining' \subseteq Awaited
    BY DEF Remaining
  <1>4. QED
    BY <1>1, <1>2, <1>3, AwaitedBound, JobsAssumption DEF Joined

(* The types of the variables, each by itself. *)
LEMMA TypeStep ==
    ASSUME TypeOK, Counted, Held, Joined, Continued, Flagged, Counted', Joined', [Next]_vars
    PROVE  TypeOK'
  <1> USE Kinds
  <1>1. job' \in [Jobs -> {"unborn", "running", "stored", "ready", "notified",
                          "continuing", "leaving", "done"}]
    BY StepCases
    DEF TypeOK, Goes, Make, FinalSuspend, StartNext, DropJob, StartShared, DropShared, Copy,
        Return, became_ready, NotifyAll, LookForContinuation, Notify, try_set_continuation,
        GetResult, TestAndSet, SetException, CountDown, Throw, AwaitResume, AwaitAll,
        Poll, Wait, Load, Block, GetShared, vars, jobs
  <1>2. result' \in [Jobs -> Results \cup {"none"}]
    BY StepCases
    DEF TypeOK, FinalSuspend, StartNext, DropJob, StartShared, DropShared, Copy,
        Return, became_ready, NotifyAll, LookForContinuation, Notify, try_set_continuation,
        GetResult, TestAndSet, SetException, CountDown, Throw, AwaitResume, AwaitAll,
        Poll, Wait, Load, Block, GetShared, vars, jobs
  <1>3. ready' \in [Jobs -> BOOLEAN] /\ continued' \in [Jobs -> BOOLEAN]
    <2>1. \/ \E c \in Jobs : became_ready(c) \/ try_set_continuation(c)
          \/ UNCHANGED <<ready, continued>>
      BY StepCases
      DEF FinalSuspend, StartNext, DropJob, StartShared, DropShared, Copy,
          Return, NotifyAll, LookForContinuation, Notify,
          GetResult, TestAndSet, SetException, CountDown, Throw, AwaitResume, AwaitAll,
          Poll, Wait, Load, Block, GetShared, vars, jobs
    <2>2. ASSUME NEW c \in Jobs, became_ready(c)
          PROVE  ready' \in [Jobs -> BOOLEAN] /\ continued' = continued
      BY <2>2 DEF became_ready, TypeOK
    <2>3. ASSUME NEW c \in Jobs, try_set_continuation(c)
          PROVE  ready' = ready /\ continued' \in [Jobs -> BOOLEAN]
      <3>1. /\ ready' = ready
            /\ continued' = continued \/ continued' = [continued EXCEPT ![c] = TRUE]
        BY <2>3 DEF try_set_continuation
      <3>2. continued \in [Jobs -> BOOLEAN]
        BY DEF TypeOK
      <3>3. [continued EXCEPT ![c] = TRUE] \in [Jobs -> BOOLEAN]
        BY <3>2
      <3>4. QED
        BY <3>1, <3>2, <3>3
    <2>4. QED
      BY <2>1, <2>2, <2>3 DEF TypeOK
  <1>4. owners' \in [Jobs -> SUBSET (Holders \cup {Promise})] /\ frames' \subseteq Jobs
    <2>1. ASSUME NEW c \in Jobs, NEW h \in Holders, Make(c, h)
          PROVE  owners' \in [Jobs -> SUBSET (Holders \cup {Promise})] /\ frames' \subseteq Jobs
      BY <2>1 DEF Make, TypeOK
    <2>2. ASSUME NEW c \in Jobs, NEW h, Release(c, h)
          PROVE  owners' \in [Jobs -> SUBSET (Holders \cup {Promise})] /\ frames' \subseteq Jobs
      BY <2>2 DEF Release, TypeOK
    <2>3. ASSUME NEW c \in Jobs, NEW h \in Holders, Acquire(c, h)
          PROVE  owners' \in [Jobs -> SUBSET (Holders \cup {Promise})]
      BY <2>3 DEF Acquire, TypeOK
    <2>4. StartNext => index \in Awaited
      BY DEF StartNext, TypeOK, Awaited
    <2>5. Parent \in Holders /\ Viewers \subseteq Holders
      BY DEF Holders
    <2>6. QED
      BY <2>1, <2>2, <2>3, <2>4, <2>5, StepCases
      DEF TypeOK, FinalSuspend, StartNext, DropJob, StartShared, DropShared, Copy,
          Return, became_ready, NotifyAll, LookForContinuation, Notify, try_set_continuation,
          GetResult, TestAndSet, SetException, CountDown, Throw, AwaitResume, AwaitAll,
          Poll, Wait, Load, Block, GetShared, vars, heap
  <1>5. /\ parent' \in {"starting", "joining", "suspended", "resumed", "passed", "failed"}
        /\ index' \in 1 .. N + 1
    <2>1. NextInLoop => parent' \in {"joining", "suspended", parent} /\ index' \in 1 .. N + 1
      BY DEF NextInLoop, TypeOK
    <2>2. StartNext => index' \in 1 .. N + 1
      BY DEF StartNext, TypeOK
    <2>3. QED
      BY <2>1, <2>2, StepCases
      DEF TypeOK, FinalSuspend, StartNext, DropJob, StartShared, DropShared, Copy,
          Return, became_ready, NotifyAll, LookForContinuation, Notify, try_set_continuation,
          GetResult, TestAndSet, SetException, CountDown, Throw, AwaitResume, AwaitAll,
          Poll, Wait, Load, Block, GetShared, vars, join
  <1>6. notifier' \in [Awaited -> {"unborn", "setting", "waiting", "resumed", "throwing",
                                   "storing", "counting", "gone"}]
    BY StepCases
    DEF TypeOK, FinalSuspend, StartNext, DropJob, StartShared, DropShared, Copy,
        Return, became_ready, NotifyAll, LookForContinuation, Notify, try_set_continuation,
        GetResult, TestAndSet, SetException, CountDown, Throw, AwaitResume, AwaitAll,
        NotifierGoes, Poll, Wait, Load, Block, GetShared, vars, join
  <1>7. state' \in [kind : {"none", "until_all_ready", "until_all_succeed"},
                    num_remaining : Int, exception_is_set : BOOLEAN, exception : BOOLEAN]
    <2>1. ASSUME NEW c \in Awaited, TestAndSet(c) \/ SetException(c) \/ CountDown(c)
          PROVE  state' \in [kind : {"none", "until_all_ready", "until_all_succeed"},
                             num_remaining : Int, exception_is_set : BOOLEAN, exception : BOOLEAN]
      <3>1. state.num_remaining \in Int
        BY DEF TypeOK
      <3>2. \/ state' = [state EXCEPT !.exception_is_set = TRUE]
            \/ state' = [state EXCEPT !.exception = TRUE]
            \/ state' = [state EXCEPT !.num_remaining = state.num_remaining - 1]
        BY <2>1 DEF TestAndSet, SetException, CountDown
      <3>3. state.num_remaining - 1 \in Int
        BY <3>1
      <3>4. state \in [kind : {"none", "until_all_ready", "until_all_succeed"},
                       num_remaining : Int, exception_is_set : BOOLEAN, exception : BOOLEAN]
        BY DEF TypeOK
      <3>5. QED
        BY <3>2, <3>3, <3>4
    <2>2. ASSUME NEW kind \in {"until_all_ready", "until_all_succeed"}, AwaitAll(kind)
          PROVE  state' \in [kind : {"none", "until_all_ready", "until_all_succeed"},
                             num_remaining : Int, exception_is_set : BOOLEAN, exception : BOOLEAN]
      BY <2>2 DEF AwaitAll, TypeOK
    <2>3. \/ \E c \in Awaited : TestAndSet(c) \/ SetException(c) \/ CountDown(c)
          \/ \E kind \in {"until_all_ready", "until_all_succeed"} : AwaitAll(kind)
          \/ UNCHANGED state
      BY StepCases
      DEF FinalSuspend, StartNext, DropJob, StartShared, DropShared, Copy,
          Return, became_ready, NotifyAll, LookForContinuation, Notify, try_set_continuation,
          GetResult, Throw, AwaitResume, Poll, Wait, Load, Block, GetShared, vars, join
    <2>4. QED
      BY <2>1, <2>2, <2>3 DEF TypeOK
  <1>8. viewer' \in [Viewers -> {Idle} \cup {At(place, d) :
                        place \in {"loading", "loaded", "asleep", "getting"}, d \in Shared}]
    <2>1. ASSUME NEW c \in Jobs, NotifyAll(c), NEW v \in Viewers, viewer[v] = At("asleep", c)
          PROVE  c \in Shared
      BY <2>1, ViewerFacts
    <2>2. (\E c \in Jobs : NotifyAll(c))
             => viewer' \in [Viewers -> {Idle} \cup {At(place, d) :
                    place \in {"loading", "loaded", "asleep", "getting"}, d \in Shared}]
      BY <2>1 DEF NotifyAll, TypeOK
    <2>3. ASSUME NEW v \in Viewers, NEW c \in Shared,
                 \/ Poll(v, c) \/ Wait(v, c) \/ Load(v, c) \/ Block(v, c) \/ GetShared(v, c)
          PROVE  viewer' \in [Viewers -> {Idle} \cup {At(place, d) :
                    place \in {"loading", "loaded", "asleep", "getting"}, d \in Shared}]
      BY <2>3 DEF Poll, Wait, Load, Block, GetShared, ViewerGoes, TypeOK
    <2>4. QED
      BY <2>2, <2>3, StepCases
      DEF TypeOK, FinalSuspend, StartNext, DropJob, StartShared, DropShared, Copy,
          Return, became_ready, LookForContinuation, Notify, try_set_continuation,
          GetResult, TestAndSet, SetException, CountDown, Throw, AwaitResume, AwaitAll, vars
  <1>9. /\ refcount' \in [Jobs -> Nat]
         /\ state' \in [kind : {"none", "until_all_ready", "until_all_succeed"},
                         num_remaining : 0 .. N, exception_is_set : BOOLEAN, exception : BOOLEAN]
    BY <1>7, CounterTypes
  <1>10. QED
    BY <1>1, <1>2, <1>3, <1>4, <1>5, <1>6, <1>8, <1>9 DEF TypeOK

-----------------------------------------------------------------------------

LEMMA InvInit == Init => IInv
  <1> SUFFICES ASSUME Init PROVE IInv
    OBVIOUS
  <1> USE Kinds DEF Init
  <1>1. TypeOK
    BY JobsAssumption DEF TypeOK, Results
  <1>2. Counted
    BY FS_EmptySet DEF Counted
  <1>3. Held
    BY DEF Held, Running
  <1>4. Flagged /\ Continued /\ Thrown
    BY DEF Flagged, Continued, Thrown
  <1>5. Joined
    <2>1. Remaining = Awaited
      BY DEF Remaining
    <2>2. QED
      BY <2>1, AwaitedBound DEF Joined
  <1>6. QED
    BY <1>1, <1>2, <1>3, <1>4, <1>5 DEF IInv

LEMMA InvStep == IInv /\ [Next]_vars => IInv'
  <1> SUFFICES ASSUME IInv, [Next]_vars PROVE IInv'
    OBVIOUS
  <1> USE DEF IInv
  <1>1. Counted' /\ Held' /\ Flagged' /\ Continued' /\ Joined' /\ Thrown'
    BY CountedStep, HeldStep, FlaggedStep, ContinuedStep, JoinedStep, ThrownStep
  <1>2. QED
    BY <1>1, TypeStep

LEMMA Invariant == Spec => []IInv
  BY InvInit, InvStep, PTL DEF Spec

\* Every variable keeps its type: the counters do not go below zero.
THEOREM TypeCorrect == Spec => []TypeOK
  <1>1. IInv => TypeOK
    BY DEF IInv
  <1>2. QED
    BY <1>1, Invariant, PTL

\* No frame of a job and no state of a join is used after it is gone.
THEOREM MemoryStaysSafe == Spec => []MemoryIsSafe
  <1>1. IInv => MemoryIsSafe
    <2> SUFFICES ASSUME IInv PROVE MemoryIsSafe
      OBVIOUS
    <2> USE Kinds DEF IInv
    <2>1. StateOutlivesNotifiers
      BY DEF StateOutlivesNotifiers, Joined, TypeOK
    <2>2. ASSUME NEW c \in Jobs, InUse(c) PROVE owners[c] # {}
      <3>1. CASE Running(c)
        BY <3>1 DEF Held
      <3>2. CASE c \in Awaited /\ Notified(c)
        <4>1. parent \in {"joining", "suspended"}
          BY <3>2 DEF Notified, Joined, TypeOK
        <4>2. QED
          BY <3>2, <4>1 DEF Held
      <3>3. ASSUME NEW v \in Viewers, viewer[v] # Idle, viewer[v].of = c PROVE owners[c] # {}
        BY <3>3 DEF Held
      <3>4. QED
        BY <2>2, <3>1, <3>2, <3>3 DEF InUse
    <2>3. QED
      BY <2>1, <2>2 DEF MemoryIsSafe, FramesOutliveTheirUse, Counted
  <1>2. QED
    BY <1>1, Invariant, PTL

-----------------------------------------------------------------------------
(* Wake-ups *)

(***************************************************************************)
(* Nobody sleeps unseen.  A continuation that was stored is in a packed    *)
(* word whose job has not looked at it, or is on its way to resume it; who *)
(* blocks on a job does so before its thread calls notify_all(); and a     *)
(* parent that suspended has a notifier that is still to count down, the   *)
(* last of which resumes it.                                               *)
(***************************************************************************)
ContinuationsAreTaken ==
    \A c \in Awaited : notifier[c] = "waiting" =>
        continued[c] /\ job[c] \in {"running", "stored", "ready", "notified", "continuing"}

SleepersAreWoken ==
    \A v \in Viewers, c \in Shared :
        viewer[v] = At("asleep", c) => job[c] \in {"running", "stored", "ready"}

SomebodyResumesTheParent == parent = "suspended" => Remaining # {}

WakeUpsAreKept == ContinuationsAreTaken /\ SleepersAreWoken /\ SomebodyResumesTheParent

LEMMA Starts ==
    ASSUME TypeOK, StartNext \/ \E v \in Viewers, c \in Shared : StartShared(v, c)
    PROVE  \E c \in Jobs : job[c] = "unborn" /\ job' = [job EXCEPT ![c] = "running"]
                           /\ UNCHANGED <<continued, notifier, viewer>>
  <1>1. CASE StartNext
    <2>1. index \in Jobs
      BY <1>1, Kinds DEF StartNext, TypeOK, Awaited
    <2>2. QED
      BY <1>1, <2>1 DEF StartNext, Make, MayStart
  <1>2. ASSUME NEW v \in Viewers, NEW c \in Shared, StartShared(v, c)
        PROVE  job[c] = "unborn" /\ job' = [job EXCEPT ![c] = "running"]
               /\ UNCHANGED <<continued, notifier, viewer>>
    BY <1>2 DEF StartShared, Make, MayStart, join
  <1>3. QED
    BY <1>1, <1>2, Kinds

LEMMA ContinuationsKept ==
    ASSUME IInv, ContinuationsAreTaken, [Next]_vars PROVE ContinuationsAreTaken'
  <1> USE Kinds DEF IInv
  <1>1. ASSUME NEW c \in Jobs, \/ Return(c) \/ became_ready(c) \/ NotifyAll(c)
                               \/ LookForContinuation(c)
        PROVE  ContinuationsAreTaken'
    BY <1>1
    DEF Return, became_ready, NotifyAll, LookForContinuation, Goes, join, ContinuationsAreTaken,
        TypeOK
  <1>2. ASSUME NEW c \in Jobs, FinalSuspend(c) PROVE ContinuationsAreTaken'
    <2>1. UNCHANGED continued /\ \A d \in Jobs : d # c => job'[d] = job[d]
      BY <1>2 DEF FinalSuspend, Goes, TypeOK
    <2>2. \A d \in Awaited : d # c => notifier'[d] = notifier[d]
      BY <1>2 DEF FinalSuspend, TypeOK
    <2>3. c \in Awaited => notifier'[c] # "waiting"
      BY <1>2 DEF FinalSuspend, Goes, ContinuationsAreTaken, TypeOK
    <2>4. QED
      BY <2>1, <2>2, <2>3 DEF ContinuationsAreTaken
  <1>3. ASSUME NEW c \in Jobs, job[c] = "unborn", job' = [job EXCEPT ![c] = "running"],
               UNCHANGED <<continued, notifier, viewer>>
        PROVE  ContinuationsAreTaken'
    BY <1>3 DEF ContinuationsAreTaken, TypeOK
  <1>4. ASSUME NEW c \in Awaited, try_set_continuation(c) PROVE ContinuationsAreTaken'
    <2>1. CASE ready[c]
      BY <1>4, <2>1 DEF try_set_continuation, NotifierGoes, ContinuationsAreTaken, TypeOK
    <2>2. CASE ~ready[c]
      <3>1. parent = "joining"
        BY <1>4 DEF try_set_continuation, NotifierGoes, Joined, TypeOK
      <3>2. job[c] \in {"running", "stored"}
        BY <2>2, <3>1 DEF Flagged, Held, TypeOK
      <3>3. QED
        BY <1>4, <2>2, <3>2
        DEF try_set_continuation, NotifierGoes, ContinuationsAreTaken, TypeOK
    <2>3. QED
      BY <2>1, <2>2
  <1>5. ASSUME NEW c \in Awaited, \/ Notify(c) \/ GetResult(c) \/ TestAndSet(c)
                                  \/ SetException(c) \/ CountDown(c)
        PROVE  ContinuationsAreTaken'
    BY <1>5 DEF Notify, GetResult, TestAndSet, SetException, CountDown, NotifierGoes, jobs,
                ContinuationsAreTaken, TypeOK
  <1>6. CASE UNCHANGED <<job, continued, notifier>>
    BY <1>6 DEF ContinuationsAreTaken
  <1>7. CASE StartNext \/ \E v \in Viewers, c \in Shared : StartShared(v, c)
    BY <1>3, <1>7, Starts
  <1>8. QED
    BY <1>1, <1>2, <1>4, <1>5, <1>6, <1>7, StepCases
    DEF DropJob, Throw, AwaitResume, AwaitAll, DropShared, Poll, Wait, Load, Block, GetShared,
        Copy, vars, jobs, join

LEMMA SleepersKept ==
    ASSUME IInv, SleepersAreWoken, [Next]_vars PROVE SleepersAreWoken'
  <1> USE Kinds DEF IInv
  <1>1. ASSUME NEW c \in Jobs, \/ Return(c) \/ became_ready(c) \/ LookForContinuation(c)
                               \/ FinalSuspend(c)
        PROVE  SleepersAreWoken'
    BY <1>1
    DEF Return, became_ready, LookForContinuation, FinalSuspend, Goes, SleepersAreWoken, TypeOK
  <1>2. ASSUME NEW c \in Jobs, NotifyAll(c) PROVE SleepersAreWoken'
    <2>1. ASSUME NEW v \in Viewers, NEW d \in Shared, viewer'[v] = At("asleep", d)
          PROVE  d # c /\ viewer[v] = At("asleep", d)
      <3>1. viewer'[v] = IF viewer[v] = At("asleep", c) THEN At("loading", c) ELSE viewer[v]
        BY <1>2 DEF NotifyAll
      <3>2. QED
        BY <2>1, <3>1 DEF At
    <2>2. \A d \in Jobs : d # c => job'[d] = job[d]
      BY <1>2 DEF NotifyAll, Goes, TypeOK
    <2>3. QED
      BY <2>1, <2>2 DEF SleepersAreWoken
  <1>3. ASSUME NEW v \in Viewers, NEW c \in Shared, Block(v, c) PROVE SleepersAreWoken'
    <2>1. viewer[v] = At("loaded", c) /\ UNCHANGED job
      BY <1>3 DEF Block, ViewerGoes, jobs
    <2>2. v \in owners[c]
      BY <2>1 DEF Held, At, Idle
    <2>3. ~ready[c] => job[c] \in {"running", "stored"}
      BY <2>2 DEF Flagged, Held, TypeOK
    <2>4. ASSUME NEW w \in Viewers, NEW d \in Shared, viewer'[w] = At("asleep", d)
          PROVE  viewer[w] = At("asleep", d) \/ (d = c /\ ~ready[c])
      <3>1. CASE w = v
        BY <1>3, <2>4, <3>1 DEF Block, ViewerGoes, At, TypeOK
      <3>2. CASE w # v
        BY <1>3, <2>4, <3>2 DEF Block, ViewerGoes, TypeOK
      <3>3. QED
        BY <3>1, <3>2
    <2>5. QED
      BY <2>1, <2>3, <2>4 DEF SleepersAreWoken
  <1>4. ASSUME NEW v \in Viewers, NEW c \in Shared,
               Poll(v, c) \/ Wait(v, c) \/ Load(v, c) \/ GetShared(v, c)
        PROVE  SleepersAreWoken'
    <2>1. UNCHANGED job
      BY <1>4 DEF Poll, Wait, Load, GetShared, jobs
    <2>2. PICK to : viewer' = [viewer EXCEPT ![v] = to] /\ \A d \in Shared : to # At("asleep", d)
      BY <1>4 DEF Poll, Wait, Load, GetShared, ViewerGoes, At, Idle
    <2>3. QED
      BY <2>1, <2>2 DEF SleepersAreWoken, TypeOK
  <1>5. CASE UNCHANGED <<job, viewer>>
    BY <1>5 DEF SleepersAreWoken
  <1>6. ASSUME NEW c \in Jobs, job[c] = "unborn", job' = [job EXCEPT ![c] = "running"],
               UNCHANGED <<continued, notifier, viewer>>
        PROVE  SleepersAreWoken'
    BY <1>6 DEF SleepersAreWoken, TypeOK
  <1>7. CASE StartNext \/ \E v \in Viewers, c \in Shared : StartShared(v, c)
    BY <1>6, <1>7, Starts
  <1>8. QED
    BY <1>1, <1>2, <1>3, <1>4, <1>5, <1>7, StepCases
    DEF Notify, try_set_continuation, GetResult, TestAndSet, SetException, CountDown, DropJob,
        Throw, AwaitResume, AwaitAll, DropShared, Copy, vars, jobs

LEMMA ParentKept ==
    ASSUME IInv, SomebodyResumesTheParent, [Next]_vars PROVE SomebodyResumesTheParent'
  <1> USE Kinds DEF IInv
  <1>1. CASE UNCHANGED <<parent, notifier>>
    BY <1>1 DEF SomebodyResumesTheParent, Remaining
  <1>2. ASSUME NEW c \in Jobs, FinalSuspend(c) PROVE SomebodyResumesTheParent'
    <2>1. Remaining' = Remaining \/ UNCHANGED notifier
      BY <1>2, Resumes, SameRemaining
    <2>2. QED
      BY <1>2, <2>1 DEF FinalSuspend, SomebodyResumesTheParent, Remaining
  <1>3. ASSUME NEW c \in Awaited, \/ Notify(c) \/ try_set_continuation(c) \/ GetResult(c)
                                  \/ TestAndSet(c) \/ SetException(c)
        PROVE  Remaining' # {}
    BY <1>3 DEF Notify, try_set_continuation, GetResult, TestAndSet, SetException, NotifierGoes,
                Remaining, TypeOK
  <1>4. ASSUME NEW c \in Awaited, CountDown(c), parent' = "suspended" PROVE Remaining' # {}
    <2>1. Remaining' = Remaining \ {c} /\ c \in Remaining
      BY <1>4 DEF CountDown, NotifierGoes, Remaining, TypeOK
    <2>2. state.num_remaining # 1
      BY <1>4 DEF CountDown
    <2>3. QED
      BY <2>1, <2>2, LastRemaining DEF Joined
  <1>5. CASE StartNext \/ Throw \/ AwaitResume
             \/ \E kind \in {"until_all_ready", "until_all_succeed"} : AwaitAll(kind)
    BY <1>5 DEF StartNext, Throw, AwaitResume, AwaitAll, SomebodyResumesTheParent
  <1>6. QED
    BY <1>1, <1>2, <1>3, <1>4, <1>5, StepCases
    DEF Return, became_ready, NotifyAll, LookForContinuation, DropJob, StartShared, DropShared,
        Poll, Wait, Load, Block, GetShared, Copy, vars, join, SomebodyResumesTheParent

\* No wake-up is lost between a look and the sleep that follows it, however
\* many jobs, notifiers and viewers race: what EveryWaiterGoesOn rests on.
THEOREM NoWakeUpIsLost == Spec => []WakeUpsAreKept
  <1>1. Init => WakeUpsAreKept
    BY DEF Init, WakeUpsAreKept, ContinuationsAreTaken, SleepersAreWoken,
           SomebodyResumesTheParent, At, Idle
  <1>2. IInv /\ WakeUpsAreKept /\ [Next]_vars => WakeUpsAreKept'
    BY ContinuationsKept, SleepersKept, ParentKept DEF WakeUpsAreKept
  <1>3. QED
    BY <1>1, <1>2, Invariant, PTL DEF Spec

-----------------------------------------------------------------------------
(* What is seen from outside: each step is one of JobJoin, or none *)

LEMMA RefInit == Init => AsJoin!Init
  BY DEF Init, AsJoin!Init, Outcome, ParentSeen

LEMMA Unseen ==
    ASSUME \A c \in Jobs : Outcome(c)' = Outcome(c),
           \A c \in Jobs : owners'[c] \ {Promise} = owners[c] \ {Promise},
           frames' = frames, ParentSeen' = ParentSeen
    PROVE  UNCHANGED AsJoin!vars
  BY DEF AsJoin!vars

(* A step that changes neither a flag nor a result that is there, and starts *)
(* no job, leaves what is seen of the jobs as it was.                        *)
LEMMA SameOutcomes ==
    ASSUME UNCHANGED ready,
           \A c \in Jobs : ready[c] => result'[c] = result[c],
           \A c \in Jobs : job'[c] = "unborn" <=> job[c] = "unborn"
    PROVE  \A c \in Jobs : Outcome(c)' = Outcome(c)
  BY DEF Outcome

LEMMA UnseenByJobs ==
    ASSUME IInv, NEW c \in Jobs, Return(c) \/ NotifyAll(c) \/ LookForContinuation(c)
    PROVE  UNCHANGED AsJoin!vars
  <1>1. /\ UNCHANGED <<ready, heap, join>>
        /\ \A d \in Jobs : ready[d] => result'[d] = result[d]
        /\ \A d \in Jobs : job'[d] = "unborn" <=> job[d] = "unborn"
    BY DEF IInv, TypeOK, Flagged, Return, NotifyAll, LookForContinuation, Goes
  <1>2. QED
    BY <1>1, SameOutcomes, Unseen DEF heap, join, ParentSeen

LEMMA UnseenByNotifiers ==
    ASSUME IInv, NEW c \in Awaited,
           \/ Notify(c) \/ try_set_continuation(c) \/ GetResult(c)
           \/ TestAndSet(c) \/ SetException(c) \/ CountDown(c)
    PROVE  UNCHANGED AsJoin!vars
  <1>1. UNCHANGED <<job, result, ready, heap>>
    BY DEF Notify, try_set_continuation, GetResult, TestAndSet, SetException, CountDown, jobs
  <1>2. state'.kind = state.kind
    BY DEF IInv, TypeOK, Notify, try_set_continuation, GetResult, TestAndSet, SetException,
           CountDown
  <1>3. \/ parent' = parent
        \/ parent' \in {"suspended", "resumed"} /\ parent \in {"joining", "suspended"}
    BY DEF IInv, Joined, TypeOK, Notify, try_set_continuation, GetResult, TestAndSet, SetException,
           CountDown, NotifierGoes, NextInLoop, InLoop
  <1>4. ParentSeen' = ParentSeen
    BY <1>2, <1>3 DEF ParentSeen
  <1>5. QED
    BY <1>1, <1>4, SameOutcomes, Unseen DEF heap

LEMMA UnseenByViewers ==
    ASSUME NEW v \in Viewers, NEW c \in Shared,
           Poll(v, c) \/ Wait(v, c) \/ Load(v, c) \/ Block(v, c) \/ GetShared(v, c)
    PROVE  UNCHANGED AsJoin!vars
  <1>1. UNCHANGED <<jobs, heap, join>>
    BY DEF Poll, Wait, Load, Block, GetShared
  <1>2. QED
    BY <1>1, SameOutcomes, Unseen DEF jobs, heap, join, ParentSeen

LEMMA BecameReadyEnds ==
    ASSUME IInv, NEW c \in Jobs, became_ready(c)
    PROVE  AsJoin!End(c)
  <1>1. ~ready[c] /\ result[c] \in Results /\ job[c] = "stored"
    BY DEF IInv, Flagged, became_ready, Goes
  <1>2. /\ \A d \in Jobs : Outcome(d)' = IF d = c THEN result[c] ELSE Outcome(d)
        /\ Outcome(c) = "running"
    BY <1>1 DEF IInv, TypeOK, became_ready, Goes, Outcome
  <1>3. UNCHANGED <<heap, join>>
    BY DEF became_ready
  <1>4. [d \in Jobs |-> Outcome(d)]' = [[d \in Jobs |-> Outcome(d)] EXCEPT ![c] = result[c]]
    BY <1>2
  <1>5. QED
    BY <1>1, <1>2, <1>3, <1>4 DEF AsJoin!End, heap, join, ParentSeen, Results

LEMMA MakeStarts ==
    ASSUME IInv, NEW c \in Jobs, NEW h \in Holders, Make(c, h), h = Parent => parent = "starting",
           UNCHANGED <<result, ready, parent, state>>
    PROVE  AsJoin!Start(c, h)
  <1>1. ~ready[c] /\ job[c] = "unborn"
    BY DEF IInv, Flagged, Make, MayStart
  <1>2. /\ \A d \in Jobs : Outcome(d)' = IF d = c THEN "running" ELSE Outcome(d)
        /\ Outcome(c) = "unborn"
    BY <1>1 DEF IInv, TypeOK, Make, Outcome
  <1>3. [d \in Jobs |-> Outcome(d)]' = [[d \in Jobs |-> Outcome(d)] EXCEPT ![c] = "running"]
    BY <1>2
  <1>4. [d \in Jobs |-> owners[d] \ {Promise}]'
            = [[d \in Jobs |-> owners[d] \ {Promise}] EXCEPT ![c] = {h}]
    <2>1. h # Promise
      BY Kinds
    <2>2. \A d \in Jobs : owners'[d] = IF d = c THEN {h, Promise} ELSE owners[d]
      BY DEF IInv, TypeOK, Make
    <2>3. {h, Promise} \ {Promise} = {h}
      BY <2>1
    <2>4. QED
      BY <2>2, <2>3
  <1>5. h = Parent => ParentSeen = "free"
    BY DEF IInv, Joined, ParentSeen
  <1>6. ParentSeen' = ParentSeen /\ frames' = frames \cup {c}
    BY DEF ParentSeen, Make
  <1>7. QED
    BY <1>2, <1>3, <1>4, <1>5, <1>6 DEF AsJoin!Start

(* The last handle takes the frame along: the holder's, or the promise's. *)
LEMMA LastHandle ==
    ASSUME IInv, NEW c \in Jobs, NEW h \in owners[c], Release(c, h)
    PROVE  \/ frames' = frames /\ c \in frames
           \/ frames' = frames \ {c} /\ owners[c] = {h}
  <1>1. IsFiniteSet(owners[c]) /\ refcount[c] = Cardinality(owners[c])
    BY DEF IInv, Counted
  <1>2. CASE refcount[c] = 1
    <2>1. PICK x : owners[c] = {x}
      BY <1>1, <1>2, FS_Singleton
    <2>2. QED
      BY <1>2, <2>1 DEF Release
  <1>3. CASE refcount[c] # 1
    BY <1>3 DEF Release, IInv, Counted
  <1>4. QED
    BY <1>2, <1>3

LEMMA EndedWhenNotRunning ==
    ASSUME IInv, NEW c \in Jobs, ready[c]
    PROVE  Outcome(c) \in {"value", "exception"}
  BY DEF IInv, Flagged, Outcome, Results

LEMMA FinalSuspendSeen ==
    ASSUME IInv, NEW c \in Jobs, FinalSuspend(c)
    PROVE  AsJoin!FrameGoes(c) \/ UNCHANGED AsJoin!vars
  <1>1. /\ ready[c] /\ job[c] \in {"continuing", "leaving"}
        /\ UNCHANGED <<result, ready, parent, state>>
    BY DEF IInv, Flagged, FinalSuspend, Goes
  <1>2. \A d \in Jobs : Outcome(d)' = Outcome(d)
    <2>1. \A d \in Jobs : job'[d] = "unborn" <=> job[d] = "unborn"
      BY DEF IInv, TypeOK, FinalSuspend, Goes
    <2>2. QED
      BY <1>1, <2>1, SameOutcomes
  <1>3. ParentSeen' = ParentSeen
    BY <1>1 DEF ParentSeen
  <1>4. \A d \in Jobs : owners'[d] \ {Promise} = owners[d] \ {Promise}
    BY DEF IInv, TypeOK, FinalSuspend, Release
  <1>5. Promise \in owners[c] /\ c \in frames
    BY <1>1 DEF IInv, Held, Running, Counted
  <1>6. \/ frames' = frames
        \/ frames' = frames \ {c} /\ owners[c] = {Promise}
    BY <1>5, LastHandle DEF FinalSuspend
  <1>7. CASE frames' = frames
    BY <1>2, <1>3, <1>4, <1>7, Unseen
  <1>8. CASE frames' = frames \ {c} /\ owners[c] = {Promise}
    <2>1. owners[c] \ {Promise} = {}
      BY <1>8
    <2>2. QED
      BY <1>1, <1>2, <1>3, <1>4, <1>5, <1>8, <2>1, EndedWhenNotRunning
      DEF AsJoin!FrameGoes, AsJoin!Ended
  <1>9. QED
    BY <1>6, <1>7, <1>8

LEMMA ReleaseLetsGo ==
    ASSUME IInv, NEW c \in Jobs, NEW h \in owners[c], h # Promise, Release(c, h),
           h = Parent => parent \in {"passed", "failed"},
           UNCHANGED <<jobs, parent, state>>
    PROVE  AsJoin!LetGo(c, h)
  <1>1. \A d \in Jobs : Outcome(d)' = Outcome(d)
    BY SameOutcomes DEF jobs
  <1>2. ParentSeen' = ParentSeen
    BY DEF ParentSeen
  <1>3. h = Parent => ParentSeen \notin {"until_all_ready", "until_all_succeed"}
    BY DEF ParentSeen
  <1>4. [d \in Jobs |-> owners[d] \ {Promise}]'
            = [[d \in Jobs |-> owners[d] \ {Promise}] EXCEPT ![c] = (owners[c] \ {Promise}) \ {h}]
    <2>1. \A d \in Jobs : owners'[d] = IF d = c THEN owners[c] \ {h} ELSE owners[d]
      BY DEF IInv, TypeOK, Release
    <2>2. (owners[c] \ {h}) \ {Promise} = (owners[c] \ {Promise}) \ {h}
      OBVIOUS
    <2>3. QED
      BY <2>1, <2>2
  <1>5. \/ frames' = frames
        \/ frames' = frames \ {c} /\ owners[c] = {h}
    BY LastHandle
  <1>6. owners[c] = {h} => ready[c]
    BY DEF IInv, Held, Flagged, Running
  <1>7. owners[c] = {h} => owners[c] \ {Promise} = {h}
    OBVIOUS
  <1>8. QED
    BY <1>1, <1>2, <1>3, <1>4, <1>5, <1>6, <1>7, EndedWhenNotRunning
    DEF AsJoin!LetGo, AsJoin!Ended, AsJoin!Kinds

LEMMA AcquireShares ==
    ASSUME IInv, NEW v \in Viewers, NEW w \in Viewers, NEW c \in Shared, Copy(v, w, c)
    PROVE  AsJoin!Share(c, w)
  <1> USE Kinds
  <1>1. \A d \in Jobs : Outcome(d)' = Outcome(d)
    BY SameOutcomes DEF Copy, jobs
  <1>2. ParentSeen' = ParentSeen /\ frames' = frames
    BY DEF Copy, join, ParentSeen
  <1>3. v # Promise /\ w # Promise /\ v \in owners[c]
    BY DEF Holders, Copy
  <1>4. [d \in Jobs |-> owners[d] \ {Promise}]'
            = [[d \in Jobs |-> owners[d] \ {Promise}] EXCEPT
                 ![c] = (owners[c] \ {Promise}) \cup {w}]
    <2>1. \A d \in Jobs : owners'[d] = IF d = c THEN owners[c] \cup {w} ELSE owners[d]
      BY DEF IInv, TypeOK, Copy, Acquire
    <2>2. (owners[c] \cup {w}) \ {Promise} = (owners[c] \ {Promise}) \cup {w}
      BY <1>3
    <2>3. QED
      BY <2>1, <2>2
  <1>5. QED
    BY <1>1, <1>2, <1>3, <1>4 DEF AsJoin!Share

LEMMA AwaitAllSuspends ==
    ASSUME IInv, NEW kind \in {"until_all_ready", "until_all_succeed"}, AwaitAll(kind)
    PROVE  AsJoin!Suspend
  <1> USE Kinds
  <1>1. \A d \in Jobs : Outcome(d)' = Outcome(d)
    BY SameOutcomes DEF AwaitAll, jobs
  <1>2. ParentSeen = "free"
    BY DEF IInv, Joined, AwaitAll, ParentSeen
  <1>3. ParentSeen' = kind
    <2>1. state'.kind = kind /\ parent' = "joining"
      BY DEF IInv, TypeOK, AwaitAll
    <2>2. QED
      BY <2>1 DEF ParentSeen
  <1>4. \A c \in Awaited : Parent \in owners[c] \ {Promise}
    BY DEF IInv, Held, AwaitAll, TypeOK
  <1>5. QED
    BY <1>1, <1>2, <1>3, <1>4 DEF AsJoin!Suspend, AsJoin!Kinds, AwaitAll, heap

LEMMA AwaitResumeResumes ==
    ASSUME IInv, AwaitResume
    PROVE  AsJoin!Resume
  <1> USE Kinds
  <1>1. \A d \in Jobs : Outcome(d)' = Outcome(d)
    BY SameOutcomes DEF AwaitResume, jobs
  <1>2. state.kind \in {"until_all_ready", "until_all_succeed"} /\ parent = "resumed"
    BY DEF IInv, Joined, TypeOK, AwaitResume
  <1>3. \A c \in Awaited : ready[c] /\ notifier[c] = "gone"
    BY <1>2 DEF IInv, Joined, Continued
  <1>4. \A c \in Awaited : Outcome(c) = result[c] /\ Outcome(c) \in {"value", "exception"}
    BY <1>3, EndedWhenNotRunning DEF Outcome
  <1>5. state.exception <=> \E c \in Awaited : Outcome(c) = "exception"
    BY <1>3, <1>4 DEF IInv, Thrown
  <1>6. ParentSeen = state.kind
    BY <1>2 DEF ParentSeen
  <1>7. ParentSeen' = IF state.kind = "until_all_succeed" /\ state.exception THEN "failed"
                     ELSE "resumed"
    BY <1>2 DEF AwaitResume, ParentSeen
  <1>8. QED
    BY <1>1, <1>2, <1>4, <1>5, <1>6, <1>7
    DEF AsJoin!Resume, AsJoin!Ended, AsJoin!Kinds, AwaitResume, heap

LEMMA RefStep ==
    ASSUME IInv, [Next]_vars
    PROVE  [AsJoin!Next]_(AsJoin!vars)
  <1> USE Kinds
  <1>1. ASSUME NEW c \in Jobs, \/ Return(c) \/ became_ready(c) \/ NotifyAll(c)
                               \/ LookForContinuation(c) \/ FinalSuspend(c)
        PROVE  [AsJoin!Next]_(AsJoin!vars)
    BY <1>1, UnseenByJobs, BecameReadyEnds, FinalSuspendSeen DEF AsJoin!Next
  <1>2. ASSUME NEW c \in Awaited, \/ Notify(c) \/ try_set_continuation(c) \/ GetResult(c)
                                  \/ TestAndSet(c) \/ SetException(c) \/ CountDown(c)
        PROVE  [AsJoin!Next]_(AsJoin!vars)
    BY <1>2, UnseenByNotifiers
  <1>3. ASSUME NEW c \in Awaited, DropJob(c) PROVE [AsJoin!Next]_(AsJoin!vars)
    <2>1. AsJoin!LetGo(c, Parent)
      BY <1>3, ReleaseLetsGo DEF DropJob, join
    <2>2. Parent \in Holders
      BY DEF Holders
    <2>3. QED
      BY <2>1, <2>2 DEF AsJoin!Next
  <1>4. CASE StartNext
    <2>1. index \in Awaited /\ Parent \in Holders
      BY <1>4 DEF StartNext, IInv, TypeOK, Awaited, Holders
    <2>2. AsJoin!Start(index, Parent)
      BY <1>4, <2>1, MakeStarts DEF StartNext
    <2>3. QED
      BY <2>1, <2>2 DEF AsJoin!Next
  <1>5. CASE Throw
    <2>1. ParentSeen' = ParentSeen
      BY <1>5 DEF Throw, IInv, Joined, ParentSeen
    <2>2. QED
      BY <1>5, <2>1, SameOutcomes, Unseen DEF Throw, jobs, heap
  <1>6. CASE AwaitResume
    BY <1>6, AwaitResumeResumes DEF AsJoin!Next
  <1>7. ASSUME NEW kind \in {"until_all_ready", "until_all_succeed"}, AwaitAll(kind)
        PROVE  [AsJoin!Next]_(AsJoin!vars)
    BY <1>7, AwaitAllSuspends DEF AsJoin!Next
  <1>8. ASSUME NEW v \in Viewers, NEW c \in Shared, StartShared(v, c)
        PROVE  [AsJoin!Next]_(AsJoin!vars)
    <2>1. v \in Holders
      BY DEF Holders
    <2>2. AsJoin!Start(c, v)
      BY <1>8, <2>1, MakeStarts DEF StartShared, join
    <2>3. QED
      BY <2>1, <2>2 DEF AsJoin!Next
  <1>9. ASSUME NEW v \in Viewers, NEW c \in Shared, DropShared(v, c)
        PROVE  [AsJoin!Next]_(AsJoin!vars)
    <2>1. v \in Holders /\ v # Promise
      BY DEF Holders
    <2>2. AsJoin!LetGo(c, v)
      BY <1>9, <2>1, ReleaseLetsGo DEF DropShared, join
    <2>3. QED
      BY <2>1, <2>2 DEF AsJoin!Next
  <1>10. ASSUME NEW v \in Viewers, NEW c \in Shared,
                Poll(v, c) \/ Wait(v, c) \/ Load(v, c) \/ Block(v, c) \/ GetShared(v, c)
         PROVE  [AsJoin!Next]_(AsJoin!vars)
    BY <1>10, UnseenByViewers
  <1>11. ASSUME NEW v \in Viewers, NEW w \in Viewers, NEW c \in Shared, Copy(v, w, c)
         PROVE  [AsJoin!Next]_(AsJoin!vars)
    <2>1. w \in Holders
      BY DEF Holders
    <2>2. QED
      BY <1>11, <2>1, AcquireShares DEF AsJoin!Next
  <1>12. CASE UNCHANGED vars
    BY <1>12, SameOutcomes, Unseen DEF vars, jobs, heap, join, ParentSeen
  <1>13. QED
    BY <1>1, <1>2, <1>3, <1>4, <1>5, <1>6, <1>7, <1>8, <1>9, <1>10, <1>11, <1>12, StepCases

\* What is seen of the jobs is what JobJoin says: nobody is resumed before the
\* last result is there, failures are reported, frames go when nobody is left.
THEOREM JobsJoin == Spec => ImplementsJoin
  <1>1. IInv /\ [Next]_vars => [AsJoin!Next]_(AsJoin!vars)
    BY RefStep
  <1>2. QED
    BY <1>1, RefInit, Invariant, PTL DEF Spec, ImplementsJoin, AsJoin!Spec

=============================================================================
