-------------------------- MODULE AssetManagerProofs --------------------------
(***************************************************************************)
(* Proofs about AssetManager, for any jobs, textures and models, and any   *)
(* number of loads that throw.                                             *)
(***************************************************************************)
EXTENDS AssetManager, FiniteSetTheorems, TLAPS

Early == {"unborn", "queued", "asked", "suspended", "loading"}

\* The job of a texture of a model is made by the job of the model, once.
KidsFollow ==
  \A r \in Requests : \A t \in Textures :
    job[<<r, t>>].at # "unborn" => job[<<r, t>>].asset = t /\ job[<<r>>].at \notin Early

\* Who waits in a list waits for the asset of that list.
WaitersKnown ==
  /\ \A k \in Assets : \A h \in waiting[k] : job[h].at # "unborn" /\ job[h].asset = k
  /\ \A j \in Jobs : \A h \in job[j].list :
       job[h].at # "unborn" /\ job[h].asset = job[j].asset

ListsResolved == \A j \in Jobs : job[j].list # {} => job[j].at \in {"resolving", "rejecting"}

\* Who suspended is owned by the list that will resume it.
Listed(j) == \/ \E k \in Assets : j \in waiting[k]
             \/ \E i \in Jobs : j \in job[i].list

Owned ==
  \A j \in InFlight : job[j].owning \/ (job[j].at \in {"suspended", "ready"} /\ Listed(j))

\* A list stands for one load.
OneLoad ==
  /\ \A j \in Jobs : Loading(j) => job[j].asset \in pending
  /\ \A i \in Jobs : \A j \in Jobs :
       Loading(i) /\ Loading(j) /\ job[i].asset = job[j].asset => i = j
  /\ \A k \in pending : k \notin cache /\ \E j \in Jobs : Loading(j) /\ job[j].asset = k
  /\ \A k \in Assets : k \notin pending => waiting[k] = {}

KidsOf(j) == {Kid(j, t) : t \in TexturesOf[job[j].asset]}

\* What a job says it has loaded is stored.
ResultsStored ==
  /\ \A j \in Jobs : job[j].result = "value" \/ job[j].at = "resolving" => job[j].asset \in cache
  /\ \A j \in Jobs : job[j].at \in {"parsed", "local", "joining"} =>
       IsModel(j) /\ job[j].kids = KidsOf(j)
  /\ \A j \in Jobs : job[j].at = "loaded" =>
       IsModel(j) /\ TexturesOf[job[j].asset] \subseteq cache

IInv == TypeOK /\ KidsFollow /\ WaitersKnown /\ ListsResolved /\ Owned /\ OneLoad
        /\ ResultsStored /\ ModelsAreWhole

-----------------------------------------------------------------------------
(* Jobs *)

JobRecord == [at : Steps, asset : Assets \cup {"none"},
              result : {"none", "value", "exception"}, owning : BOOLEAN,
              list : SUBSET Jobs, kids : SUBSET Jobs]

JobsTyped ==
  /\ job \in [Jobs -> JobRecord]
  /\ \A j \in Jobs : /\ job[j].at # "unborn" => job[j].asset \in Assets
                     /\ job[j].at \in {"ready", "ended"} <=> job[j].result # "none"

CacheTyped ==
  cache \subseteq Assets /\ pending \subseteq Assets /\ waiting \in [Assets -> SUBSET Jobs]

MainTyped ==
  /\ Pending \in [Holders -> Jobs \cup {NoJob}]
  /\ main \in {"frame", "destroying", "done"} /\ throws \in 0 .. MaxThrows
  /\ crashed \in BOOLEAN

LEMMA TypeSplit == /\ TypeOK <=> JobsTyped /\ CacheTyped /\ MainTyped
                   /\ TypeOK' <=> JobsTyped' /\ CacheTyped' /\ MainTyped'
  BY DEF TypeOK, JobsTyped, CacheTyped, MainTyped, JobRecord

LEMMA InvParts ==
    ASSUME IInv
    PROVE  /\ JobsTyped /\ CacheTyped /\ MainTyped
           /\ KidsFollow /\ WaitersKnown /\ ListsResolved /\ Owned /\ OneLoad
           /\ ResultsStored /\ ModelsAreWhole
  BY TypeSplit DEF IInv

LEMMA InvSplit ==
    ASSUME JobsTyped', CacheTyped', MainTyped', KidsFollow', WaitersKnown', ListsResolved',
           Owned', OneLoad', ResultsStored', ModelsAreWhole'
    PROVE  IInv'
  BY TypeSplit DEF IInv

\* A job of the main thread, and a job of one of its textures.
LEMMA JobFacts ==
    /\ \A r \in Requests : <<r>> \in Jobs /\ <<r>>[1] = r
    /\ \A r \in Requests : \A t \in Textures : /\ <<r, t>> \in Jobs
                                               /\ <<r, t>>[1] = r /\ <<r, t>>[2] = t
    /\ \A q, r, t : <<q>> # <<r, t>>
    /\ \A j \in Jobs : \/ \E r \in Requests : j = <<r>>
                       \/ \E r \in Requests : \E t \in Textures : j = <<r, t>>
  BY DEF Jobs

\* Only the jobs of the main thread load models.
LEMMA ModelJobs ==
    ASSUME IInv, NEW j \in Jobs, job[j].at # "unborn", IsModel(j)
    PROVE  \E r \in Requests : j = <<r>>
  <1>1. KidsFollow
    BY InvParts
  <1>2. ASSUME NEW r \in Requests, NEW t \in Textures, j = <<r, t>> PROVE FALSE
    BY <1>1, <1>2, AssetsAssumption DEF KidsFollow, IsModel
  <1>3. QED
    BY <1>2, JobFacts

\* A job goes on: it does not begin to load or stop loading, and gives up a
\* list only when everybody in it has ended.
GoesOn(i) ==
  /\ job'[i].asset = job[i].asset /\ job'[i].at # "unborn"
  /\ \/ job'[i].list = job[i].list
     \/ job'[i].list = {} /\ \A h \in job[i].list : job[h].at = "ended"
  /\ job'[i].list # {} => job'[i].at = job[i].at
  /\ job[i].at \notin Early => job'[i].at \notin Early
  /\ Loading(i)' <=> Loading(i)
  /\ job'[i].at # "ended" =>
       /\ job[i].at # "ended" /\ job'[i].owning = job[i].owning
       /\ \/ job[i].owning \/ job'[i].at = job[i].at
          \/ job[i].at = "suspended" /\ job'[i].at = "ready"
  /\ job'[i].result = "value" \/ job'[i].at = "resolving" =>
       job[i].result = "value" \/ job[i].at = "resolving" \/ job[i].asset \in cache
  /\ job'[i].at \in {"parsed", "local", "joining"} =>
       \/ job[i].at \in {"parsed", "local", "joining"} /\ job'[i].kids = job[i].kids
       \/ IsModel(i) /\ job'[i].kids = KidsOf(i)
  /\ job'[i].at = "loaded" =>
       job[i].at = "loaded" \/ (IsModel(i) /\ TexturesOf[job[i].asset] \subseteq cache)

\* A job is made, or not yet.
Begins(i) == \/ job'[i] = job[i]
             \/ /\ job'[i].at = "queued" /\ job'[i].owning
                /\ job'[i].list = {} /\ job'[i].result = "none"

\* No job is made for a texture, or it follows its parent.
KidsBegin ==
  \A r \in Requests : \A t \in Textures :
    job[<<r, t>>].at = "unborn" /\ job'[<<r, t>>].at # "unborn" =>
      job'[<<r, t>>].asset = t /\ job'[<<r>>].at \notin Early

LEMMA FollowKept ==
    ASSUME IInv, KidsBegin,
           \A i \in Jobs : job[i].at # "unborn" =>
             job'[i].asset = job[i].asset /\ (job[i].at \notin Early => job'[i].at \notin Early)
    PROVE  KidsFollow'
  <1>1. KidsFollow
    BY InvParts
  <1>2. ASSUME NEW r \in Requests, NEW t \in Textures, job'[<<r, t>>].at # "unborn"
        PROVE  job'[<<r, t>>].asset = t /\ job'[<<r>>].at \notin Early
    <2>1. <<r>> \in Jobs /\ <<r, t>> \in Jobs
      BY JobFacts
    <2>2. CASE job[<<r, t>>].at = "unborn"
      BY <1>2, <2>2 DEF KidsBegin
    <2>3. CASE job[<<r, t>>].at # "unborn"
      <3>1. job[<<r, t>>].asset = t /\ job[<<r>>].at \notin Early
        BY <1>1, <2>3 DEF KidsFollow
      <3>2. job[<<r>>].at # "unborn"
        BY <3>1 DEF Early
      <3>3. QED
        BY <2>1, <2>3, <3>1, <3>2
    <2>4. QED
      BY <2>2, <2>3
  <1>3. QED
    BY <1>2 DEF KidsFollow

\* Nobody waits, and the lists are those that were there.
LEMMA Quiet ==
    ASSUME IInv, UNCHANGED cached, KidsBegin,
           \A i \in Jobs : IF job[i].at = "unborn" THEN Begins(i) ELSE GoesOn(i)
    PROVE  /\ CacheTyped' /\ KidsFollow' /\ WaitersKnown' /\ ListsResolved' /\ Owned' /\ OneLoad'
           /\ ResultsStored' /\ ModelsAreWhole'
  <1>1. /\ JobsTyped /\ CacheTyped /\ KidsFollow /\ WaitersKnown /\ ListsResolved /\ Owned /\ OneLoad
        /\ ResultsStored /\ ModelsAreWhole
    BY InvParts
  <1>2. cache' = cache /\ pending' = pending /\ waiting' = waiting
    BY DEF cached
  <1>3. CacheTyped' /\ ModelsAreWhole'
    BY <1>1, <1>2 DEF CacheTyped, ModelsAreWhole
  <1>4. \A i \in Jobs : job[i].at # "unborn" => GoesOn(i)
    OBVIOUS
  <1>5. \A i \in Jobs : job[i].at = "unborn" => job[i].list = {} /\ job[i].result = "none"
    BY <1>1 DEF ListsResolved, JobsTyped
  <1>6. \A i \in Jobs : job[i].at = "unborn" =>
           /\ job'[i].at \in {"unborn", "queued"} /\ job'[i].list = {} /\ job'[i].result = "none"
           /\ job'[i].at = "queued" => job'[i].owning
    BY <1>5 DEF Begins
  <1>7. KidsFollow'
    BY <1>4, FollowKept DEF GoesOn
  <1>8. \A i \in Jobs : job'[i].list \in {{}, job[i].list}
    BY <1>4, <1>6 DEF GoesOn
  <1>9. WaitersKnown'
    <2>1. /\ \A k \in Assets : \A h \in waiting[k] : h \in Jobs
          /\ \A j \in Jobs : \A h \in job[j].list : h \in Jobs
      BY <1>1 DEF CacheTyped, JobsTyped, JobRecord
    <2>2. \A i \in Jobs : job[i].at # "unborn" =>
             job'[i].at # "unborn" /\ job'[i].asset = job[i].asset
      BY <1>4 DEF GoesOn
    <2>3. ASSUME NEW k \in Assets, NEW h \in waiting'[k]
          PROVE  job'[h].at # "unborn" /\ job'[h].asset = k
      BY <1>1, <1>2, <2>1, <2>2, <2>3 DEF WaitersKnown
    <2>4. ASSUME NEW j \in Jobs, NEW h \in job'[j].list
          PROVE  job'[h].at # "unborn" /\ job'[h].asset = job'[j].asset
      <3>1. h \in job[j].list
        BY <1>8, <2>4
      <3>2. h \in Jobs /\ job[h].at # "unborn" /\ job[h].asset = job[j].asset
        BY <1>1, <2>1, <3>1 DEF WaitersKnown
      <3>3. job[j].at # "unborn"
        BY <1>5, <3>1
      <3>4. QED
        BY <2>2, <3>2, <3>3
    <2>5. QED
      BY <2>3, <2>4 DEF WaitersKnown
  <1>10. ListsResolved'
    <2>1. ASSUME NEW j \in Jobs, job'[j].list # {}
          PROVE  job'[j].at \in {"resolving", "rejecting"}
      <3>1. job[j].list # {} /\ job[j].at # "unborn"
        BY <1>5, <1>8, <2>1
      <3>2. QED
        BY <1>1, <1>4, <2>1, <3>1 DEF ListsResolved, GoesOn
    <2>2. QED
      BY <2>1 DEF ListsResolved
  <1>11. Owned'
    <2>1. ASSUME NEW j \in Jobs, j \in InFlight', ~job'[j].owning
          PROVE  job'[j].at \in {"suspended", "ready"} /\ Listed(j)'
      <3>1. job[j].at # "unborn"
        BY <1>6, <2>1 DEF InFlight
      <3>2. /\ job[j].at # "ended" /\ ~job[j].owning
            /\ job'[j].at = job[j].at \/ (job[j].at = "suspended" /\ job'[j].at = "ready")
        BY <1>4, <2>1, <3>1 DEF InFlight, GoesOn
      <3>3. job[j].at \in {"suspended", "ready"} /\ Listed(j)
        BY <1>1, <3>1, <3>2 DEF Owned, InFlight
      <3>4. ASSUME NEW i \in Jobs, j \in job[i].list PROVE j \in job'[i].list
        <4>1. job[i].at # "unborn"
          BY <1>5, <3>4
        <4>2. QED
          BY <1>4, <3>2, <3>4, <4>1 DEF GoesOn
      <3>5. Listed(j)'
        BY <1>2, <3>3, <3>4 DEF Listed
      <3>6. QED
        BY <3>2, <3>3, <3>5
    <2>2. QED
      BY <2>1 DEF Owned, InFlight
  <1>12. OneLoad'
    <2>1. \A i \in Jobs : (Loading(i)' <=> Loading(i))
                          /\ (Loading(i) => job'[i].asset = job[i].asset)
      <3>1. ASSUME NEW i \in Jobs, job[i].at = "unborn"
            PROVE  ~Loading(i) /\ ~Loading(i)'
        BY <1>6, <3>1 DEF Loading
      <3>2. QED
        BY <1>4, <3>1 DEF GoesOn
    <2>2. QED
      BY <1>1, <1>2, <2>1 DEF OneLoad
  <1>13. ResultsStored'
    <2>1. ASSUME NEW i \in Jobs
          PROVE  /\ job'[i].result = "value" \/ job'[i].at = "resolving" =>
                      job'[i].asset \in cache
                 /\ job'[i].at \in {"parsed", "local", "joining"} =>
                      IsModel(i)' /\ job'[i].kids = KidsOf(i)'
                 /\ job'[i].at = "loaded" =>
                      IsModel(i)' /\ TexturesOf[job'[i].asset] \subseteq cache
      <3>1. CASE job[i].at = "unborn"
        BY <1>6, <3>1
      <3>2. CASE job[i].at # "unborn"
        <4>1. GoesOn(i)
          BY <1>4, <3>2
        <4>2. (IsModel(i)' <=> IsModel(i)) /\ KidsOf(i)' = KidsOf(i) /\ job'[i].asset = job[i].asset
          BY <4>1 DEF GoesOn, IsModel, KidsOf
        <4>3. QED
          BY <1>1, <4>1, <4>2 DEF GoesOn, ResultsStored
      <3>3. QED
        BY <3>1, <3>2
    <2>2. QED
      BY <1>2, <2>1 DEF ResultsStored
  <1>14. QED
    BY <1>3, <1>7, <1>9, <1>10, <1>11, <1>12, <1>13

\* One job goes on.
LEMMA OneGoesOn ==
    ASSUME IInv, UNCHANGED cached, NEW j \in Jobs, job[j].at # "unborn", GoesOn(j),
           \A i \in Jobs : i # j => job'[i] = job[i]
    PROVE  /\ CacheTyped' /\ KidsFollow' /\ WaitersKnown' /\ ListsResolved' /\ Owned' /\ OneLoad'
           /\ ResultsStored' /\ ModelsAreWhole'
  <1>1. ASSUME NEW i \in Jobs, i # j PROVE IF job[i].at = "unborn" THEN Begins(i) ELSE GoesOn(i)
    BY <1>1 DEF Begins, GoesOn, Loading
  <1>2. KidsBegin
    BY JobFacts DEF KidsBegin
  <1>3. QED
    BY <1>1, <1>2, Quiet

\* One job changes.
LEMMA Updated ==
    ASSUME JobsTyped, NEW j \in Jobs, NEW r \in JobRecord, job' = [job EXCEPT ![j] = r],
           r.at # "unborn" => r.asset \in Assets,
           r.at \in {"ready", "ended"} <=> r.result # "none"
    PROVE  JobsTyped' /\ \A i \in Jobs : job'[i] = IF i = j THEN r ELSE job[i]
  BY DEF JobsTyped

LEMMA ReturnedIs ==
    ASSUME JobsTyped, NEW j \in Jobs, NEW v \in {"value", "exception"}, job[j].at # "unborn",
           job' = Returned(j, v)
    PROVE  /\ JobsTyped'
           /\ \A i \in Jobs : i # j => job'[i] = job[i]
           /\ job'[j].at = "ready" /\ job'[j].result = v /\ job'[j].list = {}
           /\ job'[j].asset = job[j].asset /\ job'[j].owning = job[j].owning
  <1> DEFINE r == [job[j] EXCEPT !.at = "ready", !.result = v, !.list = {}, !.kids = {}]
  <1>1. job[j] \in JobRecord
    BY DEF JobsTyped
  <1>2. r \in JobRecord /\ r.at = "ready" /\ r.result = v /\ r.list = {} /\ r.asset = job[j].asset
        /\ r.owning = job[j].owning
    BY <1>1 DEF JobRecord, Steps
  <1>3. job' = [job EXCEPT ![j] = r]
    BY DEF Returned, JobsTyped
  <1>4. r.asset \in Assets
    BY <1>2 DEF JobsTyped
  <1>5. /\ JobsTyped'
        /\ \A i \in Jobs : job'[i] = IF i = j THEN r ELSE job[i]
    BY <1>2, <1>3, <1>4, Updated
  <1>6. QED
    BY <1>2, <1>5

\* The job goes to another step, and nothing else.
LEMMA MarkedIs ==
    ASSUME JobsTyped, NEW j \in Jobs, NEW s \in Steps, job[j].at # "unborn",
           s \in {"ready", "ended"} <=> job[j].result # "none",
           job' = [job EXCEPT ![j].at = s]
    PROVE  /\ JobsTyped'
           /\ \A i \in Jobs : i # j => job'[i] = job[i]
           /\ job'[j].at = s /\ job'[j].result = job[j].result /\ job'[j].list = job[j].list
           /\ job'[j].asset = job[j].asset /\ job'[j].owning = job[j].owning
           /\ job'[j].kids = job[j].kids
  <1> DEFINE r == [job[j] EXCEPT !.at = s]
  <1>1. job[j] \in JobRecord
    BY DEF JobsTyped
  <1>2. r \in JobRecord /\ r.at = s /\ r.result = job[j].result /\ r.list = job[j].list
        /\ r.asset = job[j].asset /\ r.owning = job[j].owning /\ r.kids = job[j].kids
    BY <1>1 DEF JobRecord
  <1>3. job' = [job EXCEPT ![j] = r]
    BY DEF JobsTyped
  <1>4. r.asset \in Assets /\ (r.at \in {"ready", "ended"} <=> r.result # "none")
    BY <1>2 DEF JobsTyped
  <1> HIDE DEF r
  <1>5. /\ JobsTyped'
        /\ \A i \in Jobs : job'[i] = IF i = j THEN r ELSE job[i]
    BY <1>2, <1>3, <1>4, Updated
  <1>6. QED
    BY <1>2, <1>5

\* It lets go of the jobs of its textures as well.
LEMMA KidlessIs ==
    ASSUME JobsTyped, NEW j \in Jobs, NEW s \in Steps \ {"ready", "ended"},
           job[j].at # "unborn", job[j].result = "none",
           job' = [job EXCEPT ![j].at = s, ![j].kids = {}]
    PROVE  /\ JobsTyped'
           /\ \A i \in Jobs : i # j => job'[i] = job[i]
           /\ job'[j].at = s /\ job'[j].result = job[j].result /\ job'[j].list = job[j].list
           /\ job'[j].asset = job[j].asset /\ job'[j].owning = job[j].owning
  <1> DEFINE r == [job[j] EXCEPT !.at = s, !.kids = {}]
  <1>1. job[j] \in JobRecord
    BY DEF JobsTyped
  <1>2. r \in JobRecord /\ r.at = s /\ r.result = job[j].result /\ r.list = job[j].list
        /\ r.asset = job[j].asset /\ r.owning = job[j].owning
    BY <1>1 DEF JobRecord
  <1>3. job' = [job EXCEPT ![j] = r]
    BY DEF JobsTyped
  <1>4. r.asset \in Assets /\ (r.at \in {"ready", "ended"} <=> r.result # "none")
    BY <1>2 DEF JobsTyped
  <1> HIDE DEF r
  <1>5. /\ JobsTyped'
        /\ \A i \in Jobs : job'[i] = IF i = j THEN r ELSE job[i]
    BY ONLY JobsTyped, j \in Jobs, <1>2, <1>3, <1>4, Updated
  <1>6. QED
    BY <1>2, <1>5

\* It is somebody else's, or nobody's, from now on.
LEMMA DisownedIs ==
    ASSUME JobsTyped, NEW j \in Jobs, NEW s \in Steps, job[j].at # "unborn",
           s \in {"ready", "ended"} <=> job[j].result # "none",
           job' = [job EXCEPT ![j].at = s, ![j].owning = FALSE]
    PROVE  /\ JobsTyped'
           /\ \A i \in Jobs : i # j => job'[i] = job[i]
           /\ job'[j].at = s /\ job'[j].result = job[j].result /\ job'[j].list = job[j].list
           /\ job'[j].asset = job[j].asset /\ job'[j].kids = job[j].kids
  <1> DEFINE r == [job[j] EXCEPT !.at = s, !.owning = FALSE]
  <1>1. job[j] \in JobRecord
    BY DEF JobsTyped
  <1>2. r \in JobRecord /\ r.at = s /\ r.result = job[j].result /\ r.list = job[j].list
        /\ r.asset = job[j].asset /\ r.kids = job[j].kids
    BY <1>1 DEF JobRecord
  <1>3. job' = [job EXCEPT ![j] = r]
    BY DEF JobsTyped
  <1>4. r.asset \in Assets /\ (r.at \in {"ready", "ended"} <=> r.result # "none")
    BY <1>2 DEF JobsTyped
  <1> HIDE DEF r
  <1>5. /\ JobsTyped'
        /\ \A i \in Jobs : job'[i] = IF i = j THEN r ELSE job[i]
    BY ONLY JobsTyped, j \in Jobs, <1>2, <1>3, <1>4, Updated
  <1>6. QED
    BY <1>2, <1>5

\* A job under way owns itself, unless it is in a list; it has no result yet,
\* and resumes nobody unless it resolves a list.
LEMMA UnderWay ==
    ASSUME IInv, NEW j \in Jobs, job[j].at \notin {"unborn", "ready", "ended"}
    PROVE  /\ job[j].result = "none"
           /\ job[j].at # "suspended" => job[j].owning
           /\ job[j].at \notin {"resolving", "rejecting"} => job[j].list = {}
           /\ job[j].asset \in Assets
  <1>1. JobsTyped /\ ListsResolved /\ Owned
    BY InvParts
  <1>2. QED
    BY <1>1 DEF ListsResolved, Owned, InFlight, JobsTyped

\* No job changes.
LEMMA StillKeeps ==
    ASSUME IInv, UNCHANGED <<cached, job>>, MainTyped'
    PROVE  IInv'
  <1>1. \A i \in Jobs : IF job[i].at = "unborn" THEN Begins(i) ELSE GoesOn(i)
    BY DEF Begins, GoesOn, Loading
  <1>2. KidsBegin
    BY DEF KidsBegin
  <1>3. JobsTyped'
    BY InvParts DEF JobsTyped
  <1>4. QED
    BY <1>1, <1>2, <1>3, Quiet, InvSplit

\* A job that is made is kept by its promise, and waits in the queue of its executor.
LEMMA StartedIs ==
    ASSUME NEW k \in Assets
    PROVE  /\ Started(k) \in JobRecord
           /\ Started(k).at = "queued" /\ Started(k).asset = k /\ Started(k).result = "none"
           /\ Started(k).owning /\ Started(k).list = {}
  BY DEF Started, Unborn, JobRecord, Steps

-----------------------------------------------------------------------------
(* The steps of a job *)

LEMMA AwaitReadyKeeps ==
    ASSUME IInv, NEW j \in Jobs, AwaitReady(j)
    PROVE  IInv'
  <1>1. JobsTyped /\ MainTyped
    BY InvParts
  <1>2. job[j].at = "queued" /\ UNCHANGED <<cached, Pending, main, throws, crashed>>
    BY DEF AwaitReady
  <1>3. job[j].list = {} /\ job[j].owning /\ job[j].result = "none"
    BY <1>2, UnderWay
  <1>4. MainTyped'
    BY <1>1, <1>2 DEF MainTyped
  <1>5. CASE job[j].asset \in cache
    <2>1. job' = Returned(j, "value")
      BY <1>5 DEF AwaitReady
    <2>2. /\ JobsTyped'
          /\ \A i \in Jobs : i # j => job'[i] = job[i]
          /\ job'[j].at = "ready" /\ job'[j].result = "value" /\ job'[j].list = {}
          /\ job'[j].asset = job[j].asset /\ job'[j].owning = job[j].owning
      BY <1>1, <1>2, <2>1, ReturnedIs
    <2>3. QED
      BY <1>2, <1>3, <1>4, <1>5, <2>2, OneGoesOn, InvSplit DEF GoesOn, Early, Loading
  <1>6. CASE job[j].asset \notin cache
    <2>1. job' = [job EXCEPT ![j].at = "asked"] /\ "asked" \in Steps
      BY <1>6 DEF AwaitReady, Steps
    <2>2. /\ JobsTyped'
          /\ \A i \in Jobs : i # j => job'[i] = job[i]
          /\ job'[j].at = "asked" /\ job'[j].result = job[j].result /\ job'[j].list = job[j].list
          /\ job'[j].asset = job[j].asset /\ job'[j].owning = job[j].owning
      BY <1>1, <1>2, <1>3, <2>1, MarkedIs
    <2>3. QED
      BY <1>2, <1>3, <1>4, <2>2, OneGoesOn, InvSplit DEF GoesOn, Early, Loading
  <1>7. QED
    BY <1>5, <1>6

LEMMA RescheduleKeeps ==
    ASSUME IInv, NEW j \in Jobs, RescheduleToLocal(j)
    PROVE  IInv'
  <1>1. JobsTyped /\ MainTyped
    BY InvParts
  <1>2. /\ job[j].at = "parsed" /\ UNCHANGED <<cached, Pending, main, throws, crashed>>
        /\ job' = [job EXCEPT ![j].at = "local"] /\ "local" \in Steps
    BY DEF RescheduleToLocal, Steps
  <1>3. job[j].list = {} /\ job[j].owning /\ job[j].result = "none"
    BY <1>2, UnderWay
  <1>4. MainTyped'
    BY <1>1, <1>2 DEF MainTyped
  <1>5. /\ JobsTyped'
        /\ \A i \in Jobs : i # j => job'[i] = job[i]
        /\ job'[j].at = "local" /\ job'[j].result = job[j].result /\ job'[j].list = job[j].list
        /\ job'[j].asset = job[j].asset /\ job'[j].owning = job[j].owning
        /\ job'[j].kids = job[j].kids
    BY <1>1, <1>2, <1>3, MarkedIs
  <1>6. QED
    BY <1>2, <1>3, <1>4, <1>5, OneGoesOn, InvSplit DEF GoesOn, Early, Loading

LEMMA ThrowKeeps ==
    ASSUME IInv, NEW j \in Jobs, Throw(j)
    PROVE  IInv'
  <1>1. JobsTyped /\ MainTyped
    BY InvParts
  <1>2. /\ job[j].at \in {"loading", "parsed"} /\ UNCHANGED <<cached, Pending, main, crashed>>
        /\ job' = [job EXCEPT ![j].at = "failing", ![j].kids = {}]
        /\ "failing" \in Steps \ {"ready", "ended"}
    BY DEF Throw, Unwound, Steps
  <1>3. job[j].list = {} /\ job[j].owning /\ job[j].result = "none"
    BY <1>2, UnderWay
  <1>4. MainTyped'
    BY <1>1, <1>2, AssetsAssumption DEF MainTyped, Throw
  <1>5. /\ JobsTyped'
        /\ \A i \in Jobs : i # j => job'[i] = job[i]
        /\ job'[j].at = "failing" /\ job'[j].result = job[j].result /\ job'[j].list = job[j].list
        /\ job'[j].asset = job[j].asset /\ job'[j].owning = job[j].owning
    BY <1>1, <1>2, <1>3, KidlessIs
  <1>6. QED
    BY <1>2, <1>3, <1>4, <1>5, OneGoesOn, InvSplit DEF GoesOn, Early, Loading

LEMMA JoinKeeps ==
    ASSUME IInv, NEW j \in Jobs, Join(j)
    PROVE  IInv'
  <1> DEFINE failed == \E i \in job[j].kids : job[i].result = "exception"
  <1>1. JobsTyped /\ MainTyped /\ ResultsStored /\ KidsFollow
    BY InvParts
  <1>2. /\ job[j].at = "joining" /\ UNCHANGED <<cached, Pending, main, throws, crashed>>
        /\ \A i \in job[j].kids : Ready(i)
    BY DEF Join
  <1>3. PICK s : s = IF failed THEN "failing" ELSE "loaded"
    OBVIOUS
  <1>4. job' = [job EXCEPT ![j].at = s, ![j].kids = {}] /\ s \in Steps \ {"ready", "ended"}
    BY <1>3 DEF Join, Unwound, Steps
  <1>5. job[j].list = {} /\ job[j].owning /\ job[j].result = "none"
    BY <1>2, UnderWay
  <1>6. MainTyped'
    BY <1>1, <1>2 DEF MainTyped
  <1>7. /\ JobsTyped'
        /\ \A i \in Jobs : i # j => job'[i] = job[i]
        /\ job'[j].at = s /\ job'[j].result = job[j].result /\ job'[j].list = job[j].list
        /\ job'[j].asset = job[j].asset /\ job'[j].owning = job[j].owning
    BY <1>1, <1>2, <1>4, <1>5, KidlessIs
  <1>8. s = "loaded" => IsModel(j) /\ TexturesOf[job[j].asset] \subseteq cache
    <2> SUFFICES ASSUME s = "loaded", NEW t \in TexturesOf[job[j].asset]
                 PROVE  IsModel(j) /\ t \in cache
      BY <1>1, <1>2 DEF ResultsStored
    <2>1. IsModel(j) /\ job[j].kids = KidsOf(j)
      BY <1>1, <1>2 DEF ResultsStored
    <2>2. PICK r \in Requests : j = <<r>>
      BY <1>2, <2>1, ModelJobs
    <2>3. t \in Textures
      BY <2>1, AssetsAssumption DEF IsModel
    <2>4. <<r, t>> \in job[j].kids /\ <<r, t>> \in Jobs
      BY <2>1, <2>2, <2>3, JobFacts DEF KidsOf, Kid
    <2>5. job[<<r, t>>].result = "value"
      <3>1. job[<<r, t>>].result \in {"none", "value", "exception"}
        BY <1>1, <2>4 DEF JobsTyped, JobRecord
      <3>2. QED
        BY <1>2, <1>3, <2>4, <3>1 DEF Ready
    <2>6. job[<<r, t>>].asset = t
      BY <1>1, <2>3, <2>4, <2>5 DEF KidsFollow, JobsTyped
    <2>7. QED
      BY <1>1, <2>1, <2>4, <2>5, <2>6 DEF ResultsStored
  <1>9. s \in {"failing", "loaded"}
    BY <1>3
  <1>10. QED
    BY <1>2, <1>5, <1>6, <1>7, <1>8, <1>9, OneGoesOn, InvSplit DEF GoesOn, Early, Loading

LEMMA FinalSuspendKeeps ==
    ASSUME IInv, NEW j \in Jobs, FinalSuspend(j)
    PROVE  IInv'
  <1>1. JobsTyped /\ MainTyped /\ ListsResolved
    BY InvParts
  <1>2. /\ job[j].at = "ready" /\ UNCHANGED <<cached, Pending, main, throws, crashed>>
        /\ job' = [job EXCEPT ![j].at = "ended", ![j].owning = FALSE] /\ "ended" \in Steps
    BY DEF FinalSuspend, Steps
  <1>3. job[j].list = {} /\ job[j].result # "none"
    BY <1>1, <1>2 DEF ListsResolved, JobsTyped
  <1>4. MainTyped'
    BY <1>1, <1>2 DEF MainTyped
  <1>5. /\ JobsTyped'
        /\ \A i \in Jobs : i # j => job'[i] = job[i]
        /\ job'[j].at = "ended" /\ job'[j].result = job[j].result /\ job'[j].list = job[j].list
        /\ job'[j].asset = job[j].asset /\ job'[j].kids = job[j].kids
    BY <1>1, <1>2, <1>3, DisownedIs
  <1>6. QED
    BY <1>2, <1>3, <1>4, <1>5, OneGoesOn, InvSplit DEF GoesOn, Early, Loading

LEMMA ResumeKeeps ==
    ASSUME IInv, NEW j \in Jobs, NEW h \in Jobs, ResumeWithValue(j, h)
    PROVE  IInv'
  <1>1. JobsTyped /\ MainTyped /\ ListsResolved /\ WaitersKnown /\ ResultsStored
    BY InvParts
  <1>2. /\ job[j].at = "resolving" /\ h \in job[j].list /\ job[h].at = "suspended"
        /\ job' = Returned(h, "value") /\ UNCHANGED <<cached, Pending, main, throws, crashed>>
    BY DEF ResumeWithValue, NextToResume
  <1>3. job[h].list = {} /\ job[h].result = "none"
    BY <1>2, UnderWay
  <1>4. job[h].asset \in cache
    BY <1>1, <1>2 DEF WaitersKnown, ResultsStored
  <1>5. MainTyped'
    BY <1>1, <1>2 DEF MainTyped
  <1>6. /\ JobsTyped'
        /\ \A i \in Jobs : i # h => job'[i] = job[i]
        /\ job'[h].at = "ready" /\ job'[h].result = "value" /\ job'[h].list = {}
        /\ job'[h].asset = job[h].asset /\ job'[h].owning = job[h].owning
    BY <1>1, <1>2, ReturnedIs
  <1>7. QED
    BY <1>2, <1>3, <1>4, <1>5, <1>6, OneGoesOn, InvSplit DEF GoesOn, Early, Loading

\* Nobody goes on while the program is down.
LEMMA NullKeeps ==
    ASSUME IInv, NEW j \in Jobs, NEW h \in Jobs, ResumeWithNull(j, h)
    PROVE  IInv'
  <1>1. UNCHANGED <<cached, job, Pending, main, throws>> /\ crashed' = TRUE
    BY DEF ResumeWithNull
  <1>2. MainTyped'
    BY <1>1, InvParts DEF MainTyped
  <1>3. QED
    BY <1>1, <1>2, StillKeeps

LEMMA ReturnKeeps ==
    ASSUME IInv, NEW j \in Jobs, Return(j)
    PROVE  IInv'
  <1>1. JobsTyped /\ MainTyped
    BY InvParts
  <1>2. /\ job[j].at \in {"resolving", "rejecting"} /\ \A h \in job[j].list : job[h].at = "ended"
        /\ UNCHANGED <<cached, Pending, main, throws, crashed>>
    BY DEF Return
  <1>3. PICK v \in {"value", "exception"} :
           job' = Returned(j, v) /\ (v = "value" => job[j].at = "resolving")
    BY DEF Return
  <1>4. job[j].owning /\ job[j].result = "none"
    BY <1>2, UnderWay
  <1>5. MainTyped'
    BY <1>1, <1>2 DEF MainTyped
  <1>6. /\ JobsTyped'
        /\ \A i \in Jobs : i # j => job'[i] = job[i]
        /\ job'[j].at = "ready" /\ job'[j].result = v /\ job'[j].list = {}
        /\ job'[j].asset = job[j].asset /\ job'[j].owning = job[j].owning
    BY <1>1, <1>2, <1>3, ReturnedIs
  <1>7. QED
    BY <1>2, <1>3, <1>4, <1>5, <1>6, OneGoesOn, InvSplit DEF GoesOn, Early, Loading

LEMMA FoundKeeps ==
    ASSUME IInv, NEW j \in Jobs, job[j].at = "asked", Found(j),
           UNCHANGED <<Pending, main, throws, crashed>>
    PROVE  IInv'
  <1>1. JobsTyped /\ MainTyped
    BY InvParts
  <1>2. job[j].asset \in cache /\ job' = Returned(j, "value") /\ UNCHANGED cached
    BY DEF Found
  <1>3. job[j].list = {} /\ job[j].owning /\ job[j].result = "none"
    BY UnderWay
  <1>4. MainTyped'
    BY <1>1 DEF MainTyped
  <1>5. /\ JobsTyped'
        /\ \A i \in Jobs : i # j => job'[i] = job[i]
        /\ job'[j].at = "ready" /\ job'[j].result = "value" /\ job'[j].list = {}
        /\ job'[j].asset = job[j].asset /\ job'[j].owning = job[j].owning
    BY <1>1, <1>2, ReturnedIs
  <1>6. QED
    BY <1>2, <1>3, <1>4, <1>5, OneGoesOn, InvSplit DEF GoesOn, Early, Loading

\* The list of the asset is the one that this load will resolve.
LEMMA BecomeLoaderKeeps ==
    ASSUME IInv, NEW j \in Jobs, job[j].at = "asked", BecomeLoader(j),
           UNCHANGED <<Pending, main, throws, crashed>>
    PROVE  IInv'
  <1>1. /\ JobsTyped /\ CacheTyped /\ MainTyped /\ KidsFollow /\ WaitersKnown /\ ListsResolved
        /\ Owned /\ OneLoad /\ ResultsStored /\ ModelsAreWhole
    BY InvParts
  <1> DEFINE k == job[j].asset
  <1>2. /\ k \notin cache \cup pending /\ pending' = pending \cup {k}
        /\ cache' = cache /\ waiting' = waiting
        /\ job' = [job EXCEPT ![j].at = "loading"] /\ "loading" \in Steps
    BY DEF BecomeLoader, Steps
  <1>3. job[j].list = {} /\ job[j].owning /\ job[j].result = "none" /\ k \in Assets
    BY UnderWay
  <1>4. /\ JobsTyped'
        /\ \A i \in Jobs : i # j => job'[i] = job[i]
        /\ job'[j].at = "loading" /\ job'[j].result = job[j].result /\ job'[j].list = job[j].list
        /\ job'[j].asset = job[j].asset /\ job'[j].owning = job[j].owning
        /\ job'[j].kids = job[j].kids
    BY <1>1, <1>2, <1>3, MarkedIs
  <1>5. MainTyped' /\ CacheTyped' /\ ModelsAreWhole'
    BY <1>1, <1>2, <1>3 DEF MainTyped, CacheTyped, ModelsAreWhole
  <1>6. \A i \in Jobs : /\ job'[i].asset = job[i].asset /\ job'[i].list = job[i].list
                        /\ job'[i].at # "unborn" <=> job[i].at # "unborn"
    BY <1>4
  <1>7. KidsFollow'
    <2>1. KidsBegin
      BY <1>6, JobFacts DEF KidsBegin
    <2>2. QED
      BY <1>4, <2>1, FollowKept DEF Early
  <1>8. WaitersKnown'
    <2>1. /\ \A a \in Assets : waiting[a] \subseteq Jobs
          /\ \A i \in Jobs : job[i].list \subseteq Jobs
      BY <1>1 DEF CacheTyped, JobsTyped, JobRecord
    <2>2. QED
      BY <1>1, <1>2, <1>6, <2>1 DEF WaitersKnown
  <1>9. ListsResolved'
    BY <1>1, <1>3, <1>4 DEF ListsResolved
  <1>10. Owned'
    <2>1. \A i \in Jobs : Listed(i)' <=> Listed(i)
      BY <1>2, <1>6 DEF Listed
    <2>2. QED
      BY <1>1, <1>3, <1>4, <2>1 DEF Owned, InFlight
  <1>11. OneLoad'
    <2>1. \A i \in Jobs : Loading(i)' <=> Loading(i) \/ i = j
      BY <1>4 DEF Loading
    <2>2. QED
      BY <1>1, <1>2, <1>3, <1>6, <2>1 DEF OneLoad
  <1>12. ResultsStored'
    <2>1. \A i \in Jobs : KidsOf(i)' = KidsOf(i) /\ (IsModel(i)' <=> IsModel(i))
      BY <1>6 DEF KidsOf, IsModel
    <2>2. QED
      BY <1>1, <1>2, <1>3, <1>4, <2>1 DEF ResultsStored
  <1>13. QED
    BY <1>4, <1>5, <1>7, <1>8, <1>9, <1>10, <1>11, <1>12, InvSplit

\* The job is owned by the list that it joins.
LEMMA JoinPendingKeeps ==
    ASSUME IInv, NEW j \in Jobs, job[j].at = "asked", JoinPending(j),
           UNCHANGED <<Pending, main, throws, crashed>>
    PROVE  IInv'
  <1>1. /\ JobsTyped /\ CacheTyped /\ MainTyped /\ KidsFollow /\ WaitersKnown /\ ListsResolved
        /\ Owned /\ OneLoad /\ ResultsStored /\ ModelsAreWhole
    BY InvParts
  <1>2. PICK k : k = job[j].asset
    OBVIOUS
  <1>3. /\ k \in pending /\ cache' = cache /\ pending' = pending
        /\ waiting' = [waiting EXCEPT ![k] = @ \cup {j}]
        /\ job' = [job EXCEPT ![j].at = "suspended", ![j].owning = FALSE]
        /\ "suspended" \in Steps
    BY <1>2 DEF JoinPending, Steps
  <1>4. job[j].list = {} /\ job[j].result = "none" /\ k \in Assets
    BY <1>2, UnderWay
  <1>5. /\ JobsTyped'
        /\ \A i \in Jobs : i # j => job'[i] = job[i]
        /\ job'[j].at = "suspended" /\ job'[j].result = job[j].result
        /\ job'[j].list = job[j].list
        /\ job'[j].asset = job[j].asset /\ job'[j].kids = job[j].kids
    BY <1>1, <1>3, <1>4, DisownedIs
  <1>6. \A a \in Assets : waiting'[a] = IF a = k THEN waiting[a] \cup {j} ELSE waiting[a]
    BY <1>1, <1>3 DEF CacheTyped
  <1>7. MainTyped' /\ CacheTyped' /\ ModelsAreWhole'
    <2>1. waiting' \in [Assets -> SUBSET Jobs]
      BY <1>1, <1>3 DEF CacheTyped
    <2>2. QED
      BY <1>1, <1>3, <2>1 DEF MainTyped, CacheTyped, ModelsAreWhole
  <1>8. \A i \in Jobs : /\ job'[i].asset = job[i].asset /\ job'[i].list = job[i].list
                        /\ job'[i].at # "unborn" <=> job[i].at # "unborn"
    BY <1>5
  <1>9. KidsFollow'
    <2>1. KidsBegin
      BY <1>8, JobFacts DEF KidsBegin
    <2>2. QED
      BY <1>5, <2>1, FollowKept DEF Early
  <1>10. WaitersKnown'
    <2>1. /\ \A a \in Assets : waiting[a] \subseteq Jobs
          /\ \A i \in Jobs : job[i].list \subseteq Jobs
      BY <1>1 DEF CacheTyped, JobsTyped, JobRecord
    <2>2. ASSUME NEW a \in Assets, NEW h \in waiting'[a]
          PROVE  job'[h].at # "unborn" /\ job'[h].asset = a
      <3>1. CASE h \in waiting[a]
        BY <1>1, <1>8, <2>1, <3>1 DEF WaitersKnown
      <3>2. CASE h \notin waiting[a]
        <4>1. h = j /\ a = k
          BY <1>6, <2>2, <3>2
        <4>2. QED
          BY <1>2, <1>5, <4>1
      <3>3. QED
        BY <3>1, <3>2
    <2>3. ASSUME NEW i \in Jobs, NEW h \in job'[i].list
          PROVE  job'[h].at # "unborn" /\ job'[h].asset = job'[i].asset
      BY <1>1, <1>8, <2>1, <2>3 DEF WaitersKnown
    <2>4. QED
      BY <2>2, <2>3 DEF WaitersKnown
  <1>11. ListsResolved'
    BY <1>1, <1>4, <1>5 DEF ListsResolved
  <1>12. Owned'
    <2>1. \A i \in Jobs : Listed(i) => Listed(i)'
      BY <1>6, <1>8 DEF Listed
    <2>2. Listed(j)'
      BY <1>4, <1>6 DEF Listed
    <2>3. QED
      BY <1>1, <1>5, <2>1, <2>2 DEF Owned, InFlight
  <1>13. OneLoad'
    <2>1. \A i \in Jobs : Loading(i)' <=> Loading(i)
      BY <1>5 DEF Loading
    <2>2. \A a \in Assets : a \notin pending => waiting'[a] = waiting[a]
      BY <1>3, <1>6
    <2>3. cache' = cache /\ pending' = pending
      BY <1>3
    <2>4. \A i \in Jobs : job'[i].asset = job[i].asset
      BY <1>8
    <2>5. QED
      BY <1>1, <2>1, <2>2, <2>3, <2>4 DEF OneLoad
  <1>14. ResultsStored'
    <2>1. \A i \in Jobs : KidsOf(i)' = KidsOf(i) /\ (IsModel(i)' <=> IsModel(i))
      BY <1>8 DEF KidsOf, IsModel
    <2>2. \A i \in Jobs : i # j => job'[i] = job[i]
      BY <1>5
    <2>3. job'[j].at = "suspended" /\ job'[j].result = "none" /\ cache' = cache
      BY <1>3, <1>4, <1>5
    <2>4. QED
      BY <1>1, <2>1, <2>2, <2>3 DEF ResultsStored
  <1>15. QED
    BY <1>5, <1>7, <1>9, <1>10, <1>11, <1>12, <1>13, <1>14, InvSplit

LEMMA AwaitSuspendKeeps ==
    ASSUME IInv, NEW j \in Jobs, AwaitSuspend(j)
    PROVE  IInv'
  BY FoundKeeps, BecomeLoaderKeeps, JoinPendingKeeps DEF AwaitSuspend


\* Who loaded, or failed to, takes the list over.
LEMMA ResolveKeeps ==
    ASSUME IInv, NEW j \in Jobs, NEW s \in {"resolving", "rejecting"}, Loading(j), Resolve(j, s),
           cache' = IF s = "resolving" THEN cache \cup {job[j].asset} ELSE cache,
           s = "resolving" /\ IsModel(j) => TexturesOf[job[j].asset] \subseteq cache
    PROVE  IInv'
  <1>1. /\ JobsTyped /\ CacheTyped /\ MainTyped /\ KidsFollow /\ WaitersKnown /\ ListsResolved
        /\ Owned /\ OneLoad /\ ResultsStored /\ ModelsAreWhole
    BY InvParts
  <1>2. PICK k : k = job[j].asset
    OBVIOUS
  <1>3. PICK l : l = waiting[k]
    OBVIOUS
  <1>4. job[j].at \notin {"unborn", "ready", "ended", "suspended"}
    BY DEF Loading
  <1>5. job[j].owning /\ job[j].result = "none" /\ k \in Assets /\ k \in pending
    BY <1>1, <1>2, <1>4, UnderWay DEF OneLoad
  <1>6. /\ pending' = pending \ {k} /\ waiting' = [waiting EXCEPT ![k] = {}]
        /\ job' = [job EXCEPT ![j].at = s, ![j].list = l]
        /\ UNCHANGED <<Pending, main, throws, crashed>>
    BY <1>2, <1>3 DEF Resolve
  <1>7. l \in SUBSET Jobs
    BY <1>1, <1>3, <1>5 DEF CacheTyped
  <1>8. /\ JobsTyped'
        /\ \A i \in Jobs : i # j => job'[i] = job[i]
        /\ job'[j].at = s /\ job'[j].result = "none" /\ job'[j].list = l
        /\ job'[j].asset = k /\ job'[j].owning
    <2> DEFINE r == [job[j] EXCEPT !.at = s, !.list = l]
    <2>1. job[j] \in JobRecord
      BY <1>1 DEF JobsTyped
    <2>2. r \in JobRecord /\ r.at = s /\ r.result = "none" /\ r.list = l /\ r.asset = k /\ r.owning
      BY <1>2, <1>5, <1>7, <2>1 DEF JobRecord, Steps
    <2>3. job' = [job EXCEPT ![j] = r]
      BY <1>1, <1>6 DEF JobsTyped
    <2>4. r.asset \in Assets /\ (r.at \in {"ready", "ended"} <=> r.result # "none")
      BY <1>5, <2>2
    <2> HIDE DEF r
    <2>5. /\ JobsTyped'
          /\ \A i \in Jobs : job'[i] = IF i = j THEN r ELSE job[i]
      BY ONLY <1>1, j \in Jobs, <2>2, <2>3, <2>4, Updated
    <2>6. QED
      BY <2>2, <2>5
  <1>9. \A a \in Assets : waiting'[a] = IF a = k THEN {} ELSE waiting[a]
    BY <1>1, <1>6 DEF CacheTyped
  <1>10. cache \subseteq cache' /\ cache' \subseteq cache \cup {k} /\ (s = "resolving" => k \in cache')
    BY <1>2
  <1>11. MainTyped' /\ CacheTyped'
    <2>1. waiting' \in [Assets -> SUBSET Jobs]
      BY <1>1, <1>6 DEF CacheTyped
    <2>2. cache' \subseteq Assets /\ pending' \subseteq Assets
      BY <1>1, <1>5, <1>6, <1>10 DEF CacheTyped
    <2>3. QED
      BY <1>1, <1>6, <2>1, <2>2 DEF MainTyped, CacheTyped
  <1>12. \A i \in Jobs : /\ job'[i].asset = job[i].asset
                         /\ job'[i].at # "unborn" <=> job[i].at # "unborn"
    BY <1>2, <1>4, <1>8
  <1>13. ModelsAreWhole'
    <2>1. ASSUME NEW m \in cache' \cap Models PROVE TexturesOf[m] \subseteq cache
      <3>1. CASE m \in cache
        BY <1>1, <3>1 DEF ModelsAreWhole
      <3>2. CASE m \notin cache
        BY <1>2, <2>1, <3>2 DEF IsModel
      <3>3. QED
        BY <3>1, <3>2
    <2>2. QED
      BY <1>10, <2>1 DEF ModelsAreWhole
  <1>14. KidsFollow'
    <2>1. KidsBegin
      BY <1>12, JobFacts DEF KidsBegin
    <2>2. \A i \in Jobs : job[i].at \notin Early => job'[i].at \notin Early
      BY <1>8 DEF Early
    <2>3. QED
      BY <1>12, <2>1, <2>2, FollowKept
  <1>15. WaitersKnown'
    <2>1. /\ \A a \in Assets : \A h \in waiting[a] : h \in Jobs
          /\ \A i \in Jobs : \A h \in job[i].list : h \in Jobs
      BY <1>1 DEF CacheTyped, JobsTyped, JobRecord
    <2>2. ASSUME NEW a \in Assets, NEW h \in waiting'[a]
          PROVE  job'[h].at # "unborn" /\ job'[h].asset = a
      <3>1. h \in waiting[a]
        BY <1>9, <2>2
      <3>2. QED
        BY <1>1, <1>12, <2>1, <3>1 DEF WaitersKnown
    <2>3. ASSUME NEW i \in Jobs, NEW h \in job'[i].list
          PROVE  job'[h].at # "unborn" /\ job'[h].asset = job'[i].asset
      <3>1. CASE i = j
        <4>1. h \in waiting[k]
          BY <1>3, <1>8, <2>3, <3>1
        <4>2. h \in Jobs /\ job[h].at # "unborn" /\ job[h].asset = k
          BY <1>1, <1>5, <2>1, <4>1 DEF WaitersKnown
        <4>3. QED
          BY <1>8, <1>12, <3>1, <4>2
      <3>2. CASE i # j
        <4>1. h \in job[i].list
          BY <1>8, <2>3, <3>2
        <4>2. h \in Jobs /\ job[h].at # "unborn" /\ job[h].asset = job[i].asset
          BY <1>1, <2>1, <4>1 DEF WaitersKnown
        <4>3. QED
          BY <1>12, <4>2
      <3>3. QED
        BY <3>1, <3>2
    <2>4. QED
      BY <2>2, <2>3 DEF WaitersKnown
  <1>16. ListsResolved'
    BY <1>1, <1>8 DEF ListsResolved
  <1>17. Owned'
    <2>1. job[j].list = {}
      BY <1>1, <1>4 DEF ListsResolved, Loading
    <2>2. ASSUME NEW i \in Jobs, Listed(i) PROVE Listed(i)'
      <3>1. ASSUME NEW a \in Assets, i \in waiting[a] PROVE Listed(i)'
        <4>1. CASE a = k
          BY <1>3, <1>8, <3>1, <4>1 DEF Listed
        <4>2. CASE a # k
          BY <1>9, <3>1, <4>2 DEF Listed
        <4>3. QED
          BY <4>1, <4>2
      <3>2. ASSUME NEW g \in Jobs, i \in job[g].list PROVE Listed(i)'
        <4>1. g # j
          BY <2>1, <3>2
        <4>2. i \in job'[g].list
          BY <1>8, <3>2, <4>1
        <4>3. QED
          BY <4>2 DEF Listed
      <3>3. QED
        BY <2>2, <3>1, <3>2 DEF Listed
    <2>3. QED
      BY <1>1, <1>8, <2>2 DEF Owned, InFlight
  <1>18. OneLoad'
    <2>1. \A i \in Jobs : Loading(i)' <=> Loading(i) /\ i # j
      BY <1>8 DEF Loading
    <2>2. \A i \in Jobs : Loading(i) /\ i # j => job[i].asset # k
      BY <1>1, <1>2 DEF OneLoad
    <2>3. \A i \in Jobs : Loading(i)' => job'[i].asset \in pending'
      <3>1. \A i \in Jobs : Loading(i) => job[i].asset \in pending
        BY <1>1 DEF OneLoad
      <3>2. pending' = pending \ {k}
        BY <1>6
      <3>3. QED
        BY <1>12, <2>1, <2>2, <3>1, <3>2
    <2>4. ASSUME NEW a \in pending' PROVE a \notin cache' /\ \E i \in Jobs : Loading(i)' /\ job'[i].asset = a
      <3>1. a \in pending /\ a # k
        BY <1>6, <2>4
      <3>2. a \notin cache /\ \E i \in Jobs : Loading(i) /\ job[i].asset = a
        BY <1>1, <3>1 DEF OneLoad
      <3>3. QED
        BY <1>2, <1>10, <1>12, <2>1, <3>1, <3>2
    <2>5. \A a \in Assets : a \notin pending' => waiting'[a] = {}
      BY <1>1, <1>6, <1>9 DEF OneLoad
    <2>6. \A i \in Jobs : \A h \in Jobs : Loading(i)' /\ Loading(h)' /\ job'[i].asset = job'[h].asset => i = h
      BY <1>1, <1>12, <2>1 DEF OneLoad
    <2>7. QED
      BY <2>3, <2>4, <2>5, <2>6 DEF OneLoad
  <1>19. ResultsStored'
    <2>1. \A i \in Jobs : KidsOf(i)' = KidsOf(i) /\ (IsModel(i)' <=> IsModel(i))
      BY <1>12 DEF KidsOf, IsModel
    <2>2. \A i \in Jobs : i # j => job'[i] = job[i]
      BY <1>8
    <2>3. QED
      BY <1>1, <1>8, <1>10, <2>1, <2>2 DEF ResultsStored
  <1>20. QED
    BY <1>8, <1>11, <1>13, <1>14, <1>15, <1>16, <1>17, <1>18, <1>19, InvSplit

LEMMA CacheKeeps ==
    ASSUME IInv, NEW j \in Jobs, cache_and_resolve_pending(j)
    PROVE  IInv'
  <1>1. Loaded(j) /\ cache' = cache \cup {job[j].asset} /\ Resolve(j, "resolving")
    BY DEF cache_and_resolve_pending
  <1>2. Loading(j) /\ (IsModel(j) => job[j].at = "loaded")
    BY <1>1 DEF Loaded, Loading
  <1>3. IsModel(j) => TexturesOf[job[j].asset] \subseteq cache
    BY <1>2, InvParts DEF ResultsStored
  <1>4. QED
    BY <1>1, <1>2, <1>3, ResolveKeeps

LEMMA FailKeeps ==
    ASSUME IInv, NEW j \in Jobs, fail_and_resolve_pending(j)
    PROVE  IInv'
  <1>1. job[j].at = "failing" /\ cache' = cache /\ Resolve(j, "rejecting")
    BY DEF fail_and_resolve_pending
  <1>2. Loading(j)
    BY <1>1 DEF Loading
  <1>3. QED
    BY <1>1, <1>2, ResolveKeeps


\* The jobs of the textures of a model are made together, when it has been parsed.
LEMMA SubmitTexturesKeeps ==
    ASSUME IInv, NEW j \in Jobs, SubmitTextures(j)
    PROVE  IInv'
  <1>1. JobsTyped /\ MainTyped /\ KidsFollow
    BY InvParts
  <1>2. job[j].at = "loading" /\ IsModel(j) /\ UNCHANGED <<cached, Pending, main, throws, crashed>>
    BY DEF SubmitTextures
  <1>3. job[j].list = {} /\ job[j].owning /\ job[j].result = "none" /\ job[j].asset \in Assets
    BY <1>2, UnderWay
  <1>4. PICK r \in Requests : j = <<r>>
    BY <1>2, ModelJobs
  <1>5. PICK kids : kids = {<<r, t>> : t \in TexturesOf[job[j].asset]}
    OBVIOUS
  <1>6. TexturesOf[job[j].asset] \subseteq Textures
    BY <1>2, AssetsAssumption DEF IsModel
  <1>7. \A i \in kids : /\ i \in Jobs /\ i # j /\ i[2] \in Textures /\ i = <<r, i[2]>>
                        /\ job[i].at = "unborn"
    <2> SUFFICES ASSUME NEW t \in Textures
                 PROVE  /\ <<r, t>> \in Jobs /\ <<r, t>> # j /\ <<r, t>>[2] = t
                        /\ job[<<r, t>>].at = "unborn"
      BY <1>5, <1>6
    <2>1. QED
      BY <1>1, <1>2, <1>4, JobFacts DEF KidsFollow, Early
  <1>8. kids = KidsOf(j)
    BY <1>4, <1>5, JobFacts DEF KidsOf, Kid
  <1>9. \A i \in Jobs : job'[i] = IF i = j THEN [job[j] EXCEPT !.at = "parsed", !.kids = kids]
                                  ELSE IF i \in kids THEN Started(i[2]) ELSE job[i]
    BY <1>8 DEF SubmitTextures, KidsOf
  <1>10. /\ job'[j] \in JobRecord /\ job'[j].at = "parsed" /\ job'[j].kids = kids
         /\ job'[j].list = {} /\ job'[j].owning /\ job'[j].result = "none"
         /\ job'[j].asset = job[j].asset
    <2>1. job[j] \in JobRecord /\ kids \subseteq Jobs
      BY <1>1, <1>7 DEF JobsTyped
    <2>2. job'[j] = [job[j] EXCEPT !.at = "parsed", !.kids = kids]
      BY <1>9
    <2>3. QED
      BY <1>3, <2>1, <2>2 DEF JobRecord, Steps
  <1>11. \A i \in kids :
            /\ job'[i] \in JobRecord /\ job'[i].at = "queued" /\ job'[i].asset = i[2]
            /\ job'[i].result = "none" /\ job'[i].owning /\ job'[i].list = {} /\ i[2] \in Assets
    <2> SUFFICES ASSUME NEW i \in kids
                 PROVE  /\ job'[i] = Started(i[2]) /\ i[2] \in Assets
      BY StartedIs
    <2>1. QED
      BY <1>7, <1>9 DEF Assets
  <1>12. \A i \in Jobs : i # j /\ i \notin kids => job'[i] = job[i]
    BY <1>9
  <1>13. JobsTyped'
    <2>1. job' \in [Jobs -> JobRecord]
      <3>1. \A i \in Jobs : job'[i] \in JobRecord
        BY <1>1, <1>10, <1>11, <1>12 DEF JobsTyped
      <3>2. job' = [i \in Jobs |-> job'[i]]
        BY DEF SubmitTextures
      <3>3. QED
        BY <3>1, <3>2
    <2>2. ASSUME NEW i \in Jobs
          PROVE  /\ job'[i].at # "unborn" => job'[i].asset \in Assets
                 /\ job'[i].at \in {"ready", "ended"} <=> job'[i].result # "none"
      <3>1. CASE i = j
        BY <1>3, <1>10, <3>1
      <3>2. CASE i \in kids
        BY <1>11, <3>2
      <3>3. CASE i # j /\ i \notin kids
        BY <1>1, <1>12, <3>3 DEF JobsTyped
      <3>4. QED
        BY <3>1, <3>2, <3>3
    <2>3. QED
      BY <2>1, <2>2 DEF JobsTyped
  <1>14. ASSUME NEW i \in Jobs PROVE IF job[i].at = "unborn" THEN Begins(i) ELSE GoesOn(i)
    <2>1. CASE i = j
      BY <1>2, <1>3, <1>8, <1>10, <2>1 DEF GoesOn, Early, Loading
    <2>2. CASE i \in kids
      BY <1>7, <1>11, <2>2 DEF Begins
    <2>3. CASE i # j /\ i \notin kids
      BY <1>12, <2>3 DEF Begins, GoesOn, Loading
    <2>4. QED
      BY <2>1, <2>2, <2>3
  <1>15. KidsBegin
    <2>1. ASSUME NEW q \in Requests, NEW t \in Textures,
                 job[<<q, t>>].at = "unborn", job'[<<q, t>>].at # "unborn"
          PROVE  job'[<<q, t>>].asset = t /\ job'[<<q>>].at \notin Early
      <3>1. <<q, t>> \in Jobs /\ <<q, t>> # j /\ <<q, t>>[2] = t
        BY <1>4, JobFacts
      <3>2. <<q, t>> \in kids
        BY <1>12, <2>1, <3>1
      <3>3. <<q, t>> = <<r, t>>
        BY <1>7, <3>1, <3>2
      <3>4. q = r
        BY <3>3
      <3>5. QED
        BY <1>4, <1>10, <1>11, <3>1, <3>2, <3>4 DEF Early
    <2>2. QED
      BY <2>1 DEF KidsBegin
  <1>16. MainTyped'
    BY <1>1, <1>2 DEF MainTyped
  <1>17. QED
    BY <1>2, <1>13, <1>14, <1>15, <1>16, Quiet, InvSplit

-----------------------------------------------------------------------------
(* The main thread *)

LEMMA SubmitKeeps ==
    ASSUME IInv, NEW r \in Requests, NEW e \in Holders, NEW k \in Assets, Submit(r, e, k)
    PROVE  IInv'
  <1>1. JobsTyped /\ MainTyped
    BY InvParts
  <1>2. /\ job[<<r>>].at = "unborn" /\ job' = [job EXCEPT ![<<r>>] = Started(k)]
        /\ Pending' = [Pending EXCEPT ![e] = <<r>>]
        /\ UNCHANGED <<cached, main, throws, crashed>>
    BY DEF Submit, StartJob
  <1>3. <<r>> \in Jobs
    BY JobFacts
  <1>4. JobsTyped' /\ \A i \in Jobs : job'[i] = IF i = <<r>> THEN Started(k) ELSE job[i]
    <2>1. PICK s \in JobRecord : s = Started(k)
      BY StartedIs
    <2>2. s.at = "queued" /\ s.asset = k /\ s.result = "none"
      BY <2>1, StartedIs
    <2>3. job' = [job EXCEPT ![<<r>>] = s]
      BY <1>2, <2>1
    <2>4. s.asset \in Assets /\ (s.at \in {"ready", "ended"} <=> s.result # "none")
      BY <2>2
    <2>5. JobsTyped' /\ \A i \in Jobs : job'[i] = IF i = <<r>> THEN s ELSE job[i]
      <3>1. PICK j \in Jobs : j = <<r>>
        BY <1>3
      <3>2. job' = [job EXCEPT ![j] = s]
        BY <2>3, <3>1
      <3>3. JobsTyped' /\ \A i \in Jobs : job'[i] = IF i = j THEN s ELSE job[i]
        BY ONLY <1>1, j \in Jobs, s \in JobRecord, <2>4, <3>2, Updated
      <3>4. QED
        BY <3>1, <3>3
    <2>6. QED
      BY <2>1, <2>5
  <1>5. ASSUME NEW i \in Jobs PROVE IF job[i].at = "unborn" THEN Begins(i) ELSE GoesOn(i)
    <2>1. CASE i = <<r>>
      BY <1>2, <1>4, <2>1, StartedIs DEF Begins
    <2>2. CASE i # <<r>>
      BY <1>4, <2>2 DEF Begins, GoesOn, Loading
    <2>3. QED
      BY <2>1, <2>2
  <1>6. KidsBegin
    BY <1>4, JobFacts DEF KidsBegin
  <1>7. MainTyped'
    BY <1>1, <1>2, <1>3 DEF MainTyped
  <1>8. QED
    BY <1>2, <1>4, <1>5, <1>6, <1>7, Quiet, InvSplit

LEMMA UpdateKeeps ==
    ASSUME IInv, update
    PROVE  IInv'
  <1>1. JobsTyped /\ MainTyped /\ ResultsStored
    BY InvParts
  <1>2. /\ UNCHANGED <<cached, main, throws, crashed>>
        /\ \A i \in Jobs : job'[i] = IF job[i].at = "local" THEN [job[i] EXCEPT !.at = "joining"]
                                     ELSE job[i]
        /\ job' = [i \in Jobs |-> job'[i]]
    BY DEF update, Local
  <1>3. MainTyped'
    <2>1. Pending' \in [Holders -> Jobs \cup {NoJob}]
      BY <1>1 DEF update, MainTyped
    <2>2. QED
      BY <1>1, <1>2, <2>1 DEF MainTyped
  <1>4. ASSUME NEW i \in Jobs, job[i].at = "local"
        PROVE  /\ job'[i] \in JobRecord /\ job'[i].at = "joining" /\ job'[i].kids = job[i].kids
               /\ job'[i].list = {} /\ job'[i].owning = job[i].owning /\ job'[i].result = "none"
               /\ job'[i].asset = job[i].asset /\ job'[i].asset \in Assets
               /\ job[i].owning /\ job[i].list = {}
    <2>1. job[i] \in JobRecord
      BY <1>1 DEF JobsTyped
    <2>2. job[i].list = {} /\ job[i].owning /\ job[i].result = "none" /\ job[i].asset \in Assets
      BY <1>4, UnderWay
    <2>3. job'[i] = [job[i] EXCEPT !.at = "joining"]
      BY <1>2, <1>4
    <2>4. QED
      BY <2>1, <2>2, <2>3 DEF JobRecord, Steps
  <1>5. \A i \in Jobs : job[i].at # "local" => job'[i] = job[i]
    BY <1>2
  <1>6. JobsTyped'
    <2>1. \A i \in Jobs : job'[i] \in JobRecord
      BY <1>1, <1>4, <1>5 DEF JobsTyped
    <2>2. job' \in [Jobs -> JobRecord]
      BY <1>2, <2>1
    <2>3. ASSUME NEW i \in Jobs
          PROVE  /\ job'[i].at # "unborn" => job'[i].asset \in Assets
                 /\ job'[i].at \in {"ready", "ended"} <=> job'[i].result # "none"
      <3>1. CASE job[i].at = "local"
        BY <1>4, <3>1
      <3>2. CASE job[i].at # "local"
        BY <1>1, <1>5, <3>2 DEF JobsTyped
      <3>3. QED
        BY <3>1, <3>2
    <2>4. QED
      BY <2>2, <2>3 DEF JobsTyped
  <1>7. ASSUME NEW i \in Jobs PROVE IF job[i].at = "unborn" THEN Begins(i) ELSE GoesOn(i)
    <2>1. CASE job[i].at = "local"
      <3>1. /\ job'[i].at = "joining" /\ job'[i].kids = job[i].kids /\ job'[i].list = job[i].list
            /\ job'[i].list = {} /\ job'[i].owning = job[i].owning /\ job[i].owning
            /\ job'[i].result = "none" /\ job'[i].asset = job[i].asset
        BY <1>4, <2>1
      <3>2. GoesOn(i)
        BY <2>1, <3>1 DEF GoesOn, Early, Loading
      <3>3. QED
        BY <2>1, <3>2
    <2>2. CASE job[i].at # "local"
      BY <1>5, <2>2 DEF Begins, GoesOn, Loading
    <2>3. QED
      BY <2>1, <2>2
  <1>8. KidsBegin
    <2>1. \A i \in Jobs : job[i].at = "unborn" => job'[i].at = "unborn"
      BY <1>5
    <2>2. QED
      BY <2>1, JobFacts DEF KidsBegin
  <1>9. QED
    BY <1>2, <1>3, <1>6, <1>7, <1>8, Quiet, InvSplit

LEMMA MainKeeps ==
    ASSUME IInv, MainStep
    PROVE  IInv'
  <1>1. MainTyped
    BY InvParts
  <1>2. ASSUME NEW e \in Holders, DestroyEntity(e) PROVE IInv'
    <2>1. MainTyped' /\ UNCHANGED <<cached, job>>
      BY <1>1, <1>2 DEF DestroyEntity, MainTyped
    <2>2. QED
      BY <2>1, StillKeeps
  <1>3. CASE Quit
    <2>1. MainTyped' /\ UNCHANGED <<cached, job>>
      BY <1>1, <1>3 DEF Quit, MainTyped
    <2>2. QED
      BY <2>1, StillKeeps
  <1>4. CASE Destroy
    <2>1. MainTyped' /\ UNCHANGED <<cached, job>>
      BY <1>1, <1>4 DEF Destroy, MainTyped
    <2>2. QED
      BY <2>1, StillKeeps
  <1>5. QED
    BY <1>2, <1>3, <1>4, SubmitKeeps, UpdateKeeps DEF MainStep

-----------------------------------------------------------------------------
(* The system *)

LEMMA StartsWell == Init => IInv
  <1> SUFFICES ASSUME Init PROVE IInv
    OBVIOUS
  <1>1. \A j \in Jobs : job[j] = Unborn
    BY DEF Init
  <1>2. Unborn \in JobRecord /\ Unborn.at = "unborn" /\ Unborn.result = "none" /\ Unborn.list = {}
    BY DEF Unborn, JobRecord, Steps
  <1>3. JobsTyped /\ CacheTyped /\ MainTyped
    <2>1. job \in [Jobs -> JobRecord]
      BY <1>2 DEF Init
    <2>2. throws \in 0 .. MaxThrows
      BY AssetsAssumption DEF Init
    <2>3. QED
      BY <1>1, <1>2, <2>1, <2>2 DEF Init, JobsTyped, CacheTyped, MainTyped
  <1>4. KidsFollow /\ WaitersKnown /\ ListsResolved /\ Owned
    BY <1>1, <1>2, JobFacts DEF Init, KidsFollow, WaitersKnown, ListsResolved, Owned, InFlight
  <1>5. OneLoad /\ ResultsStored /\ ModelsAreWhole
    BY <1>1, <1>2 DEF Init, OneLoad, Loading, ResultsStored, ModelsAreWhole
  <1>6. QED
    BY <1>3, <1>4, <1>5, TypeSplit DEF IInv

LEMMA NextKeeps == IInv /\ [Next]_vars => IInv'
  <1> SUFFICES ASSUME IInv, [Next]_vars PROVE IInv'
    OBVIOUS
  <1>1. CASE UNCHANGED vars
    <2>1. MainTyped' /\ UNCHANGED <<cached, job>>
      BY <1>1, InvParts DEF vars, MainTyped
    <2>2. QED
      BY <2>1, StillKeeps
  <1>2. CASE MainStep
    BY <1>2, MainKeeps
  <1>3. ASSUME NEW j \in Jobs, JobStep(j) PROVE IInv'
    BY <1>3, AwaitReadyKeeps, AwaitSuspendKeeps, SubmitTexturesKeeps, RescheduleKeeps, JoinKeeps,
       CacheKeeps, FailKeeps, ResumeKeeps, NullKeeps, ReturnKeeps, FinalSuspendKeeps DEF JobStep
  <1>4. ASSUME NEW j \in Jobs, Throw(j) PROVE IInv'
    BY <1>4, ThrowKeeps
  <1>5. QED
    BY <1>1, <1>2, <1>3, <1>4 DEF Next, Blocked

(***************************************************************************)
(* What the manager keeps to in every state, for any requests: its lists,  *)
(* its cache and who owns the frame of a job.                              *)
(***************************************************************************)
THEOREM ManagerInvariant == Spec => []IInv
  <1>1. Init => IInv
    BY StartsWell
  <1>2. IInv /\ [Next]_vars => IInv'
    BY NextKeeps
  <1>3. QED
    BY <1>1, <1>2, PTL DEF Spec

(***************************************************************************)
(* The cache, its lists and the frames of the jobs are what they are       *)
(* declared to be; a job has a result exactly from when it is ready.       *)
(***************************************************************************)
THEOREM TypeCorrect == Spec => []TypeOK
  <1>1. IInv => TypeOK
    BY DEF IInv
  <1>2. QED
    BY <1>1, ManagerInvariant, PTL

(***************************************************************************)
(* Whatever goes on is in memory: a job is kept by its promise or by a     *)
(* list of the cache that holds it, and goes from the one to the other     *)
(* without a gap (AssetManager.hpp, get_if_cached_or_join_pending()).      *)
(***************************************************************************)
THEOREM FramesAreKept == Spec => []FramesOutliveTheirRuns
  <1>1. IInv => FramesOutliveTheirRuns
    <2> SUFFICES ASSUME IInv, NEW j \in InFlight PROVE Kept(j)
      BY DEF FramesOutliveTheirRuns
    <2>1. j \in Jobs /\ Owned
      BY InvParts DEF InFlight
    <2>2. job[j].owning \/ Listed(j)
      BY <2>1 DEF Owned
    <2>3. QED
      BY <2>2 DEF Listed, Kept
  <1>2. QED
    BY <1>1, ManagerInvariant, PTL

(***************************************************************************)
(* One load for an asset while there is a list for it, none once it is     *)
(* stored, and no model without its textures.                              *)
(***************************************************************************)
THEOREM CacheIsSound == Spec => []CacheSound
  <1>1. IInv => OneLoadPerAsset
    <2> SUFFICES ASSUME IInv, NEW k \in Assets
                 PROVE  LET loaders == {j \in Jobs : job[j].asset = k /\ Loading(j)}
                        IN  /\ Cardinality(loaders) = IF k \in pending THEN 1 ELSE 0
                            /\ k \in pending => k \notin cache
                            /\ k \notin pending => waiting[k] = {}
      BY DEF OneLoadPerAsset
    <2> DEFINE loaders == {j \in Jobs : job[j].asset = k /\ Loading(j)}
    <2>1. OneLoad
      BY InvParts
    <2>2. CASE k \in pending
      <3>1. PICK j \in Jobs : Loading(j) /\ job[j].asset = k
        BY <2>1, <2>2 DEF OneLoad
      <3>2. loaders = {j}
        BY <2>1, <3>1 DEF OneLoad
      <3>3. Cardinality(loaders) = 1
        BY <3>2, FS_Singleton
      <3>4. QED
        BY <2>1, <2>2, <3>3 DEF OneLoad
    <2>3. CASE k \notin pending
      <3>1. loaders = {}
        BY <2>1, <2>3 DEF OneLoad
      <3>2. Cardinality(loaders) = 0
        BY <3>1, FS_EmptySet
      <3>3. QED
        BY <2>1, <2>3, <3>2 DEF OneLoad
    <2>4. QED
      BY <2>2, <2>3
  <1>2. IInv => CacheSound
    BY <1>1, InvParts DEF CacheSound
  <1>3. QED
    BY <1>2, ManagerInvariant, PTL

-----------------------------------------------------------------------------
(* The manager is a store: each step is one of AssetStore's, or none. *)

Handed == {"suspended", "ready", "ended"}

(***************************************************************************)
(* A handle is in one list: among those who wait for an asset while its    *)
(* job is suspended, then in the hands of the load that took them.         *)
(***************************************************************************)
ListedOnce ==
  /\ \A k \in Assets : \A h \in waiting[k] : job[h].at = "suspended"
  /\ \A i \in Jobs : \A h \in job[i].list :
       /\ job[h].at \in Handed
       /\ \A k \in Assets : h \notin waiting[k]
       /\ \A g \in Jobs : h \in job[g].list => g = i

LEMMA ListsKept ==
    ASSUME IInv, ListedOnce, UNCHANGED cached,
           \A i \in Jobs : /\ job'[i].list \subseteq job[i].list
                           /\ job[i].at \in Handed => job'[i].at \in Handed
                           /\ job[i].at = "suspended" =>
                                \/ job'[i].at = "suspended"
                                \/ \A k \in Assets : i \notin waiting[k]
    PROVE  ListedOnce'
  <1>1. \A k \in Assets : waiting[k] \subseteq Jobs
    BY InvParts DEF CacheTyped
  <1>2. \A i \in Jobs : job[i].list \subseteq Jobs
    BY InvParts DEF JobsTyped, JobRecord
  <1>3. \A k \in Assets : \A h \in waiting[k] : job'[h].at = "suspended"
    BY <1>1 DEF ListedOnce
  <1>4. ASSUME NEW i \in Jobs, NEW h \in job'[i].list
        PROVE  /\ job'[h].at \in Handed
               /\ \A k \in Assets : h \notin waiting[k]
               /\ \A g \in Jobs : h \in job'[g].list => g = i
    <2>1. h \in job[i].list /\ h \in Jobs
      BY <1>2, <1>4
    <2>2. /\ job[h].at \in Handed
          /\ \A k \in Assets : h \notin waiting[k]
          /\ \A g \in Jobs : h \in job[g].list => g = i
      BY <2>1 DEF ListedOnce
    <2>3. QED
      BY <2>1, <2>2
  <1>5. QED
    BY <1>3, <1>4 DEF ListedOnce, cached

LEMMA SameSets == Store!Jobs = Jobs /\ Store!Assets = Assets
  BY DEF Store!Jobs, Store!Assets, Jobs, Assets

\* Who failed, and those in its hands, are the same as before.
LEMMA UnluckyStays ==
    ASSUME \A i \in Jobs : /\ Status(i)' = Status(i)
                           /\ job'[i].at = "rejecting" <=> job[i].at = "rejecting"
                           /\ job[i].at = "rejecting" => job'[i].list = job[i].list
    PROVE  Unlucky' = Unlucky
  BY DEF Unlucky, Refused

LEMMA StoreStutters ==
    ASSUME UNCHANGED <<cache, pending>>, main' = "done" <=> main = "done",
           \A i \in Jobs : /\ Status(i)' = Status(i) /\ job'[i].asset = job[i].asset
                           /\ job'[i].at = "rejecting" <=> job[i].at = "rejecting"
                           /\ job[i].at = "rejecting" => job'[i].list = job[i].list
    PROVE  UNCHANGED Store!vars
  BY UnluckyStays DEF Store!vars

LEMMA EndedIsOver ==
    ASSUME IInv, NEW j \in Jobs, job[j].at = "ended"
    PROVE  Status(j) # "waiting"
  <1>1. job[j] \in JobRecord /\ job[j].result # "none"
    BY InvParts DEF JobsTyped
  <1>2. job[j].result \in {"value", "exception"}
    BY <1>1 DEF JobRecord
  <1>3. QED
    BY <1>2 DEF Status, Ready

\* A job goes on to another step before it has its result, or ends with it.
LEMMA OneStutters ==
    ASSUME IInv, ListedOnce, UNCHANGED <<cached, main>>, NEW j \in Jobs, job[j].at # "unborn",
           \A i \in Jobs : i # j => job'[i] = job[i],
           job'[j].result = job[j].result, job'[j].asset = job[j].asset,
           job'[j].list = job[j].list, job'[j].at # "unborn",
           job[j].at # "rejecting" /\ job'[j].at # "rejecting",
           job[j].at \in Handed => job'[j].at \in Handed /\ job[j].at # "suspended"
    PROVE  ListedOnce' /\ UNCHANGED Store!vars
  <1>1. \A i \in Jobs : /\ Status(i)' = Status(i) /\ job'[i].asset = job[i].asset
                        /\ job'[i].at = "rejecting" <=> job[i].at = "rejecting"
                        /\ job[i].at = "rejecting" => job'[i].list = job[i].list
    BY DEF Status, Ready
  <1>2. UNCHANGED Store!vars
    BY <1>1, StoreStutters DEF cached
  <1>3. ASSUME NEW i \in Jobs
        PROVE  /\ job'[i].list \subseteq job[i].list
               /\ job[i].at \in Handed => job'[i].at \in Handed
               /\ job[i].at = "suspended" => job'[i].at = "suspended"
    <2>1. CASE i = j
      BY <2>1 DEF Handed
    <2>2. CASE i # j
      BY <2>2
    <2>3. QED
      BY <2>1, <2>2
  <1>4. ListedOnce'
    BY <1>3, ListsKept DEF cached
  <1>5. QED
    BY <1>2, <1>4

LEMMA GiveMaps ==
    ASSUME IInv, ListedOnce, UNCHANGED <<cached, main>>, NEW j \in Jobs,
           job[j].at \notin {"unborn", "ready", "ended", "rejecting"}, job[j].asset \in cache,
           \A i \in Jobs : job[i].at = "rejecting" => j \notin job[i].list,
           \A k \in Assets : j \notin waiting[k],
           job' = Returned(j, "value")
    PROVE  ListedOnce' /\ Store!Give(j)
  <1>1. JobsTyped /\ job[j].result = "none"
    BY InvParts, UnderWay
  <1>2. /\ \A i \in Jobs : i # j => job'[i] = job[i]
        /\ job'[j].at = "ready" /\ job'[j].result = "value" /\ job'[j].list = {}
        /\ job'[j].asset = job[j].asset
    BY <1>1, ReturnedIs
  <1>3. ListedOnce'
    BY <1>2, ListsKept DEF Handed
  <1>4. Status(j) = "waiting" /\ Status(j)' = "value"
    BY <1>1, <1>2 DEF Status, Ready
  <1>5. \A i \in Jobs : i # j => Status(i)' = Status(i)
    BY <1>2 DEF Status, Ready
  <1>6. j \notin Unlucky
    BY DEF Unlucky, Refused
  <1>7. Unlucky' = Unlucky
    <2>1. j \notin Unlucky'
      BY <1>4 DEF Unlucky
    <2>2. ASSUME NEW i \in Jobs, i # j PROVE i \in Unlucky' <=> i \in Unlucky
      BY <1>2, <1>5, <2>2 DEF Unlucky, Refused
    <2>3. QED
      BY <1>6, <2>1, <2>2 DEF Unlucky
  <1>8. UNCHANGED [i \in Jobs |-> job[i].asset]
    BY <1>2
  <1>9. [i \in Jobs |-> Status(i)]' = [[i \in Jobs |-> Status(i)] EXCEPT ![j] = "value"]
    BY <1>4, <1>5
  <1>10. QED
    BY <1>3, <1>4, <1>6, <1>7, <1>8, <1>9 DEF Store!Give, cached

LEMMA AwaitReadyMaps ==
    ASSUME IInv, ListedOnce, NEW j \in Jobs, AwaitReady(j)
    PROVE  ListedOnce' /\ (Store!Give(j) \/ UNCHANGED Store!vars)
  <1>1. job[j].at = "queued" /\ UNCHANGED <<cached, main>>
    BY DEF AwaitReady
  <1>2. CASE job[j].asset \in cache
    <2>1. job' = Returned(j, "value")
      BY <1>2 DEF AwaitReady
    <2>2. /\ \A i \in Jobs : j \notin job[i].list
          /\ \A k \in Assets : j \notin waiting[k]
      BY <1>1 DEF ListedOnce, Handed
    <2>3. QED
      BY <1>1, <1>2, <2>1, <2>2, GiveMaps
  <1>3. CASE job[j].asset \notin cache
    <2>1. job' = [job EXCEPT ![j].at = "asked"] /\ "asked" \in Steps
      BY <1>3 DEF AwaitReady, Steps
    <2>2. JobsTyped /\ job[j].result = "none"
      BY <1>1, InvParts, UnderWay
    <2>3. /\ \A i \in Jobs : i # j => job'[i] = job[i]
          /\ job'[j].at = "asked" /\ job'[j].result = job[j].result /\ job'[j].list = job[j].list
          /\ job'[j].asset = job[j].asset
      BY <1>1, <2>1, <2>2, MarkedIs
    <2>4. QED
      BY <1>1, <2>3, OneStutters DEF Handed
  <1>4. QED
    BY <1>2, <1>3

LEMMA BecomeLoaderMaps ==
    ASSUME IInv, ListedOnce, NEW j \in Jobs, job[j].at = "asked", BecomeLoader(j),
           UNCHANGED main
    PROVE  ListedOnce' /\ Store!Load(job[j].asset)
  <1>1. JobsTyped /\ CacheTyped /\ job[j].result = "none" /\ job[j].asset \in Assets
    BY InvParts, UnderWay
  <1>2. /\ job' = [job EXCEPT ![j].at = "loading"] /\ "loading" \in Steps
        /\ job[j].asset \notin cache \cup pending /\ UNCHANGED <<cache, waiting>>
        /\ pending' = pending \cup {job[j].asset}
    BY DEF BecomeLoader, Steps
  <1>3. /\ \A i \in Jobs : i # j => job'[i] = job[i]
        /\ job'[j].at = "loading" /\ job'[j].result = job[j].result /\ job'[j].list = job[j].list
        /\ job'[j].asset = job[j].asset
    BY <1>1, <1>2, MarkedIs
  <1>4. \A i \in Jobs : Status(i)' = Status(i) /\ job'[i].asset = job[i].asset
    BY <1>3 DEF Status, Ready
  <1>5. Unlucky' = Unlucky
    BY <1>3, <1>4, UnluckyStays
  <1>6. ListedOnce'
    <2>1. \A k \in Assets : \A h \in waiting[k] : h # j
      BY DEF ListedOnce
    <2>2. \A i \in Jobs : job'[i].list = job[i].list /\ \A h \in job[i].list : h # j
      BY <1>3 DEF ListedOnce, Handed
    <2>3. /\ \A k \in Assets : waiting[k] \subseteq Jobs
          /\ \A i \in Jobs : job[i].list \subseteq Jobs
      BY <1>1 DEF CacheTyped, JobsTyped, JobRecord
    <2>4. QED
      BY <1>2, <1>3, <2>1, <2>2, <2>3 DEF ListedOnce
  <1>7. j \in Store!Waiters(job[j].asset)
    BY <1>1, SameSets DEF Store!Waiters, Status, Ready
  <1>8. QED
    BY <1>2, <1>4, <1>5, <1>6, <1>7 DEF Store!Load

LEMMA JoinPendingMaps ==
    ASSUME IInv, ListedOnce, NEW j \in Jobs, job[j].at = "asked", JoinPending(j),
           UNCHANGED main
    PROVE  ListedOnce' /\ UNCHANGED Store!vars
  <1>1. JobsTyped /\ CacheTyped /\ job[j].result = "none" /\ job[j].asset \in Assets
    BY InvParts, UnderWay
  <1>2. /\ job' = [job EXCEPT ![j].at = "suspended", ![j].owning = FALSE] /\ "suspended" \in Steps
        /\ waiting' = [waiting EXCEPT ![job[j].asset] = @ \cup {j}] /\ UNCHANGED <<cache, pending>>
    BY DEF JoinPending, Steps
  <1>3. /\ \A i \in Jobs : i # j => job'[i] = job[i]
        /\ job'[j].at = "suspended" /\ job'[j].result = job[j].result
        /\ job'[j].list = job[j].list /\ job'[j].asset = job[j].asset
    BY <1>1, <1>2, DisownedIs
  <1>4. UNCHANGED Store!vars
    <2>1. \A i \in Jobs : /\ Status(i)' = Status(i) /\ job'[i].asset = job[i].asset
                          /\ job'[i].at = "rejecting" <=> job[i].at = "rejecting"
                          /\ job[i].at = "rejecting" => job'[i].list = job[i].list
      BY <1>3 DEF Status, Ready
    <2>2. QED
      BY <1>2, <2>1, StoreStutters
  <1>5. ListedOnce'
    <2>1. \A k \in Assets : waiting'[k] \subseteq waiting[k] \cup {j} /\ waiting[k] \subseteq Jobs
      BY <1>1, <1>2 DEF CacheTyped
    <2>2. \A i \in Jobs : /\ job'[i].list = job[i].list /\ job[i].list \subseteq Jobs
                          /\ j \notin job[i].list
      BY <1>1, <1>3 DEF ListedOnce, Handed, JobsTyped, JobRecord
    <2>3. \A k \in Assets : \A h \in waiting'[k] : job'[h].at = "suspended"
      BY <1>3, <2>1 DEF ListedOnce
    <2>4. ASSUME NEW i \in Jobs, NEW h \in job'[i].list
          PROVE  /\ job'[h].at \in Handed
                 /\ \A k \in Assets : h \notin waiting'[k]
                 /\ \A g \in Jobs : h \in job'[g].list => g = i
      <3>1. h \in job[i].list /\ h # j /\ h \in Jobs
        BY <2>2, <2>4
      <3>2. /\ job[h].at \in Handed
            /\ \A k \in Assets : h \notin waiting[k]
            /\ \A g \in Jobs : h \in job[g].list => g = i
        BY <3>1 DEF ListedOnce
      <3>3. QED
        BY <1>3, <2>1, <2>2, <3>1, <3>2
    <2>5. QED
      BY <2>3, <2>4 DEF ListedOnce
  <1>6. QED
    BY <1>4, <1>5

LEMMA AwaitSuspendMaps ==
    ASSUME IInv, ListedOnce, NEW j \in Jobs, AwaitSuspend(j)
    PROVE  /\ ListedOnce'
           /\ Store!Give(j) \/ Store!Load(job[j].asset) \/ UNCHANGED Store!vars
  <1>1. job[j].at = "asked" /\ UNCHANGED main
    BY DEF AwaitSuspend
  <1>2. CASE Found(j)
    <2>1. job[j].asset \in cache /\ job' = Returned(j, "value") /\ UNCHANGED cached
      BY <1>2 DEF Found
    <2>2. /\ \A i \in Jobs : j \notin job[i].list
          /\ \A k \in Assets : j \notin waiting[k]
      BY <1>1 DEF ListedOnce, Handed
    <2>3. QED
      BY <1>1, <2>1, <2>2, GiveMaps
  <1>3. QED
    BY <1>1, <1>2, BecomeLoaderMaps, JoinPendingMaps DEF AwaitSuspend

\* The steps of a load that only the job sees.
LEMMA LoadGoesOn ==
    ASSUME IInv, ListedOnce, NEW j \in Jobs, RescheduleToLocal(j) \/ Throw(j) \/ Join(j)
    PROVE  ListedOnce' /\ UNCHANGED Store!vars
  <1>1. /\ job[j].at \in {"loading", "parsed", "joining"} /\ UNCHANGED <<cached, main>>
    BY DEF RescheduleToLocal, Throw, Join
  <1>2. JobsTyped /\ job[j].result = "none"
    BY <1>1, InvParts, UnderWay
  <1>3. /\ \A i \in Jobs : i # j => job'[i] = job[i]
        /\ job'[j].at \in {"local", "failing", "loaded"} /\ job'[j].result = job[j].result
        /\ job'[j].list = job[j].list /\ job'[j].asset = job[j].asset
    <2>1. CASE RescheduleToLocal(j)
      <3>1. job' = [job EXCEPT ![j].at = "local"] /\ "local" \in Steps
        BY <2>1 DEF RescheduleToLocal, Steps
      <3>2. QED
        BY <1>1, <1>2, <3>1, MarkedIs
    <2>2. CASE Throw(j) \/ Join(j)
      <3>1. PICK s \in {"failing", "loaded"} : job' = [job EXCEPT ![j].at = s, ![j].kids = {}]
        BY <2>2 DEF Throw, Join, Unwound
      <3>2. s \in Steps \ {"ready", "ended"}
        BY DEF Steps
      <3>3. QED
        BY <1>1, <1>2, <3>1, <3>2, KidlessIs
    <2>3. QED
      BY <2>1, <2>2
  <1>4. QED
    BY <1>1, <1>3, OneStutters DEF Handed

LEMMA FinalSuspendMaps ==
    ASSUME IInv, ListedOnce, NEW j \in Jobs, FinalSuspend(j)
    PROVE  ListedOnce' /\ UNCHANGED Store!vars
  <1>1. /\ job[j].at = "ready" /\ UNCHANGED <<cached, main>> /\ "ended" \in Steps
        /\ job' = [job EXCEPT ![j].at = "ended", ![j].owning = FALSE]
    BY DEF FinalSuspend, Steps
  <1>2. JobsTyped /\ job[j].result # "none"
    BY <1>1, InvParts DEF JobsTyped
  <1>3. /\ \A i \in Jobs : i # j => job'[i] = job[i]
        /\ job'[j].at = "ended" /\ job'[j].result = job[j].result
        /\ job'[j].list = job[j].list /\ job'[j].asset = job[j].asset
    BY <1>1, <1>2, DisownedIs
  <1>4. QED
    BY <1>1, <1>3, OneStutters DEF Handed

LEMMA ResumeMaps ==
    ASSUME IInv, ListedOnce, NEW j \in Jobs, NEW h \in Jobs, ResumeWithValue(j, h)
    PROVE  ListedOnce' /\ Store!Give(h)
  <1>1. /\ job[j].at = "resolving" /\ h \in job[j].list /\ job[h].at = "suspended"
        /\ job' = Returned(h, "value") /\ UNCHANGED <<cached, main>>
    BY DEF ResumeWithValue, NextToResume
  <1>2. job[h].asset \in cache
    BY <1>1, InvParts DEF WaitersKnown, ResultsStored
  <1>3. /\ \A i \in Jobs : job[i].at = "rejecting" => h \notin job[i].list
        /\ \A k \in Assets : h \notin waiting[k]
    BY <1>1 DEF ListedOnce
  <1>4. QED
    BY <1>1, <1>2, <1>3, GiveMaps

LEMMA ReturnMaps ==
    ASSUME IInv, ListedOnce, NEW j \in Jobs, Return(j)
    PROVE  ListedOnce' /\ (Store!Give(j) \/ Store!Refuse(j))
  <1>1. /\ job[j].at \in {"resolving", "rejecting"} /\ UNCHANGED <<cached, main>>
        /\ \A h \in job[j].list : job[h].at = "ended"
    BY DEF Return
  <1>2. JobsTyped /\ job[j].result = "none"
    BY <1>1, InvParts, UnderWay
  <1>3. /\ \A i \in Jobs : j \notin job[i].list
        /\ \A k \in Assets : j \notin waiting[k]
    BY <1>1 DEF ListedOnce, Handed
  <1>4. CASE job[j].at = "resolving"
    <2>1. job' = Returned(j, "value") /\ job[j].asset \in cache
      BY <1>4, InvParts DEF Return, ResultsStored
    <2>2. QED
      BY <1>1, <1>3, <1>4, <2>1, GiveMaps
  <1>5. CASE job[j].at = "rejecting"
    <2>1. job' = Returned(j, "exception")
      BY <1>5 DEF Return
    <2>2. /\ \A i \in Jobs : i # j => job'[i] = job[i]
          /\ job'[j].at = "ready" /\ job'[j].result = "exception" /\ job'[j].list = {}
          /\ job'[j].asset = job[j].asset
      BY <1>1, <1>2, <2>1, ReturnedIs
    <2>3. ListedOnce'
      BY <1>1, <2>2, ListsKept DEF Handed
    <2>4. Status(j) = "waiting" /\ Status(j)' = "exception"
      BY <1>2, <1>5, <2>2 DEF Status, Ready
    <2>5. \A i \in Jobs : i # j => Status(i)' = Status(i)
      BY <2>2 DEF Status, Ready
    <2>6. j \in Unlucky /\ j \notin Unlucky'
      BY <1>5, <2>4 DEF Unlucky, Refused
    <2>7. ASSUME NEW i \in Jobs, i # j PROVE i \in Unlucky' <=> i \in Unlucky
      <3>1. Status(i) = "waiting" => i \notin job[j].list
        BY <1>1, EndedIsOver
      <3>2. QED
        BY <1>5, <2>2, <2>5, <2>7, <3>1 DEF Unlucky, Refused
    <2>8. Unlucky' = Unlucky \ {j}
      BY <2>6, <2>7 DEF Unlucky
    <2>9. UNCHANGED [i \in Jobs |-> job[i].asset]
      BY <2>2
    <2>10. [i \in Jobs |-> Status(i)]' = [[i \in Jobs |-> Status(i)] EXCEPT ![j] = "exception"]
      BY <2>4, <2>5
    <2>11. Store!Refuse(j)
      BY <1>1, <2>4, <2>6, <2>8, <2>9, <2>10 DEF Store!Refuse, cached
    <2>12. QED
      BY <2>3, <2>11
  <1>6. QED
    BY <1>1, <1>4, <1>5

\* The list goes from the asset to the load that takes it.
LEMMA ResolveIs ==
    ASSUME IInv, ListedOnce, NEW j \in Jobs, NEW s \in {"resolving", "rejecting"}, Loading(j),
           Resolve(j, s)
    PROVE  /\ ListedOnce'
           /\ \A i \in Jobs : i # j => job'[i] = job[i]
           /\ job'[j].at = s /\ job'[j].list = waiting[job[j].asset]
           /\ job[j].at # "rejecting" /\ job[j].list = {}
           /\ \A i \in Jobs : Status(i)' = Status(i) /\ job'[i].asset = job[i].asset
           /\ waiting[job[j].asset] \cup {j} \subseteq Store!Waiters(job[j].asset)
           /\ job[j].asset \in pending /\ job[j].asset \in Assets
           /\ pending' = pending \ {job[j].asset} /\ UNCHANGED main
  <1> DEFINE k == job[j].asset
  <1>1. JobsTyped /\ CacheTyped /\ WaitersKnown
    BY InvParts
  <1>2. job[j].at \notin {"unborn", "suspended", "ready", "ended", "resolving", "rejecting"}
    BY DEF Loading
  <1>3. job[j].result = "none" /\ k \in Assets /\ k \in pending /\ job[j].list = {}
    BY <1>2, UnderWay, InvParts DEF OneLoad
  <1>4. /\ pending' = pending \ {k} /\ waiting' = [waiting EXCEPT ![k] = {}]
        /\ job' = [job EXCEPT ![j].at = s, ![j].list = waiting[k]] /\ UNCHANGED main
    BY DEF Resolve
  <1>5. /\ job'[j].at = s /\ job'[j].list = waiting[k] /\ job'[j].result = "none"
        /\ job'[j].asset = k
        /\ \A i \in Jobs : i # j => job'[i] = job[i]
    <2>1. job[j] \in JobRecord /\ DOMAIN job = Jobs
      BY <1>1 DEF JobsTyped
    <2>2. job'[j] = [job[j] EXCEPT !.at = s, !.list = waiting[k]]
      BY <1>4, <2>1
    <2>3. \A i \in Jobs : i # j => job'[i] = job[i]
      BY <1>4, <2>1
    <2>4. QED
      BY <1>3, <2>1, <2>2, <2>3 DEF JobRecord
  <1>6. \A i \in Jobs : Status(i)' = Status(i) /\ job'[i].asset = job[i].asset
    <2>1. Status(j) = "waiting" /\ Status(j)' = "waiting"
      BY <1>2, <1>3, <1>5 DEF Status, Ready
    <2>2. \A i \in Jobs : i # j => Status(i)' = Status(i)
      BY <1>5 DEF Status, Ready
    <2>3. QED
      BY <1>5, <2>1, <2>2
  <1>7. \A i \in waiting[k] : i \in Jobs /\ job[i].at = "suspended" /\ job[i].asset = k
    BY <1>1, <1>3 DEF ListedOnce, CacheTyped, WaitersKnown
  <1>8. waiting[k] \cup {j} \subseteq Store!Waiters(k)
    <2>1. ASSUME NEW i \in waiting[k] \cup {j} PROVE i \in Jobs /\ Status(i) = "waiting" /\ job[i].asset = k
      <3>1. i \in Jobs /\ job[i].asset = k /\ job[i].at \notin {"unborn", "ready", "ended"}
        BY <1>2, <1>7
      <3>2. QED
        BY <1>1, <3>1 DEF Status, Ready, JobsTyped
    <2>2. QED
      BY <2>1, SameSets DEF Store!Waiters
  <1>9. ListedOnce'
    <2>1. /\ \A l \in Assets : waiting'[l] = IF l = k THEN {} ELSE waiting[l]
          /\ \A l \in Assets : waiting[l] \subseteq Jobs
          /\ \A i \in Jobs : job[i].list \subseteq Jobs
      BY <1>1, <1>4 DEF CacheTyped, JobsTyped, JobRecord
    <2>2. \A l \in Assets : \A h \in waiting'[l] : job'[h].at = "suspended"
      <3>1. \A l \in Assets : \A h \in waiting[l] : h \in Jobs /\ h # j /\ job[h].at = "suspended"
        BY <1>2, <2>1 DEF ListedOnce
      <3>2. QED
        BY <1>5, <2>1, <3>1
    <2>3. ASSUME NEW i \in Jobs, NEW h \in job'[i].list
          PROVE  /\ job'[h].at \in Handed
                 /\ \A l \in Assets : h \notin waiting'[l]
                 /\ \A g \in Jobs : h \in job'[g].list => g = i
      <3>1. CASE i = j
        <4>1. h \in waiting[k] /\ h \in Jobs /\ h # j /\ job[h].at = "suspended"
          BY <1>2, <1>5, <1>7, <2>3, <3>1
        <4>2. \A l \in Assets : h \in waiting[l] => l = k
          BY <1>1, <1>3, <4>1 DEF WaitersKnown
        <4>3. \A g \in Jobs : h \notin job[g].list
          BY <1>3, <4>1 DEF ListedOnce
        <4>4. QED
          BY <1>5, <2>1, <3>1, <4>1, <4>2, <4>3 DEF Handed
      <3>2. CASE i # j
        <4>1. h \in job[i].list /\ h \in Jobs
          BY <1>5, <2>1, <2>3, <3>2
        <4>2. /\ job[h].at \in Handed
              /\ \A l \in Assets : h \notin waiting[l]
              /\ \A g \in Jobs : h \in job[g].list => g = i
          BY <4>1 DEF ListedOnce
        <4>3. h # j
          BY <1>2, <4>2 DEF Handed
        <4>4. h \notin job'[j].list
          BY <1>3, <1>5, <4>2
        <4>5. QED
          BY <1>5, <2>1, <4>1, <4>2, <4>3, <4>4
      <3>3. QED
        BY <3>1, <3>2
    <2>4. QED
      BY <2>2, <2>3 DEF ListedOnce
  <1>10. QED
    BY <1>2, <1>3, <1>4, <1>5, <1>6, <1>8, <1>9

LEMMA CacheMaps ==
    ASSUME IInv, ListedOnce, NEW j \in Jobs, cache_and_resolve_pending(j)
    PROVE  ListedOnce' /\ Store!Store(job[j].asset)
  <1> DEFINE k == job[j].asset
  <1>1. Loading(j) /\ Resolve(j, "resolving") /\ cache' = cache \cup {k}
    BY DEF cache_and_resolve_pending, Loaded, Loading
  <1>2. /\ ListedOnce'
        /\ \A i \in Jobs : i # j => job'[i] = job[i]
        /\ job'[j].at = "resolving" /\ job[j].at # "rejecting"
        /\ \A i \in Jobs : Status(i)' = Status(i) /\ job'[i].asset = job[i].asset
        /\ k \in pending /\ k \in Assets /\ pending' = pending \ {k} /\ UNCHANGED main
    BY <1>1, ResolveIs
  <1>3. k \in Models => TexturesOf[k] \subseteq cache
    BY InvParts DEF cache_and_resolve_pending, Loaded, IsModel, ResultsStored
  <1>4. Unlucky' = Unlucky
    BY <1>2, UnluckyStays
  <1>5. Store!Store(k)
    BY <1>1, <1>2, <1>3, <1>4 DEF Store!Store
  <1>6. QED
    BY <1>2, <1>5

LEMMA FailMaps ==
    ASSUME IInv, ListedOnce, NEW j \in Jobs, fail_and_resolve_pending(j)
    PROVE  ListedOnce' /\ Store!FailLoad(job[j].asset)
  <1> DEFINE k == job[j].asset
             W == waiting[k] \cup {j}
  <1>1. Loading(j) /\ Resolve(j, "rejecting") /\ UNCHANGED cache
    BY DEF fail_and_resolve_pending, Loading
  <1>2. /\ ListedOnce'
        /\ \A i \in Jobs : i # j => job'[i] = job[i]
        /\ job'[j].at = "rejecting" /\ job'[j].list = waiting[k]
        /\ job[j].at # "rejecting" /\ job[j].list = {}
        /\ \A i \in Jobs : Status(i)' = Status(i) /\ job'[i].asset = job[i].asset
        /\ W \subseteq Store!Waiters(k)
        /\ k \in pending /\ k \in Assets /\ pending' = pending \ {k} /\ UNCHANGED main
    BY <1>1, ResolveIs
  <1>3. \A i \in W : i \in Jobs /\ Status(i) = "waiting"
    BY <1>2, SameSets DEF Store!Waiters
  <1>4. Unlucky' = Unlucky \cup W
    <2>1. ASSUME NEW i \in Jobs PROVE Refused(i)' <=> Refused(i) \/ i \in W
      BY <1>2 DEF Refused
    <2>2. QED
      BY <1>2, <1>3, <2>1 DEF Unlucky
  <1>5. Store!FailLoad(k)
    BY <1>1, <1>2, <1>4 DEF Store!FailLoad
  <1>6. QED
    BY <1>2, <1>5

\* Jobs are made, and the others go on to another step at most.
LEMMA RequestMaps ==
    ASSUME IInv, ListedOnce, UNCHANGED <<cached, main>>, NEW S \in SUBSET Jobs, NEW what,
           \A i \in S : /\ job[i].at = "unborn" /\ job'[i].at = "queued"
                        /\ job'[i].result = "none" /\ job'[i].asset = what[i]
                        /\ job'[i].list = {},
           \A i \in Jobs : i \notin S =>
             \/ job'[i] = job[i]
             \/ /\ job[i].at = "loading" /\ job'[i].at = "parsed"
                /\ job'[i].result = job[i].result /\ job'[i].asset = job[i].asset
                /\ job'[i].list = job[i].list
    PROVE  ListedOnce' /\ Store!Request(S, what)
  <1>1. \A i \in S : Status(i) = "none" /\ Status(i)' = "waiting"
    BY DEF Status, Ready
  <1>2. \A i \in Jobs : i \notin S => Status(i)' = Status(i) /\ job'[i].asset = job[i].asset
    BY DEF Status, Ready
  <1>3. Unlucky' = Unlucky
    <2>1. \A i \in S : i \notin Unlucky /\ ~Refused(i)'
      <3>1. \A i \in S : \A g \in Jobs : i \notin job[g].list
        BY DEF ListedOnce, Handed
      <3>2. \A g \in Jobs : job'[g].list \subseteq job[g].list
        OBVIOUS
      <3>3. QED
        BY <1>1, <3>1, <3>2 DEF Unlucky, Refused
    <2>2. \A i \in Jobs : /\ job'[i].at = "rejecting" <=> job[i].at = "rejecting"
                          /\ job[i].at = "rejecting" => job'[i].list = job[i].list
      OBVIOUS
    <2>3. \A i \in Jobs : Refused(i)' <=> Refused(i)
      BY <2>2 DEF Refused
    <2>4. QED
      BY <1>2, <2>1, <2>3 DEF Unlucky
  <1>4. ListedOnce'
    <2>1. \A i \in Jobs : /\ job'[i].list \subseteq job[i].list
                          /\ job[i].at \in Handed => job'[i].at = job[i].at
      BY DEF Handed
    <2>2. QED
      BY <2>1, ListsKept DEF Handed
  <1>5. /\ [i \in Jobs |-> job[i].asset]' =
             [i \in Jobs |-> IF i \in S THEN what[i] ELSE [h \in Jobs |-> job[h].asset][i]]
        /\ [i \in Jobs |-> Status(i)]' =
             [i \in Jobs |-> IF i \in S THEN "waiting" ELSE [h \in Jobs |-> Status(h)][i]]
        /\ \A i \in S : [h \in Jobs |-> Status(h)][i] = "none"
    BY <1>1, <1>2
  <1>6. QED
    BY <1>3, <1>4, <1>5, SameSets DEF Store!Request, cached

LEMMA SubmitTexturesMaps ==
    ASSUME IInv, ListedOnce, NEW j \in Jobs, SubmitTextures(j)
    PROVE  ListedOnce' /\ Store!AskTextures(j)
  <1> DEFINE S == {<<j[1], t>> : t \in TexturesOf[job[j].asset]}
  <1>1. JobsTyped /\ KidsFollow /\ OneLoad
    BY InvParts
  <1>2. /\ job[j].at = "loading" /\ IsModel(j) /\ UNCHANGED <<cached, main>>
        /\ \A i \in Jobs : job'[i] = IF i = j THEN [job[j] EXCEPT !.at = "parsed", !.kids = S]
                                     ELSE IF i \in S THEN Started(i[2]) ELSE job[i]
    BY DEF SubmitTextures, Kid
  <1>3. job[j].result = "none" /\ job[j].asset \in pending
    BY <1>1, <1>2, UnderWay DEF OneLoad, Loading
  <1>4. PICK r \in Requests : j = <<r>>
    BY <1>2, ModelJobs
  <1>5. TexturesOf[job[j].asset] \subseteq Textures
    BY <1>2, AssetsAssumption DEF IsModel
  <1>6. ASSUME NEW i \in S
        PROVE  i \in Jobs /\ i # j /\ job[i].at = "unborn" /\ i[2] \in Assets
    <2>1. PICK t \in Textures : i = <<r, t>>
      BY <1>4, <1>5, JobFacts
    <2>2. QED
      BY <1>1, <1>2, <1>4, <2>1, JobFacts DEF KidsFollow, Early, Assets
  <1>7. /\ job'[j].at = "parsed" /\ job'[j].result = job[j].result
        /\ job'[j].asset = job[j].asset /\ job'[j].list = job[j].list
    <2>1. job[j] \in JobRecord
      BY <1>1 DEF JobsTyped
    <2>2. QED
      BY <1>2, <2>1 DEF JobRecord
  <1> DEFINE what == [h \in S |-> h[2]]
  <1>8. ASSUME NEW i \in S
        PROVE  /\ job[i].at = "unborn" /\ job'[i].at = "queued" /\ job'[i].result = "none"
               /\ job'[i].asset = what[i] /\ job'[i].list = {}
    <2>1. job'[i] = Started(i[2])
      BY <1>2, <1>6
    <2>2. what[i] = i[2]
      OBVIOUS
    <2>3. QED
      BY <1>6, <2>1, <2>2, StartedIs
  <1>9. \A i \in Jobs : i \notin S =>
          \/ job'[i] = job[i]
          \/ /\ job[i].at = "loading" /\ job'[i].at = "parsed"
             /\ job'[i].result = job[i].result /\ job'[i].asset = job[i].asset
             /\ job'[i].list = job[i].list
    BY <1>2, <1>7
  <1>10. S \in SUBSET Jobs
    BY <1>6
  <1>11. Status(j) = "waiting"
    BY <1>2, <1>3 DEF Status, Ready
  <1>12. /\ S = {<<j[1], t>> : t \in TexturesOf[[i \in Jobs |-> job[i].asset][j]]}
         /\ what = [h \in S |-> h[2]]
    OBVIOUS
  <1>13. UNCHANGED <<cached, main>>
    BY <1>2
  <1>14. [i \in Jobs |-> Status(i)][j] = "waiting"
    BY <1>11
  <1>15. [i \in Jobs |-> job[i].asset][j] \in pending \cap Models
    BY <1>2, <1>3 DEF IsModel
  <1> HIDE DEF S, what
  <1>16. PICK T \in SUBSET Jobs : T = S
    BY <1>10
  <1>17. PICK w : w = what
    OBVIOUS
  <1>18. /\ \A i \in T : /\ job[i].at = "unborn" /\ job'[i].at = "queued"
                        /\ job'[i].result = "none" /\ job'[i].asset = w[i]
                        /\ job'[i].list = {}
         /\ \A i \in Jobs : i \notin T =>
              \/ job'[i] = job[i]
              \/ /\ job[i].at = "loading" /\ job'[i].at = "parsed"
                 /\ job'[i].result = job[i].result /\ job'[i].asset = job[i].asset
                 /\ job'[i].list = job[i].list
    BY <1>8, <1>9, <1>16, <1>17
  <1>19. ListedOnce' /\ Store!Request(T, w)
    BY <1>13, <1>18, RequestMaps
  <1>20. Store!AskTextures(j)
    BY <1>12, <1>14, <1>15, <1>16, <1>17, <1>19
       DEF Store!AskTextures, Store!Request
  <1>21. QED
    BY <1>19, <1>20

LEMMA SubmitMaps ==
    ASSUME IInv, ListedOnce, NEW r \in Requests, NEW e \in Holders, NEW k \in Assets,
           Submit(r, e, k)
    PROVE  ListedOnce' /\ Store!Ask(<<r>>, k)
  <1>1. PICK j \in Jobs : j = <<r>>
    BY JobFacts
  <1>2. /\ main = "frame" /\ job[j].at = "unborn" /\ job' = [job EXCEPT ![j] = Started(k)]
        /\ UNCHANGED <<cached, main>>
    BY <1>1 DEF Submit, StartJob
  <1>3. \A i \in Jobs : job'[i] = IF i = j THEN Started(k) ELSE job[i]
    BY <1>2, InvParts DEF JobsTyped
  <1>4. /\ job'[j].at = "queued" /\ job'[j].result = "none" /\ job'[j].list = {}
        /\ job'[j].asset = k
    BY <1>3, StartedIs
  <1>5. ListedOnce' /\ Store!Request({j}, [i \in {j} |-> k])
    BY <1>2, <1>3, <1>4, RequestMaps
  <1>6. QED
    BY <1>1, <1>2, <1>5 DEF Store!Ask

LEMMA StillMaps ==
    ASSUME IInv, ListedOnce, UNCHANGED <<cached, job>>
    PROVE  /\ ListedOnce'
           /\ (main' = "done" <=> main = "done") => UNCHANGED Store!vars
  <1>1. ListedOnce'
    BY ListsKept
  <1>2. \A i \in Jobs : Status(i)' = Status(i)
    BY DEF Status, Ready
  <1>3. QED
    BY <1>1, <1>2, StoreStutters DEF cached

LEMMA UpdateMaps ==
    ASSUME IInv, ListedOnce, update
    PROVE  ListedOnce' /\ UNCHANGED Store!vars
  <1>1. JobsTyped /\ UNCHANGED <<cached, main>>
    BY InvParts DEF update
  <1>2. ASSUME NEW i \in Jobs
        PROVE  /\ job'[i].list = job[i].list /\ job'[i].asset = job[i].asset
               /\ job'[i].result = job[i].result
               /\ \/ job'[i].at = job[i].at
                  \/ job[i].at = "local" /\ job'[i].at = "joining"
    <2>1. job[i] \in JobRecord
      BY <1>1 DEF JobsTyped
    <2>2. job'[i] = IF job[i].at = "local" THEN [job[i] EXCEPT !.at = "joining"] ELSE job[i]
      BY DEF update, Local
    <2>3. QED
      BY <2>1, <2>2 DEF JobRecord
  <1>3. ListedOnce'
    BY <1>1, <1>2, ListsKept DEF Handed
  <1>4. \A i \in Jobs : Status(i)' = Status(i)
    BY <1>2 DEF Status, Ready
  <1>5. UNCHANGED Store!vars
    BY <1>1, <1>2, <1>4, StoreStutters DEF cached
  <1>6. QED
    BY <1>3, <1>5

\* Nothing is on its way when the destructor returns.
LEMMA DestroyMaps ==
    ASSUME IInv, ListedOnce, Destroy
    PROVE  ListedOnce' /\ Store!Close
  <1>1. /\ main = "destroying" /\ main' = "done" /\ InFlight = {}
        /\ UNCHANGED <<cached, job>>
    BY DEF Destroy
  <1>2. ListedOnce'
    BY <1>1, StillMaps
  <1>3. \A j \in Jobs : Status(j) # "waiting"
    BY <1>1, EndedIsOver DEF InFlight, Status
  <1>4. pending = {}
    <2>1. \A j \in Jobs : ~Loading(j)
      BY <1>1 DEF InFlight, Loading
    <2>2. QED
      BY <2>1, InvParts DEF OneLoad
  <1>5. \A i \in Jobs : Status(i)' = Status(i)
    BY <1>1 DEF Status, Ready
  <1>6. Unlucky' = Unlucky
    BY <1>1, <1>5, UnluckyStays
  <1>7. Store!Close
    BY <1>1, <1>3, <1>4, <1>5, <1>6, SameSets DEF Store!Close, cached
  <1>8. QED
    BY <1>2, <1>7

LEMMA StoreStepMaps ==
    ASSUME IInv, ListedOnce, [Next]_vars
    PROVE  ListedOnce' /\ [Store!Next]_(Store!vars)
  <1>1. ASSUME NEW j \in Jobs PROVE Store!Give(j) \/ Store!Refuse(j) \/ Store!AskTextures(j) => Store!Next
    BY SameSets DEF Store!Next
  <1>2. ASSUME NEW k \in Assets PROVE Store!Load(k) \/ Store!Store(k) \/ Store!FailLoad(k) => Store!Next
    BY SameSets DEF Store!Next
  <1>3. ASSUME NEW j \in Jobs, JobStep(j) PROVE ListedOnce' /\ [Store!Next]_(Store!vars)
    <2>1. CASE AwaitReady(j)
      BY <1>1, <2>1, AwaitReadyMaps
    <2>2. CASE AwaitSuspend(j)
      <3>1. job[j].asset \in Assets
        BY <2>2, UnderWay DEF AwaitSuspend
      <3>2. QED
        BY <1>1, <1>2, <2>2, <3>1, AwaitSuspendMaps
    <2>3. CASE SubmitTextures(j)
      BY <1>1, <2>3, SubmitTexturesMaps
    <2>4. CASE RescheduleToLocal(j) \/ Join(j)
      BY <2>4, LoadGoesOn
    <2>5. CASE cache_and_resolve_pending(j) \/ fail_and_resolve_pending(j)
      <3>1. job[j].asset \in Assets
        BY <2>5, UnderWay DEF cache_and_resolve_pending, fail_and_resolve_pending, Loaded
      <3>2. QED
        BY <1>2, <2>5, <3>1, CacheMaps, FailMaps
    <2>6. ASSUME NEW h \in Jobs, ResumeWithValue(j, h) PROVE ListedOnce' /\ [Store!Next]_(Store!vars)
      BY <1>1, <2>6, ResumeMaps
    <2>7. ASSUME NEW h \in Jobs, ResumeWithNull(j, h) PROVE ListedOnce' /\ [Store!Next]_(Store!vars)
      BY <2>7, StillMaps DEF ResumeWithNull
    <2>8. CASE Return(j)
      BY <1>1, <2>8, ReturnMaps
    <2>9. CASE FinalSuspend(j)
      BY <2>9, FinalSuspendMaps
    <2>10. QED
      BY <1>3, <2>1, <2>2, <2>3, <2>4, <2>5, <2>6, <2>7, <2>8, <2>9 DEF JobStep
  <1>4. ASSUME NEW j \in Jobs, Throw(j) PROVE ListedOnce' /\ [Store!Next]_(Store!vars)
    BY <1>4, LoadGoesOn
  <1>5. CASE MainStep
    <2>1. ASSUME NEW r \in Requests, NEW e \in Holders, NEW k \in Assets, Submit(r, e, k)
          PROVE  ListedOnce' /\ [Store!Next]_(Store!vars)
      BY <2>1, SubmitMaps, SameSets DEF Store!Next
    <2>2. ASSUME NEW e \in Holders, DestroyEntity(e) PROVE ListedOnce' /\ [Store!Next]_(Store!vars)
      BY <2>2, StillMaps DEF DestroyEntity
    <2>3. CASE Quit
      BY <2>3, StillMaps DEF Quit
    <2>4. CASE Destroy
      BY <2>4, DestroyMaps DEF Store!Next
    <2>5. QED
      BY <1>5, <2>1, <2>2, <2>3, <2>4, UpdateMaps DEF MainStep
  <1>6. CASE UNCHANGED vars
    BY <1>6, StillMaps DEF vars
  <1>7. QED
    BY <1>3, <1>4, <1>5, <1>6 DEF Next, Blocked

(***************************************************************************)
(* What those who ask see of the manager is what they are promised: no     *)
(* interleaving of requests, loads and failures gives someone an asset     *)
(* that is not stored, stores a model before its textures, loads for       *)
(* nobody, refuses who did not wait for a load that failed, or lets the    *)
(* manager go while somebody waits.                                        *)
(***************************************************************************)
THEOREM ManagerIsAStore == Spec => ImplementsStore
  <1>1. Init => Store!Init
    <2> SUFFICES ASSUME Init PROVE Store!Init
      OBVIOUS
    <2>1. \A j \in Jobs : job[j] = Unborn
      BY DEF Init
    <2>2. \A j \in Jobs : job[j].asset = "none" /\ Status(j) = "none"
      BY <2>1 DEF Unborn, Status
    <2>3. Unlucky = {}
      BY <2>2 DEF Unlucky
    <2>4. QED
      BY <2>2, <2>3, SameSets DEF Init, Store!Init
  <1>2. Init => ListedOnce
    <2> SUFFICES ASSUME Init PROVE ListedOnce
      OBVIOUS
    <2>1. \A j \in Jobs : job[j].list = {}
      BY DEF Init, Unborn
    <2>2. QED
      BY <2>1 DEF Init, ListedOnce
  <1>3. IInv /\ ListedOnce /\ [Next]_vars => ListedOnce'
    BY StoreStepMaps
  <1>4. IInv /\ ListedOnce /\ [Next]_vars => [Store!Next]_(Store!vars)
    BY StoreStepMaps
  <1>5. QED
    BY <1>1, <1>2, <1>3, <1>4, ManagerInvariant, PTL DEF Spec, ImplementsStore, Store!Spec

-----------------------------------------------------------------------------
(* Nobody is stranded: the safety half of EveryLoadEnds. *)

(***************************************************************************)
(* For whom j waits.  Who suspended waits for the load of his asset, or    *)
(* for the job that has his handle; a model for its textures; who resumes  *)
(* others for the one that runs.                                           *)
(***************************************************************************)
WaitsFor(j, i) ==
  \/ job[j].at = "suspended" /\ (j \in job[i].list \/ (Loading(i) /\ job[i].asset = job[j].asset))
  \/ job[j].at = "joining" /\ i \in job[j].kids /\ ~Ready(i)
  \/ job[j].at \in {"resolving", "rejecting"} /\ i \in job[j].list /\ job[i].at = "ready"

(* A job that can take a step by itself, or with the next frame. *)
CanGo(j) ==
  \/ job[j].at \in {"queued", "asked", "loading", "parsed", "loaded", "failing", "ready"}
  \/ job[j].at = "local" /\ main = "frame"
  \/ job[j].at = "joining" /\ \A i \in job[j].kids : Ready(i)
  \/ job[j].at \in {"resolving", "rejecting"} /\ \/ \A h \in job[j].list : job[h].at = "ended"
                                                 \/ \E h \in Jobs : NextToResume(j, h)

(* Its task is with the main thread, which runs no more frames. *)
LeftToMain(j) == job[j].at = "local" /\ main # "frame"

(* Models wait for textures, and who suspended for who did not. *)
Rank(j) == IF job[j].at = "ready" THEN 0
           ELSE (IF IsModel(j) THEN 3 ELSE 1) + (IF job[j].at = "suspended" THEN 1 ELSE 0)

(***************************************************************************)
(* Whoever is on the way can go on, or waits for another who is on the way *)
(* too and of a lower rank: no handle is forgotten in a list that nobody   *)
(* will resolve, and no two jobs wait for each other.                      *)
(***************************************************************************)
NobodyStranded ==
  \A j \in InFlight : \/ CanGo(j) \/ LeftToMain(j)
                      \/ \E i \in InFlight : WaitsFor(j, i) /\ Rank(i) < Rank(j)

\* A suspended job is not kept by its promise: a list has it.
\* The jobs of the textures that a model holds have been made.
Waited ==
  /\ \A j \in Jobs : job[j].at = "suspended" => ~job[j].owning
  /\ \A j \in Jobs : \A i \in job[j].kids : job[i].at # "unborn"

Well(j) ==
  /\ job[j].at # "unborn" => job'[j].at # "unborn"
  /\ job'[j].at = "suspended" => ~job'[j].owning \/ job'[j] = job[j]
  /\ \A i \in job'[j].kids : i \in job[j].kids \/ job'[i].at # "unborn"

LEMMA WellKept ==
    ASSUME JobsTyped, Waited, \A j \in Jobs : Well(j)
    PROVE  Waited'
  <1>1. \A j \in Jobs : job[j].kids \subseteq Jobs
    BY DEF JobsTyped, JobRecord
  <1>2. QED
    BY <1>1 DEF Waited, Well

LEMMA OneIsWell ==
    ASSUME NEW j \in Jobs, \A i \in Jobs : i # j => job'[i] = job[i],
           job'[j].at # "unborn", job'[j].kids \subseteq job[j].kids,
           job'[j].at = "suspended" => ~job'[j].owning
    PROVE  \A i \in Jobs : Well(i)
  BY DEF Well

\* A job returns, is marked, or fails.
LEMMA ChangedIsWell ==
    ASSUME JobsTyped, NEW j \in Jobs,
           NEW s \in Steps \ {"unborn"},
           \/ s # "suspended" /\ job' = [job EXCEPT ![j].at = s]
           \/ s # "suspended" /\ job' = [job EXCEPT ![j].at = s, ![j].kids = {}]
           \/ job' = [job EXCEPT ![j].at = s, ![j].owning = FALSE]
           \/ \E v : s # "suspended" /\ job' = [job EXCEPT ![j].at = s, ![j].list = v]
           \/ \E v : /\ s # "suspended"
                     /\ job' = [job EXCEPT ![j].at = s, ![j].result = v, ![j].list = {},
                                           ![j].kids = {}]
    PROVE  \A i \in Jobs : Well(i)
  <1>1. job[j] \in JobRecord /\ DOMAIN job = Jobs
    BY DEF JobsTyped
  <1>2. \A i \in Jobs : i # j => job'[i] = job[i]
    BY <1>1
  <1>3. /\ job'[j].at = s
        /\ job'[j].kids \subseteq job[j].kids
        /\ s = "suspended" => ~job'[j].owning
    <2>1. CASE s # "suspended" /\ job' = [job EXCEPT ![j].at = s]
      BY <1>1, <2>1 DEF JobRecord
    <2>2. CASE s # "suspended" /\ job' = [job EXCEPT ![j].at = s, ![j].kids = {}]
      BY <1>1, <2>2 DEF JobRecord
    <2>3. CASE job' = [job EXCEPT ![j].at = s, ![j].owning = FALSE]
      BY <1>1, <2>3 DEF JobRecord
    <2>4. ASSUME NEW v, s # "suspended", job' = [job EXCEPT ![j].at = s, ![j].list = v]
          PROVE  job'[j].at = s /\ job'[j].kids \subseteq job[j].kids
      BY <1>1, <2>4 DEF JobRecord
    <2>5. ASSUME NEW v, s # "suspended",
                 job' = [job EXCEPT ![j].at = s, ![j].result = v, ![j].list = {}, ![j].kids = {}]
          PROVE  job'[j].at = s /\ job'[j].kids \subseteq job[j].kids
      BY <1>1, <2>5 DEF JobRecord
    <2>6. QED
      BY <2>1, <2>2, <2>3, <2>4, <2>5
  <1>4. QED
    BY <1>2, <1>3, OneIsWell

LEMMA StepIsWell ==
    ASSUME IInv, NEW j \in Jobs, JobStep(j) \/ Throw(j)
    PROVE  \A i \in Jobs : Well(i)
  <1>1. JobsTyped
    BY InvParts
  <1>2. /\ {"ready", "asked", "loading", "suspended", "failing", "local", "loaded", "resolving",
            "rejecting", "ended"} \subseteq Steps \ {"unborn"}
        /\ {"asked", "loading", "local", "loaded"} \subseteq Steps \ {"unborn", "suspended"}
    BY DEF Steps
  <1>3. ASSUME NEW i \in Jobs, NEW v, job' = Returned(i, v) PROVE \A h \in Jobs : Well(h)
    BY <1>1, <1>2, <1>3, ChangedIsWell DEF Returned
  <1>4. ASSUME job' = Unwound(j) PROVE \A i \in Jobs : Well(i)
    BY <1>1, <1>2, <1>4, ChangedIsWell DEF Unwound
  <1>5. ASSUME NEW s \in Steps \ {"unborn", "suspended"}, job' = [job EXCEPT ![j].at = s]
        PROVE  \A i \in Jobs : Well(i)
    BY <1>1, <1>5, ChangedIsWell
  <1>6. ASSUME UNCHANGED job PROVE \A i \in Jobs : Well(i)
    BY <1>6 DEF Well
  <1>7. CASE AwaitReady(j)
    BY <1>2, <1>3, <1>5, <1>7 DEF AwaitReady
  <1>8. CASE AwaitSuspend(j)
    <2>1. CASE Found(j)
      BY <1>3, <2>1 DEF Found
    <2>2. CASE BecomeLoader(j)
      <3>1. job' = [job EXCEPT ![j].at = "loading"]
        BY <2>2 DEF BecomeLoader
      <3>2. QED
        BY <1>2, <1>5, <3>1
    <2>3. CASE JoinPending(j)
      BY <1>1, <1>2, <2>3, ChangedIsWell DEF JoinPending
    <2>4. QED
      BY <1>8, <2>1, <2>2, <2>3 DEF AwaitSuspend
  <1>9. CASE SubmitTextures(j)
    <2>1. PICK kids : /\ kids = {Kid(j, t) : t \in TexturesOf[job[j].asset]}
                      /\ job' = [i \in Jobs |->
                                   IF i = j THEN [job[j] EXCEPT !.at = "parsed", !.kids = kids]
                                   ELSE IF i \in kids THEN Started(i[2])
                                   ELSE job[i]]
      BY <1>9 DEF SubmitTextures
    <2>2. /\ job[j].at = "loading" /\ IsModel(j)
          /\ kids \subseteq Jobs
      <3>1. job[j].at = "loading" /\ IsModel(j)
        BY <1>9 DEF SubmitTextures
      <3>2. PICK r \in Requests : j = <<r>>
        BY <3>1, ModelJobs
      <3>3. TexturesOf[job[j].asset] \subseteq Textures
        BY <3>1, AssetsAssumption DEF IsModel
      <3>4. QED
        BY <2>1, <3>1, <3>2, <3>3, JobFacts DEF Kid
    <2>3. job'[j].at = "parsed" /\ job'[j].kids = kids
      <3>1. job[j] \in JobRecord /\ job'[j] = [job[j] EXCEPT !.at = "parsed", !.kids = kids]
        BY <1>1, <2>1 DEF JobsTyped
      <3>2. QED
        BY <3>1 DEF JobRecord
    <2>4. \A i \in kids : i # j => job'[i].at = "queued" /\ job'[i].kids = {}
      BY <2>1, <2>2 DEF Started, Unborn
    <2>5. \A i \in Jobs : i # j /\ i \notin kids => job'[i] = job[i]
      BY <2>1
    <2>6. QED
      BY <2>2, <2>3, <2>4, <2>5 DEF Well
  <1>10. CASE RescheduleToLocal(j)
    <2>1. job' = [job EXCEPT ![j].at = "local"]
      BY <1>10 DEF RescheduleToLocal
    <2>2. QED
      BY <1>2, <1>5, <2>1
  <1>11. CASE Join(j)
    BY <1>1, <1>2, <1>4, <1>11, ChangedIsWell DEF Join
  <1>12. ASSUME NEW s \in {"resolving", "rejecting"}, Resolve(j, s)
         PROVE  \A i \in Jobs : Well(i)
    BY <1>1, <1>2, <1>12, ChangedIsWell DEF Resolve
  <1>13. CASE cache_and_resolve_pending(j) \/ fail_and_resolve_pending(j)
    BY <1>12, <1>13 DEF cache_and_resolve_pending, fail_and_resolve_pending
  <1>14. ASSUME NEW h \in Jobs, ResumeWithValue(j, h) \/ ResumeWithNull(j, h)
         PROVE  \A i \in Jobs : Well(i)
    BY <1>3, <1>6, <1>14 DEF ResumeWithValue, ResumeWithNull
  <1>15. CASE Return(j)
    BY <1>3, <1>15 DEF Return
  <1>16. CASE FinalSuspend(j)
    BY <1>1, <1>2, <1>16, ChangedIsWell DEF FinalSuspend
  <1>17. CASE Throw(j)
    BY <1>4, <1>17 DEF Throw
  <1>18. QED
    BY <1>7, <1>8, <1>9, <1>10, <1>11, <1>13, <1>14, <1>15, <1>16, <1>17 DEF JobStep

LEMMA WaitedKept == IInv /\ Waited /\ [Next]_vars => Waited'
  <1> SUFFICES ASSUME IInv, Waited, [Next]_vars PROVE Waited'
    OBVIOUS
  <1>1. JobsTyped
    BY InvParts
  <1>2. CASE UNCHANGED job
    BY <1>2 DEF Waited
  <1>3. ASSUME NEW j \in Jobs, JobStep(j) \/ Throw(j) PROVE Waited'
    BY <1>1, <1>3, StepIsWell, WellKept
  <1>4. ASSUME NEW r \in Requests, NEW e \in Holders, NEW k \in Assets, Submit(r, e, k)
        PROVE  Waited'
    <2>1. <<r>> \in Jobs /\ job' = [job EXCEPT ![<<r>>] = Started(k)]
      BY <1>4, JobFacts DEF Submit, StartJob
    <2>2. \A i \in Jobs : job'[i] = IF i = <<r>> THEN Started(k) ELSE job[i]
      BY <1>1, <2>1 DEF JobsTyped
    <2>3. Started(k).at = "queued" /\ Started(k).kids = {}
      BY DEF Started, Unborn
    <2>4. \A i \in Jobs : Well(i)
      BY <2>2, <2>3 DEF Well
    <2>5. QED
      BY <1>1, <2>4, WellKept
  <1>5. CASE update
    <2>1. ASSUME NEW i \in Jobs
          PROVE  job'[i] = job[i] \/ (job'[i].at = "joining" /\ job'[i].kids = job[i].kids)
      <3>1. job[i] \in JobRecord
        BY <1>1 DEF JobsTyped
      <3>2. job'[i] = job[i] \/ job'[i] = [job[i] EXCEPT !.at = "joining"]
        BY <1>5 DEF update
      <3>3. QED
        BY <3>1, <3>2 DEF JobRecord
    <2>2. \A i \in Jobs : Well(i)
      BY <2>1 DEF Well
    <2>3. QED
      BY <1>1, <2>2, WellKept
  <1>6. QED
    BY <1>2, <1>3, <1>4, <1>5 DEF Next, Blocked, MainStep, DestroyEntity, Quit, Destroy, vars

LEMMA StrandedNever ==
    ASSUME IInv, ListedOnce, Waited
    PROVE  NobodyStranded
  <1> SUFFICES ASSUME NEW j \in InFlight, ~CanGo(j), ~LeftToMain(j)
               PROVE  \E i \in InFlight : WaitsFor(j, i) /\ Rank(i) < Rank(j)
    BY DEF NobodyStranded
  <1>1. JobsTyped /\ CacheTyped /\ WaitersKnown /\ ListsResolved /\ Owned /\ OneLoad /\ ResultsStored
        /\ KidsFollow
    BY InvParts
  <1>2. j \in Jobs /\ job[j].at \notin {"unborn", "ended"} /\ job[j] \in JobRecord
    BY <1>1 DEF InFlight, JobsTyped
  <1>3. job[j].at \in {"suspended", "joining", "resolving", "rejecting"}
    BY <1>2, <1>1 DEF CanGo, LeftToMain, MainTyped, JobRecord, Steps
  <1>4. ASSUME NEW i \in Jobs
        PROVE  Rank(i) = IF job[i].at = "ready" THEN 0
                         ELSE IF IsModel(i) THEN IF job[i].at = "suspended" THEN 4 ELSE 3
                              ELSE IF job[i].at = "suspended" THEN 2 ELSE 1
    BY DEF Rank
  <1>5. CASE job[j].at = "suspended"
    <2>1. PICK i \in Jobs : /\ j \in job[i].list \/ (Loading(i) /\ job[i].asset = job[j].asset)
                            /\ job[i].asset = job[j].asset
                            /\ job[i].at \notin {"unborn", "suspended", "ready", "ended"}
      <3>1. ~job[j].owning
        BY <1>2, <1>5 DEF Waited
      <3>2. Listed(j)
        BY <1>1, <3>1 DEF Owned
      <3>3. CASE \E i \in Jobs : j \in job[i].list
        <4>1. PICK i \in Jobs : j \in job[i].list
          BY <3>3
        <4>2. job[i].asset = job[j].asset /\ job[i].at \in {"resolving", "rejecting"}
          BY <1>1, <4>1 DEF WaitersKnown, ListsResolved
        <4>3. QED
          BY <4>1, <4>2
      <3>4. CASE \E k \in Assets : j \in waiting[k]
        <4>1. PICK k \in Assets : j \in waiting[k]
          BY <3>4
        <4>2. job[j].asset = k /\ k \in pending
          BY <1>1, <4>1 DEF WaitersKnown, OneLoad
        <4>3. PICK i \in Jobs : Loading(i) /\ job[i].asset = k
          BY <1>1, <4>2 DEF OneLoad
        <4>4. QED
          BY <4>2, <4>3 DEF Loading
      <3>5. QED
        BY <3>2, <3>3, <3>4 DEF Listed
    <2>2. i \in InFlight /\ WaitsFor(j, i)
      BY <1>5, <2>1 DEF InFlight, WaitsFor
    <2>3. IsModel(i) <=> IsModel(j)
      BY <2>1 DEF IsModel
    <2>4. Rank(i) < Rank(j)
      BY <1>2, <1>4, <1>5, <2>1, <2>3
    <2>5. QED
      BY <2>2, <2>4
  <1>6. CASE job[j].at = "joining"
    <2>1. PICK i \in job[j].kids : ~Ready(i)
      BY <1>6 DEF CanGo
    <2>2. IsModel(j) /\ job[j].kids = KidsOf(j) /\ i \in Jobs
      BY <1>1, <1>2, <1>6 DEF ResultsStored, JobRecord
    <2>3. job[i].at # "unborn"
      BY <1>2, <2>1 DEF Waited
    <2>4. i \in InFlight
      BY <1>1, <2>1, <2>2, <2>3 DEF InFlight, Ready, JobsTyped
    <2>5. PICK r \in Requests : j = <<r>>
      BY <1>2, <2>2, ModelJobs
    <2>6. PICK t \in Textures : i = <<r, t>>
      BY <2>1, <2>2, <2>5, JobFacts, AssetsAssumption DEF KidsOf, Kid, IsModel
    <2>7. ~IsModel(i)
      BY <1>1, <2>3, <2>6, AssetsAssumption DEF KidsFollow, IsModel
    <2>8. Rank(i) < Rank(j)
      BY <1>2, <1>4, <1>6, <2>2, <2>7
    <2>9. QED
      BY <1>6, <2>1, <2>4, <2>8 DEF WaitsFor
  <1>7. CASE job[j].at \in {"resolving", "rejecting"}
    <2>1. PICK h \in job[j].list : job[h].at # "ended"
      BY <1>7 DEF CanGo
    <2>2. h \in Jobs /\ job[j].list \subseteq Jobs
      BY <1>2 DEF JobRecord
    <2>3. PICK i \in job[j].list : job[i].at = "ready"
      <3>1. job[h].at \in {"suspended", "ready"}
        BY <1>2, <2>1 DEF ListedOnce, Handed
      <3>2. QED
        BY <1>7, <2>1, <2>2, <3>1 DEF CanGo, NextToResume
    <2>4. i \in InFlight
      BY <2>2, <2>3 DEF InFlight
    <2>5. Rank(i) < Rank(j)
      BY <1>2, <1>4, <1>7, <2>2, <2>3
    <2>6. QED
      BY <1>7, <2>3, <2>4, <2>5 DEF WaitsFor
  <1>8. QED
    BY <1>3, <1>5, <1>6, <1>7

(***************************************************************************)
(* A job of the asset manager never waits in vain: who joined a load that  *)
(* was pending is in its list until it is resolved, and a model that is    *)
(* loaded waits for nobody who waits for a model.  Only a model whose task *)
(* is left with a main thread that runs no more frames does not go on.     *)
(***************************************************************************)
THEOREM NoLoadIsStranded == Spec => []NobodyStranded
  <1>1. Init => ListedOnce /\ Waited
    <2> SUFFICES ASSUME Init PROVE ListedOnce /\ Waited
      OBVIOUS
    <2>1. \A j \in Jobs : job[j].list = {} /\ job[j].kids = {} /\ job[j].at = "unborn"
      BY DEF Init, Unborn
    <2>2. QED
      BY <2>1 DEF Init, ListedOnce, Waited
  <1>2. IInv /\ ListedOnce /\ [Next]_vars => ListedOnce'
    BY StoreStepMaps
  <1>3. IInv /\ Waited /\ [Next]_vars => Waited'
    BY WaitedKept
  <1>4. IInv /\ ListedOnce /\ Waited => NobodyStranded
    BY StrandedNever
  <1>5. QED
    BY <1>1, <1>2, <1>3, <1>4, ManagerInvariant, PTL DEF Spec

=============================================================================
