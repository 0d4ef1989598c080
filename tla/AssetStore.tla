----------------------------- MODULE AssetStore -----------------------------
(***************************************************************************)
(* What AssetManager promises to those who ask for an asset: who asks is   *)
(* given it once it is stored, or refused it because a load that they      *)
(* waited for failed; an asset is loaded for someone who asks, by one load *)
(* at a time and never again once it is stored, and a model is stored      *)
(* after its textures, which are asked for like anything else; the manager *)
(* goes when nobody waits and nothing is on its way.                       *)
(***************************************************************************)
CONSTANTS
  Requests,         \* <<r>> asks for an asset, <<r, t>> for a texture of its model
  Textures, Models,
  TexturesOf        \* the textures that a model needs

VARIABLES
  stored,   \* the assets that are there
  loading,  \* those being loaded
  asset,    \* what each job asks for
  status,   \* what became of it
  unlucky,  \* those who wait for a load that failed
  closed    \* the manager is gone

vars == <<stored, loading, asset, status, unlucky, closed>>

Assets == Textures \cup Models
Jobs   == {<<r>> : r \in Requests} \cup (Requests \X Textures)

Init ==
  /\ stored = {} /\ loading = {}
  /\ asset = [j \in Jobs |-> "none"]
  /\ status = [j \in Jobs |-> "none"]
  /\ unlucky = {}
  /\ closed = FALSE

\* All of S ask for the first time, each for what[j].
Request(S, what) ==
  /\ \A j \in S : status[j] = "none"
  /\ asset' = [j \in Jobs |-> IF j \in S THEN what[j] ELSE asset[j]]
  /\ status' = [j \in Jobs |-> IF j \in S THEN "waiting" ELSE status[j]]
  /\ UNCHANGED <<stored, loading, unlucky, closed>>

Ask(j, k) == ~closed /\ Request({j}, [i \in {j} |-> k])

\* A model that is being loaded asks for its textures.
AskTextures(j) ==
  LET S == {<<j[1], t>> : t \in TexturesOf[asset[j]]} IN
  /\ status[j] = "waiting"
  /\ asset[j] \in loading \cap Models
  /\ Request(S, [i \in S |-> i[2]])

Waiters(k) == {j \in Jobs : status[j] = "waiting" /\ asset[j] = k}

Load(k) ==
  /\ k \notin stored \cup loading
  /\ Waiters(k) # {}
  /\ loading' = loading \cup {k}
  /\ UNCHANGED <<stored, asset, status, unlucky, closed>>

Store(k) ==
  /\ k \in loading
  /\ k \in Models => TexturesOf[k] \subseteq stored
  /\ stored' = stored \cup {k}
  /\ loading' = loading \ {k}
  /\ UNCHANGED <<asset, status, unlucky, closed>>

FailLoad(k) ==
  /\ k \in loading
  /\ loading' = loading \ {k}
  /\ \E W \in SUBSET Waiters(k) : unlucky' = unlucky \cup W
  /\ UNCHANGED <<stored, asset, status, closed>>

Give(j) ==
  /\ status[j] = "waiting"
  /\ j \notin unlucky
  /\ asset[j] \in stored
  /\ status' = [status EXCEPT ![j] = "value"]
  /\ UNCHANGED <<stored, loading, asset, unlucky, closed>>

Refuse(j) ==
  /\ status[j] = "waiting"
  /\ j \in unlucky
  /\ unlucky' = unlucky \ {j}
  /\ status' = [status EXCEPT ![j] = "exception"]
  /\ UNCHANGED <<stored, loading, asset, closed>>

Close ==
  /\ ~closed
  /\ loading = {}
  /\ \A j \in Jobs : status[j] # "waiting"
  /\ closed' = TRUE
  /\ UNCHANGED <<stored, loading, asset, status, unlucky>>

Next ==
  \/ \E r \in Requests, k \in Assets : Ask(<<r>>, k)
  \/ \E j \in Jobs : AskTextures(j) \/ Give(j) \/ Refuse(j)
  \/ \E k \in Assets : Load(k) \/ Store(k) \/ FailLoad(k)
  \/ Close

Spec == Init /\ [][Next]_vars

=============================================================================
