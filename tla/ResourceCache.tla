---------------------------- MODULE ResourceCache ---------------------------
(***************************************************************************)
(* What ResourceLoader promises to whoever requests a resource: what it is *)
(* given is published, and is what it asked for; a request that cannot be  *)
(* answered waits; a resource is loaded only for someone who waits for it, *)
(* by one load at a time, and once if its loader publishes it complete;    *)
(* the epochs of a load only grow, and it ends with the final one or fails *)
(* before the first; and only those who waited for it when it failed are   *)
(* given the exception.                                                    *)
(***************************************************************************)
EXTENDS Naturals

CONSTANTS
  Tasks,        \* those who request resources
  UUIDs,        \* the resources
  Incremental,  \* those that may be published in parts
  FinalEpoch    \* the epoch of a complete resource

VARIABLES
  epoch,    \* what is published of each resource, NullEpoch if nothing
  loading,  \* the resources being loaded
  request,  \* the latest request of each task
  status,   \* what became of it
  unlucky   \* those who waited for a load that failed

vars == <<epoch, loading, request, status, unlucky>>

NullEpoch == 0

Init ==
  /\ epoch = [u \in UUIDs |-> NullEpoch]
  /\ loading = {}
  /\ request \in [Tasks -> [uuid: UUIDs, only_final: {TRUE}, epoch: {NullEpoch}]]
  /\ status = [t \in Tasks |-> "idle"]
  /\ unlucky = {}

\* What is published of the resource is new to r, and complete if r asks for that.
Wanted(r) ==
  LET e == epoch[r.uuid] IN
  e # NullEpoch /\ IF r.only_final THEN e = FinalEpoch ELSE e > r.epoch

Given(r) == IF r.only_final THEN r ELSE [r EXCEPT !.epoch = epoch[r.uuid]]

\* t requests r: it is answered at once if the resource is there, and waits if not.
Request(t, r) ==
  /\ status' = [status EXCEPT ![t] = IF Wanted(r) THEN "got" ELSE "waiting"]
  /\ request' = [request EXCEPT ![t] = IF Wanted(r) THEN Given(r) ELSE r]
  /\ UNCHANGED <<epoch, loading, unlucky>>

Ask(t, u, f) ==
  /\ status[t] # "waiting"
  /\ Request(t, [uuid |-> u, only_final |-> f, epoch |-> NullEpoch])

AskNext(t) ==
  /\ status[t] = "got"
  /\ ~request[t].only_final
  /\ request[t].epoch # FinalEpoch
  /\ Request(t, request[t])

Answer(t) ==
  /\ status[t] = "waiting"
  /\ t \notin unlucky
  /\ Wanted(request[t])
  /\ Request(t, request[t])

Waiters(u) == {t \in Tasks : status[t] = "waiting" /\ request[t].uuid = u}

\* Parts of a resource can be loaded again by a request that came between two of them.
Load(u) ==
  /\ u \notin loading
  /\ Waiters(u) # {}
  /\ u \notin Incremental => epoch[u] = NullEpoch
  /\ loading' = loading \cup {u}
  /\ UNCHANGED <<epoch, request, status, unlucky>>

Publish(u, e) ==
  /\ u \in loading
  /\ e \in {epoch[u] + 1, FinalEpoch}
  /\ epoch[u] < e
  /\ u \notin Incremental => e = FinalEpoch
  /\ epoch' = [epoch EXCEPT ![u] = e]
  /\ UNCHANGED <<loading, request, status, unlucky>>

Finish(u) ==
  /\ u \in loading
  /\ epoch[u] = FinalEpoch
  /\ loading' = loading \ {u}
  /\ UNCHANGED <<epoch, request, status, unlucky>>

FailLoad(u) ==
  /\ u \in loading
  /\ epoch[u] = NullEpoch
  /\ loading' = loading \ {u}
  /\ \E W \in SUBSET Waiters(u) : unlucky' = unlucky \cup W
  /\ UNCHANGED <<epoch, request, status>>

Fail(t) ==
  /\ t \in unlucky
  /\ status[t] = "waiting"
  /\ unlucky' = unlucky \ {t}
  /\ status' = [status EXCEPT ![t] = "failed"]
  /\ UNCHANGED <<epoch, loading, request>>

Next ==
  \/ \E t \in Tasks, u \in UUIDs, f \in BOOLEAN : Ask(t, u, f)
  \/ \E t \in Tasks : AskNext(t) \/ Answer(t) \/ Fail(t)
  \/ \E u \in UUIDs : Load(u) \/ Finish(u) \/ FailLoad(u)
  \/ \E u \in UUIDs, e \in 1..FinalEpoch : Publish(u, e)

Spec == Init /\ [][Next]_vars

=============================================================================
