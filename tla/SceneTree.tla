----------------------------- MODULE SceneTree -----------------------------
(***************************************************************************)
(* What the scene graph promises: every entity has a list of children, and *)
(* is in one list at most, until it is broken: from then on, nothing.      *)
(***************************************************************************)
EXTENDS Naturals, Sequences, SequencesExt

CONSTANT Entities

VARIABLES
  alive,    \* the entities of the registry
  children, \* the children of each, the last attached first
  broken    \* whether the lists cannot be relied on any more

vars == <<alive, children, broken>>

IsChild(e) == \E p \in Entities : e \in ToSet(children[p])

Init == alive = {} /\ children = [e \in Entities |-> <<>>] /\ broken = FALSE

Create(E) ==
  /\ E \cap alive = {}
  /\ alive' = alive \cup E
  /\ UNCHANGED children

Attach(p, s) ==
  /\ p \in alive /\ ToSet(s) \subseteq alive \ {p}
  /\ \A e \in ToSet(s) : ~IsChild(e)
  /\ children' = [children EXCEPT ![p] = Reverse(s) \o @]
  /\ UNCHANGED alive

\* The i-th child of p.
Detach(p, i) ==
  /\ children' = [children EXCEPT ![p] = RemoveAt(@, i)]
  /\ UNCHANGED alive

DetachAll(p) ==
  /\ children[p] # <<>>
  /\ children' = [children EXCEPT ![p] = <<>>]
  /\ UNCHANGED alive

\* What is destroyed takes no part in the tree any more.
Destroy(E) ==
  /\ E \subseteq alive
  /\ \A e \in E : ~\E p \in Entities \ E : e \in ToSet(children[p])
  /\ \A e \in E : ToSet(children[e]) \subseteq E
  /\ alive' = alive \ E
  /\ children' = [p \in Entities |-> IF p \in E THEN <<>> ELSE children[p]]

Change ==
  \/ \E E \in SUBSET Entities : Create(E) \/ Destroy(E)
  \/ \E E \in SUBSET Entities : \E s \in SetToSeqs(E), p \in Entities : Attach(p, s)
  \/ \E p \in Entities : DetachAll(p) \/ \E i \in DOMAIN children[p] : Detach(p, i)

Break == broken' = TRUE

Next == ~broken /\ ((Change /\ UNCHANGED broken) \/ Break)

Spec == Init /\ [][Next]_vars

=============================================================================
