----------------------------- MODULE SceneGraph -----------------------------
(***************************************************************************)
(* SceneGraph and ObjectLifecycle: the tree of a scene, kept in two        *)
(* components.  An entity AsParent has its first child and their number,   *)
(* an entity AsChild its parent and its neighbours in a doubly linked      *)
(* list.  The functions that change the links are operators on the graph;  *)
(* what the main thread does (the scene list, the importers, the           *)
(* unpackers) is a list of their calls, one taken by each step.            *)
(*                                                                         *)
(* Tags are left out, but for MarkedForDestruction: an import that is left *)
(* by an exception leaves it on entities that it created, and they wait    *)
(* for whoever sweeps next.                                                *)
(***************************************************************************)
EXTENDS Naturals, Sequences, FiniteSets, SequencesExt

CONSTANTS
  Entities,
  null,    \* entt::null
  MaxNew,  \* the entities that one import creates, at most
  MaxLeft, \* the marked entities that imports leave behind, at most
  MaxJobs  \* the jobs that wait to unpack a scene, at most

ASSUME SceneAssumption == /\ IsFiniteSet(Entities)
                          /\ null \notin Entities
                          /\ {MaxNew, MaxLeft, MaxJobs} \subseteq Nat

VARIABLES
  alive,     \* the entities of the registry
  graph,     \* the components AsChild and AsParent of every entity
  marked,    \* MarkedForDestruction, on an entity that no one is destroying
  unpacking, \* the handles that jobs of unpack_scene() hold while they wait
  calls,     \* what the main thread is still to call
  fault      \* what makes the rest undefined, or fails an assertion

vars == <<alive, graph, marked, unpacking, calls, fault>>

Faults == {"none", "marked twice", "swept", "gone"}

\* An entity that has not the component.
NoChild  == [parent |-> null, next |-> null, prev |-> null]
NoParent == [num |-> 0, first |-> null]

Graphs == [child: [Entities -> [parent: Entities \cup {null}, next: Entities \cup {null},
                                prev: Entities \cup {null}]],
           parent: [Entities -> [num: Nat, first: Entities \cup {null}]]]

HasParent(g, e)   == g.child[e] # NoChild
HasChildren(g, e) == g.parent[e] # NoParent
ChildrenOf(g, p)  == {c \in Entities : g.child[c].parent = p}

\* What the traversals visit: all that is reached from e by child lists, and
\* all that is reached from c by `next`.
Subtree(g, e) ==
  {d \in Entities : \A S \in SUBSET Entities :
     e \in S /\ (\A s \in S : ChildrenOf(g, s) \subseteq S) => d \in S}
Listed(g, c) ==
  {d \in Entities : \A S \in SUBSET Entities :
     (c \in S \cup {null}) /\ (\A s \in S : g.child[s].next \in S \cup {null}) => d \in S}

Init ==
  /\ alive = {}
  /\ graph = [child |-> [e \in Entities |-> NoChild], parent |-> [e \in Entities |-> NoParent]]
  /\ marked = {} /\ unpacking = {}
  /\ calls = <<>> /\ fault = "none"

-----------------------------------------------------------------------------
(* SceneGraph.hpp *)

\* Mutant: a range of children counts as one child.
AttachCountsOnce(g, p, s) ==
  LET head  == g.parent[p].first
      at(e) == CHOOSE i \in DOMAIN s : s[i] = e
  IN
  [child |-> [e \in Entities |->
     IF e \in ToSet(s)
     THEN [parent |-> p,
           next   |-> IF at(e) = 1 THEN head ELSE s[at(e) - 1],
           prev   |-> IF at(e) = Len(s) THEN null ELSE s[at(e) + 1]]
     ELSE IF e = head /\ s # <<>> THEN [g.child[e] EXCEPT !.prev = s[1]]
     ELSE g.child[e]],
   parent |-> IF s = <<>> THEN g.parent
              ELSE [g.parent EXCEPT ![p] = [num |-> @.num + 1, first |-> s[Len(s)]]]]

\* attach_children(), and attach_child() when there is one: each is put in
\* front of the one before.
AttachChildren(g, p, s) ==
  LET head  == g.parent[p].first
      at(e) == CHOOSE i \in DOMAIN s : s[i] = e
  IN
  [child |-> [e \in Entities |->
     IF e \in ToSet(s)
     THEN [parent |-> p,
           next   |-> IF at(e) = 1 THEN head ELSE s[at(e) - 1],
           prev   |-> IF at(e) = Len(s) THEN null ELSE s[at(e) + 1]]
     ELSE IF e = head /\ s # <<>> THEN [g.child[e] EXCEPT !.prev = s[1]]
     ELSE g.child[e]],
   parent |-> IF s = <<>> THEN g.parent
              ELSE [g.parent EXCEPT ![p] = [num |-> @.num + Len(s), first |-> s[Len(s)]]]]

\* Mutant: the next sibling becomes the first, whoever comes before.
DetachAsFirst(g, c) ==
  LET link == g.child[c] IN
  [child |-> [e \in Entities |->
     IF e = c THEN NoChild
     ELSE [g.child[e] EXCEPT !.prev = IF e = link.next THEN link.prev ELSE @,
                             !.next = IF e = link.prev THEN link.next ELSE @]],
   parent |-> [g.parent EXCEPT ![link.parent] =
     IF @.num = 1 THEN NoParent
     ELSE [num |-> @.num - 1, first |-> IF link.next # null THEN link.next ELSE @.first]]]

\* detach_from_parent()
Detach(g, c) ==
  LET link == g.child[c] IN
  [child |-> [e \in Entities |->
     IF e = c THEN NoChild
     ELSE [g.child[e] EXCEPT !.prev = IF e = link.next THEN link.prev ELSE @,
                             !.next = IF e = link.prev THEN link.next ELSE @]],
   parent |-> [g.parent EXCEPT ![link.parent] =
     IF @.num = 1 THEN NoParent
     ELSE [num |-> @.num - 1, first |-> IF link.prev = null THEN link.next ELSE @.first]]]

DetachAll(g, p) ==
  [child  |-> [e \in Entities |->
                 IF e \in Listed(g, g.parent[p].first) THEN NoChild ELSE g.child[e]],
   parent |-> [g.parent EXCEPT ![p] = NoParent]]

\* registry.destroy(): the components go with the entities.
Destroyed(g, E) ==
  [child  |-> [e \in Entities |-> IF e \in E THEN NoChild ELSE g.child[e]],
   parent |-> [e \in Entities |-> IF e \in E THEN NoParent ELSE g.parent[e]]]

-----------------------------------------------------------------------------
(* The calls *)

\* The functions that the main thread calls, some only on a condition.
Call(fun, p, s, E)  == [fun |-> fun, entity |-> p, list |-> s, set |-> E]
AttachCall(p, s)    == Call("attach", p, s, {})
AttachIfRoot(p, c)  == Call("attach_if_root", p, <<c>>, {})
DetachIfChild(c)    == Call("detach", c, <<>>, {})
DetachAllIfParent(p) == Call("detach_all", p, <<>>, {})
DestroyCall(E)      == Call("destroy", null, <<>>, E)
SweepCall(E)        == Call("sweep", null, <<>>, E)

DetachAllOf(s) == [i \in DOMAIN s |-> DetachIfChild(s[i])]

\* One after another, from its parent and then from its children.
IsolateAllOf(s) ==
  [i \in 1..2 * Len(s) |-> LET e == s[(i + 1) \div 2] IN
                           IF i % 2 = 1 THEN DetachIfChild(e) ELSE DetachAllIfParent(e)]

\* The scene list shows what is reached from an entity without a parent.
Displayed == UNION {Subtree(graph, r) : r \in {e \in alive : ~HasParent(graph, e)}}

Idle        == calls = <<>> /\ fault = "none"
Begin(todo) == Idle /\ calls' = todo /\ UNCHANGED <<graph, fault>>
Fail(what)  == Idle /\ fault' = what /\ UNCHANGED <<graph, calls>>

\* A handle has the version of its entity: what a job still holds is not
\* created again.
New(E) == E \cap (alive \cup unpacking) = {} /\ alive' = alive \cup E

CreateNode(e) == New({e}) /\ Begin(<<>>) /\ UNCHANGED <<marked, unpacking>>

DetachFromParent(t) ==
  /\ HasParent(graph, t)
  /\ Begin(<<DetachIfChild(t)>>)
  /\ UNCHANGED <<alive, marked, unpacking>>

\* Mutant: the target is not taken out of the selection.
AttachSelectedAndTarget(t, s) ==
  /\ ToSet(s) \subseteq alive
  /\ Begin(DetachAllOf(s) \o <<AttachCall(t, s)>>)
  /\ UNCHANGED <<alive, marked, unpacking>>

\* s is the order in which the view of the selected shows them.
AttachSelected(t, s) ==
  /\ ToSet(s) \subseteq alive \ {t}
  /\ Begin(DetachAllOf(s) \o <<AttachCall(t, s)>>)
  /\ UNCHANGED <<alive, marked, unpacking>>

\* destroy_subtree(): who has the mark already cannot be marked.
DestroySubtree(t) ==
  /\ HasChildren(graph, t)
  /\ IF Subtree(graph, t) \cap marked = {}
     THEN Begin(<<DetachIfChild(t), SweepCall(Subtree(graph, t))>>)
     ELSE Fail("marked twice")
  /\ UNCHANGED <<alive, marked, unpacking>>

\* Mutant: the children keep their links to the parent that is destroyed.
DestroyAndForgetChildren(t) ==
  /\ Begin(<<DetachIfChild(t), DestroyCall({t})>>)
  /\ UNCHANGED <<alive, marked, unpacking>>

\* destroy_and_orphan_children()
DestroyAndOrphan(t) ==
  /\ Begin(<<DetachAllIfParent(t), DetachIfChild(t), DestroyCall({t})>>)
  /\ UNCHANGED <<alive, marked, unpacking>>

\* The meshes of a model are attached at once.
EmplaceModel(t, s) ==
  /\ New(ToSet(s))
  /\ Begin(<<AttachCall(t, s)>>)
  /\ UNCHANGED <<marked, unpacking>>

\* The viewer's request to unpack a scene, into an entity of its own.
ViewScene(e) ==
  /\ New({e}) /\ Begin(<<>>)
  /\ unpacking' = unpacking \cup {e}
  /\ UNCHANGED marked

\* The scene has not come: the job ends with the exception.
UnpackFails(t) ==
  /\ Begin(<<>>)
  /\ unpacking' = unpacking \ {t}
  /\ UNCHANGED <<alive, marked>>

\* The scene has come, and the job is back on the main thread: a node is
\* attached to a node before it, or to the target, whatever became of that;
\* the nodes `scenes` name scenes that are unpacked in turn.
UnpackScene(t, s, parent, scenes) ==
  /\ New(ToSet(s))
  /\ Begin([i \in DOMAIN s |->
              AttachCall(IF parent[i] = 0 THEN t ELSE s[parent[i]], <<s[i]>>)])
  /\ unpacking' = (unpacking \ {t}) \cup scenes
  /\ UNCHANGED marked

AttachEdges(edges) == [i \in DOMAIN edges |-> AttachIfRoot(edges[i][1], edges[i][2])]

\* A scene in JSON: its entities name their children, in any way.  Those that
\* fail keep their mark, and all that is marked is swept, in an order of the
\* view.  No entity is taken to name itself.
ImportScene(s, edges, swept) ==
  /\ New(ToSet(s))
  /\ marked \subseteq ToSet(swept)
  /\ Begin(AttachEdges(edges) \o IsolateAllOf(swept) \o <<SweepCall(ToSet(swept))>>)
  /\ UNCHANGED <<marked, unpacking>>

\* An exception that is no std::runtime_error (a field of the wrong type in
\* the JSON) leaves the import without a sweep: the entity it met, those that
\* failed and those not yet reached keep the mark, and the links they have.
AbortImport(s, edges, left) ==
  /\ New(ToSet(s))
  /\ left # {}
  /\ Begin(AttachEdges(edges))
  /\ marked' = marked \cup left
  /\ UNCHANGED unpacking

NextCall == Head(calls)
Calls(funs) ==
  fault = "none" /\ calls # <<>> /\ NextCall.fun \in funs /\ calls' = Tail(calls)

\* There is no check whether p is still an entity of the registry.
CallAttach ==
  LET p == NextCall.entity  s == NextCall.list IN
  /\ Calls({"attach", "attach_if_root"})
  /\ graph' = IF NextCall.fun = "attach_if_root" /\ HasParent(graph, s[1]) THEN graph
              ELSE AttachChildren(graph, p, s)
  /\ fault' = IF p \in alive THEN "none" ELSE "gone"
  /\ UNCHANGED <<alive, marked, unpacking>>

CallDetach ==
  LET c == NextCall.entity IN
  /\ Calls({"detach"})
  /\ graph' = IF HasParent(graph, c) THEN Detach(graph, c) ELSE graph
  /\ UNCHANGED <<alive, marked, unpacking, fault>>

CallDetachAll ==
  LET p == NextCall.entity IN
  /\ Calls({"detach_all"})
  /\ graph' = IF HasChildren(graph, p) THEN DetachAll(graph, p) ELSE graph
  /\ UNCHANGED <<alive, marked, unpacking, fault>>

CallDestroy ==
  /\ Calls({"destroy"})
  /\ alive' = alive \ NextCall.set
  /\ graph' = Destroyed(graph, NextCall.set)
  /\ marked' = marked \ NextCall.set
  /\ UNCHANGED <<unpacking, fault>>

\* e has a link to an entity outside of E.
LinkedBeyond(g, e, E) == g.child[e].parent \notin E \cup {null} \/ ~ChildrenOf(g, e) \subseteq E

\* Destroys what the caller marked, and what has had the mark from before.
CallSweep ==
  LET E == NextCall.set \cup marked IN
  /\ Calls({"sweep"})
  /\ alive' = alive \ E
  /\ graph' = Destroyed(graph, E)
  /\ marked' = {}
  /\ fault' = IF \E e \in marked \ NextCall.set : LinkedBeyond(graph, e, E) THEN "swept" ELSE "none"
  /\ UNCHANGED unpacking

Orders(S) == UNION {SetToSeqs(E) : E \in SUBSET S}
NewLists  == {s \in Orders(Entities \ (alive \cup unpacking)) : Len(s) \in 1..MaxNew}
EdgesIn(s) ==
  UNION {[1..n -> {e \in ToSet(s) \X ToSet(s) : e[1] # e[2]}] : n \in 0..Len(s)}
ParentsIn(s) == {f \in [DOMAIN s -> 0..Len(s)] : \A i \in DOMAIN s : f[i] < i}

Next ==
  \/ CallAttach \/ CallDetach \/ CallDetachAll \/ CallDestroy \/ CallSweep
  \/ \E e \in Entities : \/ CreateNode(e)
                         \/ Cardinality(unpacking) < MaxJobs /\ ViewScene(e)
  \/ \E t \in Displayed : \/ DetachFromParent(t) \/ DestroySubtree(t) \/ DestroyAndOrphan(t)
                          \/ \E s \in Orders(alive) : AttachSelected(t, s)
  \/ \E t \in unpacking : UnpackFails(t)
  \/ \E s \in NewLists :
       \/ \E t \in alive : EmplaceModel(t, s)
       \/ \E t \in unpacking, f \in ParentsIn(s), scenes \in SUBSET ToSet(s) :
            /\ Cardinality(unpacking) + Cardinality(scenes) <= MaxJobs + 1
            /\ UnpackScene(t, s, f, scenes)
       \/ \E edges \in EdgesIn(s) :
            \/ \E swept \in Orders(marked \cup ToSet(s)) : ImportScene(s, edges, swept)
            \/ \E left \in SUBSET ToSet(s) :
                 /\ Cardinality(marked) + Cardinality(left) <= MaxLeft
                 /\ AbortImport(s, edges, left)

Spec == Init /\ [][Next]_vars

-----------------------------------------------------------------------------
(* Properties *)

TypeOK ==
  /\ alive \subseteq Entities /\ marked \subseteq alive /\ unpacking \subseteq Entities
  /\ graph \in Graphs /\ fault \in Faults
  /\ \A i \in DOMAIN calls :
       /\ calls[i].fun \in {"attach", "attach_if_root", "detach", "detach_all", "destroy", "sweep"}
       /\ calls[i].entity \in Entities \cup {null}
       /\ ToSet(calls[i].list) \subseteq Entities /\ calls[i].set \subseteq Entities

\* No entity that is gone is in the graph, and no link leads to one: what is
\* destroyed was taken out of the lists before.
NoDanglingLinks ==
  \A e \in Entities :
    /\ HasParent(graph, e) => e \in alive /\ graph.child[e].parent \in alive
    /\ HasChildren(graph, e) => e \in alive /\ graph.parent[e].first \in alive
    /\ {graph.child[e].next, graph.child[e].prev} \subseteq alive \cup {null}

\* The lists are doubly linked: neighbours are siblings and know each other,
\* and only the first child of a parent has no one before it.
NeighboursAgree ==
  \A e \in {e \in Entities : HasParent(graph, e)} :
    LET link == graph.child[e] IN
    /\ link.next # null => /\ graph.child[link.next].prev = e
                           /\ graph.child[link.next].parent = link.parent
    /\ link.prev # null => /\ graph.child[link.prev].next = e
                           /\ graph.child[link.prev].parent = link.parent
    /\ link.prev = null <=> graph.parent[link.parent].first = e

\* The list of a parent has all its children ("num_detached ==
\* as_parent.num_children"), and there is one as long as it is a parent ("Must
\* exist if you have the component", SceneGraph.hpp:38).
ListsComplete ==
  \A p \in Entities :
    /\ Listed(graph, graph.parent[p].first) = ChildrenOf(graph, p)
    /\ graph.parent[p].num = Cardinality(ChildrenOf(graph, p))
    /\ HasChildren(graph, p) <=> ChildrenOf(graph, p) # {}

\* The links are whole, and among the living: until "Destroy Subtree" meets or
\* sweeps what an aborted import left behind, or a scene is unpacked into an
\* entity that is gone.
LinksWhole == fault = "none" => NoDanglingLinks /\ NeighboursAgree /\ ListsComplete

\* "Attempted to attach to self." and "Entity already has a parent."
\* (SceneGraph.hpp:193, 243): who is to be attached was detached before.
AttachedAreRoots ==
  fault = "none" /\ calls # <<>> /\ NextCall.fun = "attach" =>
    \A e \in ToSet(NextCall.list) : e # NextCall.entity /\ ~HasParent(graph, e)

\* The children of an entity as the iterator visits them.
ChildSequence(g, p) ==
  LET visited[n \in 0..Cardinality(Entities)] ==
        IF n = 0 THEN IF HasChildren(g, p) THEN <<g.parent[p].first>> ELSE <<>>
        ELSE IF visited[n - 1] = <<>> THEN <<>>
        ELSE IF g.child[Last(visited[n - 1])].next = null THEN visited[n - 1]
        ELSE Append(visited[n - 1], g.child[Last(visited[n - 1])].next)
  IN visited[Cardinality(Entities)]

ChildLists == [e \in Entities |-> ChildSequence(graph, e)]

Tree == INSTANCE SceneTree WITH children <- ChildLists, broken <- fault # "none"

\* The links are a tree of lists, whatever is attached, detached and destroyed,
\* and break at nothing but a fault.
ImplementsTree == Tree!Spec

\* "This file defines parent-child relationships between entities that
\* establish a "transform" hierarchy" (SceneGraph.hpp:17): no entity is among
\* its own descendants.
Hierarchical ==
  \A e \in Entities : \A c \in ChildrenOf(graph, e) : e \notin Subtree(graph, c)

=============================================================================
