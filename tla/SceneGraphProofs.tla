--------------------------- MODULE SceneGraphProofs ---------------------------
(***************************************************************************)
(* Proofs about SceneGraph, for any finite set of entities and any number  *)
(* of entities in an import.  Cycles are not excluded: the lists of        *)
(* children are all that is needed of the graph.                           *)
(***************************************************************************)
EXTENDS SceneGraph, FiniteSetTheorems, SequenceTheorems, WellFoundedInduction, TLAPS

\* The lists of children that the links stand for.
Link(p, s, i) == [parent |-> p,
                  next   |-> IF i = Len(s) THEN null ELSE s[i + 1],
                  prev   |-> IF i = 1 THEN null ELSE s[i - 1]]

Top(s) == IF s = <<>> THEN NoParent ELSE [num |-> Len(s), first |-> s[1]]

\* Nobody is in two lists, or twice in one.
Lists(L) ==
  /\ L \in [Entities -> Seq(Entities)]
  /\ \A p, q \in Entities : \A i \in 1..Len(L[p]) : \A j \in 1..Len(L[q]) :
       L[p][i] = L[q][j] => p = q /\ i = j

InList(L, e) == \E p \in Entities : \E i \in 1..Len(L[p]) : L[p][i] = e

Shows(g, L) ==
  /\ Lists(L) /\ g \in Graphs
  /\ \A p \in Entities : g.parent[p] = Top(L[p])
  /\ \A p \in Entities : \A i \in 1..Len(L[p]) : g.child[L[p][i]] = Link(p, L[p], i)
  /\ \A e \in Entities : ~InList(L, e) => g.child[e] = NoChild

Living(L, A) == \A p \in Entities : \A i \in 1..Len(L[p]) : p \in A /\ L[p][i] \in A

-----------------------------------------------------------------------------
(* Lists and links *)

LinkType == [parent: Entities \cup {null}, next: Entities \cup {null},
             prev: Entities \cup {null}]
TopType  == [num: Nat, first: Entities \cup {null}]

LEMMA ListFacts ==
    ASSUME NEW L, Lists(L), NEW p \in Entities
    PROVE  /\ L[p] \in Seq(Entities) /\ Len(L[p]) \in Nat /\ DOMAIN L[p] = 1..Len(L[p])
           /\ \A i \in 1..Len(L[p]) : L[p][i] \in Entities /\ L[p][i] # null
           /\ L[p] = <<>> <=> Len(L[p]) = 0
  <1>1. L[p] \in Seq(Entities)
    BY DEF Lists
  <1>2. Len(L[p]) \in Nat /\ DOMAIN L[p] = 1..Len(L[p]) /\ L[p] \in [1..Len(L[p]) -> Entities]
    BY <1>1, LenProperties
  <1>3. L[p] = <<>> <=> Len(L[p]) = 0
    BY <1>1, EmptySeq
  <1>4. QED
    BY <1>1, <1>2, <1>3, SceneAssumption

LEMMA LinkFacts ==
    ASSUME NEW L, Lists(L), NEW p \in Entities, NEW i \in 1..Len(L[p])
    PROVE  /\ Link(p, L[p], i) \in LinkType /\ Link(p, L[p], i) # NoChild
           /\ Link(p, L[p], i).parent = p
           /\ Link(p, L[p], i).next = (IF i = Len(L[p]) THEN null ELSE L[p][i + 1])
           /\ Link(p, L[p], i).prev = (IF i = 1 THEN null ELSE L[p][i - 1])
  <1>1. i = Len(L[p]) \/ i + 1 \in 1..Len(L[p])
    BY ListFacts
  <1>2. i = 1 \/ i - 1 \in 1..Len(L[p])
    BY ListFacts
  <1>3. p # null
    BY SceneAssumption
  <1>4. QED
    BY <1>1, <1>2, <1>3, ListFacts DEF Link, LinkType, NoChild

LEMMA TopFacts ==
    ASSUME NEW L, Lists(L), NEW p \in Entities
    PROVE  /\ Top(L[p]) \in TopType /\ Top(L[p]).num = Len(L[p])
           /\ Top(L[p]).first = (IF L[p] = <<>> THEN null ELSE L[p][1])
           /\ Top(L[p]) = NoParent <=> L[p] = <<>>
  <1>1. CASE L[p] = <<>>
    BY <1>1, ListFacts DEF Top, TopType, NoParent
  <1>2. CASE L[p] # <<>>
    <2>1. Len(L[p]) \in Nat /\ Len(L[p]) # 0 /\ 1 \in 1..Len(L[p])
      BY <1>2, ListFacts
    <2>2. L[p][1] \in Entities
      BY <2>1, ListFacts
    <2>3. QED
      BY <1>2, <2>1, <2>2 DEF Top, TopType, NoParent
  <1>3. QED
    BY <1>1, <1>2

LEMMA GraphFacts ==
    ASSUME NEW g \in Graphs
    PROVE  /\ g = [child |-> g.child, parent |-> g.parent]
           /\ g.child \in [Entities -> LinkType] /\ g.parent \in [Entities -> TopType]
  BY DEF Graphs, LinkType, TopType

LEMMA GraphMade ==
    ASSUME NEW c \in [Entities -> LinkType], NEW t \in [Entities -> TopType]
    PROVE  [child |-> c, parent |-> t] \in Graphs
  BY DEF Graphs, LinkType, TopType

\* What the components say of the lists.
LEMMA ParentIs ==
    ASSUME NEW g, NEW L, Shows(g, L), NEW e \in Entities
    PROVE  /\ HasParent(g, e) <=> InList(L, e)
           /\ \A p \in Entities :
                g.child[e].parent = p <=> \E i \in 1..Len(L[p]) : L[p][i] = e
           /\ g.child[e].parent \in Entities \cup {null}
           /\ g.child[e].parent = null <=> ~InList(L, e)
  <1>1. CASE InList(L, e)
    <2>1. PICK q \in Entities : \E i \in 1..Len(L[q]) : L[q][i] = e
      BY <1>1 DEF InList
    <2>2. PICK i \in 1..Len(L[q]) : L[q][i] = e
      BY <2>1
    <2>3. g.child[e] # NoChild /\ g.child[e].parent = q
      BY <2>2, LinkFacts DEF Shows
    <2>4. q # null
      BY SceneAssumption
    <2>5. \A p \in Entities : (\E j \in 1..Len(L[p]) : L[p][j] = e) => p = q
      BY <2>2 DEF Shows, Lists
    <2>6. QED
      BY <1>1, <2>1, <2>3, <2>4, <2>5 DEF HasParent
  <1>2. CASE ~InList(L, e)
    <2>1. g.child[e] = NoChild /\ NoChild.parent = null
      BY <1>2 DEF Shows, NoChild
    <2>2. \A p \in Entities : p # null
      BY SceneAssumption
    <2>3. QED
      BY <1>2, <2>1, <2>2 DEF HasParent, InList
  <1>3. QED
    BY <1>1, <1>2

LEMMA ChildrenAre ==
    ASSUME NEW g, NEW L, Shows(g, L), NEW p \in Entities
    PROVE  /\ \A e : e \in ChildrenOf(g, p) <=> \E i \in 1..Len(L[p]) : L[p][i] = e
           /\ ChildrenOf(g, p) = ToSet(L[p])
           /\ HasChildren(g, p) <=> L[p] # <<>>
  <1>1. Lists(L)
    BY DEF Shows
  <1>2. \A e : e \in ChildrenOf(g, p) <=> \E i \in 1..Len(L[p]) : L[p][i] = e
    BY <1>1, ParentIs, ListFacts DEF ChildrenOf
  <1>3. \A e : e \in ToSet(L[p]) <=> \E i \in 1..Len(L[p]) : L[p][i] = e
    BY <1>1, ListFacts DEF ToSet
  <1>4. HasChildren(g, p) <=> L[p] # <<>>
    BY <1>1, TopFacts DEF Shows, HasChildren
  <1>5. QED
    BY <1>2, <1>3, <1>4

\* The least of a set of numbers.
LEMMA LeastExists ==
    ASSUME NEW S \in SUBSET Nat, S # {}
    PROVE  \E i \in S : \A j \in S : i <= j
  <1> DEFINE R == OpToRel(<, Nat)
  <1>1. \E i \in S : \A j \in S : ~ (<<j, i>> \in R)
    BY NatLessThanWellFounded, WFMin
  <1>2. \A i, j \in Nat : j < i => <<j, i>> \in R
    BY DEF OpToRel
  <1> HIDE DEF R
  <1>3. PICK i \in S : \A j \in S : ~ (<<j, i>> \in R)
    BY <1>1
  <1>4. ASSUME NEW j \in S PROVE i <= j
    <2>1. i \in Nat /\ j \in Nat /\ ~(j < i)
      BY <1>2, <1>3
    <2>2. QED
      BY <2>1
  <1>5. QED
    BY <1>4

\* Who follows `next` from the first child comes to all of them.
LEMMA ListedAre ==
    ASSUME NEW g, NEW L, Shows(g, L), NEW p \in Entities
    PROVE  Listed(g, g.parent[p].first) = ChildrenOf(g, p)
  <1> DEFINE s == L[p]
             c == g.parent[p].first
             Reached(S) == (c \in S \cup {null})
                           /\ (\A e \in S : g.child[e].next \in S \cup {null})
  <1>1. Lists(L)
    BY DEF Shows
  <1>2. /\ s \in Seq(Entities) /\ Len(s) \in Nat
        /\ \A i \in 1..Len(s) : s[i] \in Entities /\ s[i] # null
        /\ c = IF s = <<>> THEN null ELSE s[1]
        /\ s = <<>> <=> Len(s) = 0
    BY <1>1, ListFacts, TopFacts DEF Shows
  <1>3. \A i \in 1..Len(s) : g.child[s[i]].next = IF i = Len(s) THEN null ELSE s[i + 1]
    BY <1>1, LinkFacts DEF Shows
  <1>4. \A e : e \in ChildrenOf(g, p) <=> \E i \in 1..Len(s) : s[i] = e
    BY ChildrenAre
  <1>5. ChildrenOf(g, p) \in SUBSET Entities
    BY DEF ChildrenOf
  <1>6. \A d : d \in Listed(g, c) <=> d \in Entities /\ \A S \in SUBSET Entities : Reached(S) => d \in S
    BY DEF Listed
  <1> HIDE DEF s, c
  <1>7. Reached(ChildrenOf(g, p))
    <2>1. c \in ChildrenOf(g, p) \cup {null}
      <3>1. CASE s = <<>>
        BY <1>2, <3>1
      <3>2. CASE s # <<>>
        <4>1. 1 \in 1..Len(s)
          BY <1>2, <3>2
        <4>2. QED
          BY <1>2, <1>4, <3>2, <4>1
      <3>3. QED
        BY <3>1, <3>2
    <2>2. ASSUME NEW e \in ChildrenOf(g, p) PROVE g.child[e].next \in ChildrenOf(g, p) \cup {null}
      <3>1. PICK i \in 1..Len(s) : s[i] = e
        BY <1>4
      <3>2. CASE i = Len(s)
        BY <1>3, <3>1, <3>2
      <3>3. CASE i # Len(s)
        <4>1. i + 1 \in 1..Len(s)
          BY <1>2, <3>3
        <4>2. QED
          BY <1>3, <1>4, <3>1, <3>3, <4>1
      <3>4. QED
        BY <3>2, <3>3
    <2>3. QED
      BY <2>1, <2>2
  <1>8. ASSUME NEW S \in SUBSET Entities, Reached(S), NEW i \in 1..Len(s), s[i] \notin S
        PROVE  FALSE
    <2> DEFINE Missed == {j \in 1..Len(s) : s[j] \notin S}
    <2>1. Missed \in SUBSET Nat /\ Missed # {}
      BY <1>2, <1>8
    <2>2. PICK j \in Missed : \A k \in Missed : j <= k
      BY <2>1, LeastExists
    <2>3. CASE j = 1
      <3>1. c = s[1] /\ c # null
        BY <1>2, <2>2
      <3>2. QED
        BY <1>8, <2>2, <2>3, <3>1
    <2>4. CASE j # 1
      <3>1. j - 1 \in 1..Len(s) /\ j - 1 \notin Missed /\ j - 1 # Len(s) /\ (j - 1) + 1 = j
        BY <1>2, <2>2, <2>4
      <3>2. s[j - 1] \in S /\ g.child[s[j - 1]].next = s[j]
        BY <1>3, <3>1
      <3>3. s[j] \in S \cup {null} /\ s[j] # null
        BY <1>2, <1>8, <2>2, <3>2
      <3>4. QED
        BY <2>2, <3>3
    <2>5. QED
      BY <2>3, <2>4
  <1>9. \A d : d \in Listed(g, c) <=> d \in ChildrenOf(g, p)
    <2>1. ASSUME NEW d \in Listed(g, c) PROVE d \in ChildrenOf(g, p)
      BY <1>5, <1>6, <1>7
    <2>2. ASSUME NEW d \in ChildrenOf(g, p) PROVE d \in Listed(g, c)
      BY <1>4, <1>5, <1>6, <1>8
    <2>3. QED
      BY <2>1, <2>2
  <1>10. QED
    BY <1>9 DEF c

LEMMA LengthIs ==
    ASSUME NEW g, NEW L, Shows(g, L), NEW p \in Entities
    PROVE  Len(L[p]) = Cardinality(ChildrenOf(g, p))
  <1>1. Lists(L)
    BY DEF Shows
  <1>2. L[p] \in [1..Len(L[p]) -> ChildrenOf(g, p)] /\ Len(L[p]) \in Nat
    BY <1>1, ListFacts, ChildrenAre
  <1>3. L[p] \in Bijection(1..Len(L[p]), ChildrenOf(g, p))
    <2>1. \A i, j \in 1..Len(L[p]) : L[p][i] = L[p][j] => i = j
      BY <1>1 DEF Lists
    <2>2. \A e \in ChildrenOf(g, p) : \E i \in 1..Len(L[p]) : L[p][i] = e
      BY ChildrenAre
    <2>3. QED
      BY <1>2, <2>1, <2>2 DEF Bijection, Injection, Surjection, IsInjective
  <1>4. ExistsBijection(1..Len(L[p]), ChildrenOf(g, p))
    BY <1>3 DEF ExistsBijection
  <1>5. IsFiniteSet(1..Len(L[p])) /\ Cardinality(1..Len(L[p])) = Len(L[p])
    <2>1. PICK n \in Nat : n = Len(L[p])
      BY <1>2
    <2>2. IsFiniteSet(1..n) /\ Cardinality(1..n) = n
      <3>1. 1 \in Int /\ n \in Int /\ (IF 1 > n THEN 0 ELSE n - 1 + 1) = n
        OBVIOUS
      <3>2. QED
        BY <3>1, FS_Interval
    <2>3. QED
      BY <2>1, <2>2
  <1>6. QED
    BY <1>4, <1>5, FS_Bijection


-----------------------------------------------------------------------------
(* What the operations do to the lists *)

\* s in front of the list of p, the last of s first.
Prepended(L, M, p, s) ==
  /\ M \in [Entities -> Seq(Entities)]
  /\ \A q \in Entities : q # p => M[q] = L[q]
  /\ Len(M[p]) = Len(s) + Len(L[p])
  /\ \A i \in 1..Len(s) : M[p][i] = s[(Len(s) - i) + 1]
  /\ \A i \in 1..Len(L[p]) : M[p][Len(s) + i] = L[p][i]

LEMMA PrependedIs ==
    ASSUME NEW L, Lists(L), NEW p \in Entities, NEW s \in Seq(Entities)
    PROVE  Prepended(L, [L EXCEPT ![p] = Reverse(s) \o @], p, s)
  <1> DEFINE r == Reverse(s)
             t == r \o L[p]
             M == [L EXCEPT ![p] = Reverse(s) \o @]
  <1>1. Len(s) \in Nat /\ DOMAIN s = 1..Len(s) /\ s \in [1..Len(s) -> Entities]
    BY LenProperties
  <1>2. /\ r \in Seq(Entities) /\ Len(r) = Len(s)
        /\ \A i \in 1..Len(s) : r[i] = s[(Len(s) - i) + 1]
    <2>1. \A i \in 1..Len(s) : (Len(s) - i) + 1 \in 1..Len(s)
      BY <1>1
    <2>2. r = [i \in 1..Len(s) |-> s[(Len(s) - i) + 1]]
      BY DEF Reverse
    <2> HIDE DEF r
    <2>3. r \in [1..Len(s) -> Entities]
      BY <1>1, <2>1, <2>2
    <2>4. r \in Seq(Entities)
      BY <1>1, <2>3, SeqDef
    <2>5. DOMAIN r = 1..Len(s) /\ DOMAIN r = 1..Len(r) /\ Len(r) \in Nat
      BY <2>3, <2>4, LenProperties
    <2>6. Len(r) = Len(s)
      BY <1>1, <2>5
    <2>7. QED
      BY <2>2, <2>4, <2>6
  <1> HIDE DEF r
  <1>3. L[p] \in Seq(Entities) /\ Len(L[p]) \in Nat /\ L \in [Entities -> Seq(Entities)]
    BY ListFacts DEF Lists
  <1>4. /\ t \in Seq(Entities) /\ Len(t) = Len(s) + Len(L[p])
        /\ \A i \in 1..Len(s) + Len(L[p]) : t[i] = IF i <= Len(s) THEN r[i] ELSE L[p][i - Len(s)]
    BY <1>2, <1>3, ConcatProperties
  <1> HIDE DEF t
  <1>5. /\ M \in [Entities -> Seq(Entities)] /\ M[p] = t
        /\ \A q \in Entities : q # p => M[q] = L[q]
    BY <1>3, <1>4 DEF r, t
  <1> HIDE DEF M
  <1>6. \A i \in 1..Len(s) : t[i] = s[(Len(s) - i) + 1]
    <2> SUFFICES ASSUME NEW i \in 1..Len(s) PROVE t[i] = s[(Len(s) - i) + 1]
      OBVIOUS
    <2>1. i \in 1..Len(s) + Len(L[p]) /\ i <= Len(s)
      BY <1>1, <1>3
    <2>2. QED
      BY <1>2, <1>4, <2>1
  <1>7. \A i \in 1..Len(L[p]) : t[Len(s) + i] = L[p][i]
    <2> SUFFICES ASSUME NEW i \in 1..Len(L[p]) PROVE t[Len(s) + i] = L[p][i]
      OBVIOUS
    <2>1. /\ Len(s) + i \in 1..Len(s) + Len(L[p]) /\ ~(Len(s) + i <= Len(s))
          /\ (Len(s) + i) - Len(s) = i
      BY <1>1, <1>3
    <2>2. QED
      BY <1>4, <2>1
  <1>8. Prepended(L, M, p, s)
    BY <1>4, <1>5, <1>6, <1>7 DEF Prepended
  <1>9. QED
    BY <1>8 DEF M

Injective(s) == \A i, j \in 1..Len(s) : s[i] = s[j] => i = j

LEMMA PrependedLists ==
    ASSUME NEW L, Lists(L), NEW M, NEW p \in Entities, NEW s \in Seq(Entities),
           Prepended(L, M, p, s), Injective(s), \A i \in 1..Len(s) : ~InList(L, s[i])
    PROVE  /\ Lists(M)
           /\ \A e : InList(M, e) <=> InList(L, e) \/ \E i \in 1..Len(s) : s[i] = e
  <1>1. Len(s) \in Nat /\ Len(L[p]) \in Nat /\ Len(M[p]) = Len(s) + Len(L[p])
    BY ListFacts, LenProperties DEF Prepended
  <1>2. ASSUME NEW i \in 1..Len(s)
        PROVE  /\ i \in 1..Len(M[p]) /\ (Len(s) - i) + 1 \in 1..Len(s)
               /\ M[p][i] = s[(Len(s) - i) + 1]
    BY <1>1 DEF Prepended
  <1>3. ASSUME NEW i \in 1..Len(M[p]), i \notin 1..Len(s)
        PROVE  i - Len(s) \in 1..Len(L[p]) /\ M[p][i] = L[p][i - Len(s)]
    <2>1. i - Len(s) \in 1..Len(L[p]) /\ Len(s) + (i - Len(s)) = i
      BY <1>1, <1>3
    <2>2. QED
      BY <2>1 DEF Prepended
  <1>4. ASSUME NEW k \in 1..Len(s), NEW q \in Entities, NEW j \in 1..Len(L[q])
        PROVE  s[k] # L[q][j]
    <2>1. InList(L, L[q][j])
      BY DEF InList
    <2>2. QED
      BY <2>1
  <1>5. ASSUME NEW i \in 1..Len(M[p]), NEW q \in Entities, q # p, NEW j \in 1..Len(M[q])
        PROVE  M[p][i] # M[q][j]
    <2>1. M[q] = L[q]
      BY <1>5 DEF Prepended
    <2>2. CASE i \in 1..Len(s)
      <3>1. (Len(s) - i) + 1 \in 1..Len(s) /\ M[p][i] = s[(Len(s) - i) + 1]
        BY <1>2, <2>2
      <3>2. j \in 1..Len(L[q])
        BY <1>5, <2>1
      <3>3. s[(Len(s) - i) + 1] # L[q][j]
        BY <1>4, <3>1, <3>2
      <3>4. QED
        BY <2>1, <3>1, <3>3
    <2>3. CASE i \notin 1..Len(s)
      <3>1. i - Len(s) \in 1..Len(L[p]) /\ M[p][i] = L[p][i - Len(s)]
        BY <1>3, <2>3
      <3>2. QED
        BY <1>5, <2>1, <3>1 DEF Lists
    <2>4. QED
      BY <2>2, <2>3
  <1>6. ASSUME NEW i \in 1..Len(M[p]), NEW j \in 1..Len(M[p]), M[p][i] = M[p][j]
        PROVE  i = j
    <2>1. CASE i \in 1..Len(s) /\ j \in 1..Len(s)
      <3>1. s[(Len(s) - i) + 1] = s[(Len(s) - j) + 1]
        BY <1>2, <1>6, <2>1
      <3>2. (Len(s) - i) + 1 = (Len(s) - j) + 1
        BY <1>2, <2>1, <3>1 DEF Injective
      <3>3. QED
        BY <1>1, <2>1, <3>2
    <2>2. CASE i \notin 1..Len(s) /\ j \notin 1..Len(s)
      <3>1. /\ i - Len(s) \in 1..Len(L[p]) /\ M[p][i] = L[p][i - Len(s)]
            /\ j - Len(s) \in 1..Len(L[p]) /\ M[p][j] = L[p][j - Len(s)]
        BY <1>3, <2>2
      <3>2. \A a, b \in 1..Len(L[p]) : L[p][a] = L[p][b] => a = b
        BY DEF Lists
      <3>3. i - Len(s) = j - Len(s)
        BY <1>6, <3>1, <3>2
      <3>4. QED
        BY <1>1, <3>3
    <2>3. CASE i \in 1..Len(s) /\ j \notin 1..Len(s)
      <3>1. (Len(s) - i) + 1 \in 1..Len(s) /\ M[p][i] = s[(Len(s) - i) + 1]
        BY <1>2, <2>3
      <3>2. j - Len(s) \in 1..Len(L[p]) /\ M[p][j] = L[p][j - Len(s)]
        BY <1>3, <2>3
      <3>3. s[(Len(s) - i) + 1] # L[p][j - Len(s)]
        BY <1>4, <3>1, <3>2
      <3>4. QED
        BY <1>6, <3>1, <3>2, <3>3
    <2>4. CASE i \notin 1..Len(s) /\ j \in 1..Len(s)
      <3>1. (Len(s) - j) + 1 \in 1..Len(s) /\ M[p][j] = s[(Len(s) - j) + 1]
        BY <1>2, <2>4
      <3>2. i - Len(s) \in 1..Len(L[p]) /\ M[p][i] = L[p][i - Len(s)]
        BY <1>3, <2>4
      <3>3. s[(Len(s) - j) + 1] # L[p][i - Len(s)]
        BY <1>4, <3>1, <3>2
      <3>4. QED
        BY <1>6, <3>1, <3>2, <3>3
    <2>5. QED
      BY <2>1, <2>2, <2>3, <2>4
  <1>7. Lists(M)
    <2>1. ASSUME NEW q \in Entities, NEW r \in Entities,
                 NEW i \in 1..Len(M[q]), NEW j \in 1..Len(M[r]), M[q][i] = M[r][j]
          PROVE  q = r /\ i = j
      <3>1. CASE q = p /\ r = p
        BY <1>6, <2>1, <3>1
      <3>2. CASE q = p /\ r # p
        BY <1>5, <2>1, <3>2
      <3>3. CASE q # p /\ r = p
        BY <1>5, <2>1, <3>3
      <3>4. CASE q # p /\ r # p
        <4>1. M[q] = L[q] /\ M[r] = L[r]
          BY <3>4 DEF Prepended
        <4>2. i \in 1..Len(L[q]) /\ j \in 1..Len(L[r]) /\ L[q][i] = L[r][j]
          BY <2>1, <4>1
        <4>3. QED
          BY <4>2 DEF Lists
      <3>5. QED
        BY <3>1, <3>2, <3>3, <3>4
    <2>2. QED
      BY <2>1 DEF Lists, Prepended
  <1>8. ASSUME NEW e, InList(M, e) PROVE InList(L, e) \/ \E i \in 1..Len(s) : s[i] = e
    <2>1. PICK q \in Entities : \E i \in 1..Len(M[q]) : M[q][i] = e
      BY <1>8 DEF InList
    <2>2. PICK i \in 1..Len(M[q]) : M[q][i] = e
      BY <2>1
    <2>3. CASE q = p /\ i \in 1..Len(s)
      BY <1>2, <2>2, <2>3
    <2>4. CASE q = p /\ i \notin 1..Len(s)
      <3>1. i - Len(s) \in 1..Len(L[p]) /\ L[p][i - Len(s)] = e
        BY <1>3, <2>2, <2>4
      <3>2. QED
        BY <3>1 DEF InList
    <2>5. CASE q # p
      <3>1. M[q] = L[q]
        BY <2>5 DEF Prepended
      <3>2. QED
        BY <2>2, <3>1 DEF InList
    <2>6. QED
      BY <2>3, <2>4, <2>5
  <1>9. ASSUME NEW e, InList(L, e) PROVE InList(M, e)
    <2>1. PICK q \in Entities : \E i \in 1..Len(L[q]) : L[q][i] = e
      BY <1>9 DEF InList
    <2>2. PICK i \in 1..Len(L[q]) : L[q][i] = e
      BY <2>1
    <2>3. CASE q = p
      <3>1. i \in 1..Len(L[p]) /\ L[p][i] = e
        BY <2>2, <2>3
      <3>2. M[p][Len(s) + i] = e
        BY <3>1 DEF Prepended
      <3>3. Len(s) + i \in 1..Len(M[p])
        BY <1>1, <3>1
      <3>4. QED
        BY <3>2, <3>3 DEF InList
    <2>4. CASE q # p
      <3>1. M[q] = L[q]
        BY <2>4 DEF Prepended
      <3>2. QED
        BY <2>2, <3>1 DEF InList
    <2>5. QED
      BY <2>3, <2>4
  <1>10. ASSUME NEW i \in 1..Len(s) PROVE InList(M, s[i])
    <2>1. /\ (Len(s) - i) + 1 \in 1..Len(s) /\ (Len(s) - i) + 1 \in 1..Len(M[p])
          /\ (Len(s) - ((Len(s) - i) + 1)) + 1 = i
      BY <1>1
    <2>2. M[p][(Len(s) - i) + 1] = s[i]
      BY <2>1 DEF Prepended
    <2>3. QED
      BY <2>1, <2>2 DEF InList
  <1>11. QED
    BY <1>7, <1>8, <1>9, <1>10

\* What attach_children() writes.
LEMMA AttachWrites ==
    ASSUME NEW g \in Graphs, NEW p \in Entities, NEW s \in Seq(Entities), Injective(s)
    PROVE  /\ AttachChildren(g, p, s) \in Graphs
           /\ \A i \in 1..Len(s) : AttachChildren(g, p, s).child[s[i]] =
                [parent |-> p,
                 next   |-> IF i = 1 THEN g.parent[p].first ELSE s[i - 1],
                 prev   |-> IF i = Len(s) THEN null ELSE s[i + 1]]
           /\ \A e \in Entities : (\A i \in 1..Len(s) : s[i] # e) =>
                AttachChildren(g, p, s).child[e] =
                  IF e = g.parent[p].first /\ s # <<>> THEN [g.child[e] EXCEPT !.prev = s[1]]
                  ELSE g.child[e]
           /\ \A q \in Entities : q # p => AttachChildren(g, p, s).parent[q] = g.parent[q]
           /\ AttachChildren(g, p, s).parent[p] =
                IF s = <<>> THEN g.parent[p]
                ELSE [num |-> g.parent[p].num + Len(s), first |-> s[Len(s)]]
  <1> DEFINE head  == g.parent[p].first
             at(e) == CHOOSE i \in DOMAIN s : s[i] = e
             new(e) == [parent |-> p,
                        next   |-> IF at(e) = 1 THEN head ELSE s[at(e) - 1],
                        prev   |-> IF at(e) = Len(s) THEN null ELSE s[at(e) + 1]]
             link(e) == IF e \in ToSet(s) THEN new(e)
                        ELSE IF e = head /\ s # <<>> THEN [g.child[e] EXCEPT !.prev = s[1]]
                        ELSE g.child[e]
             child == [e \in Entities |-> link(e)]
             parent == IF s = <<>> THEN g.parent
                       ELSE [g.parent EXCEPT ![p] = [num |-> @.num + Len(s), first |-> s[Len(s)]]]
             h == AttachChildren(g, p, s)
  <1>1. h = [child |-> child, parent |-> parent]
    BY DEF AttachChildren
  <1>2. /\ Len(s) \in Nat /\ DOMAIN s = 1..Len(s) /\ s \in [1..Len(s) -> Entities]
        /\ s = <<>> <=> Len(s) = 0
    BY LenProperties, EmptySeq
  <1>3. g.child \in [Entities -> LinkType] /\ g.parent \in [Entities -> TopType]
    BY GraphFacts
  <1>4. \A e : e \in ToSet(s) <=> \E i \in 1..Len(s) : s[i] = e
    BY <1>2 DEF ToSet
  <1>5. \A i \in 1..Len(s) : at(s[i]) = i
    BY <1>2 DEF Injective
  <1>6. head \in Entities \cup {null}
    BY <1>3 DEF TopType
  <1>7. \A i \in 1..Len(s) : s[i] \in Entities
    BY <1>2
  <1> HIDE DEF at, head
  <1>8. ASSUME NEW i \in 1..Len(s)
        PROVE  link(s[i]) = [parent |-> p, next |-> IF i = 1 THEN head ELSE s[i - 1],
                             prev |-> IF i = Len(s) THEN null ELSE s[i + 1]]
    BY <1>4, <1>5
  <1>9. ASSUME NEW e \in Entities PROVE link(e) \in LinkType
    <2>1. CASE e \in ToSet(s)
      <3>1. PICK i \in 1..Len(s) : s[i] = e
        BY <1>4, <2>1
      <3>2. i = 1 \/ i - 1 \in 1..Len(s)
        BY <1>2
      <3>3. i = Len(s) \/ i + 1 \in 1..Len(s)
        <4>1. Len(s) \in Nat
          BY LenProperties
        <4>2. QED
          BY ONLY <4>1, i \in 1..Len(s)
      <3>4. (IF i = 1 THEN head ELSE s[i - 1]) \in Entities \cup {null}
        BY <1>6, <1>7, <3>2
      <3>5. (IF i = Len(s) THEN null ELSE s[i + 1]) \in Entities \cup {null}
        BY <1>7, <3>3
      <3> HIDE DEF link
      <3>6. link(e) = [parent |-> p, next |-> IF i = 1 THEN head ELSE s[i - 1],
                       prev |-> IF i = Len(s) THEN null ELSE s[i + 1]]
        BY <1>8, <3>1
      <3>7. QED
        BY <3>4, <3>5, <3>6 DEF LinkType
    <2>2. CASE e \notin ToSet(s) /\ e = head /\ s # <<>>
      <3>1. 1 \in 1..Len(s) /\ g.child[e] \in LinkType
        BY <1>2, <1>3, <2>2
      <3>2. s[1] \in Entities /\ link(e) = [g.child[e] EXCEPT !.prev = s[1]]
        BY <1>7, <2>2, <3>1
      <3> HIDE DEF link
      <3>3. QED
        BY <3>1, <3>2 DEF LinkType
    <2>3. CASE e \notin ToSet(s) /\ ~(e = head /\ s # <<>>)
      <3>1. link(e) = g.child[e]
        BY <2>3
      <3> HIDE DEF link
      <3>2. QED
        BY <1>3, <3>1
    <2>4. QED
      BY <2>1, <2>2, <2>3
  <1>10. ASSUME NEW e \in Entities, \A i \in 1..Len(s) : s[i] # e
         PROVE  link(e) = IF e = head /\ s # <<>> THEN [g.child[e] EXCEPT !.prev = s[1]]
                          ELSE g.child[e]
    <2>1. e \notin ToSet(s)
      BY <1>4, <1>10
    <2>2. QED
      BY <2>1
  <1> HIDE DEF link
  <1>11. parent \in [Entities -> TopType] /\ (\A q \in Entities : q # p => parent[q] = g.parent[q])
         /\ parent[p] = IF s = <<>> THEN g.parent[p]
                        ELSE [num |-> g.parent[p].num + Len(s), first |-> s[Len(s)]]
    <2>1. CASE s = <<>>
      BY <1>3, <2>1
    <2>2. CASE s # <<>>
      <3> DEFINE t == [num |-> g.parent[p].num + Len(s), first |-> s[Len(s)]]
      <3>1. Len(s) \in 1..Len(s) /\ g.parent[p].num \in Nat
        BY <1>2, <1>3, <2>2 DEF TopType
      <3>2. s[Len(s)] \in Entities /\ g.parent[p].num + Len(s) \in Nat
        BY <1>2, <1>7, <3>1
      <3>3. t \in TopType
        BY <3>2 DEF TopType
      <3> HIDE DEF t
      <3>4. parent = [g.parent EXCEPT ![p] = t]
        BY <2>2 DEF t
      <3>5. parent[p] = t /\ parent \in [Entities -> TopType]
            /\ (\A q \in Entities : q # p => parent[q] = g.parent[q])
        BY <1>3, <3>3, <3>4
      <3>6. QED
        BY <2>2, <3>5 DEF t
    <2>3. QED
      BY <2>1, <2>2
  <1>12. child \in [Entities -> LinkType] /\ \A e \in Entities : child[e] = link(e)
    BY <1>9
  <1> HIDE DEF child, parent
  <1>13. h \in Graphs /\ h.child = child /\ h.parent = parent
    BY <1>1, <1>11, <1>12, GraphMade
  <1> HIDE DEF h
  <1>14. \A i \in 1..Len(s) : h.child[s[i]] =
           [parent |-> p, next |-> IF i = 1 THEN head ELSE s[i - 1],
            prev |-> IF i = Len(s) THEN null ELSE s[i + 1]]
    BY <1>7, <1>8, <1>12, <1>13
  <1>15. \A e \in Entities : (\A i \in 1..Len(s) : s[i] # e) =>
           h.child[e] = IF e = head /\ s # <<>> THEN [g.child[e] EXCEPT !.prev = s[1]]
                        ELSE g.child[e]
    BY <1>10, <1>12, <1>13
  <1>16. QED
    BY <1>11, <1>13, <1>14, <1>15 DEF h, head


LEMMA AttachShows ==
    ASSUME NEW g, NEW L, Shows(g, L), NEW p \in Entities, NEW s \in Seq(Entities), Injective(s),
           \A i \in 1..Len(s) : ~InList(L, s[i]), NEW M, Prepended(L, M, p, s)
    PROVE  Shows(AttachChildren(g, p, s), M)
  <1> DEFINE n == Len(s)
             m == Len(L[p])
             h == AttachChildren(g, p, s)
             head == g.parent[p].first
  <1>1. Lists(L) /\ g \in Graphs
    BY DEF Shows
  <1>2. Lists(M) /\ \A e : InList(M, e) <=> InList(L, e) \/ \E i \in 1..Len(s) : s[i] = e
    BY <1>1, PrependedLists
  <1>3. /\ h \in Graphs
        /\ \A i \in 1..n : h.child[s[i]] =
             [parent |-> p, next |-> IF i = 1 THEN head ELSE s[i - 1],
              prev   |-> IF i = n THEN null ELSE s[i + 1]]
        /\ \A e \in Entities : (\A i \in 1..n : s[i] # e) =>
             h.child[e] = IF e = head /\ s # <<>> THEN [g.child[e] EXCEPT !.prev = s[1]]
                          ELSE g.child[e]
        /\ \A q \in Entities : q # p => h.parent[q] = g.parent[q]
        /\ h.parent[p] = IF s = <<>> THEN g.parent[p]
                         ELSE [num |-> g.parent[p].num + n, first |-> s[n]]
    BY <1>1, AttachWrites
  <1>4. /\ n \in Nat /\ m \in Nat /\ Len(M[p]) = n + m
        /\ s = <<>> <=> n = 0
        /\ \A i \in 1..n : s[i] \in Entities
    BY <1>1, ListFacts, LenProperties, EmptySeq DEF Prepended
  <1>5. head = IF m = 0 THEN null ELSE L[p][1]
    BY <1>1, ListFacts, TopFacts DEF Shows
  <1>6. \A q \in Entities : q # p => M[q] = L[q]
    BY DEF Prepended
  <1>7. \A i \in 1..n : M[p][i] = s[(n - i) + 1]
    BY DEF Prepended
  <1>8. \A i \in 1..m : M[p][n + i] = L[p][i]
    BY DEF Prepended
  <1>9. \A q \in Entities : \A i \in 1..Len(L[q]) : \A j \in 1..n : s[j] # L[q][i]
    BY DEF InList
  <1>10. \A q \in Entities : \A i \in 1..Len(L[q]) : L[q][i] \in Entities /\ L[q][i] # null
    BY <1>1, ListFacts
  <1>11. \A q \in Entities : \A i \in 1..Len(L[q]) : g.child[L[q][i]] = Link(q, L[q], i)
    BY DEF Shows
  <1> HIDE DEF n, m, h, head
  <1>12. ASSUME NEW k \in 1..n PROVE h.child[M[p][k]] = Link(p, M[p], k)
    <2>1. PICK i \in 1..n : i = (n - k) + 1
      BY <1>4
    <2>2. M[p][k] = s[i] /\ k = (n - i) + 1
      BY <1>4, <1>7, <2>1
    <2>3. (IF i = 1 THEN head ELSE s[i - 1]) = IF k = Len(M[p]) THEN null ELSE M[p][k + 1]
      <3>1. CASE i = 1 /\ m = 0
        BY <1>4, <1>5, <2>2, <3>1
      <3>2. CASE i = 1 /\ m # 0
        <4>1. k = n /\ 1 \in 1..m /\ k # Len(M[p])
          BY <1>4, <2>2, <3>2
        <4>2. M[p][n + 1] = L[p][1]
          BY <1>8, <4>1
        <4>3. QED
          BY <1>5, <3>2, <4>1, <4>2
      <3>3. CASE i # 1
        <4>1. k + 1 \in 1..n /\ (n - (k + 1)) + 1 = i - 1 /\ k # Len(M[p])
          BY <1>4, <2>2, <3>3
        <4>2. M[p][k + 1] = s[i - 1]
          BY <1>7, <4>1
        <4>3. QED
          BY <3>3, <4>1, <4>2
      <3>4. QED
        BY <3>1, <3>2, <3>3
    <2>4. (IF i = n THEN null ELSE s[i + 1]) = IF k = 1 THEN null ELSE M[p][k - 1]
      <3>1. CASE i = n
        <4>1. k = 1
          BY <1>4, <2>2, <3>1
        <4>2. QED
          BY <3>1, <4>1
      <3>2. CASE i # n
        <4>1. k - 1 \in 1..n /\ (n - (k - 1)) + 1 = i + 1 /\ k # 1
          BY <1>4, <2>2, <3>2
        <4>2. M[p][k - 1] = s[i + 1]
          BY <1>7, <4>1
        <4>3. QED
          BY <3>2, <4>1, <4>2
      <3>3. QED
        BY <3>1, <3>2
    <2>5. QED
      BY <1>3, <2>2, <2>3, <2>4 DEF Link
  <1>13. ASSUME NEW j \in 1..m PROVE h.child[M[p][n + j]] = Link(p, M[p], n + j)
    <2> DEFINE e == L[p][j]
    <2>1. j \in 1..Len(L[p])
      BY DEF m
    <2>2. M[p][n + j] = e /\ e \in Entities /\ \A i \in 1..n : s[i] # e
      BY <1>8, <1>9, <1>10, <2>1
    <2>3. g.child[e] = [parent |-> p, next |-> IF j = m THEN null ELSE L[p][j + 1],
                        prev |-> IF j = 1 THEN null ELSE L[p][j - 1]]
      BY <1>11, <2>1 DEF Link, m
    <2>4. (IF j = m THEN null ELSE L[p][j + 1])
            = IF n + j = Len(M[p]) THEN null ELSE M[p][(n + j) + 1]
      <3>1. CASE j = m
        BY <1>4, <3>1
      <3>2. CASE j # m
        <4>1. j + 1 \in 1..m /\ n + j # Len(M[p]) /\ n + (j + 1) = (n + j) + 1
          BY <1>4, <3>2
        <4>2. M[p][n + (j + 1)] = L[p][j + 1]
          BY <1>8, <4>1
        <4>3. QED
          BY <3>2, <4>1, <4>2
      <3>3. QED
        BY <3>1, <3>2
    <2>5. h.child[e] = IF e = head /\ s # <<>> THEN [g.child[e] EXCEPT !.prev = s[1]]
                       ELSE g.child[e]
      BY <1>3, <2>2
    <2>6. e = head <=> j = 1
      <3>1. 1 \in 1..Len(L[p]) /\ m # 0
        BY <1>4, <2>1 DEF m
      <3>2. \A a, b \in 1..Len(L[p]) : L[p][a] = L[p][b] => a = b
        BY <1>1 DEF Lists
      <3>3. QED
        BY <1>5, <2>1, <3>1, <3>2
    <2>7. h.child[e] = [parent |-> p, next |-> IF j = m THEN null ELSE L[p][j + 1],
                        prev |-> IF n + j = 1 THEN null ELSE M[p][(n + j) - 1]]
      <3>1. CASE j = 1 /\ s # <<>>
        <4>1. n # 0 /\ n + j # 1 /\ (n + j) - 1 = n /\ n \in 1..n /\ (n - n) + 1 = 1
          BY <1>4, <3>1
        <4>2. M[p][n] = s[1]
          BY <1>7, <4>1
        <4>3. h.child[e] = [g.child[e] EXCEPT !.prev = s[1]]
          BY <2>5, <2>6, <3>1
        <4>4. (IF n + j = 1 THEN null ELSE M[p][(n + j) - 1]) = s[1]
          BY <4>1, <4>2
        <4>5. h.child[e] = [parent |-> p, next |-> IF j = m THEN null ELSE L[p][j + 1],
                            prev |-> s[1]]
          BY ONLY <2>3, <4>3
        <4>6. QED
          BY ONLY <4>4, <4>5
      <3>2. CASE j = 1 /\ s = <<>>
        <4>1. n + j = 1
          BY <1>4, <3>2
        <4>2. QED
          BY <2>3, <2>5, <3>2, <4>1
      <3>3. CASE j # 1
        <4>1. j - 1 \in 1..m /\ n + j # 1 /\ n + (j - 1) = (n + j) - 1
          BY <1>4, <3>3
        <4>2. M[p][n + (j - 1)] = L[p][j - 1]
          BY <1>8, <4>1
        <4>3. QED
          BY <2>3, <2>5, <2>6, <3>3, <4>1, <4>2
      <3>4. QED
        BY <3>1, <3>2, <3>3
    <2> HIDE DEF e
    <2>8. QED
      BY <2>2, <2>4, <2>7 DEF Link
  <1>14. ASSUME NEW q \in Entities, NEW k \in 1..Len(M[q])
         PROVE  h.child[M[q][k]] = Link(q, M[q], k)
    <2>1. CASE q = p
      <3>1. k \in 1..n \/ k - n \in 1..m
        BY <1>4, <2>1
      <3>2. CASE k \in 1..n
        BY <1>12, <2>1, <3>2
      <3>3. CASE k - n \in 1..m
        <4>1. PICK j \in 1..m : j = k - n
          BY <3>3
        <4>2. k = n + j
          BY <1>4, <2>1, <4>1
        <4>3. QED
          BY <1>13, <2>1, <4>2
      <3>4. QED
        BY <3>1, <3>2, <3>3
    <2>2. CASE q # p
      <3>1. M[q] = L[q] /\ k \in 1..Len(L[q])
        BY <1>6, <2>2
      <3>2. L[q][k] # head
        <4>1. CASE m = 0
          BY <1>5, <1>10, <3>1, <4>1
        <4>2. CASE m # 0
          <5>1. 1 \in 1..Len(L[p]) /\ head = L[p][1]
            BY <1>4, <1>5, <4>2 DEF m
          <5>2. QED
            BY <1>1, <2>2, <3>1, <5>1 DEF Lists
        <4>3. QED
          BY <4>1, <4>2
      <3>3. h.child[L[q][k]] = g.child[L[q][k]]
        BY <1>3, <1>9, <1>10, <3>1, <3>2
      <3>4. QED
        BY <1>11, <3>1, <3>3
    <2>3. QED
      BY <2>1, <2>2
  <1>15. ASSUME NEW e \in Entities, ~InList(M, e) PROVE h.child[e] = NoChild
    <2>1. ~InList(L, e) /\ \A i \in 1..n : s[i] # e
      BY <1>2, <1>15 DEF n
    <2>2. e # head
      <3>1. CASE m = 0
        BY <1>5, <3>1, SceneAssumption
      <3>2. CASE m # 0
        <4>1. 1 \in 1..Len(L[p])
          BY <1>4, <3>2 DEF m
        <4>2. QED
          BY <1>5, <2>1, <3>2, <4>1 DEF InList
      <3>3. QED
        BY <3>1, <3>2
    <2>3. g.child[e] = NoChild
      BY <2>1 DEF Shows
    <2>4. QED
      BY <1>3, <2>1, <2>2, <2>3
  <1>16. ASSUME NEW q \in Entities PROVE h.parent[q] = Top(M[q])
    <2>1. CASE q # p
      BY <1>3, <1>6, <2>1 DEF Shows
    <2>2. CASE q = p
      <3>1. M[p] = <<>> <=> n + m = 0
        BY <1>2, <1>4, ListFacts
      <3>2. g.parent[p].num = m /\ g.parent[p] = Top(L[p])
        BY <1>1, TopFacts DEF Shows, m
      <3>3. CASE s = <<>>
        <4>1. n = 0
          BY <1>4, <3>3
        <4>2. CASE m = 0
          <5>1. L[p] = <<>> /\ M[p] = <<>>
            BY <1>1, <3>1, <4>1, <4>2, ListFacts DEF m
          <5>2. QED
            BY <1>3, <2>2, <3>2, <3>3, <5>1
        <4>3. CASE m # 0
          <5>1. L[p] # <<>> /\ M[p] # <<>> /\ Len(M[p]) = m /\ 1 \in 1..m /\ n + 1 = 1
            BY <1>1, <1>4, <3>1, <4>1, <4>3, ListFacts DEF m
          <5>2. M[p][1] = L[p][1]
            BY <1>8, <5>1
          <5>3. QED
            BY <1>3, <2>2, <3>2, <3>3, <5>1, <5>2 DEF Top, m
        <4>4. QED
          BY <4>2, <4>3
      <3>4. CASE s # <<>>
        <4>1. n # 0 /\ 1 \in 1..n /\ (n - 1) + 1 = n /\ M[p] # <<>> /\ m + n = Len(M[p])
          BY <1>4, <3>1, <3>4
        <4>2. M[p][1] = s[n]
          BY <1>7, <4>1
        <4>3. QED
          BY <1>3, <2>2, <3>2, <3>4, <4>1, <4>2 DEF Top
      <3>5. QED
        BY <3>3, <3>4
    <2>3. QED
      BY <2>1, <2>2
  <1>17. QED
    BY <1>2, <1>3, <1>14, <1>15, <1>16 DEF Shows, h


\* The k-th of the list of p is taken out of it.
Removed(L, M, p, k) ==
  /\ M \in [Entities -> Seq(Entities)]
  /\ \A q \in Entities : q # p => M[q] = L[q]
  /\ Len(L[p]) = Len(M[p]) + 1
  /\ \A i \in 1..Len(M[p]) : M[p][i] = IF i < k THEN L[p][i] ELSE L[p][i + 1]

LEMMA RemovedIs ==
    ASSUME NEW L, Lists(L), NEW p \in Entities, NEW k \in 1..Len(L[p])
    PROVE  Removed(L, [L EXCEPT ![p] = RemoveAt(@, k)], p, k)
  <1> DEFINE s == L[p]
             n == Len(s) - 1
             t == RemoveAt(s, k)
             M == [L EXCEPT ![p] = RemoveAt(@, k)]
  <1>1. s \in Seq(Entities) /\ Len(s) \in Nat /\ DOMAIN s = 1..Len(s) /\ L \in [Entities -> Seq(Entities)]
        /\ \A i \in 1..Len(s) : s[i] \in Entities
    BY ListFacts DEF Lists
  <1>2. t = SubSeq(s, 1, k - 1) \o SubSeq(s, k + 1, Len(s))
    BY DEF RemoveAt
  <1> HIDE DEF s, t
  <1>3. k \in 1..Len(s)
    BY DEF s
  <1> DEFINE a == SubSeq(s, 1, k - 1)
             b == SubSeq(s, k + 1, Len(s))
  <1>4. a \in Seq(Entities) /\ Len(a) = k - 1 /\ \A i \in 1..k - 1 : a[i] = s[i]
    <2>1. /\ 1 \in 1..Len(s) + 1 /\ k - 1 \in 0..Len(s) /\ 1 \in Int /\ k - 1 \in Int
          /\ \A i \in 1..k - 1 : i \in 1..(k - 1) - 1 + 1 /\ 1 + i - 1 = i /\ i \in 1..Len(s)
          /\ (IF 1 <= k - 1 THEN (k - 1) - 1 + 1 ELSE 0) = k - 1
      BY <1>1, <1>3
    <2>2. a = [i \in 1..k - 1 |-> s[i]]
      <3>1. a = [i \in 1..((k - 1) - 1 + 1) |-> s[1 + i - 1]]
        BY DEF SubSeq
      <3>2. (k - 1) - 1 + 1 = k - 1 /\ \A i \in 1..k - 1 : 1 + i - 1 = i
        BY <1>1, <1>3
      <3>3. QED
        BY <3>1, <3>2
    <2> HIDE DEF a
    <2>3. a \in [1..k - 1 -> Entities] /\ k - 1 \in Nat
      <3>1. \A i \in 1..k - 1 : s[i] \in Entities
        BY <1>1, <2>1
      <3>2. QED
        BY <1>1, <1>3, <2>2, <3>1
    <2>4. a \in Seq(Entities)
      BY <2>3, SeqDef
    <2>5. Len(a) \in Nat /\ DOMAIN a = 1..Len(a) /\ DOMAIN a = 1..k - 1
      BY <2>3, <2>4, LenProperties
    <2>6. Len(a) = k - 1
      BY <2>3, <2>5
    <2>7. QED
      BY <2>2, <2>4, <2>6
  <1>5. /\ b \in Seq(Entities) /\ Len(b) = Len(s) - k
        /\ \A i \in 1..Len(s) - k : b[i] = s[k + i]
    <2>2. b = [i \in 1..Len(s) - k |-> s[k + i]]
      <3>1. b = [i \in 1..(Len(s) - (k + 1) + 1) |-> s[(k + 1) + i - 1]]
        BY DEF SubSeq
      <3>2. Len(s) - (k + 1) + 1 = Len(s) - k /\ \A i \in 1..Len(s) - k : (k + 1) + i - 1 = k + i
        BY <1>1, <1>3
      <3>3. QED
        BY <3>1, <3>2
    <2>1. Len(s) - k \in Nat /\ \A i \in 1..Len(s) - k : k + i \in 1..Len(s)
      BY <1>1, <1>3
    <2>3. b \in [1..Len(s) - k -> Entities]
      BY <1>1, <2>1, <2>2
    <2>4. b \in Seq(Entities)
      BY <2>1, <2>3, SeqDef
    <2>5. Len(b) \in Nat /\ DOMAIN b = 1..Len(b) /\ DOMAIN b = 1..Len(s) - k
      BY <2>3, <2>4, LenProperties
    <2>6. Len(b) = Len(s) - k
      BY <2>1, <2>5
    <2>7. QED
      BY <2>2, <2>4, <2>6
  <1> HIDE DEF a, b
  <1>6. /\ t \in Seq(Entities) /\ Len(t) = Len(a) + Len(b)
        /\ \A i \in 1..Len(a) + Len(b) : t[i] = IF i <= Len(a) THEN a[i] ELSE b[i - Len(a)]
    BY <1>2, <1>4, <1>5, ConcatProperties DEF a, b
  <1>7. Len(a) + Len(b) = n /\ Len(s) = n + 1
    BY <1>1, <1>3, <1>4, <1>5
  <1>8. \A i \in 1..n : t[i] = IF i < k THEN s[i] ELSE s[i + 1]
    <2> SUFFICES ASSUME NEW i \in 1..n PROVE t[i] = IF i < k THEN s[i] ELSE s[i + 1]
      OBVIOUS
    <2>1. CASE i < k
      <3>1. i \in 1..k - 1 /\ i <= Len(a) /\ i \in 1..Len(a) + Len(b)
        BY <1>1, <1>3, <1>4, <1>7, <2>1
      <3>2. QED
        BY <1>4, <1>6, <2>1, <3>1
    <2>2. CASE ~(i < k)
      <3>1. /\ i - Len(a) \in 1..Len(s) - k /\ ~(i <= Len(a)) /\ i \in 1..Len(a) + Len(b)
            /\ k + (i - Len(a)) = i + 1
        BY <1>1, <1>3, <1>4, <1>7, <2>2
      <3>2. t[i] = b[i - Len(a)] /\ b[i - Len(a)] = s[k + (i - Len(a))]
        BY <1>5, <1>6, <3>1
      <3>3. QED
        BY <2>2, <3>1, <3>2
    <2>3. QED
      BY <2>1, <2>2
  <1>9. M \in [Entities -> Seq(Entities)] /\ M[p] = t /\ \A q \in Entities : q # p => M[q] = L[q]
    BY <1>1, <1>6 DEF s, t
  <1> HIDE DEF M
  <1>10. Removed(L, M, p, k)
    BY <1>6, <1>7, <1>8, <1>9 DEF Removed, s
  <1>11. QED
    BY <1>10 DEF M

LEMMA RemovedLists ==
    ASSUME NEW L, Lists(L), NEW M, NEW p \in Entities, NEW k \in 1..Len(L[p]), Removed(L, M, p, k)
    PROVE  /\ Lists(M)
           /\ \A e : InList(M, e) <=> InList(L, e) /\ e # L[p][k]
  <1>1. Len(L[p]) \in Nat /\ Len(M[p]) \in Nat /\ Len(L[p]) = Len(M[p]) + 1
    BY ListFacts, LenProperties DEF Removed
  <1>2. ASSUME NEW i \in 1..Len(M[p])
        PROVE  \E j \in 1..Len(L[p]) : M[p][i] = L[p][j] /\ j = (IF i < k THEN i ELSE i + 1)
    <2>1. (IF i < k THEN i ELSE i + 1) \in 1..Len(L[p])
      BY <1>1
    <2>2. M[p][i] = L[p][IF i < k THEN i ELSE i + 1]
      BY DEF Removed
    <2>3. QED
      BY <2>1, <2>2
  <1>3. \A i, j \in 1..Len(L[p]) : L[p][i] = L[p][j] => i = j
    BY DEF Lists
  <1>4. ASSUME NEW i \in 1..Len(M[p]), NEW j \in 1..Len(M[p]), M[p][i] = M[p][j] PROVE i = j
    <2>1. PICK a \in 1..Len(L[p]) : M[p][i] = L[p][a] /\ a = IF i < k THEN i ELSE i + 1
      BY <1>2
    <2>2. PICK b \in 1..Len(L[p]) : M[p][j] = L[p][b] /\ b = IF j < k THEN j ELSE j + 1
      BY <1>2
    <2>3. a = b
      BY <1>3, <1>4, <2>1, <2>2
    <2>4. i \in Int /\ j \in Int /\ k \in Int
      BY <1>1
    <2>5. QED
      BY ONLY <2>1, <2>2, <2>3, <2>4
  <1>5. ASSUME NEW q \in Entities, NEW i \in 1..Len(M[q])
        PROVE  \E j \in 1..Len(L[q]) : M[q][i] = L[q][j]
    BY <1>2 DEF Removed
  <1>6. Lists(M)
    <2>1. ASSUME NEW q \in Entities, NEW r \in Entities,
                 NEW i \in 1..Len(M[q]), NEW j \in 1..Len(M[r]), M[q][i] = M[r][j]
          PROVE  q = r /\ i = j
      <3>1. PICK a \in 1..Len(L[q]) : M[q][i] = L[q][a]
        BY <1>5
      <3>2. PICK b \in 1..Len(L[r]) : M[r][j] = L[r][b]
        BY <1>5
      <3>3. q = r
        <4>1. L[q][a] = L[r][b]
          BY <2>1, <3>1, <3>2
        <4>2. QED
          BY <4>1 DEF Lists
      <3>4. CASE q = p
        BY <1>4, <2>1, <3>3, <3>4
      <3>5. CASE q # p
        <4>1. M[q] = L[q] /\ M[r] = L[r]
          BY <3>3, <3>5 DEF Removed
        <4>2. QED
          BY <2>1, <4>1 DEF Lists
      <3>6. QED
        BY <3>3, <3>4, <3>5
    <2>2. QED
      BY <2>1 DEF Lists, Removed
  <1>7. ASSUME NEW e, InList(M, e) PROVE InList(L, e) /\ e # L[p][k]
    <2>1. PICK q \in Entities : \E i \in 1..Len(M[q]) : M[q][i] = e
      BY <1>7 DEF InList
    <2>2. PICK i \in 1..Len(M[q]) : M[q][i] = e
      BY <2>1
    <2>3. CASE q = p
      <3>1. PICK j \in 1..Len(L[p]) : M[p][i] = L[p][j] /\ j = IF i < k THEN i ELSE i + 1
        BY <1>2, <2>2, <2>3
      <3>2. j # k
        BY <1>1, <2>2, <2>3, <3>1
      <3>3. QED
        BY <1>3, <2>2, <2>3, <3>1, <3>2 DEF InList
    <2>4. CASE q # p
      <3>1. M[q] = L[q]
        BY <2>4 DEF Removed
      <3>2. InList(L, e)
        BY <2>2, <3>1 DEF InList
      <3>3. e # L[p][k]
        BY <2>2, <2>4, <3>1 DEF Lists
      <3>4. QED
        BY <3>2, <3>3
    <2>5. QED
      BY <2>3, <2>4
  <1>8. ASSUME NEW e, InList(L, e), e # L[p][k] PROVE InList(M, e)
    <2>1. PICK q \in Entities : \E i \in 1..Len(L[q]) : L[q][i] = e
      BY <1>8 DEF InList
    <2>2. PICK i \in 1..Len(L[q]) : L[q][i] = e
      BY <2>1
    <2>3. CASE q = p
      <3>1. PICK j \in 1..Len(M[p]) : i = IF j < k THEN j ELSE j + 1
        <4>1. CASE i < k
          <5>1. i \in 1..Len(M[p])
            BY <1>1, <2>2, <2>3, <4>1
          <5>2. QED
            BY <4>1, <5>1
        <4>2. CASE ~(i < k)
          <5>1. i # k
            BY <1>8, <2>2, <2>3
          <5>2. i - 1 \in 1..Len(M[p]) /\ ~(i - 1 < k) /\ i = (i - 1) + 1
            BY <1>1, <2>2, <2>3, <4>2, <5>1
          <5>3. QED
            BY <5>2
        <4>3. QED
          BY <4>1, <4>2
      <3>2. M[p][j] = L[p][i]
        BY <3>1 DEF Removed
      <3>3. QED
        BY <2>2, <2>3, <3>2 DEF InList
    <2>4. CASE q # p
      BY <2>2, <2>4 DEF InList, Removed
    <2>5. QED
      BY <2>3, <2>4
  <1>9. QED
    BY <1>6, <1>7, <1>8


\* What detach_from_parent() writes.
LEMMA DetachWrites ==
    ASSUME NEW g \in Graphs, NEW c \in Entities, NEW p \in Entities, g.child[c].parent = p,
           g.parent[p].num \in Nat \ {0}
    PROVE  LET P == g.child[c].prev  N == g.child[c].next  h == Detach(g, c) IN
           /\ h \in Graphs
           /\ h.child[c] = NoChild
           /\ \A e \in Entities : e # c => h.child[e] =
                [parent |-> g.child[e].parent,
                 next   |-> IF e = P THEN N ELSE g.child[e].next,
                 prev   |-> IF e = N THEN P ELSE g.child[e].prev]
           /\ \A q \in Entities : q # p => h.parent[q] = g.parent[q]
           /\ h.parent[p] =
                IF g.parent[p].num = 1 THEN NoParent
                ELSE [num |-> g.parent[p].num - 1, first |-> IF P = null THEN N ELSE g.parent[p].first]
  <1> DEFINE P == g.child[c].prev
             N == g.child[c].next
             other(e) == [g.child[e] EXCEPT !.prev = IF e = N THEN P ELSE @,
                                            !.next = IF e = P THEN N ELSE @]
             link(e) == [parent |-> g.child[e].parent,
                         next   |-> IF e = P THEN N ELSE g.child[e].next,
                         prev   |-> IF e = N THEN P ELSE g.child[e].prev]
             child == [e \in Entities |-> IF e = c THEN NoChild ELSE other(e)]
             top == IF g.parent[p].num = 1 THEN NoParent
                    ELSE [num |-> g.parent[p].num - 1,
                          first |-> IF P = null THEN N ELSE g.parent[p].first]
             parent == [g.parent EXCEPT ![p] =
                          IF @.num = 1 THEN NoParent
                          ELSE [num |-> @.num - 1, first |-> IF P = null THEN N ELSE @.first]]
             h == Detach(g, c)
  <1>1. h = [child |-> child, parent |-> parent]
    BY DEF Detach
  <1>2. g.child \in [Entities -> LinkType] /\ g.parent \in [Entities -> TopType]
    BY GraphFacts
  <1>3. P \in Entities \cup {null} /\ N \in Entities \cup {null}
    BY <1>2 DEF LinkType
  <1>4. ASSUME NEW e \in Entities PROVE other(e) = link(e) /\ link(e) \in LinkType
    <2>1. g.child[e] \in LinkType
      BY <1>2
    <2>2. PICK r \in LinkType : r = g.child[e]
      BY <2>1
    <2>3. /\ r = [parent |-> r.parent, next |-> r.next, prev |-> r.prev]
          /\ r.parent \in Entities \cup {null} /\ r.next \in Entities \cup {null}
          /\ r.prev \in Entities \cup {null}
      BY DEF LinkType
    <2>4. /\ other(e) \in LinkType /\ other(e).parent = r.parent
          /\ other(e).next = IF e = P THEN N ELSE r.next
          /\ other(e).prev = IF e = N THEN P ELSE r.prev
      BY <1>3, <2>2, <2>3 DEF LinkType
    <2> HIDE DEF other
    <2>5. PICK t \in LinkType : t = other(e)
      BY <2>4
    <2>6. t = [parent |-> t.parent, next |-> t.next, prev |-> t.prev]
      BY DEF LinkType
    <2>7. other(e) = link(e)
      BY <2>2, <2>4, <2>5, <2>6
    <2>8. QED
      BY <2>4, <2>7
  <1> HIDE DEF other, link
  <1>5. NoChild \in LinkType
    BY DEF NoChild, LinkType
  <1>6. /\ child \in [Entities -> LinkType] /\ child[c] = NoChild
        /\ \A e \in Entities : e # c => child[e] = link(e)
    BY <1>4, <1>5
  <1>7. g.parent[p].num - 1 \in Nat /\ g.parent[p].first \in Entities \cup {null}
    BY <1>2 DEF TopType
  <1>8. top \in TopType
    BY <1>3, <1>7 DEF TopType, NoParent
  <1> HIDE DEF top, child
  <1>9. parent = [g.parent EXCEPT ![p] = top]
    BY DEF top
  <1> HIDE DEF parent
  <1>10. /\ parent \in [Entities -> TopType] /\ parent[p] = top
         /\ \A q \in Entities : q # p => parent[q] = g.parent[q]
    BY <1>2, <1>8, <1>9
  <1>11. h \in Graphs /\ h.child = child /\ h.parent = parent
    BY <1>1, <1>6, <1>10, GraphMade
  <1> HIDE DEF h
  <1>12. QED
    BY <1>6, <1>10, <1>11 DEF link, top, h

LEMMA DetachShows ==
    ASSUME NEW g, NEW L, Shows(g, L), NEW p \in Entities, NEW k \in 1..Len(L[p]),
           NEW M, Removed(L, M, p, k)
    PROVE  Shows(Detach(g, L[p][k]), M)
  <1> DEFINE m == Len(M[p])
             c == L[p][k]
             N == g.child[c].next
             P == g.child[c].prev
             h == Detach(g, c)
  <1>1. Lists(L) /\ g \in Graphs
    BY DEF Shows
  <1>2. Lists(M) /\ \A e : InList(M, e) <=> InList(L, e) /\ e # c
    BY <1>1, RemovedLists
  <1>3. /\ m \in Nat /\ Len(L[p]) = m + 1 /\ k \in 1..m + 1
        /\ L[p] # <<>>
        /\ M[p] = <<>> <=> m = 0
    BY <1>1, <1>2, ListFacts DEF Removed
  <1>4. c \in Entities /\ g.child[c] = Link(p, L[p], k)
    BY <1>1, ListFacts DEF Shows
  <1>5. /\ g.child[c].parent = p
        /\ N = (IF k = m + 1 THEN null ELSE L[p][k + 1])
        /\ P = (IF k = 1 THEN null ELSE L[p][k - 1])
    BY <1>1, <1>3, <1>4, LinkFacts
  <1>6. g.parent[p] = [num |-> m + 1, first |-> L[p][1]]
    BY <1>3 DEF Shows, Top
  <1>7. /\ h \in Graphs
        /\ h.child[c] = NoChild
        /\ \A e \in Entities : e # c => h.child[e] =
             [parent |-> g.child[e].parent,
              next   |-> IF e = P THEN N ELSE g.child[e].next,
              prev   |-> IF e = N THEN P ELSE g.child[e].prev]
        /\ \A q \in Entities : q # p => h.parent[q] = g.parent[q]
        /\ h.parent[p] = IF g.parent[p].num = 1 THEN NoParent
                         ELSE [num |-> g.parent[p].num - 1,
                               first |-> IF P = null THEN N ELSE g.parent[p].first]
    <2>1. g.parent[p].num \in Nat \ {0}
      BY <1>3, <1>6
    <2>2. c \in Entities /\ g.child[c].parent = p /\ g \in Graphs
      BY <1>1, <1>4, <1>5
    <2> HIDE DEF c
    <2>3. QED
      BY <2>1, <2>2, DetachWrites
  <1>8. \A q \in Entities : q # p => M[q] = L[q]
    BY DEF Removed
  <1>9. \A i \in 1..m : M[p][i] = IF i < k THEN L[p][i] ELSE L[p][i + 1]
    BY DEF Removed
  <1>10. \A i, j \in 1..m + 1 : L[p][i] = L[p][j] => i = j
    BY <1>1, <1>3 DEF Lists
  <1>11. \A q \in Entities : \A i \in 1..Len(L[q]) : L[q][i] \in Entities /\ L[q][i] # null
    BY <1>1, ListFacts
  <1>12. \A i \in 1..m + 1 : L[p][i] \in Entities /\ L[p][i] # null
    BY <1>3, <1>11
  <1>13. \A q \in Entities : \A i \in 1..Len(L[q]) : g.child[L[q][i]] = Link(q, L[q], i)
    BY DEF Shows
  <1>14. \A i \in 1..m + 1 : (L[p][i] = N <=> i = k + 1) /\ (L[p][i] = P <=> i = k - 1)
         /\ (L[p][i] = c <=> i = k)
    <2> SUFFICES ASSUME NEW i \in 1..m + 1
                 PROVE  (L[p][i] = N <=> i = k + 1) /\ (L[p][i] = P <=> i = k - 1)
                        /\ (L[p][i] = c <=> i = k)
      OBVIOUS
    <2> HIDE DEF N, P, m
    <2>1. L[p][i] = N <=> i = k + 1
      <3>1. CASE k = m + 1
        BY <1>3, <1>5, <1>12, <3>1
      <3>2. CASE k # m + 1
        <4>1. k + 1 \in 1..m + 1
          BY <1>3, <3>2
        <4>2. QED
          BY <1>5, <1>10, <3>2, <4>1
      <3>3. QED
        BY <3>1, <3>2
    <2>2. L[p][i] = P <=> i = k - 1
      <3>1. CASE k = 1
        BY <1>3, <1>5, <1>12, <3>1
      <3>2. CASE k # 1
        <4>1. k - 1 \in 1..m + 1
          BY <1>3, <3>2
        <4>2. QED
          BY <1>5, <1>10, <3>2, <4>1
      <3>3. QED
        BY <3>1, <3>2
    <2>3. L[p][i] = c <=> i = k
      BY <1>3, <1>10
    <2>4. QED
      BY <2>1, <2>2, <2>3
  <1>15. \A i \in 1..m + 1 : g.child[L[p][i]] =
           [parent |-> p, next |-> IF i = m + 1 THEN null ELSE L[p][i + 1],
            prev |-> IF i = 1 THEN null ELSE L[p][i - 1]]
    BY <1>3, <1>13 DEF Link
  <1>16. \A i \in 1..m + 1 : i # k => h.child[L[p][i]] =
           [parent |-> p,
            next |-> IF i = k - 1 THEN N ELSE IF i = m + 1 THEN null ELSE L[p][i + 1],
            prev |-> IF i = k + 1 THEN P ELSE IF i = 1 THEN null ELSE L[p][i - 1]]
    <2> SUFFICES ASSUME NEW i \in 1..m + 1, i # k
                 PROVE h.child[L[p][i]] =
           [parent |-> p,
            next |-> IF i = k - 1 THEN N ELSE IF i = m + 1 THEN null ELSE L[p][i + 1],
            prev |-> IF i = k + 1 THEN P ELSE IF i = 1 THEN null ELSE L[p][i - 1]]
      OBVIOUS
    <2> HIDE DEF N, P, m, h, c
    <2>1. PICK e \in Entities : e = L[p][i]
      BY <1>12
    <2>2. e # c /\ (e = N <=> i = k + 1) /\ (e = P <=> i = k - 1)
      BY <1>14, <2>1
    <2>3. g.child[e] = [parent |-> p, next |-> IF i = m + 1 THEN null ELSE L[p][i + 1],
                        prev |-> IF i = 1 THEN null ELSE L[p][i - 1]]
      BY <1>15, <2>1
    <2>4. h.child[e] = [parent |-> g.child[e].parent,
                        next   |-> IF e = P THEN N ELSE g.child[e].next,
                        prev   |-> IF e = N THEN P ELSE g.child[e].prev]
      BY <1>7, <2>2
    <2>5. QED
      BY ONLY <2>1, <2>2, <2>3, <2>4
  <1> HIDE DEF N, P, m, h, c
  <1>17. ASSUME NEW i \in 1..m PROVE h.child[M[p][i]] = Link(p, M[p], i)
    <2> DEFINE j == IF i < k THEN i ELSE i + 1
    <2>1. j \in 1..m + 1 /\ j # k
      BY <1>3
    <2>2. M[p][i] = L[p][j]
      BY <1>9
    <2>3. (IF j = k - 1 THEN N ELSE IF j = m + 1 THEN null ELSE L[p][j + 1])
            = IF i = m THEN null ELSE M[p][i + 1]
      <3>1. CASE i = m
        <4>1. j = m + 1 \/ (j = k - 1 /\ k = m + 1)
          BY <1>3, <3>1
        <4>2. m + 1 # k - 1
          BY <1>3
        <4>3. QED
          BY <1>5, <3>1, <4>1, <4>2
      <3>2. CASE i # m
        <4>1. i + 1 \in 1..m
          BY <1>3, <3>2
        <4>2. M[p][i + 1] = IF i + 1 < k THEN L[p][i + 1] ELSE L[p][(i + 1) + 1]
          BY <1>9, <4>1
        <4>3. CASE i + 1 < k
          <5>1. j = i /\ j # k - 1 /\ j # m + 1
            BY <1>3, <4>3
          <5>2. QED
            BY <3>2, <4>2, <4>3, <5>1
        <4>4. CASE i + 1 = k
          <5>1. j = k - 1 /\ k # m + 1 /\ (i + 1) + 1 = k + 1 /\ ~(i + 1 < k)
            BY <1>3, <3>2, <4>4
          <5>2. QED
            BY <1>5, <3>2, <4>2, <5>1
        <4>5. CASE i + 1 > k
          <5>1. j = i + 1 /\ j # k - 1 /\ j # m + 1 /\ ~(i + 1 < k)
            BY <1>3, <3>2, <4>5
          <5>2. QED
            BY <3>2, <4>2, <5>1
        <4>6. QED
          BY <1>3, <4>3, <4>4, <4>5
      <3>3. QED
        BY <3>1, <3>2
    <2>4. (IF j = k + 1 THEN P ELSE IF j = 1 THEN null ELSE L[p][j - 1])
            = IF i = 1 THEN null ELSE M[p][i - 1]
      <3>1. CASE i = 1
        <4>1. (j = 1 /\ j # k + 1) \/ (j = k + 1 /\ k = 1)
          BY <1>3, <3>1
        <4>2. QED
          BY <1>5, <3>1, <4>1
      <3>2. CASE i # 1
        <4>1. i - 1 \in 1..m /\ (i - 1) + 1 = i
          BY <1>3, <3>2
        <4>2. M[p][i - 1] = IF i - 1 < k THEN L[p][i - 1] ELSE L[p][i]
          BY <1>9, <4>1
        <4>3. CASE i < k
          <5>1. j = i /\ j # k + 1 /\ j # 1 /\ i - 1 < k
            BY <1>3, <3>2, <4>3
          <5>2. QED
            BY <3>2, <4>2, <5>1
        <4>4. CASE i = k
          <5>1. j = k + 1 /\ i - 1 < k /\ k # 1
            BY <1>3, <3>2, <4>4
          <5>2. QED
            BY <1>5, <3>2, <4>2, <4>4, <5>1
        <4>5. CASE i > k
          <5>1. j = i + 1 /\ j # k + 1 /\ j # 1 /\ ~(i - 1 < k) /\ (i + 1) - 1 = i
            BY <1>3, <3>2, <4>5
          <5>2. QED
            BY <3>2, <4>2, <5>1
        <4>6. QED
          BY <1>3, <4>3, <4>4, <4>5
      <3>3. QED
        BY <3>1, <3>2
    <2> HIDE DEF j
    <2>5. QED
      BY <1>16, <2>1, <2>2, <2>3, <2>4 DEF Link, m
  <1>18. ASSUME NEW e \in Entities, e # c, ~\E i \in 1..m + 1 : L[p][i] = e
         PROVE  h.child[e] = g.child[e]
    <2>1. e # N /\ e # P
      <3>1. N = null \/ k + 1 \in 1..m + 1
        BY <1>3, <1>5
      <3>2. P = null \/ k - 1 \in 1..m + 1
        BY <1>3, <1>5
      <3>3. e # null
        BY SceneAssumption
      <3>4. QED
        BY <1>14, <1>18, <3>1, <3>2, <3>3
    <2>2. g.child[e] \in LinkType
      BY <1>1, GraphFacts
    <2>3. PICK r \in LinkType : r = g.child[e]
      BY <2>2
    <2>4. r = [parent |-> r.parent, next |-> r.next, prev |-> r.prev]
      BY DEF LinkType
    <2>5. h.child[e] = [parent |-> g.child[e].parent,
                        next   |-> IF e = P THEN N ELSE g.child[e].next,
                        prev   |-> IF e = N THEN P ELSE g.child[e].prev]
      BY <1>7, <1>18
    <2>6. QED
      BY ONLY <2>1, <2>3, <2>4, <2>5
  <1>19. ASSUME NEW q \in Entities, NEW i \in 1..Len(M[q]) PROVE h.child[M[q][i]] = Link(q, M[q], i)
    <2>1. CASE q = p
      BY <1>17, <2>1 DEF m
    <2>2. CASE q # p
      <3>1. M[q] = L[q] /\ i \in 1..Len(L[q])
        BY <1>8, <2>2
      <3>2. L[q][i] # c /\ ~\E j \in 1..m + 1 : L[p][j] = L[q][i]
        BY <1>1, <1>3, <2>2, <3>1 DEF Lists, c
      <3>3. QED
        BY <1>11, <1>13, <1>18, <3>1, <3>2
    <2>3. QED
      BY <2>1, <2>2
  <1>20. ASSUME NEW e \in Entities, ~InList(M, e) PROVE h.child[e] = NoChild
    <2>1. CASE e = c
      BY <1>7, <2>1
    <2>2. CASE e # c
      <3>1. ~InList(L, e)
        BY <1>2, <1>20, <2>2
      <3>2. ~\E i \in 1..m + 1 : L[p][i] = e
        BY <1>3, <3>1 DEF InList
      <3>3. g.child[e] = NoChild
        BY <3>1 DEF Shows
      <3>4. QED
        BY <1>18, <2>2, <3>2, <3>3
    <2>3. QED
      BY <2>1, <2>2
  <1>21. ASSUME NEW q \in Entities PROVE h.parent[q] = Top(M[q])
    <2>1. CASE q # p
      BY <1>7, <1>8, <2>1 DEF Shows
    <2>2. CASE q = p
      <3>1. g.parent[p].num = m + 1 /\ g.parent[p].first = L[p][1]
        BY <1>6
      <3>2. CASE m = 0
        <4>1. m + 1 = 1 /\ M[p] = <<>>
          BY <1>3, <3>2
        <4>2. QED
          BY <1>7, <2>2, <3>1, <4>1 DEF Top
      <3>3. CASE m # 0
        <4>1. m + 1 # 1 /\ (m + 1) - 1 = m /\ 1 \in 1..m /\ M[p] # <<>>
          BY <1>3, <3>3
        <4>2. (IF P = null THEN N ELSE L[p][1]) = M[p][1]
          <5>1. M[p][1] = IF 1 < k THEN L[p][1] ELSE L[p][1 + 1]
            BY <1>9, <4>1
          <5>2. CASE k = 1
            <6>1. k # m + 1 /\ ~(1 < k)
              BY <3>3, <4>1, <5>2
            <6>2. QED
              BY <1>5, <5>1, <5>2, <6>1
          <5>3. CASE k # 1
            <6>1. 1 < k /\ k - 1 \in 1..m + 1
              BY <1>3, <5>3
            <6>2. P # null
              BY <1>5, <1>12, <5>3, <6>1
            <6>3. QED
              BY <5>1, <6>1, <6>2
          <5>4. QED
            BY <5>2, <5>3
        <4>3. QED
          BY <1>7, <2>2, <3>1, <4>1, <4>2 DEF Top, m
      <3>4. QED
        BY <3>2, <3>3
    <2>3. QED
      BY <2>1, <2>2
  <1>22. QED
    BY <1>2, <1>7, <1>19, <1>20, <1>21 DEF Shows, h, c


\* The lists of E are no more.
Emptied(L, E) == [q \in Entities |-> IF q \in E THEN <<>> ELSE L[q]]

LEMMA EmptiedLists ==
    ASSUME NEW L, Lists(L), NEW E
    PROVE  /\ Lists(Emptied(L, E))
           /\ \A q \in Entities : q \notin E => Emptied(L, E)[q] = L[q]
           /\ \A q \in Entities : q \in E => Emptied(L, E)[q] = <<>>
           /\ \A q \in Entities : \A i \in 1..Len(Emptied(L, E)[q]) :
                q \notin E /\ i \in 1..Len(L[q]) /\ Emptied(L, E)[q][i] = L[q][i]
           /\ \A e : InList(Emptied(L, E), e) <=>
                \E q \in Entities : q \notin E /\ \E i \in 1..Len(L[q]) : L[q][i] = e
  <1> DEFINE M == Emptied(L, E)
  <1>1. L \in [Entities -> Seq(Entities)] /\ <<>> \in Seq(Entities) /\ Len(<<>>) = 0
    BY DEF Lists
  <1>2. /\ M \in [Entities -> Seq(Entities)]
        /\ \A q \in Entities : q \notin E => M[q] = L[q]
        /\ \A q \in Entities : q \in E => M[q] = <<>>
    BY <1>1 DEF Emptied
  <1> HIDE DEF M
  <1>3. ASSUME NEW q \in Entities, NEW i \in 1..Len(M[q])
        PROVE  q \notin E /\ i \in 1..Len(L[q]) /\ M[q][i] = L[q][i]
    <2>1. q \notin E
      <3>1. CASE q \in E
        <4>1. M[q] = <<>>
          BY <1>2, <3>1
        <4>2. 1..Len(M[q]) = {}
          BY <1>1, <4>1
        <4>3. QED
          BY <4>2
      <3>2. QED
        BY <3>1
    <2>2. QED
      BY <1>2, <2>1
  <1>4. Lists(M)
    <2>1. ASSUME NEW q \in Entities, NEW r \in Entities,
                 NEW i \in 1..Len(M[q]), NEW j \in 1..Len(M[r]), M[q][i] = M[r][j]
          PROVE  q = r /\ i = j
      <3>1. i \in 1..Len(L[q]) /\ M[q][i] = L[q][i]
        BY <1>3
      <3>2. j \in 1..Len(L[r]) /\ M[r][j] = L[r][j]
        BY <1>3
      <3>3. L[q][i] = L[r][j]
        BY <2>1, <3>1, <3>2
      <3>4. QED
        BY <3>1, <3>2, <3>3 DEF Lists
    <2>2. QED
      BY <1>2, <2>1 DEF Lists
  <1>5. \A e : InList(M, e) <=>
          \E q \in Entities : q \notin E /\ \E i \in 1..Len(L[q]) : L[q][i] = e
    <2>1. ASSUME NEW e, InList(M, e)
          PROVE  \E q \in Entities : q \notin E /\ \E i \in 1..Len(L[q]) : L[q][i] = e
      BY <1>3, <2>1 DEF InList
    <2>2. ASSUME NEW e, NEW q \in Entities, q \notin E, NEW i \in 1..Len(L[q]), L[q][i] = e
          PROVE  InList(M, e)
      BY <1>2, <2>2 DEF InList
    <2>3. QED
      BY <2>1, <2>2
  <1>6. QED
    BY <1>2, <1>3, <1>4, <1>5 DEF M

LEMMA EmptiedShows ==
    ASSUME NEW g, NEW L, Shows(g, L), NEW E, NEW h \in Graphs,
           \A q \in Entities : h.parent[q] = IF q \in E THEN NoParent ELSE g.parent[q],
           \A e \in Entities : h.child[e] = IF InList(Emptied(L, E), e) THEN g.child[e] ELSE NoChild
    PROVE  Shows(h, Emptied(L, E))
  <1> DEFINE M == Emptied(L, E)
  <1>1. Lists(L) /\ \A q \in Entities : g.parent[q] = Top(L[q])
    BY DEF Shows
  <1>2. /\ Lists(M)
        /\ \A q \in Entities : q \notin E => M[q] = L[q]
        /\ \A q \in Entities : q \in E => M[q] = <<>>
        /\ \A q \in Entities : \A i \in 1..Len(M[q]) :
             q \notin E /\ i \in 1..Len(L[q]) /\ M[q][i] = L[q][i]
    BY <1>1, EmptiedLists
  <1>3. \A q \in Entities : \A i \in 1..Len(L[q]) : L[q][i] \in Entities
    BY <1>1, ListFacts
  <1>4. \A e \in Entities : h.child[e] = IF InList(M, e) THEN g.child[e] ELSE NoChild
    OBVIOUS
  <1> HIDE DEF M
  <1>5. ASSUME NEW q \in Entities PROVE h.parent[q] = Top(M[q])
    BY <1>1, <1>2 DEF Top
  <1>6. ASSUME NEW q \in Entities, NEW i \in 1..Len(M[q]) PROVE h.child[M[q][i]] = Link(q, M[q], i)
    <2>1. q \notin E /\ i \in 1..Len(L[q]) /\ M[q] = L[q]
      BY <1>2
    <2>2. InList(M, M[q][i]) /\ M[q][i] \in Entities
      BY <1>3, <2>1 DEF InList
    <2>3. h.child[M[q][i]] = g.child[M[q][i]]
      BY <1>4, <2>2
    <2>4. g.child[L[q][i]] = Link(q, L[q], i)
      BY <2>1 DEF Shows
    <2>5. QED
      BY <2>1, <2>3, <2>4
  <1>7. QED
    BY <1>2, <1>4, <1>5, <1>6 DEF Shows, M

LEMMA DetachAllShows ==
    ASSUME NEW g, NEW L, Shows(g, L), NEW p \in Entities
    PROVE  Shows(DetachAll(g, p), Emptied(L, {p}))
  <1> DEFINE M == Emptied(L, {p})
             h == DetachAll(g, p)
             child == [e \in Entities |->
                         IF e \in Listed(g, g.parent[p].first) THEN NoChild ELSE g.child[e]]
             parent == [g.parent EXCEPT ![p] = NoParent]
  <1>1. Lists(L) /\ g \in Graphs
    BY DEF Shows
  <1>2. g.child \in [Entities -> LinkType] /\ g.parent \in [Entities -> TopType]
    BY <1>1, GraphFacts
  <1>3. NoChild \in LinkType /\ NoParent \in TopType
    BY DEF NoChild, LinkType, NoParent, TopType
  <1>4. \A e \in Entities : e \in Listed(g, g.parent[p].first) <=> \E i \in 1..Len(L[p]) : L[p][i] = e
    BY ListedAre, ChildrenAre
  <1>5. \A e \in Entities : InList(M, e) <=> InList(L, e) /\ ~\E i \in 1..Len(L[p]) : L[p][i] = e
    <2>1. \A e : InList(M, e) <=> \E q \in Entities : q \notin {p} /\ \E i \in 1..Len(L[q]) : L[q][i] = e
      BY <1>1, EmptiedLists
    <2>2. ASSUME NEW e, InList(M, e) PROVE InList(L, e) /\ ~\E i \in 1..Len(L[p]) : L[p][i] = e
      <3>1. PICK q \in Entities : q # p /\ \E i \in 1..Len(L[q]) : L[q][i] = e
        BY <2>1, <2>2
      <3>2. QED
        BY <1>1, <3>1 DEF Lists, InList
    <2>3. ASSUME NEW e, InList(L, e), ~\E i \in 1..Len(L[p]) : L[p][i] = e PROVE InList(M, e)
      BY <2>1, <2>3 DEF InList
    <2>4. QED
      BY <2>2, <2>3
  <1>6. h = [child |-> child, parent |-> parent]
    BY DEF DetachAll
  <1>7. child \in [Entities -> LinkType] /\ parent \in [Entities -> TopType]
    BY <1>2, <1>3
  <1>8. \A q \in Entities : parent[q] = IF q \in {p} THEN NoParent ELSE g.parent[q]
    BY <1>2
  <1>9. \A e \in Entities : child[e] = IF InList(M, e) THEN g.child[e] ELSE NoChild
    <2> SUFFICES ASSUME NEW e \in Entities
                 PROVE  child[e] = IF InList(M, e) THEN g.child[e] ELSE NoChild
      OBVIOUS
    <2> HIDE DEF M
    <2>1. child[e] = IF e \in Listed(g, g.parent[p].first) THEN NoChild ELSE g.child[e]
      OBVIOUS
    <2> HIDE DEF child
    <2>2. ~InList(L, e) => g.child[e] = NoChild
      BY DEF Shows
    <2>3. QED
      BY <1>4, <1>5, <2>1, <2>2
  <1> HIDE DEF child, parent, h, M
  <1>10. h \in Graphs /\ h.child = child /\ h.parent = parent
    BY <1>6, <1>7, GraphMade
  <1>11. /\ \A q \in Entities : h.parent[q] = IF q \in {p} THEN NoParent ELSE g.parent[q]
         /\ \A e \in Entities : h.child[e] = IF InList(Emptied(L, {p}), e) THEN g.child[e] ELSE NoChild
    BY <1>8, <1>9, <1>10 DEF M
  <1>12. QED
    BY <1>10, <1>11, EmptiedShows DEF h

LEMMA DestroyedShows ==
    ASSUME NEW g, NEW L, Shows(g, L), NEW E \in SUBSET Entities,
           \A e \in E : g.child[e].parent \in E \cup {null},
           \A e \in E : ChildrenOf(g, e) \subseteq E
    PROVE  Shows(Destroyed(g, E), Emptied(L, E))
  <1> DEFINE M == Emptied(L, E)
             h == Destroyed(g, E)
             child == [e \in Entities |-> IF e \in E THEN NoChild ELSE g.child[e]]
             parent == [e \in Entities |-> IF e \in E THEN NoParent ELSE g.parent[e]]
  <1>1. Lists(L) /\ g \in Graphs
    BY DEF Shows
  <1>2. g.child \in [Entities -> LinkType] /\ g.parent \in [Entities -> TopType]
    BY <1>1, GraphFacts
  <1>3. NoChild \in LinkType /\ NoParent \in TopType
    BY DEF NoChild, LinkType, NoParent, TopType
  <1>4. \A e \in Entities : InList(M, e) <=> InList(L, e) /\ e \notin E
    <2>1. \A e : InList(M, e) <=> \E q \in Entities : q \notin E /\ \E i \in 1..Len(L[q]) : L[q][i] = e
      BY <1>1, EmptiedLists
    <2>2. ASSUME NEW e \in Entities, InList(M, e) PROVE InList(L, e) /\ e \notin E
      <3>1. PICK q \in Entities : q \notin E /\ \E i \in 1..Len(L[q]) : L[q][i] = e
        BY <2>1, <2>2
      <3>2. InList(L, e) /\ g.child[e].parent = q
        BY <3>1, ParentIs DEF InList
      <3>3. q # null
        BY SceneAssumption
      <3>4. QED
        BY <3>1, <3>2, <3>3
    <2>3. ASSUME NEW e \in Entities, InList(L, e), e \notin E PROVE InList(M, e)
      <3>1. PICK q \in Entities : \E i \in 1..Len(L[q]) : L[q][i] = e
        BY <2>3 DEF InList
      <3>2. e \in ChildrenOf(g, q)
        BY <3>1, ChildrenAre
      <3>3. q \notin E
        BY <2>3, <3>2
      <3>4. QED
        BY <2>1, <3>1, <3>3
    <2>4. QED
      BY <2>2, <2>3
  <1>5. h = [child |-> child, parent |-> parent]
    BY DEF Destroyed
  <1>6. child \in [Entities -> LinkType] /\ parent \in [Entities -> TopType]
    BY <1>2, <1>3
  <1>7. \A q \in Entities : parent[q] = IF q \in E THEN NoParent ELSE g.parent[q]
    OBVIOUS
  <1>8. \A e \in Entities : child[e] = IF InList(M, e) THEN g.child[e] ELSE NoChild
    <2> SUFFICES ASSUME NEW e \in Entities
                 PROVE  child[e] = IF InList(M, e) THEN g.child[e] ELSE NoChild
      OBVIOUS
    <2> HIDE DEF M
    <2>1. child[e] = IF e \in E THEN NoChild ELSE g.child[e]
      OBVIOUS
    <2> HIDE DEF child
    <2>2. ~InList(L, e) => g.child[e] = NoChild
      BY DEF Shows
    <2>3. QED
      BY <1>4, <2>1, <2>2
  <1> HIDE DEF child, parent, h, M
  <1>9. h \in Graphs /\ h.child = child /\ h.parent = parent
    BY <1>5, <1>6, GraphMade
  <1>10. /\ \A q \in Entities : h.parent[q] = IF q \in E THEN NoParent ELSE g.parent[q]
         /\ \A e \in Entities : h.child[e] = IF InList(Emptied(L, E), e) THEN g.child[e] ELSE NoChild
    BY <1>7, <1>8, <1>9 DEF M
  <1>11. QED
    BY <1>9, <1>10, EmptiedShows DEF h


-----------------------------------------------------------------------------
(* What the calls are sure of *)

CallType == [fun: {"attach", "attach_if_root", "detach", "detach_all", "destroy", "sweep"},
             entity: Entities \cup {null}, list: Seq(Entities), set: SUBSET Entities]

IsAttach(c) == c.fun \in {"attach", "attach_if_root"}

\* Nothing is attached by the calls of q after the j-th.
NoAttach(q, j) == \A i \in 1..Len(q) : i > j => ~IsAttach(q[i])

\* No one has attached e when the k-th call comes to it.
RootAt(g, q, k, e) ==
  /\ \A j \in 1..Len(q) : j < k /\ IsAttach(q[j]) => e \notin ToSet(q[j].list)
  /\ ~HasParent(g, e) \/ \E j \in 1..Len(q) : j < k /\ q[j] = DetachIfChild(e)

AttachGood(g, q, A, k) ==
  /\ q[k].entity \in Entities /\ ToSet(q[k].list) \subseteq A \ {q[k].entity}
  /\ Injective(q[k].list)
  /\ \A e \in ToSet(q[k].list) : RootAt(g, q, k, e)

AttachIfRootGood(q, A, k) ==
  /\ q[k].entity \in A
  /\ Len(q[k].list) = 1 /\ q[k].list[1] \in A \ {q[k].entity}

\* When all the calls before the last are done, e has its parent, and its
\* children, among E.
Cut(g, q, e, E) ==
  \/ NoAttach(q, 0) /\ g.child[e].parent \in E \cup {null}
  \/ \E j \in 1..Len(q) : q[j] = DetachIfChild(e) /\ NoAttach(q, j)

Bare(g, q, e, E) ==
  \/ NoAttach(q, 0) /\ ChildrenOf(g, e) \subseteq E
  \/ \E j \in 1..Len(q) : q[j] = DetachAllIfParent(e) /\ NoAttach(q, j)

DestroyGood(g, q, A, k) ==
  /\ k = Len(q) /\ q[k].set \subseteq A
  /\ \A e \in q[k].set : Cut(g, q, e, q[k].set) /\ Bare(g, q, e, q[k].set)

CallGood(g, q, A, k) ==
  /\ q[k].fun = "attach" => AttachGood(g, q, A, k)
  /\ q[k].fun = "attach_if_root" => AttachIfRootGood(q, A, k)
  /\ q[k].fun \in {"detach", "detach_all"} => q[k].entity \in Entities
  /\ q[k].fun \in {"destroy", "sweep"} => DestroyGood(g, q, A, k)

PlanGood(g, q, A) == q \in Seq(CallType) /\ \A k \in 1..Len(q) : CallGood(g, q, A, k)

Whole(g, A) == \E L : Shows(g, L) /\ Living(L, A)

Typed ==
  /\ alive \in SUBSET Entities /\ marked \in SUBSET alive /\ unpacking \in SUBSET Entities
  /\ graph \in Graphs /\ calls \in Seq(CallType) /\ fault \in Faults

\* As long as there is no fault the links are those of lists, and the calls that
\* are left find what they count on.
IInv == Typed /\ (fault = "none" => Whole(graph, alive) /\ PlanGood(graph, calls, alive))


\* What a call does to the links, as far as the calls after it are concerned.
Progress(g, h, c) ==
  /\ \A e \in Entities : HasParent(h, e) => HasParent(g, e) \/ (IsAttach(c) /\ e \in ToSet(c.list))
  /\ \A e \in Entities : c = DetachIfChild(e) => ~HasParent(h, e) /\ h.child[e].parent = null
  /\ \A e \in Entities : c = DetachAllIfParent(e) => ChildrenOf(h, e) = {}
  /\ ~IsAttach(c) => \A e \in Entities : /\ h.child[e].parent \in {g.child[e].parent, null}
                                          /\ ChildrenOf(h, e) \subseteq ChildrenOf(g, e)

LEMMA TailFacts ==
    ASSUME NEW q \in Seq(CallType), q # <<>>
    PROVE  /\ Tail(q) \in Seq(CallType) /\ Len(q) \in Nat /\ Len(Tail(q)) \in Nat
           /\ Len(q) = Len(Tail(q)) + 1
           /\ Head(q) = q[1] /\ 1 \in 1..Len(q) /\ q[1] \in CallType
           /\ \A i \in 1..Len(Tail(q)) : i + 1 \in 1..Len(q) /\ Tail(q)[i] = q[i + 1]
           /\ \A j \in 1..Len(q) : j = 1 \/ (j - 1 \in 1..Len(Tail(q)) /\ q[j] = Tail(q)[j - 1])
  <1> DEFINE t == Tail(q)
  <1>1. /\ t \in Seq(CallType) /\ Len(t) = Len(q) - 1
        /\ \A i \in 1..Len(t) : t[i] = q[i + 1]
    BY HeadTailProperties
  <1> HIDE DEF t
  <1>2. Len(q) \in Nat /\ Len(t) \in Nat /\ q \in [1..Len(q) -> CallType] /\ Len(q) # 0
    BY <1>1, LenProperties, EmptySeq
  <1>3. Len(q) = Len(t) + 1 /\ 1 \in 1..Len(q) /\ \A i \in 1..Len(t) : i + 1 \in 1..Len(q)
    BY <1>1, <1>2
  <1>4. Head(q) = q[1]
    BY DEF Head
  <1>5. ASSUME NEW j \in 1..Len(q), j # 1 PROVE j - 1 \in 1..Len(t) /\ q[j] = t[j - 1]
    <2>1. j - 1 \in 1..Len(t) /\ (j - 1) + 1 = j
      BY <1>2, <1>3, <1>5
    <2>2. QED
      BY <1>1, <2>1
  <1>6. QED
    BY <1>1, <1>2, <1>3, <1>4, <1>5 DEF t

LEMMA PlanGoesOn ==
    ASSUME NEW g, NEW h, NEW q, NEW A \in SUBSET Entities, PlanGood(g, q, A), q # <<>>,
           Progress(g, h, q[1])
    PROVE  PlanGood(h, Tail(q), A)
  <1> DEFINE t == Tail(q)
  <1>1. q \in Seq(CallType) /\ \A k \in 1..Len(q) : CallGood(g, q, A, k)
    BY DEF PlanGood
  <1>2. /\ t \in Seq(CallType) /\ Len(q) \in Nat /\ Len(t) \in Nat
        /\ Len(q) = Len(t) + 1
        /\ 1 \in 1..Len(q) /\ q[1] \in CallType
        /\ \A i \in 1..Len(t) : i + 1 \in 1..Len(q) /\ t[i] = q[i + 1]
        /\ \A j \in 1..Len(q) : j = 1 \/ (j - 1 \in 1..Len(t) /\ q[j] = t[j - 1])
    BY <1>1, TailFacts
  <1> HIDE DEF t
  <1>3. ASSUME NEW j \in Nat, NoAttach(q, j) PROVE NoAttach(t, j) /\ (j # 0 => NoAttach(t, j - 1))
    <2>1. ASSUME NEW i \in 1..Len(t), i > j - 1 PROVE ~IsAttach(t[i])
      <3>1. i + 1 \in 1..Len(q) /\ i + 1 > j /\ t[i] = q[i + 1]
        BY <1>2, <2>1
      <3>2. QED
        BY <1>3, <3>1 DEF NoAttach
    <2>2. \A i \in 1..Len(t) : i > j => i > j - 1
      BY <1>2
    <2>3. QED
      BY <2>1, <2>2 DEF NoAttach
  <1>4. NoAttach(q, 0) => ~IsAttach(q[1])
    BY <1>2 DEF NoAttach
  <1>5. ASSUME NEW k \in 1..Len(t), NEW e \in Entities, RootAt(g, q, k + 1, e) PROVE RootAt(h, t, k, e)
    <2>1. ASSUME NEW j \in 1..Len(t), j < k, IsAttach(t[j]) PROVE e \notin ToSet(t[j].list)
      <3>1. j + 1 \in 1..Len(q) /\ j + 1 < k + 1 /\ t[j] = q[j + 1]
        BY <1>2, <2>1
      <3>2. QED
        BY <1>5, <2>1, <3>1 DEF RootAt
    <2>2. IsAttach(q[1]) => e \notin ToSet(q[1].list)
      <3>1. 1 < k + 1
        BY <1>2
      <3>2. QED
        BY <1>2, <1>5, <3>1 DEF RootAt
    <2>3. CASE ~HasParent(g, e)
      <3>1. ~HasParent(h, e)
        BY <2>2, <2>3 DEF Progress
      <3>2. QED
        BY <2>1, <3>1 DEF RootAt
    <2>4. ASSUME NEW j \in 1..Len(q), j < k + 1, q[j] = DetachIfChild(e) PROVE RootAt(h, t, k, e)
      <3>1. CASE j = 1
        <4>1. ~HasParent(h, e)
          BY <2>4, <3>1 DEF Progress
        <4>2. QED
          BY <2>1, <4>1 DEF RootAt
      <3>2. CASE j # 1
        <4>1. j - 1 \in 1..Len(t) /\ q[j] = t[j - 1] /\ j - 1 < k
          BY <1>2, <2>4, <3>2
        <4>2. QED
          BY <2>1, <2>4, <4>1 DEF RootAt
      <3>3. QED
        BY <3>1, <3>2
    <2>5. QED
      BY <1>5, <2>3, <2>4 DEF RootAt
  <1>6. ASSUME NEW e \in Entities, NEW E \in SUBSET Entities, Cut(g, q, e, E) PROVE Cut(h, t, e, E)
    <2>1. CASE NoAttach(q, 0) /\ g.child[e].parent \in E \cup {null}
      <3>1. h.child[e].parent \in {g.child[e].parent, null}
        BY <1>4, <2>1 DEF Progress
      <3>2. QED
        BY <1>3, <2>1, <3>1 DEF Cut
    <2>2. ASSUME NEW j \in 1..Len(q), q[j] = DetachIfChild(e), NoAttach(q, j) PROVE Cut(h, t, e, E)
      <3>1. j \in Nat /\ j # 0
        BY <1>2
      <3>2. NoAttach(t, j - 1)
        BY <1>3, <2>2, <3>1
      <3>3. CASE j = 1
        <4>1. h.child[e].parent = null /\ j - 1 = 0
          BY <2>2, <3>3 DEF Progress
        <4>2. QED
          BY <3>2, <4>1 DEF Cut
      <3>4. CASE j # 1
        BY <1>2, <2>2, <3>2, <3>4 DEF Cut
      <3>5. QED
        BY <3>3, <3>4
    <2>3. QED
      BY <1>6, <2>1, <2>2 DEF Cut
  <1>7. ASSUME NEW e \in Entities, NEW E \in SUBSET Entities, Bare(g, q, e, E) PROVE Bare(h, t, e, E)
    <2>1. CASE NoAttach(q, 0) /\ ChildrenOf(g, e) \subseteq E
      <3>1. ChildrenOf(h, e) \subseteq ChildrenOf(g, e)
        BY <1>4, <2>1 DEF Progress
      <3>2. QED
        BY <1>3, <2>1, <3>1 DEF Bare
    <2>2. ASSUME NEW j \in 1..Len(q), q[j] = DetachAllIfParent(e), NoAttach(q, j)
          PROVE  Bare(h, t, e, E)
      <3>1. j \in Nat /\ j # 0
        BY <1>2
      <3>2. NoAttach(t, j - 1)
        BY <1>3, <2>2, <3>1
      <3>3. CASE j = 1
        <4>1. ChildrenOf(h, e) = {} /\ j - 1 = 0
          BY <2>2, <3>3 DEF Progress
        <4>2. QED
          BY <3>2, <4>1 DEF Bare
      <3>4. CASE j # 1
        BY <1>2, <2>2, <3>2, <3>4 DEF Bare
      <3>5. QED
        BY <3>3, <3>4
    <2>3. QED
      BY <1>7, <2>1, <2>2 DEF Bare
  <1>8. ASSUME NEW k \in 1..Len(t) PROVE CallGood(h, t, A, k)
    <2>1. k + 1 \in 1..Len(q) /\ t[k] = q[k + 1] /\ CallGood(g, q, A, k + 1)
      BY <1>1, <1>2
    <2>2. ASSUME t[k].fun = "attach" PROVE AttachGood(h, t, A, k)
      <3>1. AttachGood(g, q, A, k + 1)
        BY <2>1, <2>2 DEF CallGood
      <3>2. ToSet(t[k].list) \subseteq Entities
        BY <2>1, <3>1 DEF AttachGood
      <3>3. \A e \in ToSet(t[k].list) : RootAt(h, t, k, e)
        BY <1>5, <2>1, <3>1, <3>2 DEF AttachGood
      <3>4. QED
        BY <2>1, <3>1, <3>3 DEF AttachGood
    <2>3. ASSUME t[k].fun = "attach_if_root" PROVE AttachIfRootGood(t, A, k)
      BY <2>1, <2>3 DEF CallGood, AttachIfRootGood
    <2>4. ASSUME t[k].fun \in {"destroy", "sweep"} PROVE DestroyGood(h, t, A, k)
      <3>1. DestroyGood(g, q, A, k + 1)
        BY <2>1, <2>4 DEF CallGood
      <3>2. k = Len(t) /\ t[k].set \subseteq A
        BY <1>2, <2>1, <3>1 DEF DestroyGood
      <3>3. \A e \in t[k].set : Cut(h, t, e, t[k].set) /\ Bare(h, t, e, t[k].set)
        <4>1. t[k].set \in SUBSET Entities
          BY <3>2
        <4>2. QED
          BY <1>6, <1>7, <2>1, <3>1, <4>1 DEF DestroyGood
      <3>4. QED
        BY <3>2, <3>3 DEF DestroyGood
    <2>5. t[k].fun \in {"detach", "detach_all"} => t[k].entity \in Entities
      BY <2>1 DEF CallGood
    <2>6. QED
      BY <2>2, <2>3, <2>4, <2>5 DEF CallGood
  <1>9. QED
    BY <1>2, <1>8 DEF PlanGood, t


-----------------------------------------------------------------------------
(* The steps *)

\* What a step does to the lists L and the living A.
Attached(L, A, M, B) ==
  B = A /\ \E p \in A : \E s \in Seq(Entities) :
             /\ Injective(s) /\ ToSet(s) \subseteq A \ {p}
             /\ \A e \in ToSet(s) : ~InList(L, e)
             /\ M = [L EXCEPT ![p] = Reverse(s) \o @]
Detached(L, A, M, B) ==
  B = A /\ \E p \in Entities : \E k \in 1..Len(L[p]) : M = [L EXCEPT ![p] = RemoveAt(@, k)]
AllDetached(L, A, M, B) ==
  B = A /\ \E p \in Entities : L[p] # <<>> /\ M = [L EXCEPT ![p] = <<>>]
Gone(L, A, M, B) ==
  \E E \in SUBSET A :
    /\ \A e \in E : ~\E p \in Entities \ E : e \in ToSet(L[p])
    /\ \A e \in E : ToSet(L[e]) \subseteq E
    /\ B = A \ E /\ M = Emptied(L, E)
Created(L, A, M, B) ==
  M = L /\ \E E \in SUBSET Entities : E \cap A = {} /\ B = A \cup E

TreeStep(L, A, M, B) ==
  \/ M = L /\ B = A
  \/ Attached(L, A, M, B) \/ Detached(L, A, M, B) \/ AllDetached(L, A, M, B)
  \/ Gone(L, A, M, B) \/ Created(L, A, M, B)

\* After a step the links are those of a list again.
Becomes(L, A, h, B) == \E M : Shows(h, M) /\ Living(M, B) /\ TreeStep(L, A, M, B)

LEMMA AttachGoesOn ==
    ASSUME NEW g, NEW L, Shows(g, L), NEW A \in SUBSET Entities, Living(L, A),
           NEW p \in A, NEW s \in Seq(Entities), Injective(s), ToSet(s) \subseteq A \ {p},
           \A e \in ToSet(s) : ~HasParent(g, e)
    PROVE  /\ Becomes(L, A, AttachChildren(g, p, s), A)
           /\ \A e \in Entities : HasParent(AttachChildren(g, p, s), e) =>
                HasParent(g, e) \/ e \in ToSet(s)
  <1> DEFINE M == [L EXCEPT ![p] = Reverse(s) \o @]
             h == AttachChildren(g, p, s)
  <1>1. Lists(L) /\ p \in Entities
    BY DEF Shows
  <1>2. Prepended(L, M, p, s)
    BY <1>1, PrependedIs
  <1>3. \A e : e \in ToSet(s) <=> \E i \in 1..Len(s) : s[i] = e
    BY LenProperties DEF ToSet
  <1>4. \A i \in 1..Len(s) : ~InList(L, s[i])
    <2>1. \A i \in 1..Len(s) : s[i] \in ToSet(s) /\ s[i] \in Entities
      BY <1>3
    <2>2. QED
      BY <2>1, ParentIs
  <1>5. M = [L EXCEPT ![p] = Reverse(s) \o @]
    OBVIOUS
  <1> HIDE DEF M, h
  <1>6. Lists(M) /\ \A e : InList(M, e) <=> InList(L, e) \/ \E i \in 1..Len(s) : s[i] = e
    BY <1>1, <1>2, <1>4, PrependedLists
  <1>7. Shows(h, M)
    BY <1>1, <1>2, <1>4, AttachShows DEF h
  <1>8. Living(M, A)
    <2>1. ASSUME NEW q \in Entities, NEW i \in 1..Len(M[q]) PROVE q \in A /\ M[q][i] \in A
      <3>1. CASE q = p
        <4>1. InList(M, M[p][i])
          BY <3>1 DEF InList
        <4>2. InList(L, M[p][i]) \/ M[p][i] \in ToSet(s)
          BY <1>3, <1>6, <4>1
        <4>3. InList(L, M[p][i]) => M[p][i] \in A
          BY DEF InList, Living
        <4>4. QED
          BY <3>1, <4>2, <4>3
      <3>2. CASE q # p
        BY <1>2, <3>2 DEF Prepended, Living
      <3>3. QED
        BY <3>1, <3>2
    <2>2. QED
      BY <2>1 DEF Living
  <1>9. \A e \in ToSet(s) : ~InList(L, e)
    BY <1>3, <1>4
  <1>10. Attached(L, A, M, A)
    BY <1>5, <1>9 DEF Attached
  <1>11. \A e \in Entities : HasParent(h, e) => HasParent(g, e) \/ e \in ToSet(s)
    BY <1>3, <1>6, <1>7, ParentIs
  <1>12. QED
    BY <1>7, <1>8, <1>10, <1>11 DEF Becomes, TreeStep, h

\* Lists that have less in them.
LEMMA FewerLinks ==
    ASSUME NEW g, NEW L, Shows(g, L), NEW h, NEW M, Shows(h, M), NEW A, Living(L, A),
           \A q \in Entities : \A e : (\E i \in 1..Len(M[q]) : M[q][i] = e)
                                        => \E i \in 1..Len(L[q]) : L[q][i] = e
    PROVE  /\ Living(M, A)
           /\ \A e \in Entities : HasParent(h, e) => HasParent(g, e)
           /\ \A e \in Entities : /\ h.child[e].parent \in {g.child[e].parent, null}
                                  /\ ChildrenOf(h, e) \subseteq ChildrenOf(g, e)
  <1>1. ASSUME NEW q \in Entities, NEW i \in 1..Len(M[q]) PROVE q \in A /\ M[q][i] \in A
    <2>1. PICK j \in 1..Len(L[q]) : L[q][j] = M[q][i]
      OBVIOUS
    <2>2. QED
      BY <2>1 DEF Living
  <1>2. ASSUME NEW e \in Entities, HasParent(h, e)
        PROVE  HasParent(g, e) /\ h.child[e].parent = g.child[e].parent
    <2>1. PICK q \in Entities : \E i \in 1..Len(M[q]) : M[q][i] = e
      BY <1>2, ParentIs DEF InList
    <2>2. \E i \in 1..Len(L[q]) : L[q][i] = e
      BY <2>1
    <2>3. h.child[e].parent = q
      BY <2>1, ParentIs
    <2>4. g.child[e].parent = q
      BY <2>2, ParentIs
    <2>5. HasParent(g, e)
      BY <2>2, ParentIs DEF InList
    <2>6. QED
      BY <2>3, <2>4, <2>5
  <1>3. ASSUME NEW e \in Entities PROVE h.child[e].parent \in {g.child[e].parent, null}
    BY <1>2, ParentIs
  <1>4. ASSUME NEW e \in Entities PROVE ChildrenOf(h, e) \subseteq ChildrenOf(g, e)
    BY ChildrenAre
  <1>5. QED
    BY <1>1, <1>2, <1>3, <1>4 DEF Living

LEMMA DetachGoesOn ==
    ASSUME NEW g, NEW L, Shows(g, L), NEW A \in SUBSET Entities, Living(L, A),
           NEW c \in Entities, NEW h, h = IF HasParent(g, c) THEN Detach(g, c) ELSE g
    PROVE  Becomes(L, A, h, A) /\ Progress(g, h, DetachIfChild(c))
  <1>1. Lists(L)
    BY DEF Shows
  <1>2. /\ ~IsAttach(DetachIfChild(c))
        /\ \A e : DetachIfChild(c) = DetachIfChild(e) => e = c
        /\ \A e : DetachIfChild(c) # DetachAllIfParent(e)
    BY DEF IsAttach, DetachIfChild, DetachAllIfParent, Call
  <1>3. CASE HasParent(g, c)
    <2>1. PICK p \in Entities : \E k \in 1..Len(L[p]) : L[p][k] = c
      BY <1>3, ParentIs DEF InList
    <2>2. PICK k \in 1..Len(L[p]) : L[p][k] = c
      BY <2>1
    <2>3. PICK M : M = [L EXCEPT ![p] = RemoveAt(@, k)]
      OBVIOUS
    <2>4. Removed(L, M, p, k)
      BY <1>1, <2>3, RemovedIs
    <2>5. Shows(h, M)
      BY <1>3, <2>2, <2>4, DetachShows
    <2>6. Lists(M) /\ \A e : InList(M, e) <=> InList(L, e) /\ e # c
      <3>1. Lists(M) /\ \A e : InList(M, e) <=> InList(L, e) /\ e # L[p][k]
        BY ONLY <1>1, <2>4, RemovedLists, p \in Entities, k \in 1..Len(L[p])
      <3>2. QED
        BY ONLY <2>2, <3>1
    <2>7. ASSUME NEW q \in Entities, NEW e, \E i \in 1..Len(M[q]) : M[q][i] = e
          PROVE  \E i \in 1..Len(L[q]) : L[q][i] = e
      <3>1. CASE q # p
        BY <2>4, <2>7, <3>1 DEF Removed
      <3>2. CASE q = p
        <4>1. PICK i \in 1..Len(M[p]) : M[p][i] = e
          BY <2>7, <3>2
        <4>2. M[p][i] = IF i < k THEN L[p][i] ELSE L[p][i + 1]
          BY <2>4 DEF Removed
        <4>3. i \in 1..Len(L[p]) /\ i + 1 \in 1..Len(L[p])
          <5>1. Len(M[p]) \in Nat /\ Len(L[p]) = Len(M[p]) + 1
            BY <2>4, <2>6, ListFacts DEF Removed
          <5>2. QED
            BY <5>1
        <4>4. QED
          BY <3>2, <4>1, <4>2, <4>3
      <3>3. QED
        BY <3>1, <3>2
    <2>8. /\ Living(M, A)
          /\ \A e \in Entities : HasParent(h, e) => HasParent(g, e)
          /\ \A e \in Entities : /\ h.child[e].parent \in {g.child[e].parent, null}
                                 /\ ChildrenOf(h, e) \subseteq ChildrenOf(g, e)
      BY <2>5, <2>7, FewerLinks
    <2>9. ~HasParent(h, c) /\ h.child[c].parent = null
      BY <2>5, <2>6, ParentIs
    <2>10. Progress(g, h, DetachIfChild(c))
      BY <1>2, <2>8, <2>9 DEF Progress
    <2>11. Detached(L, A, M, A)
      BY <2>3 DEF Detached
    <2>12. QED
      BY <2>5, <2>8, <2>10, <2>11 DEF Becomes, TreeStep
  <1>4. CASE ~HasParent(g, c)
    <2>1. h = g
      BY <1>4
    <2>2. h.child[c].parent = null
      BY <1>4, <2>1, ParentIs
    <2>3. Progress(g, h, DetachIfChild(c))
      BY <1>2, <1>4, <2>1, <2>2 DEF Progress
    <2>4. QED
      BY <2>1, <2>3 DEF Becomes, TreeStep
  <1>5. QED
    BY <1>3, <1>4

LEMMA DetachAllGoesOn ==
    ASSUME NEW g, NEW L, Shows(g, L), NEW A \in SUBSET Entities, Living(L, A),
           NEW p \in Entities, NEW h, h = IF HasChildren(g, p) THEN DetachAll(g, p) ELSE g
    PROVE  Becomes(L, A, h, A) /\ Progress(g, h, DetachAllIfParent(p))
  <1>1. Lists(L)
    BY DEF Shows
  <1>2. /\ ~IsAttach(DetachAllIfParent(p))
        /\ \A e : DetachAllIfParent(p) = DetachAllIfParent(e) => e = p
        /\ \A e : DetachAllIfParent(p) # DetachIfChild(e)
    BY DEF IsAttach, DetachIfChild, DetachAllIfParent, Call
  <1>3. CASE HasChildren(g, p)
    <2>1. PICK M : M = Emptied(L, {p})
      OBVIOUS
    <2>2. Shows(h, M)
      BY <1>3, <2>1, DetachAllShows
    <2>3. /\ \A q \in Entities : \A i \in 1..Len(M[q]) :
               q \notin {p} /\ i \in 1..Len(L[q]) /\ M[q][i] = L[q][i]
          /\ M[p] = <<>>
      BY <1>1, <2>1, EmptiedLists
    <2>4. /\ Living(M, A)
          /\ \A e \in Entities : HasParent(h, e) => HasParent(g, e)
          /\ \A e \in Entities : /\ h.child[e].parent \in {g.child[e].parent, null}
                                 /\ ChildrenOf(h, e) \subseteq ChildrenOf(g, e)
      BY <2>2, <2>3, FewerLinks
    <2>5. ChildrenOf(h, p) = {}
      BY <2>2, <2>3, ChildrenAre
    <2>6. Progress(g, h, DetachAllIfParent(p))
      BY <1>2, <2>4, <2>5 DEF Progress
    <2>7. M = [L EXCEPT ![p] = <<>>]
      <3>1. L \in [Entities -> Seq(Entities)]
        BY <1>1 DEF Lists
      <3>2. QED
        BY <2>1, <3>1 DEF Emptied
    <2>8. L[p] # <<>>
      BY <1>3, ChildrenAre
    <2>9. AllDetached(L, A, M, A)
      BY <2>7, <2>8 DEF AllDetached
    <2>10. QED
      BY <2>2, <2>4, <2>6, <2>9 DEF Becomes, TreeStep
  <1>4. CASE ~HasChildren(g, p)
    <2>1. h = g /\ L[p] = <<>>
      BY <1>4, ChildrenAre
    <2>2. Len(L[p]) = 0
      BY <1>1, <2>1, ListFacts
    <2>3. ChildrenOf(h, p) = {}
      <3>1. 1..Len(L[p]) = {}
        BY <2>2
      <3>2. QED
        BY <2>1, <3>1, ChildrenAre
    <2>4. Progress(g, h, DetachAllIfParent(p))
      BY <1>2, <2>1, <2>3 DEF Progress
    <2>5. QED
      BY <2>1, <2>4 DEF Becomes, TreeStep
  <1>5. QED
    BY <1>3, <1>4

LEMMA DestroyGoesOn ==
    ASSUME NEW g, NEW L, Shows(g, L), NEW A \in SUBSET Entities, Living(L, A), NEW E \in SUBSET A,
           \A e \in E : g.child[e].parent \in E \cup {null},
           \A e \in E : ChildrenOf(g, e) \subseteq E
    PROVE  Becomes(L, A, Destroyed(g, E), A \ E)
  <1>1. Lists(L) /\ E \in SUBSET Entities
    BY DEF Shows
  <1>2. PICK M : M = Emptied(L, E)
    OBVIOUS
  <1>3. Shows(Destroyed(g, E), M)
    BY <1>1, <1>2, DestroyedShows
  <1>4. \A q \in Entities : \A i \in 1..Len(M[q]) :
          q \notin E /\ i \in 1..Len(L[q]) /\ M[q][i] = L[q][i]
    BY <1>1, <1>2, EmptiedLists
  <1>5. Living(M, A \ E)
    <2>1. ASSUME NEW q \in Entities, NEW i \in 1..Len(M[q]) PROVE q \in A \ E /\ M[q][i] \in A \ E
      <3>1. q \notin E /\ i \in 1..Len(L[q]) /\ M[q][i] = L[q][i]
        BY <1>4
      <3>2. q \in A /\ M[q][i] \in A
        BY <3>1 DEF Living
      <3>3. g.child[M[q][i]].parent = q /\ q # null
        BY <1>1, <3>1, <3>2, ParentIs, SceneAssumption
      <3>4. QED
        BY <3>1, <3>2, <3>3
    <2>2. QED
      BY <2>1 DEF Living
  <1>6. \A e \in E : ~\E p \in Entities \ E : e \in ToSet(L[p])
    <2>1. ASSUME NEW e \in E, NEW p \in Entities \ E, e \in ToSet(L[p]) PROVE FALSE
      <3>1. e \in ChildrenOf(g, p) /\ p # null
        BY <2>1, ChildrenAre, SceneAssumption
      <3>2. g.child[e].parent = p
        BY <3>1 DEF ChildrenOf
      <3>3. QED
        BY <3>1, <3>2
    <2>2. QED
      BY <2>1
  <1>7. \A e \in E : ToSet(L[e]) \subseteq E
    BY <1>1, ChildrenAre
  <1>8. Gone(L, A, M, A \ E)
    BY <1>2, <1>6, <1>7 DEF Gone
  <1>9. QED
    BY <1>3, <1>5, <1>8 DEF Becomes, TreeStep


CallNext == CallAttach \/ CallDetach \/ CallDetachAll \/ CallDestroy \/ CallSweep

LEMMA CallNextGoesOn ==
    ASSUME alive \in SUBSET Entities, marked \in SUBSET alive, PlanGood(graph, calls, alive),
           NEW L, Shows(graph, L), Living(L, alive), CallNext, fault' = "none"
    PROVE  /\ Becomes(L, alive, graph', alive')
           /\ \E h, B : h = graph' /\ B = alive' /\ B \in SUBSET Entities /\ PlanGood(h, calls', B)
  <1> DEFINE c == calls[1]
  <1>1. calls \in Seq(CallType) /\ calls # <<>> /\ calls' = Tail(calls)
    BY DEF PlanGood, CallNext, CallAttach, CallDetach, CallDetachAll, CallDestroy, CallSweep, Calls
  <1>2. NextCall = c /\ c \in CallType /\ 1 \in 1..Len(calls)
    BY <1>1, TailFacts DEF NextCall
  <1>3. CallGood(graph, calls, alive, 1)
    BY <1>2 DEF PlanGood
  <1>4. /\ c.fun \in {"attach", "attach_if_root", "detach", "detach_all", "destroy", "sweep"}
        /\ c.list \in Seq(Entities) /\ c.set \in SUBSET Entities
        /\ c = [fun |-> c.fun, entity |-> c.entity, list |-> c.list, set |-> c.set]
    BY <1>2 DEF CallType
  <1> HIDE DEF c
  <1>5. ASSUME alive' = alive, Progress(graph, graph', c)
        PROVE  \E h, B : h = graph' /\ B = alive' /\ B \in SUBSET Entities /\ PlanGood(h, calls', B)
    <2>1. PICK h : h = graph'
      OBVIOUS
    <2>2. Progress(graph, h, c)
      BY <1>5, <2>1 DEF Progress, HasParent, ChildrenOf
    <2>3. PlanGood(h, Tail(calls), alive)
      BY <1>1, <2>2, PlanGoesOn DEF c
    <2>4. QED
      BY <1>1, <1>5, <2>1, <2>3
  <1>6. CASE CallAttach
    <2> DEFINE p == c.entity
               s == c.list
    <2>1. alive' = alive /\ c.fun \in {"attach", "attach_if_root"} /\ p \in alive
      BY <1>2, <1>6 DEF CallAttach, Calls
    <2>2. graph' = IF c.fun = "attach_if_root" /\ HasParent(graph, s[1]) THEN graph
                   ELSE AttachChildren(graph, p, s)
      BY <1>2, <1>6 DEF CallAttach
    <2>3. IsAttach(c) /\ (\A e : c # DetachIfChild(e) /\ c # DetachAllIfParent(e))
      BY <2>1 DEF IsAttach, DetachIfChild, DetachAllIfParent, Call
    <2>4. p \in alive /\ ToSet(s) \subseteq alive \ {p} /\ Injective(s)
          /\ (c.fun = "attach_if_root" => ToSet(s) = {s[1]})
      <3>1. CASE c.fun = "attach"
        BY <1>3, <2>1, <3>1 DEF CallGood, AttachGood, c
      <3>2. CASE c.fun = "attach_if_root"
        <4>1. p \in alive /\ Len(s) = 1 /\ s[1] \in alive \ {p}
          BY <1>3, <3>2 DEF CallGood, AttachIfRootGood, c
        <4>2. DOMAIN s = 1..1
          BY <1>4, <4>1, LenProperties
        <4>3. 1..1 = {1}
          OBVIOUS
        <4>4. ToSet(s) = {s[1]}
          BY <4>2, <4>3 DEF ToSet
        <4>5. Injective(s)
          BY <4>1, <4>3 DEF Injective
        <4>6. QED
          BY <4>1, <4>4, <4>5
      <3>3. QED
        BY <2>1, <3>1, <3>2
    <2>5. CASE c.fun = "attach_if_root" /\ HasParent(graph, s[1])
      <3>1. graph' = graph
        BY <2>2, <2>5
      <3>2. Progress(graph, graph', c)
        <4>1. PICK h : h = graph'
          OBVIOUS
        <4>2. Progress(graph, h, c)
          BY <2>3, <3>1, <4>1 DEF Progress
        <4>3. QED
          BY <4>1, <4>2 DEF Progress, HasParent, ChildrenOf
      <3>3. Becomes(L, alive, graph', alive')
        BY <2>1, <3>1 DEF Becomes, TreeStep
      <3>4. QED
        BY <1>5, <2>1, <3>2, <3>3
    <2>6. CASE ~(c.fun = "attach_if_root" /\ HasParent(graph, s[1]))
      <3>1. \A e \in ToSet(s) : ~HasParent(graph, e)
        <4>1. CASE c.fun = "attach"
          <5>1. \A e \in ToSet(s) : RootAt(graph, calls, 1, e)
            BY <1>3, <4>1 DEF CallGood, AttachGood, c
          <5>2. \A j \in 1..Len(calls) : ~(j < 1)
            BY <1>1, TailFacts
          <5>3. QED
            BY <5>1, <5>2 DEF RootAt
        <4>2. CASE c.fun = "attach_if_root"
          BY <2>4, <2>6, <4>2
        <4>3. QED
          BY <2>1, <4>1, <4>2
      <3>2. PICK h : h = AttachChildren(graph, p, s)
        OBVIOUS
      <3>3. graph' = h
        BY <2>2, <2>6, <3>2
      <3>4. /\ Becomes(L, alive, h, alive)
            /\ \A e \in Entities : HasParent(h, e) => HasParent(graph, e) \/ e \in ToSet(s)
        BY <1>4, <2>4, <3>1, <3>2, AttachGoesOn
      <3>5. Progress(graph, h, c)
        BY <2>3, <3>4 DEF Progress
      <3>6. Progress(graph, graph', c)
        BY <3>3, <3>5 DEF Progress, HasParent, ChildrenOf
      <3>7. QED
        BY <1>5, <2>1, <3>3, <3>4, <3>6
    <2>7. QED
      BY <2>5, <2>6
  <1>7. CASE CallDetach
    <2>1. c.fun = "detach" /\ alive' = alive
      BY <1>2, <1>7 DEF CallDetach, Calls
    <2>2. c.entity \in Entities
      BY <1>3, <2>1 DEF CallGood, c
    <2>3. PICK h : h = IF HasParent(graph, c.entity) THEN Detach(graph, c.entity) ELSE graph
      OBVIOUS
    <2>4. graph' = h
      BY <1>2, <1>7, <2>3 DEF CallDetach
    <2>5. Becomes(L, alive, h, alive) /\ Progress(graph, h, DetachIfChild(c.entity))
      BY <2>2, <2>3, DetachGoesOn
    <2>6. ~IsAttach(c) /\ (\A e : c # DetachAllIfParent(e))
          /\ \A e : c = DetachIfChild(e) => e = c.entity
      BY <2>1 DEF IsAttach, DetachIfChild, DetachAllIfParent, Call
    <2>7. ~IsAttach(DetachIfChild(c.entity))
      BY DEF IsAttach, DetachIfChild, Call
    <2>8. Progress(graph, h, c)
      BY <2>5, <2>6, <2>7 DEF Progress
    <2>9. Progress(graph, graph', c)
      BY <2>4, <2>8 DEF Progress, HasParent, ChildrenOf
    <2>10. QED
      BY <1>5, <2>1, <2>4, <2>5, <2>9
  <1>8. CASE CallDetachAll
    <2>1. c.fun = "detach_all" /\ alive' = alive
      BY <1>2, <1>8 DEF CallDetachAll, Calls
    <2>2. c.entity \in Entities
      BY <1>3, <2>1 DEF CallGood, c
    <2>3. PICK h : h = IF HasChildren(graph, c.entity) THEN DetachAll(graph, c.entity) ELSE graph
      OBVIOUS
    <2>4. graph' = h
      BY <1>2, <1>8, <2>3 DEF CallDetachAll
    <2>5. Becomes(L, alive, h, alive) /\ Progress(graph, h, DetachAllIfParent(c.entity))
      BY <2>2, <2>3, DetachAllGoesOn
    <2>6. ~IsAttach(c) /\ (\A e : c # DetachIfChild(e))
          /\ \A e : c = DetachAllIfParent(e) => e = c.entity
      BY <2>1 DEF IsAttach, DetachIfChild, DetachAllIfParent, Call
    <2>7. ~IsAttach(DetachAllIfParent(c.entity))
      BY DEF IsAttach, DetachAllIfParent, Call
    <2>8. Progress(graph, h, c)
      BY <2>5, <2>6, <2>7 DEF Progress
    <2>9. Progress(graph, graph', c)
      BY <2>4, <2>8 DEF Progress, HasParent, ChildrenOf
    <2>10. QED
      BY <1>5, <2>1, <2>4, <2>5, <2>9
  <1>9. ASSUME NEW E \in SUBSET alive, c.fun \in {"destroy", "sweep"},
               alive' = alive \ E, graph' = Destroyed(graph, E), c.set \subseteq E,
               \A e \in E \ c.set : ~LinkedBeyond(graph, e, E)
        PROVE  /\ Becomes(L, alive, graph', alive')
               /\ \E h, B : h = graph' /\ B = alive' /\ B \in SUBSET Entities /\ PlanGood(h, calls', B)
    <2>1. DestroyGood(graph, calls, alive, 1)
      BY <1>3, <1>9 DEF CallGood, c
    <2>2. Len(calls) = 1 /\ \A e \in c.set : Cut(graph, calls, e, c.set) /\ Bare(graph, calls, e, c.set)
      BY <2>1 DEF DestroyGood, c
    <2>3. \A j \in 1..Len(calls) : j = 1
      BY <2>2
    <2>4. \A e : calls[1] # DetachIfChild(e) /\ calls[1] # DetachAllIfParent(e)
      BY <1>9 DEF DetachIfChild, DetachAllIfParent, Call, c
    <2>5. \A e \in c.set : /\ graph.child[e].parent \in c.set \cup {null}
                           /\ ChildrenOf(graph, e) \subseteq c.set
      BY <2>2, <2>3, <2>4 DEF Cut, Bare
    <2>6. \A e \in E : graph.child[e].parent \in E \cup {null} /\ ChildrenOf(graph, e) \subseteq E
      BY <1>9, <2>5 DEF LinkedBeyond
    <2>7. Becomes(L, alive, Destroyed(graph, E), alive \ E)
      BY <2>6, DestroyGoesOn
    <2>8. PICK h : h = graph'
      OBVIOUS
    <2>9. calls' \in Seq(CallType) /\ \A k \in 1..Len(calls') : FALSE
      <3>1. Tail(calls) \in Seq(CallType) /\ Len(Tail(calls)) \in Nat /\ Len(calls) = Len(Tail(calls)) + 1
        BY <1>1, TailFacts
      <3>2. Len(Tail(calls)) = 0
        BY <2>2, <3>1
      <3>3. QED
        BY <1>1, <3>1, <3>2
    <2>10. PlanGood(h, calls', alive \ E)
      BY <2>9 DEF PlanGood
    <2>11. QED
      BY <1>9, <2>7, <2>8, <2>10
  <1>10. c.fun \in {"destroy", "sweep"} => c.set \subseteq alive
    BY <1>3 DEF CallGood, DestroyGood, c
  <1>11. CASE CallDestroy
    <2>1. c.fun = "destroy" /\ alive' = alive \ c.set /\ graph' = Destroyed(graph, c.set)
      BY <1>2, <1>11 DEF CallDestroy, Calls
    <2>2. PICK E : E = c.set
      OBVIOUS
    <2>3. E \in SUBSET alive
      BY <1>10, <2>1, <2>2
    <2>4. QED
      BY <1>9, <2>1, <2>2, <2>3
  <1>12. CASE CallSweep
    <2>1. PICK E : E = c.set \cup marked
      OBVIOUS
    <2>2. c.fun = "sweep" /\ alive' = alive \ E /\ graph' = Destroyed(graph, E)
      BY <1>2, <1>12, <2>1 DEF CallSweep, Calls
    <2>3. \A e \in marked \ c.set : ~LinkedBeyond(graph, e, E)
      BY <1>2, <1>12, <2>1 DEF CallSweep
    <2>4. E \in SUBSET alive
      BY <1>10, <2>1, <2>2
    <2>5. QED
      BY <1>9, <2>1, <2>2, <2>3, <2>4
  <1>13. QED
    BY <1>6, <1>7, <1>8, <1>11, <1>12 DEF CallNext


-----------------------------------------------------------------------------
(* The plans of calls *)

LEMMA CallFacts ==
    /\ \A e \in Entities : /\ DetachIfChild(e) \in CallType /\ DetachIfChild(e).fun = "detach"
                           /\ DetachIfChild(e).entity = e /\ ~IsAttach(DetachIfChild(e))
    /\ \A e \in Entities : /\ DetachAllIfParent(e) \in CallType /\ DetachAllIfParent(e).fun = "detach_all"
                           /\ DetachAllIfParent(e).entity = e /\ ~IsAttach(DetachAllIfParent(e))
    /\ \A p \in Entities : \A s \in Seq(Entities) :
         /\ AttachCall(p, s) \in CallType /\ AttachCall(p, s).fun = "attach"
         /\ AttachCall(p, s).entity = p /\ AttachCall(p, s).list = s
    /\ \A p, c \in Entities :
         /\ AttachIfRoot(p, c) \in CallType /\ AttachIfRoot(p, c).fun = "attach_if_root"
         /\ AttachIfRoot(p, c).entity = p /\ AttachIfRoot(p, c).list = <<c>>
    /\ \A E \in SUBSET Entities :
         /\ DestroyCall(E) \in CallType /\ DestroyCall(E).fun = "destroy"
         /\ DestroyCall(E).set = E /\ ~IsAttach(DestroyCall(E))
         /\ SweepCall(E) \in CallType /\ SweepCall(E).fun = "sweep"
         /\ SweepCall(E).set = E /\ ~IsAttach(SweepCall(E))
  BY DEF DetachIfChild, DetachAllIfParent, AttachCall, AttachIfRoot, DestroyCall, SweepCall, Call,
         CallType, IsAttach

LEMMA SequenceMade ==
    ASSUME NEW S, NEW n \in Nat, NEW a \in [1..n -> S]
    PROVE  a \in Seq(S) /\ Len(a) = n
  <1>1. a \in Seq(S)
    BY SeqDef
  <1>2. PICK m \in Nat : m = Len(a) /\ 1..m = 1..n
    BY <1>1, LenProperties
  <1>3. \A i, j \in Nat : 1..i = 1..j => i = j
    <2>1. ASSUME NEW i \in Nat, NEW j \in Nat, 1..i = 1..j PROVE i <= j
      <3>1. i = 0 \/ i \in 1..i
        OBVIOUS
      <3>2. i = 0 \/ i \in 1..j
        BY <2>1, <3>1
      <3>3. QED
        BY <3>2
    <2>2. ASSUME NEW i \in Nat, NEW j \in Nat, 1..i = 1..j PROVE i = j
      <3>1. i <= j /\ j <= i
        BY <2>1, <2>2
      <3>2. QED
        BY <3>1
    <2>3. QED
      BY <2>2
  <1>4. QED
    BY <1>1, <1>2, <1>3

LEMMA OrderFacts ==
    ASSUME NEW S \in SUBSET Entities, NEW s \in Orders(S)
    PROVE  /\ s \in Seq(Entities) /\ Injective(s) /\ ToSet(s) \subseteq S
           /\ Len(s) \in Nat /\ DOMAIN s = 1..Len(s)
           /\ \A i \in 1..Len(s) : s[i] \in S
           /\ \A e : e \in ToSet(s) <=> \E i \in 1..Len(s) : s[i] = e
  <1>1. PICK E \in SUBSET S : s \in SetToSeqs(E)
    BY DEF Orders
  <1>2. Cardinality(E) \in Nat
    <2>1. IsFiniteSet(E)
      BY <1>1, SceneAssumption, FS_Subset
    <2>2. QED
      BY <2>1, FS_CardinalityType
  <1>3. PICK n \in Nat : n = Cardinality(E)
    BY <1>2
  <1>4. s \in [1..n -> E] /\ \A i, j \in 1..n : i # j => s[i] # s[j]
    BY <1>1, <1>3 DEF SetToSeqs
  <1>5. s \in [1..n -> Entities]
    BY <1>1, <1>4
  <1>6. s \in Seq(Entities)
    BY <1>5, SequenceMade
  <1>7. Len(s) \in Nat /\ DOMAIN s = 1..Len(s)
    BY <1>6, LenProperties
  <1>8. Len(s) = n
    BY <1>5, SequenceMade
  <1>9. Injective(s)
    BY <1>4, <1>8 DEF Injective
  <1>10. \A e : e \in ToSet(s) <=> \E i \in 1..Len(s) : s[i] = e
    BY <1>7 DEF ToSet
  <1>11. \A i \in 1..Len(s) : s[i] \in S
    BY <1>1, <1>4, <1>8
  <1>12. ToSet(s) \subseteq S
    BY <1>10, <1>11
  <1>13. QED
    BY <1>6, <1>7, <1>9, <1>10, <1>11, <1>12

LEMMA SubtreeFacts ==
    ASSUME NEW g \in Graphs, NEW t \in Entities
    PROVE  /\ Subtree(g, t) \in SUBSET Entities /\ t \in Subtree(g, t)
           /\ \A e \in Subtree(g, t) : ChildrenOf(g, e) \subseteq Subtree(g, t)
           /\ \A e \in Subtree(g, t) : e # t => g.child[e].parent \in Subtree(g, t) \cup {null}
           /\ \A A \in SUBSET Entities :
                t \in A /\ (\A e \in A : ChildrenOf(g, e) \subseteq A) => Subtree(g, t) \subseteq A
  <1> DEFINE T == Subtree(g, t)
             Closed(S) == t \in S /\ \A e \in S : ChildrenOf(g, e) \subseteq S
  <1>1. \A d : d \in T <=> d \in Entities /\ \A S \in SUBSET Entities : Closed(S) => d \in S
    BY DEF Subtree
  <1> HIDE DEF T
  <1>2. T \in SUBSET Entities /\ t \in T
    BY <1>1
  <1>3. \A e : ChildrenOf(g, e) \subseteq Entities
    BY DEF ChildrenOf
  <1>4. ASSUME NEW e \in T, NEW d \in ChildrenOf(g, e) PROVE d \in T
    BY <1>1, <1>3
  <1>5. ASSUME NEW e \in T, e # t PROVE g.child[e].parent \in T \cup {null}
    <2>1. e \in Entities
      BY <1>2
    <2>2. g.child[e].parent \in Entities \cup {null}
      BY <2>1, GraphFacts DEF LinkType
    <2>3. ASSUME g.child[e].parent \in Entities, g.child[e].parent \notin T PROVE FALSE
      <3>1. PICK S \in SUBSET Entities : Closed(S) /\ g.child[e].parent \notin S
        BY <1>1, <2>3
      <3>2. PICK R \in SUBSET Entities : R = S \ {e}
        OBVIOUS
      <3>3. \A d \in R : e \notin ChildrenOf(g, d)
        BY <3>1, <3>2 DEF ChildrenOf
      <3>4. Closed(R)
        BY <1>5, <3>1, <3>2, <3>3
      <3>5. e \in R
        BY <1>1, <3>4
      <3>6. QED
        BY <3>2, <3>5
    <2>4. QED
      BY <2>2, <2>3
  <1>6. ASSUME NEW A \in SUBSET Entities, Closed(A) PROVE T \subseteq A
    BY <1>1, <1>6
  <1>7. QED
    BY <1>2, <1>4, <1>5, <1>6 DEF T

LEMMA LivingFacts ==
    ASSUME NEW g, NEW L, Shows(g, L), NEW A \in SUBSET Entities, Living(L, A)
    PROVE  /\ \A e \in Entities : HasParent(g, e) => e \in A
           /\ \A t \in A : Subtree(g, t) \subseteq A
  <1>1. ASSUME NEW e \in Entities, HasParent(g, e) PROVE e \in A
    BY <1>1, ParentIs DEF InList, Living
  <1>2. \A e \in A : ChildrenOf(g, e) \subseteq A
    BY ChildrenAre DEF Living
  <1>3. g \in Graphs
    BY DEF Shows
  <1>4. \A t \in A : Subtree(g, t) \subseteq A
    BY <1>2, <1>3, SubtreeFacts
  <1>5. QED
    BY <1>1, <1>4

LEMMA DetachPlan ==
    ASSUME NEW g, NEW A, NEW t \in Entities
    PROVE  PlanGood(g, <<DetachIfChild(t)>>, A) /\ PlanGood(g, <<>>, A)
  <1>1. PICK c \in CallType : c = DetachIfChild(t)
    BY CallFacts
  <1>2. c.fun = "detach" /\ c.entity = t
    BY <1>1, CallFacts
  <1>3. /\ <<c>> \in Seq(CallType) /\ Len(<<c>>) = 1 /\ <<c>>[1] = c /\ 1..1 = {1}
    OBVIOUS
  <1>4. CallGood(g, <<c>>, A, 1)
    BY <1>2, <1>3 DEF CallGood
  <1>5. PlanGood(g, <<c>>, A)
    BY <1>3, <1>4 DEF PlanGood
  <1>6. <<>> \in Seq(CallType) /\ 1..Len(<<>>) = {}
    OBVIOUS
  <1>7. PlanGood(g, <<>>, A)
    BY <1>6 DEF PlanGood
  <1>8. QED
    BY <1>1, <1>5, <1>7

LEMMA AttachSelectedPlan ==
    ASSUME NEW g, NEW A \in SUBSET Entities, NEW t \in A, NEW s \in Seq(Entities),
           Injective(s), ToSet(s) \subseteq A \ {t}
    PROVE  PlanGood(g, DetachAllOf(s) \o <<AttachCall(t, s)>>, A)
  <1> DEFINE n == Len(s)
             a == DetachAllOf(s)
             b == <<AttachCall(t, s)>>
             q == a \o b
  <1>1. n \in Nat /\ DOMAIN s = 1..n /\ \A i \in 1..n : s[i] \in Entities
    BY LenProperties
  <1>2. a = [i \in 1..n |-> DetachIfChild(s[i])]
    BY <1>1 DEF DetachAllOf
  <1> HIDE DEF a
  <1>3. /\ a \in Seq(CallType) /\ Len(a) = n
        /\ \A i \in 1..n : a[i] = DetachIfChild(s[i])
    <2>1. a \in [1..n -> CallType]
      BY <1>1, <1>2, CallFacts
    <2>2. QED
      BY <1>1, <1>2, <2>1, SequenceMade
  <1>4. b \in Seq(CallType) /\ Len(b) = 1 /\ b[1] = AttachCall(t, s)
    BY CallFacts
  <1> HIDE DEF b, n
  <1>5. /\ q \in Seq(CallType) /\ Len(q) = n + 1
        /\ \A i \in 1..n + 1 : q[i] = IF i <= n THEN a[i] ELSE b[i - n]
    <2>1. /\ a \o b \in Seq(CallType) /\ Len(a \o b) = Len(a) + Len(b)
          /\ \A i \in 1..Len(a) + Len(b) : (a \o b)[i] = IF i <= Len(a) THEN a[i] ELSE b[i - Len(a)]
      BY ONLY <1>3, <1>4, ConcatProperties
    <2>2. Len(a) = n /\ Len(b) = 1
      BY <1>3, <1>4
    <2>3. QED
      BY ONLY <2>1, <2>2 DEF q
  <1> HIDE DEF q
  <1>6. \A i \in 1..n : q[i] = DetachIfChild(s[i])
    BY <1>1, <1>3, <1>5
  <1>7. q[n + 1] = AttachCall(t, s)
    BY <1>1, <1>4, <1>5
  <1>8. ASSUME NEW e \in ToSet(s) PROVE RootAt(g, q, n + 1, e)
    <2>1. PICK i \in 1..n : s[i] = e
      BY <1>1 DEF ToSet
    <2>2. i \in 1..Len(q) /\ i < n + 1 /\ q[i] = DetachIfChild(e)
      BY <1>1, <1>5, <1>6, <2>1
    <2>3. \A j \in 1..Len(q) : j < n + 1 => ~IsAttach(q[j])
      BY <1>1, <1>5, <1>6, CallFacts
    <2>4. QED
      BY <2>2, <2>3 DEF RootAt
  <1>9. AttachGood(g, q, A, n + 1)
    BY <1>7, <1>8, CallFacts DEF AttachGood
  <1>10. ASSUME NEW k \in 1..Len(q) PROVE CallGood(g, q, A, k)
    <2>1. CASE k = n + 1
      BY <1>7, <1>9, <2>1, CallFacts DEF CallGood
    <2>2. CASE k # n + 1
      <3>1. k \in 1..n
        BY <1>1, <1>5, <2>2
      <3>2. q[k].fun = "detach" /\ q[k].entity \in Entities
        BY <1>1, <1>6, <3>1, CallFacts
      <3>3. QED
        BY <3>2 DEF CallGood
    <2>3. QED
      BY <2>1, <2>2
  <1>11. PlanGood(g, q, A)
    BY <1>5, <1>10 DEF PlanGood
  <1>12. QED
    BY <1>11 DEF q, a, b

LEMMA DestroySubtreePlan ==
    ASSUME NEW g \in Graphs, NEW A \in SUBSET Entities, NEW t \in Entities, Subtree(g, t) \subseteq A
    PROVE  PlanGood(g, <<DetachIfChild(t), SweepCall(Subtree(g, t))>>, A)
  <1> DEFINE T == Subtree(g, t)
             q == <<DetachIfChild(t), SweepCall(T)>>
  <1>1. /\ T \in SUBSET Entities
        /\ \A e \in T : ChildrenOf(g, e) \subseteq T
        /\ \A e \in T : e # t => g.child[e].parent \in T \cup {null}
    BY SubtreeFacts
  <1> HIDE DEF T
  <1>2. /\ q \in Seq(CallType) /\ Len(q) = 2 /\ q[1] = DetachIfChild(t) /\ q[2] = SweepCall(T)
        /\ 1..2 = {1, 2}
    BY <1>1, CallFacts
  <1> HIDE DEF q
  <1>3. /\ q[1].fun = "detach" /\ q[1].entity = t /\ ~IsAttach(q[1])
        /\ q[2].fun = "sweep" /\ q[2].set = T /\ ~IsAttach(q[2])
    BY <1>1, <1>2, CallFacts
  <1>4. NoAttach(q, 0) /\ NoAttach(q, 1)
    BY <1>2, <1>3 DEF NoAttach
  <1>5. \A e \in T : Cut(g, q, e, T) /\ Bare(g, q, e, T)
    BY <1>1, <1>2, <1>4 DEF Cut, Bare
  <1>6. DestroyGood(g, q, A, 2)
    BY <1>2, <1>3, <1>5 DEF DestroyGood, T
  <1>7. \A k \in 1..Len(q) : CallGood(g, q, A, k)
    BY <1>2, <1>3, <1>6 DEF CallGood
  <1>8. PlanGood(g, q, A)
    BY <1>2, <1>7 DEF PlanGood
  <1>9. QED
    BY <1>8 DEF q, T

LEMMA DestroyAndOrphanPlan ==
    ASSUME NEW g, NEW A \in SUBSET Entities, NEW t \in A
    PROVE  PlanGood(g, <<DetachAllIfParent(t), DetachIfChild(t), DestroyCall({t})>>, A)
  <1> DEFINE q == <<DetachAllIfParent(t), DetachIfChild(t), DestroyCall({t})>>
  <1>1. {t} \in SUBSET Entities
    OBVIOUS
  <1>2. /\ q \in Seq(CallType) /\ Len(q) = 3 /\ 1..3 = {1, 2, 3}
        /\ q[1] = DetachAllIfParent(t) /\ q[2] = DetachIfChild(t) /\ q[3] = DestroyCall({t})
    BY <1>1, CallFacts
  <1> HIDE DEF q
  <1>3. /\ q[1].fun = "detach_all" /\ q[1].entity = t /\ ~IsAttach(q[1])
        /\ q[2].fun = "detach" /\ q[2].entity = t /\ ~IsAttach(q[2])
        /\ q[3].fun = "destroy" /\ q[3].set = {t} /\ ~IsAttach(q[3])
    BY <1>1, <1>2, CallFacts
  <1>4. NoAttach(q, 1) /\ NoAttach(q, 2)
    BY <1>2, <1>3 DEF NoAttach
  <1>5. \A e \in {t} : Cut(g, q, e, {t}) /\ Bare(g, q, e, {t})
    BY <1>2, <1>4 DEF Cut, Bare
  <1>6. DestroyGood(g, q, A, 3)
    BY <1>2, <1>3, <1>5 DEF DestroyGood
  <1>7. \A k \in 1..Len(q) : CallGood(g, q, A, k)
    BY <1>2, <1>3, <1>6 DEF CallGood
  <1>8. PlanGood(g, q, A)
    BY <1>2, <1>7 DEF PlanGood
  <1>9. QED
    BY <1>8 DEF q


LEMMA EmplaceModelPlan ==
    ASSUME NEW g, NEW A \in SUBSET Entities, NEW t \in A, NEW s \in Seq(Entities),
           Injective(s), ToSet(s) \subseteq A \ {t}, \A e \in ToSet(s) : ~HasParent(g, e)
    PROVE  PlanGood(g, <<AttachCall(t, s)>>, A)
  <1> DEFINE q == <<AttachCall(t, s)>>
  <1>1. q \in Seq(CallType) /\ Len(q) = 1 /\ q[1] = AttachCall(t, s) /\ 1..1 = {1}
    BY CallFacts
  <1> HIDE DEF q
  <1>2. q[1].fun = "attach" /\ q[1].entity = t /\ q[1].list = s
    BY <1>1, CallFacts
  <1>3. \A e \in ToSet(s) : RootAt(g, q, 1, e)
    <2>1. \A j \in 1..Len(q) : ~(j < 1)
      BY <1>1
    <2>2. QED
      BY <2>1 DEF RootAt
  <1>4. AttachGood(g, q, A, 1)
    BY <1>2, <1>3 DEF AttachGood
  <1>5. CallGood(g, q, A, 1)
    BY <1>2, <1>4 DEF CallGood
  <1>6. PlanGood(g, q, A)
    BY <1>1, <1>5 DEF PlanGood
  <1>7. QED
    BY <1>6 DEF q

LEMMA UnpackScenePlan ==
    ASSUME NEW g, NEW A \in SUBSET Entities, NEW t \in Entities, NEW s \in Seq(Entities),
           Injective(s), ToSet(s) \subseteq A \ {t}, \A e \in ToSet(s) : ~HasParent(g, e),
           NEW parent \in ParentsIn(s)
    PROVE  PlanGood(g, [i \in DOMAIN s |->
                          AttachCall(IF parent[i] = 0 THEN t ELSE s[parent[i]], <<s[i]>>)], A)
  <1> DEFINE n == Len(s)
             p(i) == IF parent[i] = 0 THEN t ELSE s[parent[i]]
             q == [i \in DOMAIN s |-> AttachCall(p(i), <<s[i]>>)]
  <1>1. /\ n \in Nat /\ DOMAIN s = 1..n
        /\ \A i \in 1..n : s[i] \in Entities
        /\ \A i \in 1..n : s[i] \in ToSet(s)
    BY LenProperties DEF ToSet
  <1>2. \A i \in 1..n : parent[i] \in 0..n /\ parent[i] < i
    BY <1>1 DEF ParentsIn
  <1> HIDE DEF n
  <1>3. ASSUME NEW i \in 1..n PROVE p(i) \in Entities /\ p(i) # s[i] /\ s[i] \in A
    <2>1. s[i] \in A /\ s[i] # t
      BY <1>1
    <2>2. CASE parent[i] = 0
      BY <2>1, <2>2
    <2>3. CASE parent[i] # 0
      <3>1. parent[i] \in 1..n /\ parent[i] # i
        BY <1>1, <1>2, <2>3
      <3>2. s[parent[i]] \in A /\ s[parent[i]] # s[i]
        BY <1>1, <3>1 DEF Injective, n
      <3>3. QED
        BY <2>1, <2>3, <3>2
    <2>4. QED
      BY <2>2, <2>3
  <1> HIDE DEF p
  <1>4. \A i \in 1..n : <<s[i]>> \in Seq(Entities) /\ Len(<<s[i]>>) = 1 /\ ToSet(<<s[i]>>) = {s[i]}
    <2> SUFFICES ASSUME NEW i \in 1..n
                 PROVE  <<s[i]>> \in Seq(Entities) /\ Len(<<s[i]>>) = 1 /\ ToSet(<<s[i]>>) = {s[i]}
      OBVIOUS
    <2>1. PICK e \in Entities : e = s[i]
      BY <1>1
    <2>2. <<e>> \in Seq(Entities) /\ Len(<<e>>) = 1 /\ <<e>>[1] = e
      OBVIOUS
    <2>3. DOMAIN <<e>> = {1}
      OBVIOUS
    <2>4. ToSet(<<e>>) = {e}
      BY <2>2, <2>3 DEF ToSet
    <2>5. QED
      BY <2>1, <2>2, <2>4
  <1>5. q \in Seq(CallType) /\ Len(q) = n /\ \A i \in 1..n : q[i] = AttachCall(p(i), <<s[i]>>)
    <2>1. q \in [1..n -> CallType]
      BY <1>1, <1>3, <1>4, CallFacts
    <2>2. q \in Seq(CallType) /\ Len(q) = n
      <3> HIDE DEF q
      <3>1. QED
        BY <1>1, <2>1, SequenceMade
    <2>3. QED
      BY <1>1, <2>2
  <1> HIDE DEF q
  <1>6. \A i \in 1..n : q[i].fun = "attach" /\ q[i].entity = p(i) /\ q[i].list = <<s[i]>>
    <2> SUFFICES ASSUME NEW i \in 1..n
                 PROVE  q[i].fun = "attach" /\ q[i].entity = p(i) /\ q[i].list = <<s[i]>>
      OBVIOUS
    <2>1. PICK l \in Seq(Entities) : l = <<s[i]>>
      BY <1>4
    <2>2. PICK x \in Entities : x = p(i)
      BY <1>3
    <2>3. q[i] = AttachCall(x, l)
      BY <1>5, <2>1, <2>2
    <2>4. AttachCall(x, l).fun = "attach" /\ AttachCall(x, l).entity = x /\ AttachCall(x, l).list = l
      BY CallFacts
    <2>5. QED
      BY <2>1, <2>2, <2>3, <2>4
  <1>7. ASSUME NEW k \in 1..n PROVE AttachGood(g, q, A, k)
    <2>1. ToSet(q[k].list) = {s[k]} /\ q[k].entity = p(k)
      BY <1>4, <1>6
    <2>2. Injective(q[k].list)
      <3>1. q[k].list = <<s[k]>> /\ Len(<<s[k]>>) = 1
        BY <1>4, <1>6
      <3>2. \A i, j \in 1..1 : i = j
        OBVIOUS
      <3>3. QED
        BY <3>1, <3>2 DEF Injective
    <2>3. RootAt(g, q, k, s[k])
      <3>1. ASSUME NEW j \in 1..Len(q), j < k PROVE s[k] \notin ToSet(q[j].list)
        <4>1. j \in 1..n /\ j # k
          BY <1>5, <3>1
        <4>2. s[j] # s[k]
          BY <4>1 DEF Injective, n
        <4>3. QED
          BY <1>4, <1>6, <4>1, <4>2
      <3>2. ~HasParent(g, s[k])
        BY <1>1
      <3>3. QED
        BY <3>1, <3>2 DEF RootAt
    <2>4. QED
      BY <1>3, <2>1, <2>2, <2>3 DEF AttachGood
  <1>8. \A k \in 1..Len(q) : CallGood(g, q, A, k)
    BY <1>5, <1>6, <1>7 DEF CallGood
  <1>9. PlanGood(g, q, A)
    BY <1>5, <1>8 DEF PlanGood
  <1>10. QED
    BY <1>9 DEF q, p

\* One and the other call for each of s.
LEMMA IsolateFacts ==
    ASSUME NEW s \in Seq(Entities)
    PROVE  /\ IsolateAllOf(s) \in Seq(CallType) /\ Len(IsolateAllOf(s)) = 2 * Len(s)
           /\ \A i \in 1..2 * Len(s) : \E e \in Entities :
                IsolateAllOf(s)[i] = DetachIfChild(e) \/ IsolateAllOf(s)[i] = DetachAllIfParent(e)
           /\ \A i \in 1..Len(s) : /\ 2 * i - 1 \in 1..2 * Len(s) /\ 2 * i \in 1..2 * Len(s)
                                   /\ IsolateAllOf(s)[2 * i - 1] = DetachIfChild(s[i])
                                   /\ IsolateAllOf(s)[2 * i] = DetachAllIfParent(s[i])
  <1> DEFINE b == IsolateAllOf(s)
             e(i) == s[(i + 1) \div 2]
  <1>1. PICK n \in Nat : n = Len(s)
    BY LenProperties
  <1>2. \A i \in 1..n : s[i] \in Entities
    BY <1>1, LenProperties
  <1>3. b = [i \in 1..2 * n |-> IF i % 2 = 1 THEN DetachIfChild(e(i)) ELSE DetachAllIfParent(e(i))]
    BY <1>1 DEF IsolateAllOf
  <1>4. \A i \in 1..2 * n : e(i) \in Entities
    <2>1. \A i \in 1..2 * n : (i + 1) \div 2 \in 1..n
      OBVIOUS
    <2>2. QED
      BY <1>2, <2>1
  <1> HIDE DEF b, e
  <1>5. b \in [1..2 * n -> CallType] /\ 2 * n \in Nat
    BY <1>3, <1>4, CallFacts
  <1>6. b \in Seq(CallType) /\ Len(b) = 2 * n
    BY <1>5, SequenceMade
  <1>7. \A i \in 1..2 * n : \E d \in Entities : b[i] = DetachIfChild(d) \/ b[i] = DetachAllIfParent(d)
    BY <1>3, <1>4
  <1>8. ASSUME NEW i \in 1..n
        PROVE  /\ 2 * i - 1 \in 1..2 * n /\ 2 * i \in 1..2 * n
               /\ b[2 * i - 1] = DetachIfChild(s[i]) /\ b[2 * i] = DetachAllIfParent(s[i])
    <2>1. 2 * i - 1 \in 1..2 * n /\ 2 * i \in 1..2 * n
      OBVIOUS
    <2>2. (2 * i - 1) % 2 = 1 /\ (2 * i) % 2 = 0
      OBVIOUS
    <2>3. ((2 * i - 1) + 1) \div 2 = i /\ (2 * i + 1) \div 2 = i
      OBVIOUS
    <2>4. e(2 * i - 1) = s[i] /\ e(2 * i) = s[i]
      BY <2>3 DEF e
    <2>5. QED
      BY <1>3, <2>1, <2>2, <2>4
  <1>9. QED
    BY <1>1, <1>6, <1>7, <1>8 DEF b


\* The calls that attach the children an import found.
LEMMA EdgesFacts ==
    ASSUME NEW s \in Seq(Entities), NEW edges \in EdgesIn(s)
    PROVE  /\ AttachEdges(edges) \in Seq(CallType)
           /\ \A i \in 1..Len(AttachEdges(edges)) : \E x, y \in ToSet(s) :
                x # y /\ AttachEdges(edges)[i] = AttachIfRoot(x, y)
  <1> DEFINE a == AttachEdges(edges)
             P == {e \in ToSet(s) \X ToSet(s) : e[1] # e[2]}
  <1>1. PICK n \in Nat : edges \in [1..n -> P]
    <2>1. PICK n \in 0..Len(s) : edges \in [1..n -> P]
      BY DEF EdgesIn
    <2>2. n \in Nat
      BY LenProperties
    <2>3. QED
      BY <2>1, <2>2
  <1>2. ToSet(s) \in SUBSET Entities
    BY LenProperties DEF ToSet
  <1>3. a = [i \in 1..n |-> AttachIfRoot(edges[i][1], edges[i][2])]
    BY <1>1 DEF AttachEdges
  <1>4. ASSUME NEW i \in 1..n
        PROVE  a[i] \in CallType /\ \E x, y \in ToSet(s) : x # y /\ a[i] = AttachIfRoot(x, y)
    <2>1. PICK e \in ToSet(s) \X ToSet(s) : e = edges[i] /\ e[1] # e[2]
      BY <1>1
    <2>2. PICK x \in ToSet(s), y \in ToSet(s) : x = e[1] /\ y = e[2]
      OBVIOUS
    <2>3. a[i] = AttachIfRoot(x, y)
      BY <1>3, <2>1, <2>2
    <2>4. AttachIfRoot(x, y) \in CallType
      BY <1>2, CallFacts
    <2>5. QED
      BY <2>1, <2>2, <2>3, <2>4
  <1> HIDE DEF a
  <1>5. a \in [1..n -> CallType]
    BY <1>3, <1>4
  <1>6. a \in Seq(CallType) /\ Len(a) = n
    BY <1>5, SequenceMade
  <1>7. QED
    BY <1>4, <1>6 DEF a

LEMMA ImportScenePlan ==
    ASSUME NEW g, NEW A \in SUBSET Entities, NEW s \in Seq(Entities), ToSet(s) \subseteq A,
           NEW edges \in EdgesIn(s), NEW swept \in Orders(A)
    PROVE  PlanGood(g, AttachEdges(edges) \o IsolateAllOf(swept) \o <<SweepCall(ToSet(swept))>>, A)
  <1> DEFINE a == AttachEdges(edges)
             b == IsolateAllOf(swept)
             E == ToSet(swept)
             d == <<SweepCall(E)>>
             m == Len(swept)
             r == a \o b
             q == r \o d
  <1>1. PICK n \in Nat : n = Len(a)
    BY EdgesFacts, LenProperties
  <1>2. \A i \in 1..n : \E x, y \in A : x # y /\ a[i] = AttachIfRoot(x, y)
    BY <1>1, EdgesFacts
  <1>3. /\ swept \in Seq(Entities) /\ m \in Nat
        /\ E \in SUBSET A
        /\ \A i \in 1..m : swept[i] \in Entities
        /\ \A e : e \in E <=> \E i \in 1..m : swept[i] = e
    BY OrderFacts
  <1>4. a \in Seq(CallType) /\ Len(a) = n
    BY <1>1, EdgesFacts
  <1> HIDE DEF a
  <1>5. /\ b \in Seq(CallType) /\ Len(b) = 2 * m
        /\ \A i \in 1..2 * m : \E e \in Entities : b[i] = DetachIfChild(e) \/ b[i] = DetachAllIfParent(e)
        /\ \A i \in 1..m : /\ 2 * i - 1 \in 1..2 * m /\ 2 * i \in 1..2 * m
                           /\ b[2 * i - 1] = DetachIfChild(swept[i])
                           /\ b[2 * i] = DetachAllIfParent(swept[i])
    BY <1>3, IsolateFacts
  <1>6. d \in Seq(CallType) /\ Len(d) = 1 /\ d[1] = SweepCall(E)
    BY <1>3, CallFacts
  <1> HIDE DEF b, d, E, m
  <1>7. /\ r \in Seq(CallType) /\ Len(r) = n + 2 * m
        /\ \A i \in 1..n + 2 * m : r[i] = IF i <= n THEN a[i] ELSE b[i - n]
    <2>1. /\ a \o b \in Seq(CallType) /\ Len(a \o b) = Len(a) + Len(b)
          /\ \A i \in 1..Len(a) + Len(b) : (a \o b)[i] = IF i <= Len(a) THEN a[i] ELSE b[i - Len(a)]
      BY ONLY <1>4, <1>5, ConcatProperties
    <2>2. QED
      BY ONLY <1>4, <1>5, <2>1 DEF r
  <1> HIDE DEF r
  <1>8. /\ q \in Seq(CallType) /\ Len(q) = (n + 2 * m) + 1
        /\ \A i \in 1..(n + 2 * m) + 1 : q[i] = IF i <= n + 2 * m THEN r[i] ELSE d[i - (n + 2 * m)]
    <2>1. /\ r \o d \in Seq(CallType) /\ Len(r \o d) = Len(r) + Len(d)
          /\ \A i \in 1..Len(r) + Len(d) : (r \o d)[i] = IF i <= Len(r) THEN r[i] ELSE d[i - Len(r)]
      BY ONLY <1>6, <1>7, ConcatProperties
    <2>2. QED
      BY ONLY <1>6, <1>7, <2>1 DEF q
  <1> HIDE DEF q
  <1>9. PICK l \in Nat : l = n + 2 * m
    BY <1>3
  <1>10. n <= l /\ l - n = 2 * m /\ Len(q) = l + 1
    BY <1>3, <1>8, <1>9
  <1>11. ASSUME NEW i \in 1..n PROVE q[i] = a[i]
    <2>1. i \in 1..l /\ i \in 1..l + 1 /\ i <= l /\ i <= n
      BY <1>10
    <2>2. QED
      BY <1>7, <1>8, <1>9, <2>1
  <1>12. \A i \in 1..2 * m : n + i \in 1..l + 1 /\ q[n + i] = b[i]
    <2> SUFFICES ASSUME NEW i \in 1..2 * m PROVE n + i \in 1..l + 1 /\ q[n + i] = b[i]
      OBVIOUS
    <2>1. /\ n + i \in 1..l /\ n + i \in 1..l + 1 /\ n + i <= l /\ ~(n + i <= n)
          /\ (n + i) - n = i
      BY <1>3, <1>10
    <2>2. q[n + i] = r[n + i] /\ r[n + i] = b[(n + i) - n]
      BY <1>7, <1>8, <1>9, <2>1
    <2>3. QED
      BY <2>1, <2>2
  <1>13. l + 1 \in 1..l + 1 /\ q[l + 1] = SweepCall(E)
    <2>1. l + 1 \in 1..l + 1 /\ ~(l + 1 <= l) /\ (l + 1) - l = 1
      OBVIOUS
    <2>2. QED
      BY <1>6, <1>8, <1>9, <2>1
  <1>14. ASSUME NEW k \in 1..l + 1, k > n, k # l + 1
         PROVE  \E e \in Entities : q[k] = DetachIfChild(e) \/ q[k] = DetachAllIfParent(e)
    <2>1. k - n \in 1..2 * m /\ n + (k - n) = k
      BY <1>3, <1>10, <1>14
    <2>2. QED
      BY <1>5, <1>12, <2>1
  <1>15. E \in SUBSET Entities /\ ~IsAttach(SweepCall(E)) /\ SweepCall(E).fun = "sweep"
         /\ SweepCall(E).set = E
    BY <1>3, CallFacts
  <1>16. ASSUME NEW j \in 1..l + 1, j > n PROVE NoAttach(q, j)
    <2>1. ASSUME NEW k \in 1..l + 1, k > n PROVE ~IsAttach(q[k])
      <3>1. CASE k = l + 1
        BY <1>13, <1>15, <3>1
      <3>2. CASE k # l + 1
        BY <1>14, <2>1, <3>2, CallFacts
      <3>3. QED
        BY <3>1, <3>2
    <2>2. \A k \in 1..l + 1 : k > j => k > n
      BY <1>16
    <2>3. QED
      BY <1>10, <2>1, <2>2 DEF NoAttach
  <1>17. ASSUME NEW e \in E PROVE Cut(g, q, e, E) /\ Bare(g, q, e, E)
    <2>1. PICK i \in 1..m : swept[i] = e
      BY <1>3
    <2>2. 2 * i - 1 \in 1..2 * m /\ 2 * i \in 1..2 * m
      BY <1>5
    <2>3. PICK x \in 1..l + 1 : x > n /\ q[x] = DetachIfChild(e)
      <3>1. n + (2 * i - 1) > n
        BY <1>3
      <3>2. QED
        BY <1>5, <1>12, <2>1, <2>2, <3>1
    <2>4. PICK y \in 1..l + 1 : y > n /\ q[y] = DetachAllIfParent(e)
      <3>1. n + 2 * i > n
        BY <1>3
      <3>2. QED
        BY <1>5, <1>12, <2>1, <2>2, <3>1
    <2>5. QED
      BY <1>10, <1>16, <2>3, <2>4 DEF Cut, Bare
  <1>18. ASSUME NEW k \in 1..Len(q) PROVE CallGood(g, q, A, k)
    <2>1. CASE k = l + 1
      <3>1. DestroyGood(g, q, A, k)
        BY <1>3, <1>10, <1>13, <1>15, <1>17, <2>1 DEF DestroyGood
      <3>2. QED
        BY <1>13, <1>15, <2>1, <3>1 DEF CallGood
    <2>2. CASE k # l + 1 /\ k > n
      <3>1. PICK e \in Entities : q[k] = DetachIfChild(e) \/ q[k] = DetachAllIfParent(e)
        BY <1>10, <1>14, <2>2
      <3>2. q[k].fun \in {"detach", "detach_all"} /\ q[k].entity \in Entities
        BY <3>1, CallFacts
      <3>3. QED
        BY <3>2 DEF CallGood
    <2>3. CASE ~(k > n)
      <3>1. k \in 1..n
        BY <1>10, <2>3
      <3>2. PICK x \in A, y \in A : x # y /\ q[k] = AttachIfRoot(x, y)
        BY <1>2, <1>11, <3>1
      <3>3. q[k].fun = "attach_if_root" /\ q[k].entity = x /\ q[k].list = <<y>>
        BY <3>2, CallFacts
      <3>4. Len(<<y>>) = 1 /\ <<y>>[1] = y
        OBVIOUS
      <3>5. AttachIfRootGood(q, A, k)
        BY <3>2, <3>3, <3>4 DEF AttachIfRootGood
      <3>6. QED
        BY <3>3, <3>5 DEF CallGood
    <2>4. QED
      BY <2>1, <2>2, <2>3
  <1>19. PlanGood(g, q, A)
    BY <1>8, <1>18 DEF PlanGood
  <1>20. QED
    BY <1>19 DEF q, r, a, b, d, E

LEMMA AbortImportPlan ==
    ASSUME NEW g, NEW A \in SUBSET Entities, NEW s \in Seq(Entities), ToSet(s) \subseteq A,
           NEW edges \in EdgesIn(s)
    PROVE  PlanGood(g, AttachEdges(edges), A)
  <1> DEFINE a == AttachEdges(edges)
  <1>1. /\ a \in Seq(CallType)
        /\ \A k \in 1..Len(a) : \E x, y \in A : x # y /\ a[k] = AttachIfRoot(x, y)
    BY EdgesFacts
  <1> HIDE DEF a
  <1>2. ASSUME NEW k \in 1..Len(a) PROVE CallGood(g, a, A, k)
    <2>1. PICK x \in A, y \in A : x # y /\ a[k] = AttachIfRoot(x, y)
      BY <1>1
    <2>2. a[k].fun = "attach_if_root" /\ a[k].entity = x /\ a[k].list = <<y>>
      BY <2>1, CallFacts
    <2>3. Len(<<y>>) = 1 /\ <<y>>[1] = y
      OBVIOUS
    <2>4. AttachIfRootGood(a, A, k)
      BY <2>1, <2>2, <2>3 DEF AttachIfRootGood
    <2>5. QED
      BY <2>2, <2>4 DEF CallGood
  <1>3. PlanGood(g, a, A)
    BY <1>1, <1>2 DEF PlanGood
  <1>4. QED
    BY <1>3 DEF a

-----------------------------------------------------------------------------
(* The invariant *)

BeginNext ==
  \/ \E e \in Entities : CreateNode(e) \/ ViewScene(e)
  \/ \E t \in Displayed : \/ DetachFromParent(t) \/ DestroySubtree(t) \/ DestroyAndOrphan(t)
                          \/ \E s \in Orders(alive) : AttachSelected(t, s)
  \/ \E t \in unpacking : UnpackFails(t)
  \/ \E s \in NewLists :
       \/ \E t \in alive : EmplaceModel(t, s)
       \/ \E t \in unpacking, f \in ParentsIn(s), scenes \in SUBSET ToSet(s) :
            UnpackScene(t, s, f, scenes)
       \/ \E edges \in EdgesIn(s) :
            \/ \E swept \in Orders(marked \cup ToSet(s)) : ImportScene(s, edges, swept)
            \/ \E left \in SUBSET ToSet(s) : AbortImport(s, edges, left)

LEMMA BeginNextGoesOn ==
    ASSUME alive \in SUBSET Entities, marked \in SUBSET alive, unpacking \in SUBSET Entities,
           NEW L, Shows(graph, L), Living(L, alive), BeginNext, fault' = "none"
    PROVE  /\ Becomes(L, alive, graph', alive')
           /\ \E h, B : h = graph' /\ B = alive' /\ B \in SUBSET Entities /\ PlanGood(h, calls', B)
  <1>1. ASSUME graph' = graph, NEW B \in SUBSET Entities, B = alive', NEW E \in SUBSET Entities,
               E \cap alive = {}, B = alive \cup E, PlanGood(graph, calls', B)
        PROVE  /\ Becomes(L, alive, graph', alive')
               /\ \E h, C : h = graph' /\ C = alive' /\ C \in SUBSET Entities /\ PlanGood(h, calls', C)
    <2>1. Living(L, B)
      BY <1>1 DEF Living
    <2>2. Created(L, alive, L, B)
      BY <1>1 DEF Created
    <2>3. Becomes(L, alive, graph, B)
      BY <2>1, <2>2 DEF Becomes, TreeStep
    <2>4. QED
      BY <1>1, <2>3
  <1>2. ASSUME graph' = graph, alive' = alive, PlanGood(graph, calls', alive)
        PROVE  /\ Becomes(L, alive, graph', alive')
               /\ \E h, C : h = graph' /\ C = alive' /\ C \in SUBSET Entities /\ PlanGood(h, calls', C)
    <2>1. PICK E \in SUBSET Entities : E = {}
      OBVIOUS
    <2>2. E \cap alive = {} /\ alive = alive \cup E
      BY <2>1
    <2>3. QED
      BY <1>1, <1>2, <2>2
  <1>3. ASSUME NEW s \in NewLists
        PROVE  /\ s \in Seq(Entities) /\ Injective(s) /\ ToSet(s) \in SUBSET Entities
               /\ ToSet(s) \cap (alive \cup unpacking) = {}
    <2>1. s \in Orders(Entities \ (alive \cup unpacking))
      BY DEF NewLists
    <2>2. Entities \ (alive \cup unpacking) \in SUBSET Entities
      OBVIOUS
    <2>3. s \in Seq(Entities) /\ Injective(s) /\ ToSet(s) \subseteq Entities \ (alive \cup unpacking)
      BY <2>1, <2>2, OrderFacts
    <2>4. QED
      BY <2>3
  <1>4. /\ graph \in Graphs
        /\ \A e \in Entities : HasParent(graph, e) => e \in alive
        /\ \A t \in alive : Subtree(graph, t) \subseteq alive
    BY LivingFacts DEF Shows
  <1>5. Displayed \subseteq alive
    BY <1>4 DEF Displayed
  <1>6. CASE \E e \in Entities : CreateNode(e) \/ ViewScene(e)
    <2>1. PICK e \in Entities : CreateNode(e) \/ ViewScene(e)
      BY <1>6
    <2>2. graph' = graph /\ calls' = <<>> /\ {e} \cap alive = {} /\ alive' = alive \cup {e}
      BY <2>1 DEF CreateNode, ViewScene, New, Begin
    <2>3. PICK B \in SUBSET Entities : B = alive \cup {e}
      OBVIOUS
    <2>4. PlanGood(graph, <<>>, B)
      BY DetachPlan
    <2>5. QED
      BY <1>1, <2>2, <2>3, <2>4
  <1>7. ASSUME NEW t \in Displayed, DetachFromParent(t)
        PROVE  graph' = graph /\ alive' = alive /\ PlanGood(graph, calls', alive)
    BY <1>5, <1>7, DetachPlan DEF DetachFromParent, Begin
  <1>8. ASSUME NEW t \in Displayed, DestroySubtree(t)
        PROVE  graph' = graph /\ alive' = alive /\ PlanGood(graph, calls', alive)
    <2>1. /\ alive' = alive /\ graph' = graph
          /\ calls' = <<DetachIfChild(t), SweepCall(Subtree(graph, t))>>
      BY <1>8 DEF DestroySubtree, Begin, Fail
    <2>2. QED
      BY <1>4, <1>5, <2>1, DestroySubtreePlan
  <1>9. ASSUME NEW t \in Displayed, DestroyAndOrphan(t)
        PROVE  graph' = graph /\ alive' = alive /\ PlanGood(graph, calls', alive)
    BY <1>5, <1>9, DestroyAndOrphanPlan DEF DestroyAndOrphan, Begin
  <1>10. ASSUME NEW t \in Displayed, NEW s \in Orders(alive), AttachSelected(t, s)
         PROVE  graph' = graph /\ alive' = alive /\ PlanGood(graph, calls', alive)
    <2>1. s \in Seq(Entities) /\ Injective(s)
      BY OrderFacts
    <2>2. /\ graph' = graph /\ alive' = alive /\ ToSet(s) \subseteq alive \ {t}
          /\ calls' = DetachAllOf(s) \o <<AttachCall(t, s)>>
      BY <1>10 DEF AttachSelected, Begin
    <2>3. t \in alive
      BY <1>5
    <2>4. QED
      BY <2>1, <2>2, <2>3, AttachSelectedPlan
  <1>11. ASSUME NEW s \in NewLists, NEW todo, graph' = graph, calls' = todo,
                alive' = alive \cup ToSet(s), NEW B \in SUBSET Entities, B = alive \cup ToSet(s),
                PlanGood(graph, todo, B)
         PROVE  /\ Becomes(L, alive, graph', alive')
                /\ \E h, C : h = graph' /\ C = alive' /\ C \in SUBSET Entities /\ PlanGood(h, calls', C)
    <2>1. ToSet(s) \in SUBSET Entities /\ ToSet(s) \cap alive = {}
      BY <1>3
    <2>2. QED
      BY <1>1, <1>11, <2>1
  <1>12. ASSUME NEW s \in NewLists, NEW t \in alive, EmplaceModel(t, s)
         PROVE  /\ Becomes(L, alive, graph', alive')
                /\ \E h, C : h = graph' /\ C = alive' /\ C \in SUBSET Entities /\ PlanGood(h, calls', C)
    <2>1. s \in Seq(Entities) /\ Injective(s) /\ ToSet(s) \in SUBSET Entities /\ ToSet(s) \cap alive = {}
      BY <1>3
    <2>2. PICK B \in SUBSET Entities : B = alive \cup ToSet(s)
      BY <2>1
    <2>3. t \in B /\ ToSet(s) \subseteq B \ {t} /\ \A e \in ToSet(s) : ~HasParent(graph, e)
      BY <1>4, <2>1, <2>2
    <2>4. PlanGood(graph, <<AttachCall(t, s)>>, B)
      BY <2>1, <2>3, EmplaceModelPlan
    <2>5. graph' = graph /\ alive' = alive \cup ToSet(s) /\ calls' = <<AttachCall(t, s)>>
      BY <1>12 DEF EmplaceModel, New, Begin
    <2>6. QED
      BY <1>11, <2>2, <2>4, <2>5
  <1>13. ASSUME NEW s \in NewLists, NEW t \in unpacking, NEW f \in ParentsIn(s),
                NEW scenes \in SUBSET ToSet(s), UnpackScene(t, s, f, scenes)
         PROVE  /\ Becomes(L, alive, graph', alive')
                /\ \E h, C : h = graph' /\ C = alive' /\ C \in SUBSET Entities /\ PlanGood(h, calls', C)
    <2>1. /\ s \in Seq(Entities) /\ Injective(s) /\ ToSet(s) \in SUBSET Entities
          /\ ToSet(s) \cap (alive \cup unpacking) = {}
      BY <1>3
    <2>2. PICK B \in SUBSET Entities : B = alive \cup ToSet(s)
      BY <2>1
    <2>3. t \in Entities /\ ToSet(s) \subseteq B \ {t} /\ \A e \in ToSet(s) : ~HasParent(graph, e)
      BY <1>4, <2>1, <2>2
    <2>4. PICK todo : todo = [i \in DOMAIN s |-> AttachCall(IF f[i] = 0 THEN t ELSE s[f[i]], <<s[i]>>)]
      OBVIOUS
    <2>5. PlanGood(graph, todo, B)
      BY <2>1, <2>3, <2>4, UnpackScenePlan
    <2>6. graph' = graph /\ alive' = alive \cup ToSet(s) /\ calls' = todo
      BY <1>13, <2>4 DEF UnpackScene, New, Begin
    <2>7. QED
      BY <1>11, <2>2, <2>5, <2>6
  <1>14. ASSUME NEW s \in NewLists, NEW edges \in EdgesIn(s)
         PROVE  /\ s \in Seq(Entities) /\ ToSet(s) \in SUBSET Entities
                /\ \E B \in SUBSET Entities : /\ B = alive \cup ToSet(s) /\ ToSet(s) \subseteq B
                                             /\ marked \cup ToSet(s) \subseteq B
    BY <1>3
  <1>15. ASSUME NEW s \in NewLists, NEW edges \in EdgesIn(s),
                NEW swept \in Orders(marked \cup ToSet(s)), ImportScene(s, edges, swept)
         PROVE  /\ Becomes(L, alive, graph', alive')
                /\ \E h, C : h = graph' /\ C = alive' /\ C \in SUBSET Entities /\ PlanGood(h, calls', C)
    <2>1. s \in Seq(Entities)
      BY <1>14
    <2>2. PICK B \in SUBSET Entities : /\ B = alive \cup ToSet(s) /\ ToSet(s) \subseteq B
                                       /\ marked \cup ToSet(s) \subseteq B
      BY <1>14
    <2>3. swept \in Orders(B)
      BY <2>2 DEF Orders
    <2>4. PICK todo : todo = AttachEdges(edges) \o IsolateAllOf(swept) \o <<SweepCall(ToSet(swept))>>
      OBVIOUS
    <2>5. PlanGood(graph, todo, B)
      BY <2>1, <2>2, <2>3, <2>4, ImportScenePlan
    <2>6. graph' = graph /\ alive' = alive \cup ToSet(s) /\ calls' = todo
      BY <1>15, <2>4 DEF ImportScene, New, Begin
    <2>7. QED
      BY <1>11, <2>2, <2>5, <2>6
  <1>16. ASSUME NEW s \in NewLists, NEW edges \in EdgesIn(s), NEW left \in SUBSET ToSet(s),
                AbortImport(s, edges, left)
         PROVE  /\ Becomes(L, alive, graph', alive')
                /\ \E h, C : h = graph' /\ C = alive' /\ C \in SUBSET Entities /\ PlanGood(h, calls', C)
    <2>1. s \in Seq(Entities)
      BY <1>14
    <2>2. PICK B \in SUBSET Entities : B = alive \cup ToSet(s) /\ ToSet(s) \subseteq B
      BY <1>14
    <2>3. PlanGood(graph, AttachEdges(edges), B)
      BY <2>1, <2>2, AbortImportPlan
    <2>4. graph' = graph /\ alive' = alive \cup ToSet(s) /\ calls' = AttachEdges(edges)
      BY <1>16 DEF AbortImport, New, Begin
    <2>5. QED
      BY <1>11, <2>2, <2>3, <2>4
  <1>17. CASE \E t \in Displayed : \/ DetachFromParent(t) \/ DestroySubtree(t) \/ DestroyAndOrphan(t)
                                   \/ \E s \in Orders(alive) : AttachSelected(t, s)
    <2>1. graph' = graph /\ alive' = alive /\ PlanGood(graph, calls', alive)
      BY <1>7, <1>8, <1>9, <1>10, <1>17
    <2>2. QED
      BY <1>2, <2>1
  <1>18. CASE \E t \in unpacking : UnpackFails(t)
    <2>1. PICK t \in Entities : UnpackFails(t)
      BY <1>18
    <2>2. graph' = graph /\ alive' = alive /\ calls' = <<>>
      BY <2>1 DEF UnpackFails, Begin
    <2>3. PlanGood(graph, <<>>, alive)
      BY <2>1, DetachPlan
    <2>4. QED
      BY <1>2, <2>2, <2>3
  <1>19. QED
    BY <1>6, <1>12, <1>13, <1>15, <1>16, <1>17, <1>18 DEF BeginNext

LEMMA NextCases == Next => CallNext \/ BeginNext
  BY DEF Next, CallNext, BeginNext

\* A step that ends without a fault.
LEMMA NextGoesOn ==
    ASSUME Typed, PlanGood(graph, calls, alive), NEW L, Shows(graph, L), Living(L, alive),
           [Next]_vars, fault' = "none"
    PROVE  /\ Becomes(L, alive, graph', alive')
           /\ \E h, B : h = graph' /\ B = alive' /\ B \in SUBSET Entities /\ PlanGood(h, calls', B)
  <1>1. CASE CallNext
    BY <1>1, CallNextGoesOn DEF Typed
  <1>2. CASE BeginNext
    BY <1>2, BeginNextGoesOn DEF Typed
  <1>3. CASE vars' = vars
    <2>1. graph' = graph /\ alive' = alive /\ calls' = calls
      BY <1>3 DEF vars
    <2>2. QED
      BY <2>1 DEF Becomes, TreeStep, Typed
  <1>4. QED
    BY <1>1, <1>2, <1>3, NextCases

\* Nothing happens after a fault.
LEMMA FaultStays == [Next]_vars /\ fault # "none" => vars' = vars
  <1> SUFFICES ASSUME Next, fault # "none" PROVE FALSE
    OBVIOUS
  <1>1. ~CallNext
    BY DEF CallNext, CallAttach, CallDetach, CallDetachAll, CallDestroy, CallSweep, Calls
  <1>2. ~BeginNext
    BY DEF BeginNext, CreateNode, ViewScene, DetachFromParent, DestroySubtree, DestroyAndOrphan,
           AttachSelected, UnpackFails, EmplaceModel, UnpackScene, ImportScene, AbortImport,
           Begin, Fail, Idle
  <1>3. QED
    BY <1>1, <1>2, NextCases

\* A fault breaks links, and leaves the components what they are.
LEMMA FaultTyped ==
    ASSUME Typed, fault = "none", PlanGood(graph, calls, alive), Next, fault' # "none"
    PROVE  graph' \in Graphs /\ calls' \in Seq(CallType)
  <1>1. CASE CallAttach
    <2>1. PICK c \in CallType : c = calls[1] /\ NextCall = c /\ CallGood(graph, calls, alive, 1)
      BY <1>1, TailFacts DEF Typed, PlanGood, CallAttach, Calls, NextCall
    <2>2. c.fun \in {"attach", "attach_if_root"} /\ calls' = Tail(calls) /\ calls # <<>>
      BY <1>1, <2>1 DEF CallAttach, Calls
    <2>3. c.entity \in Entities /\ c.list \in Seq(Entities) /\ Injective(c.list)
      <3>1. CASE c.fun = "attach"
        BY <2>1, <3>1 DEF CallGood, AttachGood, CallType
      <3>2. CASE c.fun = "attach_if_root"
        <4>1. Len(c.list) = 1 /\ c.entity \in alive /\ 1..1 = {1}
          BY <2>1, <3>2 DEF CallGood, AttachIfRootGood
        <4>2. QED
          BY <4>1 DEF CallType, Injective, Typed
      <3>3. QED
        BY <2>2, <3>1, <3>2
    <2>4. PICK h \in Graphs : h = AttachChildren(graph, c.entity, c.list)
      BY <2>3, AttachWrites DEF Typed
    <2>5. graph' \in {graph, h}
      BY <1>1, <2>1, <2>4 DEF CallAttach
    <2>6. QED
      BY <2>2, <2>4, <2>5, TailFacts DEF Typed
  <1>2. CASE CallSweep
    <2>1. PICK E : graph' = Destroyed(graph, E) /\ calls' = Tail(calls) /\ calls # <<>>
      BY <1>2 DEF CallSweep, Calls
    <2>2. graph.child \in [Entities -> LinkType] /\ graph.parent \in [Entities -> TopType]
      BY GraphFacts DEF Typed
    <2>3. NoChild \in LinkType /\ NoParent \in TopType
      BY DEF NoChild, LinkType, NoParent, TopType
    <2>4. /\ [e \in Entities |-> IF e \in E THEN NoChild ELSE graph.child[e]] \in [Entities -> LinkType]
          /\ [e \in Entities |-> IF e \in E THEN NoParent ELSE graph.parent[e]] \in [Entities -> TopType]
      BY <2>2, <2>3
    <2>5. Destroyed(graph, E) \in Graphs
      BY <2>4, GraphMade DEF Destroyed
    <2>6. QED
      BY <2>1, <2>5, TailFacts DEF Typed
  <1>3. ~CallDetach /\ ~CallDetachAll /\ ~CallDestroy
    BY DEF CallDetach, CallDetachAll, CallDestroy
  <1>4. CASE BeginNext
    <2>1. PICK t : DestroySubtree(t)
      BY <1>4 DEF BeginNext, CreateNode, ViewScene, DetachFromParent, DestroyAndOrphan,
           AttachSelected, UnpackFails, EmplaceModel, UnpackScene, ImportScene, AbortImport, Begin
    <2>2. graph' = graph /\ calls' = calls
      BY <2>1 DEF DestroySubtree, Begin, Fail
    <2>3. QED
      BY <2>2 DEF Typed
  <1>5. QED
    BY <1>1, <1>2, <1>3, <1>4, NextCases DEF CallNext

LEMMA SetsTyped ==
    ASSUME Typed, [Next]_vars
    PROVE  /\ alive' \in SUBSET Entities /\ marked' \in SUBSET alive'
           /\ unpacking' \in SUBSET Entities /\ fault' \in Faults
  <1>1. CASE CallNext
    BY <1>1 DEF Typed, CallNext, CallAttach, CallDetach, CallDetachAll, CallDestroy, CallSweep, Faults
  <1>2. ASSUME NEW s \in NewLists PROVE ToSet(s) \in SUBSET Entities
    BY <1>2, OrderFacts DEF NewLists
  <1>3. CASE BeginNext
    <2>1. CASE \E e \in Entities : CreateNode(e) \/ ViewScene(e)
      BY <2>1 DEF Typed, CreateNode, ViewScene, New, Begin
    <2>2. CASE \/ \E t \in Displayed : \/ DetachFromParent(t) \/ DestroySubtree(t) \/ DestroyAndOrphan(t)
                                       \/ \E s \in Orders(alive) : AttachSelected(t, s)
               \/ \E t \in unpacking : UnpackFails(t)
      BY <2>2 DEF Typed, DetachFromParent, DestroySubtree, DestroyAndOrphan, AttachSelected,
           UnpackFails, Begin, Fail, Faults
    <2>3. ASSUME NEW s \in NewLists,
                 \/ \E t \in alive : EmplaceModel(t, s)
                 \/ \E t \in unpacking, f \in ParentsIn(s), scenes \in SUBSET ToSet(s) :
                      UnpackScene(t, s, f, scenes)
                 \/ \E edges \in EdgesIn(s) :
                      \/ \E swept \in Orders(marked \cup ToSet(s)) : ImportScene(s, edges, swept)
                      \/ \E left \in SUBSET ToSet(s) : AbortImport(s, edges, left)
          PROVE  /\ alive' \in SUBSET Entities /\ marked' \in SUBSET alive'
                 /\ unpacking' \in SUBSET Entities /\ fault' \in Faults
      <3>1. ToSet(s) \in SUBSET Entities
        BY <1>2
      <3>2. QED
        BY <2>3, <3>1 DEF Typed, EmplaceModel, UnpackScene, ImportScene, AbortImport, New, Begin
    <2>4. QED
      BY <1>3, <2>1, <2>2, <2>3 DEF BeginNext
  <1>4. CASE vars' = vars
    BY <1>4 DEF Typed, vars
  <1>5. QED
    BY <1>1, <1>3, <1>4, NextCases

LEMMA IInvStep == IInv /\ [Next]_vars => IInv'
  <1> SUFFICES ASSUME IInv, [Next]_vars PROVE IInv'
    OBVIOUS
  <1>1. /\ alive' \in SUBSET Entities /\ marked' \in SUBSET alive'
        /\ unpacking' \in SUBSET Entities /\ fault' \in Faults
    BY SetsTyped DEF IInv
  <1>2. CASE fault # "none"
    BY <1>2, FaultStays DEF IInv, Typed, vars
  <1>3. CASE fault = "none" /\ fault' # "none"
    <2>1. graph' \in Graphs /\ calls' \in Seq(CallType)
      BY <1>3, FaultTyped DEF IInv, vars
    <2>2. QED
      BY <1>1, <1>3, <2>1 DEF IInv, Typed
  <1>4. CASE fault = "none" /\ fault' = "none"
    <2>1. PICK L : Shows(graph, L) /\ Living(L, alive)
      BY <1>4 DEF IInv, Whole
    <2>2. /\ Becomes(L, alive, graph', alive')
          /\ \E h, B : h = graph' /\ B = alive' /\ B \in SUBSET Entities /\ PlanGood(h, calls', B)
      BY <1>4, <2>1, NextGoesOn DEF IInv
    <2>3. \E h, B, M : /\ h = graph' /\ B = alive' /\ PlanGood(h, calls', B)
                       /\ Shows(h, M) /\ Living(M, B)
      BY <2>2 DEF Becomes
    <2>4. PICK h, B, M : /\ h = graph' /\ B = alive' /\ PlanGood(h, calls', B)
                         /\ Shows(h, M) /\ Living(M, B)
      BY <2>3
    <2>5. PICK q : q = calls'
      OBVIOUS
    <2>6. PlanGood(h, q, B) /\ Whole(h, B) /\ h \in Graphs /\ q \in Seq(CallType)
      BY <2>4, <2>5 DEF Whole, Shows, PlanGood
    <2>7. QED
      BY <1>1, <2>4, <2>5, <2>6 DEF IInv, Typed
  <1>5. QED
    BY <1>2, <1>3, <1>4


-----------------------------------------------------------------------------
(* The children as the iterator visits them *)

\* The n-th step of the iterator, f what it visited at the steps before.
Visit(g, p, f, n) ==
  IF n = 0 THEN IF HasChildren(g, p) THEN <<g.parent[p].first>> ELSE <<>>
  ELSE IF f[n - 1] = <<>> THEN <<>>
  ELSE IF g.child[Last(f[n - 1])].next = null THEN f[n - 1]
  ELSE Append(f[n - 1], g.child[Last(f[n - 1])].next)

LEMMA VisitsAre ==
    ASSUME NEW g, NEW p, NEW f,
           \A h : h = [n \in 0..Cardinality(Entities) |-> Visit(g, p, h, n)] <=> h = f
    PROVE  ChildSequence(g, p) = f[Cardinality(Entities)]
  <1>1. ChildSequence(g, p) =
          (CHOOSE h : h = [n \in 0..Cardinality(Entities) |-> Visit(g, p, h, n)])[Cardinality(Entities)]
    BY DEF ChildSequence, Visit
  <1>2. (CHOOSE h : h = [n \in 0..Cardinality(Entities) |-> Visit(g, p, h, n)]) = f
    OBVIOUS
  <1>3. QED
    BY <1>1, <1>2

\* The first k of s.
Prefix(s, k) == [i \in 1..k |-> s[i]]

LEMMA PrefixFacts ==
    ASSUME NEW S, NEW s \in Seq(S), NEW k \in 0..Len(s)
    PROVE  /\ Prefix(s, k) \in Seq(S) /\ Len(Prefix(s, k)) = k
           /\ Prefix(s, k) = <<>> <=> k = 0
           /\ k # 0 => Last(Prefix(s, k)) = s[k]
           /\ k # Len(s) => Append(Prefix(s, k), s[k + 1]) = Prefix(s, k + 1)
           /\ k = Len(s) => Prefix(s, k) = s
  <1>1. Len(s) \in Nat /\ DOMAIN s = 1..Len(s) /\ s \in [1..Len(s) -> S]
    BY LenProperties
  <1>2. k \in Nat /\ \A i \in 1..k : i \in 1..Len(s)
    BY <1>1
  <1>3. PICK a : a = Prefix(s, k)
    OBVIOUS
  <1>4. a \in [1..k -> S] /\ \A i \in 1..k : a[i] = s[i]
    BY <1>1, <1>2, <1>3 DEF Prefix
  <1>5. a \in Seq(S) /\ Len(a) = k
    BY <1>2, <1>4, SequenceMade
  <1>6. a = <<>> <=> k = 0
    BY <1>5, EmptySeq
  <1>7. k # 0 => Last(a) = s[k]
    <2>1. k # 0 => k \in 1..k
      BY <1>2
    <2>2. QED
      BY <1>4, <1>5, <2>1 DEF Last
  <1>8. ASSUME k # Len(s) PROVE Append(a, s[k + 1]) = Prefix(s, k + 1)
    <2>1. k + 1 \in 1..Len(s)
      <3>1. Len(s) \in Nat
        BY LenProperties
      <3>2. QED
        BY ONLY <3>1, k \in 0..Len(s), <1>8
    <2>2. PICK e \in S : e = s[k + 1]
      BY <1>1, <2>1
    <2>3. PICK b : b = Append(a, e)
      OBVIOUS
    <2>4. /\ b \in Seq(S) /\ Len(b) = k + 1
          /\ \A i \in 1..k : b[i] = a[i]
          /\ b[k + 1] = e
      BY <1>5, <2>3, AppendProperties
    <2>5. b = [i \in 1..Len(b) |-> b[i]]
      BY <2>4, LenProperties
    <2>6. \A i \in 1..k + 1 : b[i] = s[i]
      <3>1. \A i \in 1..k + 1 : i = k + 1 \/ i \in 1..k
        BY <1>2
      <3>2. QED
        BY <1>4, <2>2, <2>4, <3>1
    <2>7. QED
      BY <2>2, <2>3, <2>4, <2>5, <2>6 DEF Prefix
  <1>9. ASSUME k = Len(s) PROVE a = s
    BY <1>1, <1>3, <1>9 DEF Prefix
  <1>10. QED
    BY <1>3, <1>5, <1>6, <1>7, <1>8, <1>9

LEMMA ChildSequenceIs ==
    ASSUME NEW g, NEW L, Shows(g, L), NEW p \in Entities
    PROVE  ChildSequence(g, p) = L[p]
  <1> DEFINE s == L[p]
             m == Len(s)
             N == Cardinality(Entities)
             least(n) == IF n + 1 <= m THEN n + 1 ELSE m
             f == [n \in 0..N |-> Prefix(s, least(n))]
  <1>1. /\ s \in Seq(Entities) /\ m \in Nat
        /\ s = <<>> <=> m = 0
        /\ \A i \in 1..m : s[i] \in Entities /\ s[i] # null
    BY ListFacts DEF Shows
  <1>2. N \in Nat /\ m <= N
    <2>1. IsFiniteSet(Entities)
      BY SceneAssumption
    <2>2. N \in Nat
      BY <2>1, FS_CardinalityType
    <2>3. ChildrenOf(g, p) \in SUBSET Entities
      BY DEF ChildrenOf
    <2>4. Cardinality(ChildrenOf(g, p)) <= N
      BY <2>1, <2>3, FS_Subset
    <2>5. QED
      BY <2>2, <2>4, LengthIs
  <1>3. /\ HasChildren(g, p) <=> m # 0
        /\ m # 0 => g.parent[p].first = s[1]
    BY <1>1, ChildrenAre, TopFacts DEF Shows
  <1>4. \A i \in 1..m : g.child[s[i]].next = IF i = m THEN null ELSE s[i + 1]
    BY LinkFacts DEF Shows
  <1> HIDE DEF s, m, N
  <1>5. \A k \in 0..m :
          /\ Prefix(s, k) \in Seq(Entities)
          /\ Prefix(s, k) = <<>> <=> k = 0
          /\ k # 0 => Last(Prefix(s, k)) = s[k]
          /\ k # m => Append(Prefix(s, k), s[k + 1]) = Prefix(s, k + 1)
          /\ k = m => Prefix(s, k) = s
    BY <1>1, PrefixFacts DEF m
  <1>6. m # 0 => <<s[1]>> = Prefix(s, 1)
    <2>1. Prefix(s, 1) = [i \in 1..1 |-> s[i]] /\ 1..1 = {1}
      BY DEF Prefix
    <2>2. <<s[1]>> = [i \in {1} |-> s[i]]
      OBVIOUS
    <2>3. QED
      BY <2>1, <2>2
  <1>7. \A n \in 0..N : f[n] = Prefix(s, least(n)) /\ least(n) \in 0..m
    BY <1>1, <1>2
  <1>8. ASSUME NEW n \in 0..N, NEW h, n # 0 => h[n - 1] = f[n - 1]
        PROVE  Visit(g, p, h, n) = f[n]
    <2>1. CASE n = 0
      <3>1. CASE m = 0
        <4>1. least(n) = 0
          BY <2>1, <3>1
        <4>2. f[n] = <<>>
          BY <1>1, <1>5, <1>7, <4>1
        <4>3. QED
          BY <1>3, <2>1, <3>1, <4>2 DEF Visit
      <3>2. CASE m # 0
        <4>1. least(n) = 1
          BY <1>1, <2>1, <3>2
        <4>2. f[n] = <<s[1]>>
          BY <1>6, <1>7, <3>2, <4>1
        <4>3. QED
          BY <1>3, <2>1, <3>2, <4>2 DEF Visit
      <3>3. QED
        BY <3>1, <3>2
    <2>2. CASE n # 0
      <3>1. n - 1 \in 0..N /\ (n - 1) + 1 = n
        BY <1>2, <2>2
      <3>2. PICK k \in 0..m : k = (IF n <= m THEN n ELSE m) /\ h[n - 1] = Prefix(s, k)
        <4>1. least(n - 1) = IF n <= m THEN n ELSE m
          BY <3>1
        <4>2. least(n - 1) \in 0..m /\ f[n - 1] = Prefix(s, least(n - 1))
          BY <1>7, <3>1
        <4>3. QED
          BY <1>8, <2>2, <4>1, <4>2
      <3> HIDE DEF f
      <3>3. f[n] = Prefix(s, least(n))
        BY <1>7
      <3>4. Visit(g, p, h, n) =
              IF h[n - 1] = <<>> THEN <<>>
              ELSE IF g.child[Last(h[n - 1])].next = null THEN h[n - 1]
              ELSE Append(h[n - 1], g.child[Last(h[n - 1])].next)
        BY <2>2 DEF Visit
      <3>5. CASE k = 0
        <4>1. m = 0 /\ least(n) = 0
          BY <1>1, <1>2, <2>2, <3>2, <3>5
        <4>2. QED
          BY <1>1, <1>5, <3>2, <3>3, <3>4, <3>5, <4>1
      <3>6. CASE k # 0 /\ k = m
        <4>1. least(n) = m /\ k \in 1..m
          BY <1>1, <1>2, <3>2, <3>6
        <4>2. Last(h[n - 1]) = s[k] /\ h[n - 1] # <<>>
          BY <1>5, <3>2, <3>6
        <4>3. g.child[s[k]].next = null
          BY <1>4, <3>6, <4>1
        <4>4. QED
          BY <3>2, <3>3, <3>4, <3>6, <4>1, <4>2, <4>3
      <3>7. CASE k # 0 /\ k # m
        <4>1. least(n) = k + 1 /\ k \in 1..m /\ k + 1 \in 1..m
          BY <1>1, <1>2, <3>2, <3>7
        <4>2. Last(h[n - 1]) = s[k] /\ h[n - 1] # <<>>
          BY <1>5, <3>2, <3>7
        <4>3. g.child[s[k]].next = s[k + 1] /\ s[k + 1] # null
          BY <1>1, <1>4, <3>7, <4>1
        <4>4. Append(h[n - 1], s[k + 1]) = Prefix(s, k + 1)
          BY <1>5, <3>2, <3>7
        <4>5. QED
          BY <3>3, <3>4, <4>1, <4>2, <4>3, <4>4
      <3>8. QED
        BY <3>5, <3>6, <3>7
    <2>3. QED
      BY <2>1, <2>2
  <1>9. f = [n \in 0..N |-> f[n]]
    OBVIOUS
  <1> HIDE DEF f
  <1>10. f = [n \in 0..N |-> Visit(g, p, f, n)]
    <2>1. \A n \in 0..N : Visit(g, p, f, n) = f[n]
      BY <1>8
    <2>2. [n \in 0..N |-> Visit(g, p, f, n)] = [n \in 0..N |-> f[n]]
      BY <2>1
    <2>3. QED
      BY <1>9, <2>2
  <1>11. ASSUME NEW h, h = [n \in 0..N |-> Visit(g, p, h, n)] PROVE h = f
    <2> DEFINE Differ == {n \in 0..N : h[n] # f[n]}
    <2>1. \A n \in 0..N : h[n] = Visit(g, p, h, n)
      BY <1>11
    <2>2. Differ = {}
      <3>1. SUFFICES ASSUME Differ # {} PROVE FALSE
        OBVIOUS
      <3>2. Differ \in SUBSET Nat
        BY <1>2
      <3>3. PICK n \in Differ : \A i \in Differ : n <= i
        BY <3>1, <3>2, LeastExists
      <3>4. n # 0 => n - 1 \in 0..N /\ ~(n <= n - 1)
        BY <1>2, <3>3
      <3>5. n # 0 => h[n - 1] = f[n - 1]
        BY <3>3, <3>4
      <3>6. Visit(g, p, h, n) = f[n]
        BY <1>8, <3>3, <3>5
      <3>7. QED
        BY <2>1, <3>3, <3>6
    <2>3. \A n \in 0..N : h[n] = f[n]
      BY <2>2
    <2>4. h = [n \in 0..N |-> h[n]]
      BY <1>11
    <2>5. [n \in 0..N |-> h[n]] = [n \in 0..N |-> f[n]]
      BY <2>3
    <2>6. QED
      BY <1>9, <2>4, <2>5
  <1>12. ChildSequence(g, p) = f[N]
    <2>1. \A h : h = [n \in 0..Cardinality(Entities) |-> Visit(g, p, h, n)] <=> h = f
      BY <1>10, <1>11 DEF N
    <2>2. QED
      BY <2>1, VisitsAre DEF N
  <1>13. f[N] = s
    <2>1. N \in 0..N /\ least(N) = m
      BY <1>1, <1>2
    <2>2. m \in 0..m
      BY <1>1
    <2>3. QED
      BY <1>5, <1>7, <2>1, <2>2
  <1>14. QED
    BY <1>12, <1>13 DEF s


-----------------------------------------------------------------------------
(* The theorems *)

LEMMA InitShows ==
    ASSUME Init
    PROVE  \E L : Shows(graph, L) /\ Living(L, alive) /\ L = [p \in Entities |-> <<>>]
  <1> DEFINE L == [p \in Entities |-> <<>>]
  <1>1. \A p \in Entities : L[p] = <<>>
    OBVIOUS
  <1>2. L \in [Entities -> Seq(Entities)] /\ 1..Len(<<>>) = {}
    OBVIOUS
  <1> HIDE DEF L
  <1>3. \A p \in Entities : \A i \in 1..Len(L[p]) : FALSE
    BY <1>1, <1>2
  <1>4. Lists(L)
    BY <1>2, <1>3 DEF Lists
  <1>5. graph \in Graphs
    <2>1. [e \in Entities |-> NoChild] \in [Entities -> LinkType]
      BY DEF NoChild, LinkType
    <2>2. [e \in Entities |-> NoParent] \in [Entities -> TopType]
      BY DEF NoParent, TopType
    <2>3. QED
      BY <2>1, <2>2, GraphMade DEF Init
  <1>6. \A p \in Entities : graph.parent[p] = Top(L[p]) /\ graph.child[p] = NoChild
    BY <1>1 DEF Init, Top
  <1>7. Shows(graph, L) /\ Living(L, alive)
    BY <1>3, <1>4, <1>5, <1>6 DEF Shows, Living
  <1>8. QED
    BY <1>7 DEF L

\* As long as there is no fault, the links are those of lists of living
\* entities, nobody in two of them, and the calls that are left will find what
\* they count on: inductive.
THEOREM SceneInvariant == Spec => []IInv
  <1>1. Init => IInv
    <2> SUFFICES ASSUME Init PROVE IInv
      OBVIOUS
    <2>1. Whole(graph, alive)
      BY InitShows DEF Whole
    <2>2. <<>> \in Seq(CallType) /\ 1..Len(<<>>) = {}
      OBVIOUS
    <2>3. PlanGood(graph, calls, alive)
      BY <2>2 DEF Init, PlanGood
    <2>4. Typed
      BY <2>1, <2>2 DEF Init, Typed, Whole, Shows, Faults
    <2>5. QED
      BY <2>1, <2>3, <2>4 DEF IInv
  <1>2. QED
    BY <1>1, IInvStep, PTL DEF Spec

\* Every component is one, whatever has been called.
THEOREM TypeCorrect == Spec => []TypeOK
  <1>1. IInv => TypeOK
    <2> SUFFICES ASSUME IInv PROVE TypeOK
      OBVIOUS
    <2>1. calls \in Seq(CallType)
      BY DEF IInv, Typed
    <2>2. DOMAIN calls = 1..Len(calls) /\ \A i \in 1..Len(calls) : calls[i] \in CallType
      BY <2>1, LenProperties
    <2>3. \A s \in Seq(Entities) : ToSet(s) \subseteq Entities
      BY LenProperties DEF ToSet
    <2>4. QED
      BY <2>2, <2>3 DEF TypeOK, IInv, Typed, CallType
  <1>2. QED
    BY <1>1, SceneInvariant, PTL

\* Neighbours in a list know each other, a parent knows its first child and the
\* number of them, and nothing that is destroyed is linked to, with leftovers of
\* aborted imports about and scenes on their way, until "Destroy Subtree" meets
\* or sweeps leftovers that are linked to others, or a scene is unpacked into an
\* entity that is gone.
THEOREM LinksAreWhole == Spec => []LinksWhole
  <1>1. IInv => LinksWhole
    <2> SUFFICES ASSUME IInv, fault = "none"
                 PROVE  NoDanglingLinks /\ NeighboursAgree /\ ListsComplete
      BY DEF LinksWhole
    <2>1. PICK L : Shows(graph, L) /\ Living(L, alive)
      BY DEF IInv, Whole
    <2>2. Lists(L)
      BY <2>1 DEF Shows
    <2>3. \A p \in Entities : \A i \in 1..Len(L[p]) :
            /\ p \in alive /\ L[p][i] \in alive /\ L[p][i] \in Entities /\ L[p][i] # null
            /\ graph.child[L[p][i]].parent = p
            /\ graph.child[L[p][i]].next = (IF i = Len(L[p]) THEN null ELSE L[p][i + 1])
            /\ graph.child[L[p][i]].prev = (IF i = 1 THEN null ELSE L[p][i - 1])
            /\ i = Len(L[p]) \/ i + 1 \in 1..Len(L[p])
            /\ i = 1 \/ i - 1 \in 1..Len(L[p])
      <3> SUFFICES ASSUME NEW p \in Entities, NEW i \in 1..Len(L[p])
                   PROVE  /\ p \in alive /\ L[p][i] \in alive /\ L[p][i] \in Entities /\ L[p][i] # null
                          /\ graph.child[L[p][i]].parent = p
                          /\ graph.child[L[p][i]].next = (IF i = Len(L[p]) THEN null ELSE L[p][i + 1])
                          /\ graph.child[L[p][i]].prev = (IF i = 1 THEN null ELSE L[p][i - 1])
                          /\ i = Len(L[p]) \/ i + 1 \in 1..Len(L[p])
                          /\ i = 1 \/ i - 1 \in 1..Len(L[p])
        OBVIOUS
      <3>1. graph.child[L[p][i]] = Link(p, L[p], i)
        BY <2>1 DEF Shows
      <3>2. Len(L[p]) \in Nat
        BY <2>2, ListFacts
      <3>3. (i = Len(L[p]) \/ i + 1 \in 1..Len(L[p])) /\ (i = 1 \/ i - 1 \in 1..Len(L[p]))
        BY <3>2
      <3>4. p \in alive /\ L[p][i] \in alive
        BY <2>1 DEF Living
      <3>5. QED
        BY <2>2, <3>1, <3>3, <3>4, LinkFacts, ListFacts
    <2>4. \A p \in Entities : graph.parent[p].first = (IF L[p] = <<>> THEN null ELSE L[p][1])
          /\ graph.parent[p].num = Len(L[p])
      BY <2>1, <2>2, TopFacts DEF Shows
    <2>5. \A p \in Entities : L[p] # <<>> => 1 \in 1..Len(L[p])
      BY <2>2, ListFacts
    <2>6. ASSUME NEW e \in Entities, HasParent(graph, e)
          PROVE  \E p \in Entities : \E i \in 1..Len(L[p]) : L[p][i] = e
      BY <2>1, <2>6, ParentIs DEF InList
    <2>7. NoDanglingLinks
      <3>1. ASSUME NEW e \in Entities, HasParent(graph, e)
            PROVE  /\ e \in alive /\ graph.child[e].parent \in alive
                   /\ {graph.child[e].next, graph.child[e].prev} \subseteq alive \cup {null}
        <4>1. PICK p \in Entities : \E i \in 1..Len(L[p]) : L[p][i] = e
          BY <2>6, <3>1
        <4>2. PICK i \in 1..Len(L[p]) : L[p][i] = e
          BY <4>1
        <4>3. e \in alive /\ graph.child[e].parent \in alive
          BY <2>3, <4>2
        <4>4. graph.child[e].next = null \/ graph.child[e].next \in alive
          <5>1. i = Len(L[p]) \/ L[p][i + 1] \in alive
            BY <2>3
          <5>2. QED
            BY <2>3, <4>2, <5>1
        <4>5. graph.child[e].prev = null \/ graph.child[e].prev \in alive
          <5>1. i = 1 \/ L[p][i - 1] \in alive
            BY <2>3
          <5>2. QED
            BY <2>3, <4>2, <5>1
        <4>6. QED
          BY <4>3, <4>4, <4>5
      <3>2. ASSUME NEW e \in Entities, HasChildren(graph, e)
            PROVE  e \in alive /\ graph.parent[e].first \in alive
        <4>1. L[e] # <<>>
          BY <2>1, <3>2, ChildrenAre
        <4>2. QED
          BY <2>3, <2>4, <2>5, <4>1
      <3>3. ASSUME NEW e \in Entities, ~HasParent(graph, e)
            PROVE  {graph.child[e].next, graph.child[e].prev} \subseteq alive \cup {null}
        BY <3>3 DEF HasParent, NoChild
      <3>4. QED
        BY <3>1, <3>2, <3>3 DEF NoDanglingLinks
    <2>8. NeighboursAgree
      <3> SUFFICES ASSUME NEW e \in Entities, HasParent(graph, e),
                          NEW link, link = graph.child[e]
                   PROVE  /\ link.next # null => /\ graph.child[link.next].prev = e
                                                 /\ graph.child[link.next].parent = link.parent
                          /\ link.prev # null => /\ graph.child[link.prev].next = e
                                                 /\ graph.child[link.prev].parent = link.parent
                          /\ link.prev = null <=> graph.parent[link.parent].first = e
        BY DEF NeighboursAgree
      <3>1. PICK p \in Entities : \E i \in 1..Len(L[p]) : L[p][i] = e
        BY <2>6
      <3>2. PICK i \in 1..Len(L[p]) : L[p][i] = e
        BY <3>1
      <3>3. i \in Nat /\ Len(L[p]) \in Nat
        BY <2>2, ListFacts
      <3>4. /\ link.parent = p
            /\ link.next = (IF i = Len(L[p]) THEN null ELSE L[p][i + 1])
            /\ link.prev = (IF i = 1 THEN null ELSE L[p][i - 1])
        BY <2>3, <3>2
      <3>5. ASSUME link.next # null
            PROVE  graph.child[link.next].prev = e /\ graph.child[link.next].parent = link.parent
        <4>1. i + 1 \in 1..Len(L[p]) /\ link.next = L[p][i + 1] /\ i + 1 # 1 /\ (i + 1) - 1 = i
          BY <2>3, <3>3, <3>4, <3>5
        <4>2. QED
          BY <2>3, <3>2, <3>4, <4>1
      <3>6. ASSUME link.prev # null
            PROVE  graph.child[link.prev].next = e /\ graph.child[link.prev].parent = link.parent
        <4>1. /\ i - 1 \in 1..Len(L[p]) /\ link.prev = L[p][i - 1] /\ i - 1 # Len(L[p])
              /\ (i - 1) + 1 = i
          BY <2>3, <3>3, <3>4, <3>6
        <4>2. QED
          BY <2>3, <3>2, <3>4, <4>1
      <3>7. link.prev = null <=> graph.parent[link.parent].first = e
        <4>1. L[p] # <<>>
          <5>1. Len(L[p]) # 0
            BY <3>3
          <5>2. QED
            BY <2>2, <5>1, ListFacts
        <4>2. graph.parent[link.parent].first = L[p][1] /\ 1 \in 1..Len(L[p])
          BY <2>4, <2>5, <3>4, <4>1
        <4>3. L[p][1] = e <=> i = 1
          BY <2>2, <3>2, <4>2 DEF Lists
        <4>4. link.prev = null <=> i = 1
          BY <2>3, <3>4
        <4>5. QED
          BY <4>2, <4>3, <4>4
      <3>8. QED
        BY <3>5, <3>6, <3>7
    <2>9. ListsComplete
      <3>1. ASSUME NEW p \in Entities
            PROVE  /\ Listed(graph, graph.parent[p].first) = ChildrenOf(graph, p)
                   /\ graph.parent[p].num = Cardinality(ChildrenOf(graph, p))
                   /\ HasChildren(graph, p) <=> ChildrenOf(graph, p) # {}
        <4>1. Listed(graph, graph.parent[p].first) = ChildrenOf(graph, p)
          BY <2>1, ListedAre
        <4>2. graph.parent[p].num = Cardinality(ChildrenOf(graph, p))
          BY <2>1, <2>4, LengthIs
        <4>3. HasChildren(graph, p) <=> ChildrenOf(graph, p) # {}
          <5>1. L[p] = <<>> <=> Len(L[p]) = 0
            BY <2>2, ListFacts
          <5>2. L[p] = <<>> => 1..Len(L[p]) = {}
            BY <5>1
          <5>3. HasChildren(graph, p) <=> L[p] # <<>>
            BY <2>1, ChildrenAre
          <5>4. \A e : e \in ChildrenOf(graph, p) <=> \E i \in 1..Len(L[p]) : L[p][i] = e
            BY <2>1, ChildrenAre
          <5>5. L[p] # <<>> => L[p][1] \in ChildrenOf(graph, p)
            BY <2>5, <5>4
          <5>6. L[p] = <<>> => ChildrenOf(graph, p) = {}
            BY <5>2, <5>4
          <5>7. QED
            BY <5>3, <5>5, <5>6
        <4>4. QED
          BY <4>1, <4>2, <4>3
      <3>2. QED
        BY <3>1 DEF ListsComplete
    <2>10. QED
      BY <2>7, <2>8, <2>9
  <1>2. QED
    BY <1>1, SceneInvariant, PTL

\* "Attempted to attach to self." and "Entity already has a parent." are never
\* met: who is to be attached was detached by a call before, or is new.
THEOREM OnlyRootsAttached == Spec => []AttachedAreRoots
  <1>1. IInv => AttachedAreRoots
    <2> SUFFICES ASSUME IInv, fault = "none", calls # <<>>, NextCall.fun = "attach"
                 PROVE  \A e \in ToSet(NextCall.list) : e # NextCall.entity /\ ~HasParent(graph, e)
      BY DEF AttachedAreRoots
    <2>1. NextCall = calls[1] /\ 1 \in 1..Len(calls) /\ Len(calls) \in Nat
      BY TailFacts DEF IInv, PlanGood, NextCall
    <2>2. AttachGood(graph, calls, alive, 1)
      BY <2>1 DEF IInv, PlanGood, CallGood
    <2>3. \A j \in 1..Len(calls) : ~(j < 1)
      BY <2>1
    <2>4. QED
      BY <2>1, <2>2, <2>3 DEF AttachGood, RootAt
  <1>2. QED
    BY <1>1, SceneInvariant, PTL

LEMMA TreeStepMaps ==
    ASSUME NEW L, Lists(L), NEW M, alive \in SUBSET Entities, TreeStep(L, alive, M, alive'),
           L = ChildLists, M = ChildLists'
    PROVE  Tree!Change \/ (alive' = alive /\ ChildLists' = ChildLists)
  <1>1. L \in [Entities -> Seq(Entities)]
    BY DEF Lists
  <1>2. \A p \in Entities : \A e : e \in ToSet(L[p]) <=> \E i \in 1..Len(L[p]) : L[p][i] = e
    BY ListFacts DEF ToSet
  <1>3. CASE M = L /\ alive' = alive
    BY <1>3
  <1>4. /\ \A x : Tree!ToSet(x) = ToSet(x) /\ Tree!Reverse(x) = Reverse(x)
        /\ \A x, i : Tree!RemoveAt(x, i) = RemoveAt(x, i)
    <2>1. \A x : Tree!ToSet(x) = ToSet(x)
      BY DEF ToSet, Tree!ToSet
    <2>2. \A x : Tree!Reverse(x) = Reverse(x)
      BY DEF Reverse, Tree!Reverse
    <2>3. \A x, i : Tree!RemoveAt(x, i) = RemoveAt(x, i)
      BY DEF RemoveAt, Tree!RemoveAt
    <2>4. QED
      BY <2>1, <2>2, <2>3
  <1>5. CASE Attached(L, alive, M, alive')
    <2>1. PICK p \in alive : \E s \in Seq(Entities) :
             /\ Injective(s) /\ ToSet(s) \subseteq alive \ {p}
             /\ \A e \in ToSet(s) : ~InList(L, e)
             /\ M = [L EXCEPT ![p] = Reverse(s) \o @]
      BY <1>5 DEF Attached
    <2>2. PICK s \in Seq(Entities) :
             /\ Injective(s) /\ ToSet(s) \subseteq alive \ {p}
             /\ \A e \in ToSet(s) : ~InList(L, e)
             /\ M = [L EXCEPT ![p] = Reverse(s) \o @]
      BY <2>1
    <2>3. s \in Tree!SetToSeqs(ToSet(s)) /\ ToSet(s) \in SUBSET Entities
      <3>1. /\ Len(s) \in Nat /\ s \in [1..Len(s) -> Entities]
            /\ \A e : e \in ToSet(s) <=> \E i \in 1..Len(s) : s[i] = e
        BY LenProperties DEF ToSet
      <3>2. s \in [1..Len(s) -> ToSet(s)] /\ ToSet(s) \in SUBSET Entities
        BY <3>1
      <3>3. s \in Bijection(1..Len(s), ToSet(s))
        BY <2>2, <3>1, <3>2 DEF Injective, Bijection, Injection, Surjection, IsInjective
      <3>4. ExistsBijection(1..Len(s), ToSet(s))
        BY <3>3 DEF ExistsBijection
      <3>5. IsFiniteSet(1..Len(s)) /\ Cardinality(1..Len(s)) = Len(s)
        <4>1. PICK n \in Nat : n = Len(s)
          <5>1. Len(s) \in Nat
            BY LenProperties
          <5>2. QED
            BY ONLY <5>1
        <4>2. 1 \in Int /\ n \in Int /\ (IF 1 > n THEN 0 ELSE n - 1 + 1) = n
          OBVIOUS
        <4>3. IsFiniteSet(1..n) /\ Cardinality(1..n) = n
          BY <4>2, FS_Interval
        <4>4. QED
          BY <4>1, <4>3
      <3>6. Cardinality(ToSet(s)) = Len(s)
        BY <3>4, <3>5, FS_Bijection
      <3>7. Tree!Cardinality(ToSet(s)) = Cardinality(ToSet(s))
        BY DEF Cardinality, Tree!Cardinality
      <3>8. QED
        BY <2>2, <3>2, <3>6, <3>7 DEF Tree!SetToSeqs, Injective
    <2>4. \A e \in ToSet(s) : ~Tree!IsChild(e)
      BY <1>2, <1>4, <2>2 DEF Tree!IsChild, InList
    <2>5. Tree!Attach(p, s)
      BY <1>5, <1>4, <2>2, <2>4 DEF Tree!Attach, Attached
    <2>6. QED
      BY <2>3, <2>5 DEF Tree!Change
  <1>6. CASE Detached(L, alive, M, alive')
    <2>1. PICK p \in Entities : \E k \in 1..Len(L[p]) : M = [L EXCEPT ![p] = RemoveAt(@, k)]
      BY <1>6 DEF Detached
    <2>2. PICK k \in 1..Len(L[p]) : M = [L EXCEPT ![p] = RemoveAt(@, k)]
      BY <2>1
    <2>3. k \in DOMAIN L[p]
      BY ListFacts
    <2>4. Tree!Detach(p, k)
      <3>1. RemoveAt(L[p], k) = Tree!RemoveAt(L[p], k) /\ alive' = alive
        BY <1>4, <1>6 DEF Detached
      <3>2. ChildLists' = [ChildLists EXCEPT ![p] = Tree!RemoveAt(@, k)]
        BY <2>2, <3>1
      <3>3. QED
        BY <3>1, <3>2 DEF Tree!Detach
    <2>5. QED
      BY <2>3, <2>4 DEF Tree!Change
  <1>7. CASE AllDetached(L, alive, M, alive')
    <2>1. PICK p \in Entities : L[p] # <<>> /\ M = [L EXCEPT ![p] = <<>>]
      BY <1>7 DEF AllDetached
    <2>2. Tree!DetachAll(p)
      BY <1>7, <2>1 DEF Tree!DetachAll, AllDetached
    <2>3. QED
      BY <2>2 DEF Tree!Change
  <1>8. CASE Gone(L, alive, M, alive')
    <2>1. PICK E \in SUBSET alive :
            /\ \A e \in E : ~\E p \in Entities \ E : e \in ToSet(L[p])
            /\ \A e \in E : ToSet(L[e]) \subseteq E
            /\ alive' = alive \ E /\ M = Emptied(L, E)
      BY <1>8 DEF Gone
    <2>2. Tree!Destroy(E)
      BY <1>4, <2>1 DEF Tree!Destroy, Emptied
    <2>3. E \in SUBSET Entities
      OBVIOUS
    <2>4. QED
      BY <2>2, <2>3 DEF Tree!Change
  <1>9. CASE Created(L, alive, M, alive')
    <2>1. PICK E \in SUBSET Entities : M = L /\ E \cap alive = {} /\ alive' = alive \cup E
      BY <1>9 DEF Created
    <2>2. Tree!Create(E)
      BY <2>1 DEF Tree!Create
    <2>3. QED
      BY <2>2 DEF Tree!Change
  <1>10. QED
    BY <1>3, <1>5, <1>6, <1>7, <1>8, <1>9 DEF TreeStep

\* The graph of linked components is a tree of lists: every call changes one
\* list as SceneTree says, or nothing, and only a fault breaks it.
THEOREM SceneIsATree == Spec => ImplementsTree
  <1>1. \A g, L : Shows(g, L) => L = [e \in Entities |-> ChildSequence(g, e)] /\ Lists(L)
    <2> SUFFICES ASSUME NEW g, NEW L, Shows(g, L)
                 PROVE  L = [e \in Entities |-> ChildSequence(g, e)] /\ Lists(L)
      OBVIOUS
    <2>1. \A e \in Entities : ChildSequence(g, e) = L[e]
      BY ChildSequenceIs
    <2>2. Lists(L) /\ L = [e \in Entities |-> L[e]]
      BY DEF Shows, Lists
    <2>3. QED
      BY <2>1, <2>2
  <1>2. Init => Tree!Init
    <2> SUFFICES ASSUME Init PROVE Tree!Init
      OBVIOUS
    <2>1. PICK L : Shows(graph, L) /\ L = [p \in Entities |-> <<>>]
      BY InitShows
    <2>2. ChildLists = [p \in Entities |-> <<>>]
      BY <1>1, <2>1 DEF ChildLists
    <2>3. QED
      BY <2>2 DEF Tree!Init, Init
  <1>3. IInv /\ [Next]_vars => [Tree!Next]_(Tree!vars)
    <2> SUFFICES ASSUME IInv, [Next]_vars PROVE [Tree!Next]_(Tree!vars)
      OBVIOUS
    <2>1. CASE fault # "none"
      <3>1. vars' = vars
        BY <2>1, FaultStays
      <3>2. graph' = graph /\ alive' = alive /\ fault' = fault
        BY <3>1 DEF vars
      <3>3. ChildLists' = ChildLists
        BY <3>2 DEF ChildLists
      <3>4. QED
        BY <3>2, <3>3 DEF Tree!vars
    <2>2. CASE fault = "none" /\ fault' # "none"
      BY <2>2 DEF Tree!Next, Tree!Break
    <2>3. CASE fault = "none" /\ fault' = "none"
      <3>1. PICK L : Shows(graph, L) /\ Living(L, alive)
        BY <2>3 DEF IInv, Whole
      <3>2. Becomes(L, alive, graph', alive')
        BY <2>3, <3>1, NextGoesOn DEF IInv
      <3>3. \E h, M : h = graph' /\ Shows(h, M) /\ TreeStep(L, alive, M, alive')
        BY <3>2 DEF Becomes
      <3>4. PICK h, M : h = graph' /\ Shows(h, M) /\ TreeStep(L, alive, M, alive')
        BY <3>3
      <3>5. L = ChildLists /\ Lists(L)
        BY <1>1, <3>1 DEF ChildLists
      <3>6. M = [e \in Entities |-> ChildSequence(h, e)]
        BY <1>1, <3>4
      <3>7. M = ChildLists'
        BY <3>4, <3>6 DEF ChildLists
      <3>8. Tree!Change \/ (alive' = alive /\ ChildLists' = ChildLists)
        BY <3>4, <3>5, <3>7, TreeStepMaps DEF IInv, Typed
      <3>9. QED
        BY <2>3, <3>8 DEF Tree!Next, Tree!vars
    <2>4. QED
      BY <2>1, <2>2, <2>3
  <1>4. QED
    BY <1>2, <1>3, SceneInvariant, PTL DEF Spec, ImplementsTree, Tree!Spec


=============================================================================
