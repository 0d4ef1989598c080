-------------------------- MODULE MainThreadProofs --------------------------
(***************************************************************************)
(* Proofs about the two tables that only the main thread uses, each with   *)
(* two lookups that must know the same things.                             *)
(*                                                                         *)
(* SkeletonStorage, for any set of skeletons: the ranges tile the land and *)
(* its counters count them, the table and the land know the same ranges,   *)
(* and the storage implements the table.                                   *)
(*                                                                         *)
(* ShaderPool, for any files, programs and texts, any number of buckets    *)
(* and of saves: the two maps of the watcher and the files of the registry *)
(* agree, and the files of a program are those it was compiled from.       *)
(***************************************************************************)
EXTENDS SkeletonStorage, ShaderPool, FiniteSetTheorems, TLAPS

-----------------------------------------------------------------------------
(* SkeletonStorage: tilings *)

\* In a tiling a base belongs to one range, so what the ordered sets find by
\* base is the range that was meant.
LEMMA UniqueBase ==
  ASSUME NEW F \in SUBSET Ranges, NEW E \in SUBSET Ranges, Disjoint(F, E),
         NEW r \in F \cup E, NEW s \in F \cup E, r.base = s.base
  PROVE  r = s
BY DEF Disjoint, Ranges, End

\* _occupy() of a whole range.
LEMMA TakeWhole ==
  ASSUME NEW F \in SUBSET Ranges, NEW E \in SUBSET Ranges, NEW g,
         TiledBy(F, E, g), NEW r \in E
  PROVE  TiledBy(F \cup {r}, E \ {r}, g)
BY DEF TiledBy, Disjoint, Covering

\* _occupy() of the left part of a range.
LEMMA TakeLeft ==
  ASSUME NEW F \in SUBSET Ranges, NEW E \in SUBSET Ranges,
         NEW g \in [base: Nat, size: Nat],
         TiledBy(F, E, g), NEW r \in E, NEW size \in Nat \ {0}, size < r.size
  PROVE  TiledBy(F \cup {LeftPart(r, size)}, (E \ {r}) \cup {RightPart(r, size)}, g)
<1> DEFINE left  == LeftPart(r, size)
           right == RightPart(r, size)
           F1    == F \cup {left}
           E1    == (E \ {r}) \cup {right}
<1>1. /\ left \in Ranges /\ left.base = r.base /\ left.size = size
      /\ right \in Ranges /\ right.base = r.base + size /\ right.size = r.size - size
      /\ r \in Ranges /\ r.base \in Nat /\ r.size \in Nat
  BY DEF LeftPart, RightPart, Ranges
<1>2. \A s \in (F \cup E) \ {r} : /\ End(s) <= r.base \/ End(r) <= s.base
                                  /\ s \in Ranges /\ s.base \in Nat
                                  /\ s.size \in Nat /\ s.size > 0
  BY DEF TiledBy, Disjoint, Ranges
<1>3. r \notin F
  BY DEF TiledBy, Disjoint
<1>4. \A s \in (F \cup E) \ {r} : s # left /\ s # right
  BY <1>1, <1>2 DEF End
<1>5. Disjoint(F1, E1)
  <2>1. left # right
    BY <1>1
  <2>2. F1 \cap E1 = {}
    BY <1>3, <1>4, <2>1 DEF TiledBy, Disjoint
  <2>3. ASSUME NEW s \in F1 \cup E1, NEW t \in F1 \cup E1
        PROVE  s = t \/ End(s) <= t.base \/ End(t) <= s.base
    <3>1. CASE s \in (F \cup E) \ {r} /\ t \in (F \cup E) \ {r}
      BY <3>1 DEF TiledBy, Disjoint
    <3>2. CASE s \in {left, right} /\ t \in {left, right}
      BY <3>2, <1>1 DEF End
    <3>3. CASE s \in (F \cup E) \ {r} /\ t \in {left, right}
      BY <3>3, <1>1, <1>2 DEF End
    <3>4. CASE s \in {left, right} /\ t \in (F \cup E) \ {r}
      BY <3>4, <1>1, <1>2 DEF End
    <3> QED BY <1>3, <3>1, <3>2, <3>3, <3>4
  <2> QED BY <2>2, <2>3 DEF Disjoint
<1>6. Covering(F1, E1, g)
  <2>1. ASSUME NEW s \in F1 \cup E1
        PROVE  g.base <= s.base /\ End(s) <= End(g)
    BY <1>1 DEF TiledBy, Covering, End
  <2>2. ASSUME NEW p \in g.base..(End(g) - 1)
        PROVE  \E s \in F1 \cup E1 : s.base <= p /\ p < End(s)
    <3>1. PICK s \in F \cup E : s.base <= p /\ p < End(s)
      BY DEF TiledBy, Covering
    <3>2. CASE s # r
      BY <3>1, <3>2
    <3>3. CASE s = r
      <4>1. p \in Int
        BY DEF End
      <4>2. CASE p < r.base + size
        BY <3>1, <3>3, <4>1, <4>2, <1>1 DEF End
      <4>3. CASE ~(p < r.base + size)
        BY <3>1, <3>3, <4>1, <4>3, <1>1 DEF End
      <4> QED BY <4>2, <4>3
    <3> QED BY <3>2, <3>3
  <2> QED BY <2>1, <2>2 DEF Covering
<1> QED BY <1>5, <1>6 DEF TiledBy

\* release(), before the neighbours are merged.
LEMMA GiveBack ==
  ASSUME NEW F \in SUBSET Ranges, NEW E \in SUBSET Ranges, NEW g,
         TiledBy(F, E, g), NEW r \in F
  PROVE  TiledBy(F \ {r}, E \cup {r}, g)
BY DEF TiledBy, Disjoint, Covering

Merged(s, t) == [base |-> s.base, size |-> s.size + t.size]

\* A tiling of ranges.
Tiling(F, E, g) ==
  /\ F \in SUBSET Ranges /\ E \in SUBSET Ranges
  /\ g \in [base: Nat, size: Nat] /\ TiledBy(F, E, g)

\* Two adjacent empty ranges may be replaced by one.
LEMMA MergeTwo ==
  ASSUME NEW F, NEW E, NEW g, Tiling(F, E, g),
         NEW s \in E, NEW t \in E, End(s) = t.base
  PROVE  /\ Merged(s, t) \in Ranges
         /\ Merged(s, t).base = s.base
         /\ End(Merged(s, t)) = End(t)
         /\ Tiling(F, (E \ {s, t}) \cup {Merged(s, t)}, g)
<1> DEFINE m  == Merged(s, t)
           E1 == (E \ {s, t}) \cup {m}
<1>1. /\ m \in Ranges /\ m.base = s.base /\ m.size = s.size + t.size
      /\ s \in Ranges /\ s.base \in Nat /\ s.size \in Nat /\ s.size > 0
      /\ t \in Ranges /\ t.base \in Nat /\ t.size \in Nat /\ t.size > 0
      /\ m.base \in Nat /\ m.size \in Nat
      /\ End(s) = s.base + s.size /\ End(t) = t.base + t.size
      /\ End(m) = m.base + m.size /\ s.base + s.size = t.base
  BY DEF Tiling, Merged, Ranges, End
<1>2. \A x \in (F \cup E) \ {s, t} :
        /\ x.base \in Nat /\ x.size \in Nat /\ x.size > 0 /\ End(x) = x.base + x.size
        /\ End(x) <= s.base \/ End(s) <= x.base
        /\ End(x) <= t.base \/ End(t) <= x.base
  BY DEF Tiling, TiledBy, Disjoint, Ranges, End
<1>3. \A x \in (F \cup E) \ {s, t} : End(x) <= m.base \/ End(m) <= x.base
  BY <1>1, <1>2 DEF End
<1>4. m \notin (F \cup E) \ {s, t}
  BY <1>1, <1>2, <1>3
<1>5. s \notin F /\ t \notin F
  BY DEF Tiling, TiledBy, Disjoint
<1>6. Disjoint(F, E1)
  <2>1. F \cap E1 = {}
    BY <1>4, <1>5 DEF Tiling, TiledBy, Disjoint
  <2>2. ASSUME NEW x \in F \cup E1, NEW y \in F \cup E1
        PROVE  x = y \/ End(x) <= y.base \/ End(y) <= x.base
    <3>1. CASE x = m \/ y = m
      BY <3>1, <1>3, <1>5
    <3>2. CASE x # m /\ y # m
      BY <3>2 DEF Tiling, TiledBy, Disjoint
    <3> QED BY <3>1, <3>2
  <2> QED BY <2>1, <2>2 DEF Disjoint
<1>7. Covering(F, E1, g)
  <2>1. ASSUME NEW x \in F \cup E1
        PROVE  g.base <= x.base /\ End(x) <= End(g)
    BY <1>1 DEF Tiling, TiledBy, Covering
  <2>2. ASSUME NEW p \in g.base..(End(g) - 1)
        PROVE  \E x \in F \cup E1 : x.base <= p /\ p < End(x)
    <3>1. PICK x \in F \cup E : x.base <= p /\ p < End(x)
      BY DEF Tiling, TiledBy, Covering
    <3>2. p \in Int
      BY DEF End
    <3>3. CASE x \in {s, t}
      BY <3>1, <3>2, <3>3, <1>1 DEF End
    <3>4. CASE x \notin {s, t}
      BY <3>1, <3>4, <1>5
    <3> QED BY <3>3, <3>4
  <2> QED BY <2>1, <2>2 DEF Covering
<1>8. End(m) = End(t)
  BY <1>1 DEF End
<1> QED BY <1>1, <1>4, <1>6, <1>7, <1>8 DEF Tiling, TiledBy

NewRange(g, n) == [base |-> End(g), size |-> n]

\* expand_by(), before the new range is merged with the last one.
LEMMA GrowRight ==
  ASSUME NEW F \in SUBSET Ranges, NEW E \in SUBSET Ranges,
         NEW g \in [base: Nat, size: Nat],
         TiledBy(F, E, g), NEW n \in Nat \ {0}
  PROVE  /\ NewRange(g, n) \in Ranges
         /\ NewRange(g, n) \notin F \cup E
         /\ NewRange(g, n).base = End(g)
         /\ Longer(g, n) \in [base: Nat, size: Nat]
         /\ TiledBy(F, E \cup {NewRange(g, n)}, Longer(g, n))
<1> DEFINE new == NewRange(g, n)
           h   == Longer(g, n)
           E1  == E \cup {new}
<1>1. /\ new \in Ranges /\ new.base = End(g) /\ new.size = n
      /\ End(g) = g.base + g.size /\ g.base \in Nat /\ g.size \in Nat
      /\ h \in [base: Nat, size: Nat] /\ h.base = g.base /\ h.size = g.size + n
      /\ End(h) = h.base + h.size /\ End(new) = new.base + new.size
  BY DEF NewRange, Longer, Ranges, End
<1>2. \A x \in F \cup E :
        /\ x.base \in Nat /\ x.size \in Nat /\ x.size > 0 /\ End(x) = x.base + x.size
        /\ g.base <= x.base /\ End(x) <= End(g)
  BY DEF TiledBy, Covering, Ranges, End
<1>3. new \notin F \cup E
  BY <1>1, <1>2
<1>4. Disjoint(F, E1)
  BY <1>1, <1>2, <1>3 DEF TiledBy, Disjoint
<1>5. Covering(F, E1, h)
  <2>1. ASSUME NEW x \in F \cup E1
        PROVE  h.base <= x.base /\ End(x) <= End(h)
    BY <1>1, <1>2
  <2>2. ASSUME NEW p \in h.base..(End(h) - 1)
        PROVE  \E x \in F \cup E1 : x.base <= p /\ p < End(x)
    <3>1. CASE p < End(g)
      <4>1. p \in g.base..(End(g) - 1)
        BY <3>1, <1>1
      <4> QED BY <4>1 DEF TiledBy, Covering
    <3>2. CASE ~(p < End(g))
      BY <3>2, <1>1
    <3> QED BY <3>1, <3>2
  <2> QED BY <2>1, <2>2 DEF Covering
<1> QED BY <1>1, <1>3, <1>4, <1>5 DEF TiledBy

-----------------------------------------------------------------------------
(* SkeletonStorage: lands *)

LandOK(L) ==
  /\ L \in Lands
  /\ TiledBy(L.full_by_base, L.empty_by_base, L.range)
  /\ EmptySetsAgree(L)

\* A lookup by base is a lookup by value where a base belongs to one range.
LEMMA EraseByBase ==
  ASSUME NEW S, NEW r, \A s \in S : s.base = r.base => s = r
  PROVE  Erase(S, r) = S \ {r}
BY DEF Erase

LEMMA InsertByBase ==
  ASSUME NEW S, NEW r, \A s \in S : s.base # r.base
  PROVE  Insert(S, r) = S \cup {r}
BY DEF Insert

LEMMA EraseInsertType ==
  ASSUME NEW S \in SUBSET Ranges, NEW r
  PROVE  /\ Erase(S, r) \in SUBSET Ranges
         /\ r \in Ranges => Insert(S, r) \in SUBSET Ranges
BY DEF Erase, Insert

\* try_occupy() keeps the land in order and adds one range to the occupied ones.
LEMMA OccupiedOK ==
  ASSUME NEW L, LandOK(L), NEW size \in Nat \ {0},
         NEW r \in L.empty_by_size, r.size >= size
  PROVE  /\ LandOK(Occupied(L, r, size))
         /\ LeftPart(r, size) \in Ranges
         /\ LeftPart(r, size) \notin L.full_by_base
         /\ Occupied(L, r, size).full_by_base = L.full_by_base \cup {LeftPart(r, size)}
         /\ Occupied(L, r, size).range = L.range
<1> DEFINE F  == L.full_by_base
           E  == L.empty_by_base
           g  == L.range
           M  == Occupied(L, r, size)
           left  == LeftPart(r, size)
           right == RightPart(r, size)
           X == Insert(F, left)
           Y == IF right.size > 0 THEN (E \ {r}) \cup {right} ELSE E \ {r}
           Z == IF right.size > 0 THEN Insert(Erase(E, r), right) ELSE Erase(E, r)
<1>1. /\ F \in SUBSET Ranges /\ E \in SUBSET Ranges /\ g \in [base: Nat, size: Nat]
      /\ TiledBy(F, E, g) /\ L.empty_by_size = E /\ r \in E
      /\ L \in Lands
  BY DEF LandOK, EmptySetsAgree, Lands
<1>2. /\ r \in Ranges /\ r.base \in Nat /\ r.size \in Nat
      /\ left \in Ranges /\ left.base = r.base /\ left.size = size
      /\ right.base = r.base + size /\ right.size = r.size - size
  BY <1>1 DEF LeftPart, RightPart, Ranges
<1>3. /\ M \in Lands
      /\ M.range = g
      /\ M.full_by_base = X
      /\ M.empty_by_size = Y
      /\ M.empty_by_base = Z
  <2>1. right.size > 0 => right \in Ranges
    BY <1>2 DEF RightPart, Ranges
  <2>2. X \in SUBSET Ranges /\ Y \in SUBSET Ranges /\ Z \in SUBSET Ranges
    BY <1>1, <1>2, <2>1, EraseInsertType
  <2>3. L.empty_size - size \in Int /\ L.occupied_size + size \in Int
    BY <1>1 DEF Lands
  <2>4. M = [L EXCEPT !.full_by_base = X, !.empty_by_size = Y,
                      !.empty_by_base = Z, !.empty_size = L.empty_size - size,
                      !.occupied_size = L.occupied_size + size]
    BY <1>1 DEF Occupied, InsertBySize, EraseBySize
  <2> HIDE DEF M, X, Y, Z
  <2> QED BY <1>1, <2>2, <2>3, <2>4 DEF Lands
<1>4. Erase(E, r) = E \ {r} /\ r \notin F
  <2>1. \A s \in E : s.base = r.base => s = r
    BY <1>1, UniqueBase DEF TiledBy
  <2> QED BY <1>1, <2>1, EraseByBase DEF TiledBy, Disjoint
<1>5. \A s \in F : s.base # r.base
  BY <1>1, <1>4, UniqueBase DEF TiledBy
<1>6. Insert(F, left) = F \cup {left} /\ left \notin F
  BY <1>2, <1>5, InsertByBase
<1>7. CASE size = r.size
  <2>1. left = r
    BY <1>2, <1>7 DEF LeftPart, Ranges
  <2>2. M.empty_by_base = E \ {r} /\ M.empty_by_size = E \ {r}
    BY <1>2, <1>3, <1>4, <1>7
  <2>3. TiledBy(F \cup {r}, E \ {r}, g)
    BY <1>1, TakeWhole
  <2> QED BY <1>2, <1>3, <1>6, <2>1, <2>2, <2>3 DEF LandOK, EmptySetsAgree
<1>8. CASE size < r.size
  <2>1. TiledBy(F \cup {left}, (E \ {r}) \cup {right}, g)
    BY <1>1, <1>8, TakeLeft
  <2>2. right \in Ranges /\ right.size > 0
    BY <1>2, <1>8 DEF RightPart, Ranges
  <2>3. Insert(E \ {r}, right) = (E \ {r}) \cup {right}
    <3>1. \A s \in E \ {r} : /\ s.base \in Nat /\ s.size \in Nat /\ s.size > 0
                             /\ End(s) <= r.base \/ End(r) <= s.base
      BY <1>1 DEF TiledBy, Disjoint, Ranges
    <3>2. \A s \in E \ {r} : s.base # right.base
      BY <1>2, <1>8, <3>1 DEF End
    <3> QED BY <3>2, InsertByBase
  <2>4. M.empty_by_base = (E \ {r}) \cup {right} /\ M.empty_by_size = (E \ {r}) \cup {right}
    BY <1>3, <1>4, <2>2, <2>3
  <2> QED BY <1>2, <1>3, <1>6, <2>1, <2>4 DEF LandOK, EmptySetsAgree
<1> QED BY <1>2, <1>7, <1>8

\* expand_by() keeps the land in order and its occupied ranges as they are.
LEMMA ExpandedOK ==
  ASSUME NEW L, LandOK(L), NEW n \in Nat \ {0}
  PROVE  /\ LandOK(ExpandedBy(L, n))
         /\ ExpandedBy(L, n).full_by_base = L.full_by_base
         /\ ExpandedBy(L, n).range = Longer(L.range, n)
         /\ \E s \in ExpandedBy(L, n).empty_by_size : s.size >= n
<1> DEFINE F  == L.full_by_base
           E  == L.empty_by_base
           g  == L.range
           M  == ExpandedBy(L, n)
           last == CHOOSE r \in Rightmost(L) : TRUE
           joined == Rightmost(L) # {}
           new == IF joined THEN [base |-> last.base, size |-> last.size + n]
                  ELSE [base |-> End(g), size |-> n]
           E1  == IF joined THEN Erase(E, last) ELSE E
           Y == InsertBySize(IF joined THEN EraseBySize(E, last) ELSE E, new)
           Z == Insert(E1, new)
           h == Longer(g, n)
<1>1. /\ F \in SUBSET Ranges /\ E \in SUBSET Ranges /\ g \in [base: Nat, size: Nat]
      /\ TiledBy(F, E, g) /\ L.empty_by_size = E
      /\ L \in Lands
  BY DEF LandOK, EmptySetsAgree, Lands
<1>2. /\ NewRange(g, n) \in Ranges
      /\ NewRange(g, n) \notin F \cup E
      /\ NewRange(g, n).base = End(g)
      /\ h \in [base: Nat, size: Nat]
      /\ TiledBy(F, E \cup {NewRange(g, n)}, h)
  BY <1>1, GrowRight
<1>3. /\ new \in Ranges
      /\ Y = Z
      /\ TiledBy(F, Z, h)
      /\ Z \in SUBSET Ranges
  <2>1. CASE ~joined
    <3>1. new = NewRange(g, n) /\ E1 = E
      BY <2>1 DEF NewRange
    <3>2. \A s \in E : s.base \in Nat /\ s.size > 0 /\ s.size \in Nat /\ End(s) <= End(g)
      BY <1>1 DEF TiledBy, Covering, Ranges
    <3>3. \A s \in E : s.base # new.base
      BY <1>1, <1>2, <3>1, <3>2 DEF End
    <3>4. Insert(E1, new) = E \cup {new}
      BY <3>1, <3>3, InsertByBase
    <3>5. Y = E \cup {new}
      BY <2>1 DEF InsertBySize
    <3> QED BY <1>1, <1>2, <3>1, <3>4, <3>5
  <2>2. CASE joined
    <3>1. last \in E /\ End(last) = End(g)
      BY <2>2 DEF Rightmost
    <3>2. new = Merged(last, NewRange(g, n))
      BY <2>2 DEF Merged, NewRange
    <3> DEFINE E2 == E \cup {NewRange(g, n)}
    <3>3. E2 \in SUBSET Ranges /\ last \in E2 /\ NewRange(g, n) \in E2
      BY <1>1, <1>2, <3>1
    <3>4. /\ new \in Ranges /\ new.base = last.base
          /\ TiledBy(F, (E2 \ {last, NewRange(g, n)}) \cup {new}, h)
      <4> DEFINE w == NewRange(g, n)
      <4>1. /\ Tiling(F, E2, h)
            /\ last \in E2 /\ w \in E2 /\ End(last) = w.base
        BY <1>1, <1>2, <3>1, <3>3 DEF Tiling
      <4>2. /\ Merged(last, w) \in Ranges /\ Merged(last, w).base = last.base
            /\ Tiling(F, (E2 \ {last, w}) \cup {Merged(last, w)}, h)
        <5> HIDE DEF E2, last, F, h, w
        <5> QED BY <4>1, MergeTwo
      <4> QED BY <3>2, <4>2 DEF Tiling
    <3>5. (E2 \ {last, NewRange(g, n)}) \cup {new} = (E \ {last}) \cup {new}
      BY <1>2
    <3>6. ASSUME NEW s \in E, s.base = last.base PROVE s = last
      <4>1. /\ F \in SUBSET Ranges /\ E \in SUBSET Ranges /\ Disjoint(F, E)
            /\ last \in F \cup E /\ s \in F \cup E
        BY <1>1, <3>1, <3>6 DEF TiledBy
      <4> HIDE DEF F, E, last
      <4> QED BY <3>6, <4>1, UniqueBase
    <3>7. E1 = E \ {last}
      BY <2>2, <3>6, EraseByBase
    <3>8. \A s \in E1 : s.base # new.base
      BY <3>4, <3>6, <3>7
    <3>9. Z = (E \ {last}) \cup {new}
      BY <3>7, <3>8, InsertByBase
    <3>10. Y = (E \ {last}) \cup {new}
      BY <2>2 DEF InsertBySize, EraseBySize
    <3> QED BY <1>1, <3>4, <3>5, <3>9, <3>10
  <2> QED BY <2>1, <2>2
<1>4. M \in Lands /\ M.full_by_base = F /\ M.range = h
      /\ M.empty_by_size = Y /\ M.empty_by_base = Z
  <2>1. M = [L EXCEPT !.empty_by_size = Y, !.empty_by_base = Z,
                      !.empty_size = L.empty_size + n, !.range = h]
    BY <1>1 DEF ExpandedBy, Longer
  <2>2. L.empty_size + n \in Int
    BY <1>1 DEF Lands
  <2>3. Y \in SUBSET Ranges
    BY <1>3
  <2> HIDE DEF M, Y, Z, h
  <2> QED BY <1>1, <1>2, <1>3, <2>1, <2>2, <2>3 DEF Lands
<1>5. new \in Y /\ new.size >= n
  <2>1. new \in Y
    BY DEF InsertBySize
  <2>2. joined => last.size \in Nat
    BY <1>1 DEF Rightmost, Ranges
  <2> QED BY <2>1, <2>2
<1> QED BY <1>3, <1>4, <1>5 DEF LandOK, EmptySetsAgree

\* release() keeps the land in order and takes one range from the occupied ones.
LEMMA UnoccupiedOK ==
  ASSUME NEW L, LandOK(L), NEW r \in L.full_by_base
  PROVE  /\ LandOK(Unoccupied(L, r))
         /\ Unoccupied(L, r).full_by_base = L.full_by_base \ {r}
         /\ Unoccupied(L, r).range = L.range
<1> DEFINE F  == L.full_by_base
           E  == L.empty_by_base
           g  == L.range
           M  == Unoccupied(L, r)
           LS == LeftOf(L, r)
           RS == RightOf(L, r)
           left  == CHOOSE s \in LS : TRUE
           right == CHOOSE s \in RS : TRUE
           gone  == LS \cup RS
           merged == [base |-> IF LS # {} THEN left.base ELSE r.base,
                      size |-> (IF LS # {} THEN left.size ELSE 0) + r.size
                               + (IF RS # {} THEN right.size ELSE 0)]
           X == Erase(F, r)
           Y == InsertBySize(E \ gone, merged)
           Z == Insert(E \ gone, merged)
           F1 == F \ {r}
           E1 == E \cup {r}
<1>1. /\ F \in SUBSET Ranges /\ E \in SUBSET Ranges /\ g \in [base: Nat, size: Nat]
      /\ TiledBy(F, E, g) /\ L.empty_by_size = E
      /\ L \in Lands
      /\ r \in Ranges /\ r.base \in Nat /\ r.size \in Nat /\ r.size > 0
  BY DEF LandOK, EmptySetsAgree, Lands, Ranges
<1>10. \A s, t \in F \cup E : s.base = t.base => s = t
  <2>1. SUFFICES ASSUME NEW s \in F \cup E, NEW t \in F \cup E, s.base = t.base
                 PROVE  s = t
    OBVIOUS
  <2>2. Disjoint(F, E)
    BY <1>1 DEF TiledBy
  <2> HIDE DEF F, E, g
  <2> QED BY <1>1, <2>1, <2>2, UniqueBase
<1>2. X = F \ {r} /\ r \notin E
  <2>1. \A s \in F : s.base = r.base => s = r
    BY <1>10
  <2> QED BY <1>1, <2>1, EraseByBase DEF TiledBy, Disjoint
<1>3. /\ F1 \in SUBSET Ranges /\ E1 \in SUBSET Ranges
      /\ TiledBy(F1, E1, g) /\ r \in E1
  BY <1>1, GiveBack
<1>4. \A s \in E : /\ s.base \in Nat /\ s.size \in Nat /\ s.size > 0
                   /\ s.base # r.base /\ End(s) = s.base + s.size
  <2>1. \A s \in E : s.base = r.base => s = r
    BY <1>10
  <2>2. \A s \in E : /\ s.base \in Nat /\ s.size \in Nat /\ s.size > 0
                     /\ End(s) = s.base + s.size
    BY <1>1 DEF Ranges, End
  <2> QED BY <1>2, <2>1, <2>2
<1>5. LS # {} => LS = {left} /\ left \in E /\ End(left) = r.base
  <2>1. SUFFICES ASSUME LS # {} PROVE LS = {left} /\ left \in E /\ End(left) = r.base
    OBVIOUS
  <2>2. left \in LS
    BY <2>1
  <2>3. ASSUME NEW s \in LS PROVE s = left
    <3>1. s \in E /\ left \in E /\ End(s) = End(left)
      BY <2>2, <2>3 DEF LeftOf
    <3>2. s = left \/ End(s) <= left.base \/ End(left) <= s.base
      BY <1>1, <3>1 DEF TiledBy, Disjoint
    <3> QED BY <1>4, <3>1, <3>2
  <2> QED BY <2>2, <2>3 DEF LeftOf
<1>6. RS # {} => RS = {right} /\ right \in E /\ right.base = End(r)
  <2>1. SUFFICES ASSUME RS # {} PROVE RS = {right} /\ right \in E /\ right.base = End(r)
    OBVIOUS
  <2>2. right \in RS
    BY <2>1
  <2>3. ASSUME NEW s \in RS PROVE s = right
    BY <1>10, <2>2 DEF RightOf
  <2> QED BY <2>2, <2>3 DEF RightOf
<1>7. /\ merged \in Ranges
      /\ TiledBy(F1, (E \ gone) \cup {merged}, g)
      /\ \A s \in E \ gone : s.base # merged.base
  <2>1. CASE LS = {} /\ RS = {}
    <3>1. merged = r /\ gone = {}
      BY <1>1, <2>1 DEF Ranges
    <3> QED BY <1>1, <1>3, <1>4, <3>1
  <2>2. CASE LS # {} /\ RS = {}
    <3>1. gone = {left} /\ left \in E /\ End(left) = r.base
      BY <1>5, <2>2
    <3>2. merged = Merged(left, r)
      BY <1>1, <1>4, <2>2, <3>1 DEF Merged
    <3>3. /\ Merged(left, r) \in Ranges
          /\ Merged(left, r).base = left.base
          /\ Tiling(F1, (E1 \ {left, r}) \cup {Merged(left, r)}, g)
      <4>1. /\ Tiling(F1, E1, g)
            /\ left \in E1 /\ r \in E1 /\ End(left) = r.base
        BY <1>1, <1>3, <3>1 DEF Tiling
      <4> HIDE DEF left, F1, E1, g
      <4> QED BY <4>1, MergeTwo
    <3>4. E1 \ {left, r} = E \ gone
      BY <1>2, <3>1
    <3>5. \A s \in E \ gone : s.base # left.base
      BY <1>10, <3>1
    <3> QED BY <3>2, <3>3, <3>4, <3>5 DEF Tiling
  <2>3. CASE LS = {} /\ RS # {}
    <3>1. gone = {right} /\ right \in E /\ End(r) = right.base
      BY <1>6, <2>3
    <3>2. merged = Merged(r, right)
      BY <1>1, <1>4, <2>3, <3>1 DEF Merged
    <3>3. /\ Merged(r, right) \in Ranges
          /\ Merged(r, right).base = r.base
          /\ Tiling(F1, (E1 \ {r, right}) \cup {Merged(r, right)}, g)
      <4>1. /\ Tiling(F1, E1, g)
            /\ r \in E1 /\ right \in E1 /\ End(r) = right.base
        BY <1>1, <1>3, <3>1 DEF Tiling
      <4> HIDE DEF right, F1, E1, g
      <4> QED BY <4>1, MergeTwo
    <3>4. E1 \ {r, right} = E \ gone
      BY <1>2, <3>1
    <3> QED BY <1>4, <3>2, <3>3, <3>4 DEF Tiling
  <2>4. CASE LS # {} /\ RS # {}
    <3>1. /\ gone = {left, right} /\ left \in E /\ right \in E
          /\ End(left) = r.base /\ End(r) = right.base
      BY <1>5, <1>6, <2>4
    <3> DEFINE m == Merged(left, r)
               E2 == (E1 \ {left, r}) \cup {m}
    <3>2. /\ m \in Ranges /\ m.base = left.base /\ End(m) = End(r)
          /\ Tiling(F1, E2, g)
      <4>1. /\ Tiling(F1, E1, g)
            /\ left \in E1 /\ r \in E1 /\ End(left) = r.base
        BY <1>1, <1>3, <3>1 DEF Tiling
      <4> HIDE DEF left, F1, E1, g
      <4> QED BY <4>1, MergeTwo
    <3>3. left # right
      <4>1. left.base + left.size = r.base /\ right.base = r.base + r.size
        BY <3>1 DEF End
      <4>2. left.base \in Nat /\ left.size \in Nat /\ left.size > 0
        BY <1>4, <3>1
      <4> HIDE DEF left, right
      <4> QED BY <1>1, <4>1, <4>2
    <3>4. right \in E2 /\ m \in E2 /\ E2 \in SUBSET Ranges /\ End(m) = right.base
      BY <1>1, <1>2, <1>3, <3>1, <3>2, <3>3
    <3>5. /\ Merged(m, right) \in Ranges
          /\ Merged(m, right).base = m.base
          /\ Tiling(F1, (E2 \ {m, right}) \cup {Merged(m, right)}, g)
      <4>1. /\ Tiling(F1, E2, g)
            /\ m \in E2 /\ right \in E2 /\ End(m) = right.base
        BY <1>1, <1>3, <3>2, <3>4 DEF Tiling
      <4> HIDE DEF right, F1, E2, g, m
      <4> QED BY <4>1, MergeTwo
    <3>6. merged = Merged(m, right)
      BY <1>1, <1>4, <2>4, <3>1 DEF Merged
    <3>7. \A s \in E \ gone : s.base # left.base
      BY <1>10, <3>1
    <3>8. E2 \ {m, right} = E \ gone
      BY <1>2, <3>1, <3>2, <3>7
    <3> QED BY <3>2, <3>5, <3>6, <3>7, <3>8 DEF Tiling
  <2> QED BY <2>1, <2>2, <2>3, <2>4
<1>8. Z = (E \ gone) \cup {merged} /\ Y = (E \ gone) \cup {merged}
  <2> HIDE DEF gone, merged
  <2> QED BY <1>7, InsertByBase DEF InsertBySize
<1>9. M \in Lands /\ M.full_by_base = X /\ M.range = g
      /\ M.empty_by_size = Y /\ M.empty_by_base = Z
  <2>1. M = [L EXCEPT !.full_by_base = X, !.empty_by_base = Z, !.empty_by_size = Y,
                      !.empty_size = L.empty_size + r.size,
                      !.occupied_size = L.occupied_size - r.size]
    BY <1>1 DEF Unoccupied
  <2>2. L.empty_size + r.size \in Int /\ L.occupied_size - r.size \in Int
    BY <1>1 DEF Lands
  <2>3. X \in SUBSET Ranges /\ Y \in SUBSET Ranges /\ Z \in SUBSET Ranges
    BY <1>1, <1>2, <1>7, <1>8
  <2> HIDE DEF M, X, Y, Z
  <2> QED BY <1>1, <2>1, <2>2, <2>3 DEF Lands
<1> QED BY <1>2, <1>7, <1>8, <1>9 DEF LandOK, EmptySetsAgree

\* The land occupy_amortized() takes its range from has one that fits.
LEMMA AmortizedOK ==
  ASSUME NEW L, LandOK(L), NEW size \in Nat \ {0}
  PROVE  LET M == Amortized(L, size, Numer, Denom) IN
         /\ LandOK(M)
         /\ M.full_by_base = L.full_by_base
         /\ M.range.base = L.range.base
         /\ Capacity(M) \in Nat /\ Capacity(L) \in Nat /\ Capacity(M) >= Capacity(L)
         /\ Fits(M, size) # {}
<1> DEFINE n == AmortizedSize(Capacity(L) + size, Capacity(L), Numer, Denom) - Capacity(L)
<1>1. Capacity(L) \in Nat
  BY DEF LandOK, Lands, Capacity
<1>2. CASE Fits(L, size) # {}
  BY <1>1, <1>2 DEF Amortized
<1>3. CASE Fits(L, size) = {}
  <2>1. n \in Nat \ {0} /\ n >= size
    BY <1>1 DEF AmortizedSize, Numer, Denom
  <2>2. Amortized(L, size, Numer, Denom) = ExpandedBy(L, n)
    BY <1>3 DEF Amortized, Grown
  <2> HIDE DEF n
  <2>3. /\ LandOK(ExpandedBy(L, n))
        /\ ExpandedBy(L, n).full_by_base = L.full_by_base
        /\ ExpandedBy(L, n).range = Longer(L.range, n)
        /\ \E s \in ExpandedBy(L, n).empty_by_size : s.size >= n
    BY <2>1, ExpandedOK
  <2>4. Fits(ExpandedBy(L, n), size) # {}
    <3>1. PICK s \in ExpandedBy(L, n).empty_by_size : s.size >= n
      BY <2>3
    <3>2. s.size \in Nat
      BY <2>3 DEF LandOK, Lands, Ranges
    <3> QED BY <2>1, <3>1, <3>2 DEF Fits
  <2> QED BY <1>1, <2>1, <2>2, <2>3, <2>4 DEF Longer, Capacity
<1> QED BY <1>2, <1>3

-----------------------------------------------------------------------------
(* SkeletonStorage: the counters *)

\* The occupied positions are counted; what is not occupied is empty.
Counted(L) == /\ L.occupied_size = Total(L.full_by_base)
              /\ L.occupied_size + L.empty_size = L.range.size

Covered(R) == UNION {Positions(r) : r \in R}

LEMMA RangePositions ==
  ASSUME NEW r \in [base: Nat, size: Nat]
  PROVE  IsFiniteSet(Positions(r)) /\ Cardinality(Positions(r)) = r.size
<1>1. r.base \in Nat /\ r.size \in Nat
  OBVIOUS
<1>2. PICK a, n : a = r.base /\ n = r.size
  OBVIOUS
<1>3. a \in Int /\ a + n - 1 \in Int /\ (IF a > a + n - 1 THEN 0 ELSE a + n - 1 - a + 1) = n
  BY <1>1, <1>2
<1>4. Positions(r) = a..(a + n - 1)
  BY <1>2 DEF Positions, End
<1>5. QED
  BY <1>2, <1>3, <1>4, FS_Interval

\* In a tiling the positions of the land are divided among the two kinds.
LEMMA TilingCovers ==
  ASSUME NEW F, NEW E, NEW g, Tiling(F, E, g)
  PROVE  Covered(F) \cup Covered(E) = Positions(g) /\ Covered(F) \cap Covered(E) = {}
<1>1. \A r \in F \cup E : /\ r.base \in Nat /\ r.size \in Nat /\ r.size > 0
                          /\ g.base <= r.base /\ r.base + r.size <= g.base + g.size
  BY DEF Tiling, TiledBy, Covering, Ranges, End
<1>2. g.base \in Nat /\ g.size \in Nat
  BY DEF Tiling
<1>3. ASSUME NEW R \in {F, E}, NEW x \in Covered(R) PROVE x \in Positions(g)
  <2>1. PICK r \in R : x \in Positions(r)
    BY DEF Covered
  <2>2. QED
    BY <1>1, <1>2, <2>1 DEF Positions, End
<1>4. ASSUME NEW x \in Positions(g) PROVE x \in Covered(F) \cup Covered(E)
  <2>1. PICK r \in F \cup E : r.base <= x /\ x < End(r)
    BY DEF Tiling, TiledBy, Covering, Positions
  <2>2. x \in Int
    BY <1>2 DEF Positions, End
  <2>3. x \in Positions(r)
    BY <1>1, <2>1, <2>2 DEF Positions, End
  <2>4. QED
    BY <2>3 DEF Covered
<1>5. ASSUME NEW x \in Covered(F), NEW y \in Covered(E) PROVE x # y
  <2>1. PICK r \in F : x \in Positions(r)
    BY DEF Covered
  <2>2. PICK s \in E : y \in Positions(s)
    BY DEF Covered
  <2>3. End(r) <= s.base \/ End(s) <= r.base
    BY DEF Tiling, TiledBy, Disjoint
  <2>4. QED
    BY <1>1, <2>1, <2>2, <2>3 DEF Positions, End
<1>6. QED
  BY <1>3, <1>4, <1>5

LEMMA TilingCounts ==
  ASSUME NEW F, NEW E, NEW g, Tiling(F, E, g)
  PROVE  /\ IsFiniteSet(Covered(F)) /\ Total(F) \in Nat
         /\ Total(E) = g.size - Total(F)
<1>1. IsFiniteSet(Positions(g)) /\ Cardinality(Positions(g)) = g.size
  BY RangePositions DEF Tiling
<1>2. IsFiniteSet(Covered(F)) /\ IsFiniteSet(Covered(E))
  BY <1>1, TilingCovers, FS_Subset
<1>3. Cardinality(Covered(F)) \in Nat /\ Cardinality(Covered(E)) \in Nat
  BY <1>2, FS_CardinalityType
<1>4. Cardinality(Covered(F) \cap Covered(E)) = 0
  BY TilingCovers, FS_EmptySet
<1>5. g.size = Cardinality(Covered(F)) + Cardinality(Covered(E)) - 0
  BY <1>1, <1>2, <1>4, TilingCovers, FS_Union
<1>6. Total(F) = Cardinality(Covered(F)) /\ Total(E) = Cardinality(Covered(E))
  BY DEF Total, Covered
<1>7. g.size \in Nat
  BY DEF Tiling
<1>8. QED
  BY <1>2, <1>3, <1>5, <1>6, <1>7

\* A range more, and its positions more.
LEMMA OneMore ==
  ASSUME NEW F, NEW E, NEW g, Tiling(F, E, g), NEW r \in F
  PROVE  Total(F) = Total(F \ {r}) + r.size
<1>1. Tiling(F \ {r}, E \cup {r}, g)
  BY GiveBack DEF Tiling
<1>2. r \in [base: Nat, size: Nat] /\ r.size \in Nat
  BY DEF Tiling, Ranges
<1>3. Covered(F) = Covered(F \ {r}) \cup Positions(r)
  BY DEF Covered
<1>4. Covered(F \ {r}) \cap Positions(r) = {}
  <2>1. Positions(r) \subseteq Covered(E \cup {r})
    BY DEF Covered
  <2>2. QED
    BY <1>1, <2>1, TilingCovers
<1>5. IsFiniteSet(Covered(F \ {r})) /\ Total(F \ {r}) \in Nat
  BY <1>1, TilingCounts
<1>6. IsFiniteSet(Positions(r)) /\ Cardinality(Positions(r)) = r.size
  BY <1>2, RangePositions
<1>7. Cardinality(Covered(F \ {r}) \cap Positions(r)) = 0
  BY <1>4, FS_EmptySet
<1>8. Cardinality(Covered(F)) = Cardinality(Covered(F \ {r})) + r.size - 0
  BY <1>3, <1>5, <1>6, <1>7, FS_Union
<1>9. QED
  BY <1>2, <1>5, <1>8 DEF Total, Covered

LEMMA LandTiling ==
  ASSUME NEW L, LandOK(L)
  PROVE  /\ Tiling(L.full_by_base, L.empty_by_base, L.range)
         /\ L.occupied_size \in Int /\ L.empty_size \in Int /\ L.range.size \in Nat
BY DEF LandOK, Lands, Tiling

\* Every operation of the land keeps the counters.
LEMMA OccupiedCounts ==
  ASSUME NEW L, LandOK(L), Counted(L), NEW size \in Nat \ {0},
         NEW r \in L.empty_by_size, r.size >= size
  PROVE  Counted(Occupied(L, r, size))
<1> DEFINE M == Occupied(L, r, size)
           t == LeftPart(r, size)
<1>1. /\ LandOK(M) /\ M.full_by_base = L.full_by_base \cup {t} /\ t \notin L.full_by_base
      /\ M.range = L.range
  BY OccupiedOK
<1>2. M.occupied_size = L.occupied_size + size /\ M.empty_size = L.empty_size - size
  BY DEF Occupied, LandOK, Lands
<1>3. t.size = size
  BY DEF LeftPart
<1> HIDE DEF M, t
<1>4. t \in M.full_by_base /\ M.full_by_base \ {t} = L.full_by_base
  BY <1>1
<1>5. Total(M.full_by_base) = Total(L.full_by_base) + size
  BY <1>1, <1>3, <1>4, LandTiling, OneMore
<1>6. L.occupied_size \in Int /\ L.empty_size \in Int
  BY LandTiling
<1>7. M.occupied_size = Total(M.full_by_base)
  BY <1>2, <1>5 DEF Counted
<1>8. (L.occupied_size + size) + (L.empty_size - size) = L.occupied_size + L.empty_size
  BY ONLY <1>6, size \in Nat \ {0}
<1>9. M.occupied_size + M.empty_size = M.range.size
  BY <1>1, <1>2, <1>8 DEF Counted
<1>10. Counted(M)
  BY <1>7, <1>9 DEF Counted
<1>11. QED
  BY <1>10 DEF M

LEMMA AmortizedCounts ==
  ASSUME NEW L, LandOK(L), Counted(L), NEW size \in Nat \ {0}
  PROVE  Counted(Amortized(L, size, Numer, Denom))
<1> DEFINE n == AmortizedSize(Capacity(L) + size, Capacity(L), Numer, Denom) - Capacity(L)
           M == ExpandedBy(L, n)
<1>1. CASE Fits(L, size) # {}
  BY <1>1 DEF Amortized
<1>2. CASE Fits(L, size) = {}
  <2>1. n \in Nat \ {0}
    <3>1. Capacity(L) \in Nat
      BY DEF LandOK, Lands, Capacity
    <3>2. QED
      BY <3>1 DEF AmortizedSize, Numer, Denom
  <2>2. Amortized(L, size, Numer, Denom) = M
    BY <1>2 DEF Amortized, Grown
  <2> HIDE DEF n
  <2>3. M.full_by_base = L.full_by_base /\ M.range = Longer(L.range, n)
    BY <2>1, ExpandedOK
  <2>4. M.occupied_size = L.occupied_size /\ M.empty_size = L.empty_size + n
    BY DEF ExpandedBy, LandOK, Lands
  <2>5. M.range.size = L.range.size + n
    BY <2>3 DEF Longer
  <2> HIDE DEF M
  <2>6. QED
    BY <2>1, <2>2, <2>3, <2>4, <2>5, LandTiling DEF Counted
<1>3. QED
  BY <1>1, <1>2

LEMMA UnoccupiedCounts ==
  ASSUME NEW L, LandOK(L), Counted(L), NEW r \in L.full_by_base
  PROVE  Counted(Unoccupied(L, r))
<1> DEFINE M == Unoccupied(L, r)
<1>1. LandOK(M) /\ M.full_by_base = L.full_by_base \ {r} /\ M.range = L.range
  BY UnoccupiedOK
<1>2. M.occupied_size = L.occupied_size - r.size /\ M.empty_size = L.empty_size + r.size
  BY DEF Unoccupied, LandOK, Lands
<1> HIDE DEF M
<1>3. Total(L.full_by_base) = Total(M.full_by_base) + r.size
  BY <1>1, LandTiling, OneMore
<1>4. r.size \in Nat /\ Total(M.full_by_base) \in Nat
  BY <1>1, LandTiling, TilingCounts DEF LandOK, Lands, Ranges
<1>5. L.occupied_size \in Int /\ L.empty_size \in Int
  BY LandTiling
<1>6. M.occupied_size = Total(M.full_by_base)
  <2>1. L.occupied_size = Total(M.full_by_base) + r.size
    BY <1>3 DEF Counted
  <2>2. QED
    BY ONLY <1>2, <1>4, <1>5, <2>1
<1>7. M.occupied_size + M.empty_size = L.occupied_size + L.empty_size
  BY ONLY <1>2, <1>4, <1>5
<1>8. Counted(M)
  BY <1>1, <1>6, <1>7 DEF Counted
<1>9. QED
  BY <1>8 DEF M

-----------------------------------------------------------------------------
(* SkeletonStorage: the storage *)

VectorOK == joints \in [1..Capacity(land) -> Joints \cup {NoJoint}]

IdsOK ==
  /\ last_id \in 0..MaxInserts
  /\ \A id \in DOMAIN table : id \in 0..(last_id - 1)

IInv == /\ LandOK(land) /\ land.range.base = 0
        /\ VectorOK /\ IdsOK /\ TableMatchesLand

LEMMA InitIInv == Init => IInv
<1> SUFFICES ASSUME Init PROVE IInv
  OBVIOUS
<1>1. land = [range |-> NoRange, occupied_size |-> 0, empty_size |-> 0,
              full_by_base |-> {}, empty_by_size |-> {}, empty_by_base |-> {}]
  BY DEF Init, NewLand, NoRange
<1>2. LandOK(land) /\ land.range.base = 0
  BY <1>1 DEF LandOK, Lands, NoRange, TiledBy, Disjoint, Covering, EmptySetsAgree, End
<1>3. VectorOK
  BY <1>1 DEF Init, VectorOK, Capacity, NoRange
<1>4. DOMAIN table = {}
  BY DEF Init
<1>5. IdsOK /\ TableMatchesLand
  BY <1>1, <1>4, StorageAssumption DEF Init, IdsOK, TableMatchesLand
<1> QED BY <1>2, <1>3, <1>5 DEF IInv

\* What InsertSkeleton() is made of.
LEMMA InsertStep ==
  ASSUME IInv, NEW s \in Skeletons, InsertSkeleton(s)
  PROVE  \E range \in Ranges :
           /\ LandOK(land')
           /\ range \notin land.full_by_base
           /\ land'.full_by_base = land.full_by_base \cup {range}
           /\ range.size = Len(s)
           /\ joints' \in [1..Capacity(land') -> Joints \cup {NoJoint}]
           /\ Capacity(land) \in Nat /\ Capacity(land') \in Nat
           /\ Capacity(land') >= Capacity(land)
           /\ land'.range.base = land.range.base
           /\ \A k \in 1..Capacity(land) :
                ~(range.base < k /\ k <= End(range)) => joints'[k] = joints[k]
           /\ \A k \in 1..Capacity(land') :
                range.base < k /\ k <= End(range) => joints'[k] = s[k - range.base]
           /\ table' = [id \in DOMAIN table \cup {last_id} |->
                          IF id = last_id THEN range ELSE table[id]]
<1> DEFINE M == Amortized(land, Len(s), Numer, Denom)
           v == IF M = land THEN joints ELSE Resized(joints, Capacity(M))
<1> DEFINE J == Joints \cup {NoJoint}
<1>1. /\ LandOK(land) /\ VectorOK
      /\ Len(s) \in Nat \ {0} /\ s \in [1..Len(s) -> Joints]
  BY StorageAssumption DEF IInv
<1>2. /\ LandOK(M)
      /\ M.full_by_base = land.full_by_base
      /\ M.range.base = land.range.base
      /\ Capacity(M) \in Nat /\ Capacity(land) \in Nat
      /\ Capacity(M) >= Capacity(land)
  BY <1>1, AmortizedOK
<1>3. PICK r \in BestFits(M, Len(s)) :
        /\ land' = Occupied(M, r, Len(s))
        /\ joints' = Written(v, LeftPart(r, Len(s)), s)
        /\ table' = [id \in DOMAIN table \cup {last_id} |->
                       IF id = last_id THEN LeftPart(r, Len(s)) ELSE table[id]]
  BY DEF InsertSkeleton
<1> DEFINE range == LeftPart(r, Len(s))
<1>4. r \in M.empty_by_size /\ r.size >= Len(s)
  BY DEF BestFits, Fits
<1> HIDE DEF M
<1>5. /\ LandOK(land')
      /\ range \in Ranges
      /\ range \notin land.full_by_base
      /\ land'.full_by_base = land.full_by_base \cup {range}
      /\ land'.range = M.range
  BY <1>1, <1>2, <1>3, <1>4, OccupiedOK
<1>6. range.size = Len(s) /\ range.base = r.base /\ range.base \in Nat
  BY <1>5 DEF LeftPart, Ranges
<1>7. Capacity(land') = Capacity(M)
  BY <1>5 DEF Capacity
<1>8. /\ v \in [1..Capacity(M) -> J]
      /\ Len(v) = Capacity(M)
      /\ \A k \in 1..Capacity(land) : v[k] = joints[k]
  <2>1. joints \in [1..Capacity(land) -> J] /\ Len(joints) = Capacity(land)
    BY <1>1, <1>2 DEF VectorOK
  <2>2. CASE M = land
    BY <2>1, <2>2, <1>2
  <2>3. CASE M # land
    <3>1. v = [k \in 1..Capacity(M) |-> IF k <= Capacity(land) THEN joints[k] ELSE NoJoint]
      BY <2>1, <2>3 DEF Resized
    <3>3. \A k \in 1..Capacity(M) : k <= Capacity(land) => joints[k] \in J
      BY <1>2, <2>1
    <3> HIDE DEF v
    <3> QED BY <1>2, <3>1, <3>3
  <2> QED BY <2>2, <2>3
<1> HIDE DEF v, range
<1>9. joints' = [k \in 1..Capacity(M) |->
                   IF range.base < k /\ k <= End(range)
                   THEN s[k - range.base] ELSE v[k]]
  BY <1>3, <1>8 DEF Written, range
<1>10. \A k \in 1..Capacity(M) :
         range.base < k /\ k <= End(range) => s[k - range.base] \in J
  <2>1. ASSUME NEW k \in 1..Capacity(M), range.base < k, k <= End(range)
        PROVE  s[k - range.base] \in J
    <3>1. k - range.base \in 1..Len(s)
      BY <1>1, <1>2, <1>6, <2>1 DEF End
    <3> QED BY <1>1, <3>1
  <2> QED BY <2>1
<1>11. joints' \in [1..Capacity(M) -> J]
  BY <1>8, <1>9, <1>10
<1>12. \A k \in 1..Capacity(land) :
         ~(range.base < k /\ k <= End(range)) => joints'[k] = joints[k]
  BY <1>2, <1>8, <1>9
<1>13. \A k \in 1..Capacity(M) :
         range.base < k /\ k <= End(range) => joints'[k] = s[k - range.base]
  BY <1>9
<1>14. table' = [id \in DOMAIN table \cup {last_id} |->
                   IF id = last_id THEN range ELSE table[id]]
  BY <1>3 DEF range
<1> QED BY <1>2, <1>5, <1>6, <1>7, <1>11, <1>12, <1>13, <1>14

\* Remove() gives back the range of its id, no other.
LEMMA RemoveStep ==
  ASSUME IInv, NEW id \in DOMAIN table, Remove(id)
  PROVE  /\ LandOK(land') /\ land'.range = land.range
         /\ land'.full_by_base = land.full_by_base \ {table[id]}
         /\ table' = [i \in DOMAIN table \ {id} |-> table[i]]
         /\ joints' = joints /\ last_id' = last_id
<1>1. LandOK(land) /\ TableMatchesLand
  BY DEF IInv
<1>2. table[id] \in land.full_by_base
  BY <1>1 DEF TableMatchesLand
<1>3. PICK r \in RangeOf(land, table[id].base) : land' = Unoccupied(land, r)
  BY DEF Remove
<1>4. r \in land.full_by_base /\ r.base = table[id].base
  BY DEF RangeOf
<1>5. r = table[id]
  <2> DEFINE F == land.full_by_base
             E == land.empty_by_base
             t == table[id]
  <2>1. F \in SUBSET Ranges /\ E \in SUBSET Ranges /\ Disjoint(F, E)
    BY <1>1 DEF LandOK, Lands, TiledBy
  <2>2. t \in F \cup E /\ r \in F \cup E /\ r.base = t.base
    BY <1>2, <1>4
  <2>3. r = t
    <3> HIDE DEF F, E, t
    <3> QED BY <2>1, <2>2, UniqueBase
  <2> QED BY <2>3
<1>6. /\ LandOK(land') /\ land'.range = land.range
      /\ land'.full_by_base = land.full_by_base \ {r}
  BY <1>1, <1>3, <1>4, UnoccupiedOK
<1> QED BY <1>5, <1>6 DEF Remove

LEMMA NextIInv == IInv /\ [Next]_vars => IInv'
<1> SUFFICES ASSUME IInv, [Next]_vars PROVE IInv'
  OBVIOUS
<1>1. ASSUME NEW s \in Skeletons, InsertSkeleton(s) PROVE IInv'
  <2>1. PICK range \in Ranges :
          /\ LandOK(land') /\ land'.range.base = land.range.base
          /\ range \notin land.full_by_base
          /\ land'.full_by_base = land.full_by_base \cup {range}
          /\ joints' \in [1..Capacity(land') -> Joints \cup {NoJoint}]
          /\ table' = [id \in DOMAIN table \cup {last_id} |->
                         IF id = last_id THEN range ELSE table[id]]
    BY <1>1, InsertStep
  <2>2. last_id \in Nat /\ last_id < MaxInserts /\ last_id' = last_id + 1
    BY <1>1, StorageAssumption DEF InsertSkeleton, IInv, IdsOK
  <2>3. last_id \notin DOMAIN table
    BY <2>2 DEF IInv, IdsOK
  <2>4. IdsOK'
    BY <2>1, <2>2, StorageAssumption DEF IInv, IdsOK
  <2>5. TableMatchesLand'
    <3> DEFINE dom == DOMAIN table
    <3>1. /\ DOMAIN table' = dom \cup {last_id} /\ table'[last_id] = range
          /\ \A id \in dom : table'[id] = table[id]
      BY <2>1, <2>3
    <3>2. /\ {table[id] : id \in dom} = land.full_by_base
          /\ \A id, jd \in dom : table[id] = table[jd] => id = jd
      BY DEF IInv, TableMatchesLand
    <3>3. \A id \in dom : table[id] # range
      BY <2>1, <3>2
    <3> HIDE DEF dom
    <3>4. {table'[id] : id \in DOMAIN table'} = land'.full_by_base
      <4>1. {table'[id] : id \in DOMAIN table'} = {table[id] : id \in dom} \cup {range}
        BY <3>1
      <4> QED BY <2>1, <3>2, <4>1
    <3>5. \A id, jd \in DOMAIN table' : table'[id] = table'[jd] => id = jd
      BY <3>1, <3>2, <3>3
    <3> QED BY <3>4, <3>5 DEF TableMatchesLand
  <2> QED BY <2>1, <2>4, <2>5 DEF IInv, VectorOK
<1>2. ASSUME NEW id \in DOMAIN table, Remove(id) PROVE IInv'
  <2>1. /\ LandOK(land') /\ land'.range = land.range
        /\ land'.full_by_base = land.full_by_base \ {table[id]}
        /\ table' = [i \in DOMAIN table \ {id} |-> table[i]]
        /\ joints' = joints /\ last_id' = last_id
    BY <1>2, RemoveStep
  <2>2. VectorOK' /\ land'.range.base = 0
    BY <2>1 DEF IInv, VectorOK, Capacity
  <2>3. IdsOK'
    BY <2>1 DEF IInv, IdsOK
  <2>4. TableMatchesLand'
    BY <2>1 DEF IInv, TableMatchesLand
  <2> QED BY <2>1, <2>2, <2>3, <2>4 DEF IInv
<1>3. CASE UNCHANGED vars
  BY <1>3 DEF vars, IInv, VectorOK, IdsOK, TableMatchesLand
<1> QED BY <1>1, <1>2, <1>3 DEF Next

\* The inductive invariant of the storage: the land is as its operations leave
\* it, the vector is as long as the land, and the ids below last_id name the
\* occupied ranges.
THEOREM StorageInvariant == Spec => []IInv
<1> QED BY InitIInv, NextIInv, PTL DEF Spec

\* The counters of the land, through every insertion and removal.
LEMMA NextCounts == IInv /\ Counted(land) /\ [Next]_vars => Counted(land)'
<1> SUFFICES ASSUME IInv, Counted(land), [Next]_vars PROVE Counted(land')
  BY DEF Counted
<1>1. LandOK(land) /\ TableMatchesLand
  BY DEF IInv
<1>2. ASSUME NEW s \in Skeletons, InsertSkeleton(s) PROVE Counted(land')
  <2> DEFINE M == Amortized(land, Len(s), Numer, Denom)
  <2>1. Len(s) \in Nat \ {0}
    BY StorageAssumption
  <2>2. LandOK(M) /\ Counted(M)
    BY <1>1, <2>1, AmortizedOK, AmortizedCounts
  <2>3. PICK r \in BestFits(M, Len(s)) : land' = Occupied(M, r, Len(s))
    BY <1>2 DEF InsertSkeleton
  <2>4. r \in M.empty_by_size /\ r.size >= Len(s)
    BY DEF BestFits, Fits
  <2> HIDE DEF M
  <2>5. QED
    BY <2>1, <2>2, <2>3, <2>4, OccupiedCounts
<1>3. ASSUME NEW id \in DOMAIN table, Remove(id) PROVE Counted(land')
  <2>1. PICK r \in RangeOf(land, table[id].base) : land' = Unoccupied(land, r)
    BY <1>3 DEF Remove
  <2>2. r \in land.full_by_base
    BY DEF RangeOf
  <2>3. QED
    BY <1>1, <2>1, <2>2, UnoccupiedCounts
<1>4. CASE UNCHANGED vars
  BY <1>4 DEF vars, Counted
<1>5. QED
  BY <1>2, <1>3, <1>4 DEF Next

\* Every variable keeps its type, and Land's two counters count the positions
\* of its occupied and of its empty ranges, through splits, merges and growth.
THEOREM TypeCorrect == Spec => []TypeOK
<1>1. Init => Counted(land)
  <2> SUFFICES ASSUME Init PROVE Counted(land)
    OBVIOUS
  <2>1. land.occupied_size = 0 /\ land.empty_size = 0 /\ land.full_by_base = {}
        /\ land.range.size = 0
    BY DEF Init, NewLand, NoRange
  <2>2. Total({}) = 0
    <3>1. UNION {Positions(r) : r \in {}} = {}
      OBVIOUS
    <3>2. QED
      BY <3>1, FS_EmptySet DEF Total
  <2>3. QED
    BY <2>1, <2>2 DEF Counted
<1>2. IInv /\ Counted(land) => TypeOK
  <2> SUFFICES ASSUME IInv, Counted(land) PROVE TypeOK
    OBVIOUS
  <2>1. LandOK(land) /\ Tiling(land.full_by_base, land.empty_by_base, land.range)
    BY LandTiling DEF IInv
  <2>2. land \in Lands
    BY <2>1 DEF LandOK
  <2>3. land.empty_size = Total(land.empty_by_base)
    <3>1. /\ Total(land.full_by_base) \in Nat
          /\ Total(land.empty_by_base) = land.range.size - Total(land.full_by_base)
      BY <2>1, TilingCounts
    <3>2. land.empty_size \in Int
      BY <2>1, LandTiling
    <3>3. land.range.size = Total(land.full_by_base) + land.empty_size
      BY DEF Counted
    <3>4. QED
      BY ONLY <3>1, <3>2, <3>3
  <2>4. DOMAIN table \subseteq 0..MaxInserts /\ last_id \in 0..MaxInserts
    BY StorageAssumption DEF IInv, IdsOK
  <2>5. \A id \in DOMAIN table : table[id] \in Ranges
    BY <2>2 DEF IInv, TableMatchesLand, Lands
  <2>6. joints \in Seq(Joints \cup {NoJoint})
    <3>1. Capacity(land) \in Nat
      BY <2>2 DEF Lands, Capacity
    <3>2. QED
      BY <3>1 DEF IInv, VectorOK
  <2>7. land.occupied_size = Total(land.full_by_base)
    BY DEF Counted
  <2>8. QED
    BY <2>2, <2>3, <2>4, <2>5, <2>6, <2>7 DEF TypeOK
<1>3. QED
  BY <1>1, <1>2, StorageInvariant, NextCounts, PTL DEF Spec

\* However ranges are split, merged, grown and given back, every position of
\* the land is in exactly one of them.
THEOREM RangesTileTheLand == Spec => []Tiled
<1>1. IInv => Tiled
  BY DEF IInv, LandOK, Tiled
<1> QED BY <1>1, StorageInvariant, PTL

\* try_occupy(), which looks by size, never takes a range that release(), which
\* looks by base, has merged into another.
THEOREM EmptyLookupsAgree == Spec => []LookupsAgree
<1>1. IInv => LookupsAgree
  BY DEF IInv, LandOK, LookupsAgree
<1> QED BY <1>1, StorageInvariant, PTL

\* The land of the storage is sound, as SkeletonStorage states it.
THEOREM LandStaysSound == Spec => []LandSound
  BY RangesTileTheLand, EmptyLookupsAgree, PTL DEF LandSound

\* remove() finds the range of its id, and nothing is leaked.
THEOREM TableAndLandAgree == Spec => []TableMatchesLand
<1>1. IInv => TableMatchesLand
  BY DEF IInv
<1> QED BY <1>1, StorageInvariant, PTL

\* Every position of the storage is accounted for.
THEOREM EveryRangeAccounted == Spec => []RangesAccounted
  BY LandStaysSound, TableAndLandAgree, PTL DEF RangesAccounted

\* The assertion of occupy_amortized() holds, for any sizes of skeletons.
THEOREM AmortizedGrowthSuffices == Spec => []GrowthSuffices
<1>1. IInv => GrowthSuffices
  <2> SUFFICES ASSUME IInv PROVE GrowthSuffices
    OBVIOUS
  <2>1. Len(joints) = Capacity(land)
    <3>1. Capacity(land) \in Nat
      BY DEF IInv, LandOK, Lands, Capacity
    <3> QED BY <3>1 DEF IInv, VectorOK
  <2>2. ASSUME NEW s \in Skeletons
        PROVE  Fits(Amortized(land, Len(s), Numer, Denom), Len(s)) # {}
    <3>1. Len(s) \in Nat \ {0}
      BY StorageAssumption
    <3>2. LandOK(land)
      BY DEF IInv
    <3> QED BY <3>1, <3>2, AmortizedOK
  <2> QED BY <2>1, <2>2 DEF GrowthSuffices
<1> QED BY <1>1, StorageInvariant, PTL

-----------------------------------------------------------------------------
(* SkeletonStorage: the storage implements the table *)

\* A part of a vector is as it was when its elements are.
LEMMA SamePart ==
  ASSUME NEW J, NEW n \in Nat, NEW m \in Nat,
         NEW v \in [1..n -> J], NEW w \in [1..m -> J],
         NEW a \in Nat, NEW b \in Nat, a <= b, b <= n, b <= m,
         \A k \in (a + 1)..b : v[k] = w[k]
  PROVE  SubSeq(v, a + 1, b) = SubSeq(w, a + 1, b)
<1>1. v \in Seq(J) /\ w \in Seq(J) /\ Len(v) = n /\ Len(w) = m
  OBVIOUS
<1>2. /\ SubSeq(v, a + 1, b) = [i \in 1..(b - a) |-> v[i + a]]
      /\ SubSeq(w, a + 1, b) = [i \in 1..(b - a) |-> w[i + a]]
  BY <1>1
<1>3. \A i \in 1..(b - a) : v[i + a] = w[i + a]
  OBVIOUS
<1> QED BY <1>2, <1>3

\* A part that was written holds what was written there.
LEMMA WrittenPart ==
  ASSUME NEW J, NEW n \in Nat, NEW v \in [1..n -> J],
         NEW K, NEW s \in Seq(K), NEW a \in Nat, NEW b \in Nat,
         b = a + Len(s), b <= n,
         \A k \in 1..n : a < k /\ k <= b => v[k] = s[k - a]
  PROVE  SubSeq(v, a + 1, b) = s
<1>1. v \in Seq(J) /\ Len(v) = n
  OBVIOUS
<1>2. Len(s) \in Nat /\ s = [i \in 1..Len(s) |-> s[i]]
  OBVIOUS
<1>3. SubSeq(v, a + 1, b) = [i \in 1..Len(s) |-> v[i + a]]
  BY <1>1, <1>2
<1>4. \A i \in 1..Len(s) : v[i + a] = s[i]
  <2>1. ASSUME NEW i \in 1..Len(s) PROVE v[i + a] = s[i]
    <3>1. i + a \in 1..n /\ a < i + a /\ i + a <= b /\ (i + a) - a = i
      BY <1>2
    <3> QED BY <3>1
  <2> QED BY <2>1
<1> QED BY <1>2, <1>3, <1>4

\* The range of an id is inside the land.
LEMMA RangeInside ==
  ASSUME NEW L, LandOK(L), L.range.base = 0, NEW r \in L.full_by_base
  PROVE  /\ r \in Ranges /\ r.base \in Nat /\ r.size \in Nat
         /\ End(r) = r.base + r.size /\ End(r) <= Capacity(L)
<1>1. r \in Ranges /\ r.base \in Nat /\ r.size \in Nat
  BY DEF LandOK, Lands, Ranges
<1>2. End(r) <= End(L.range)
  BY DEF LandOK, TiledBy, Covering
<1>3. L.range.size \in Nat
  BY DEF LandOK, Lands
<1> QED BY <1>1, <1>2, <1>3 DEF End, Capacity

Contents == [id \in DOMAIN table |->
               SubSeq(joints, table[id].base + 1, End(table[id]))]

\* insert() adds the skeleton under a fresh id and leaves the others readable.
LEMMA InsertImplements ==
  ASSUME IInv, NEW s \in Skeletons, InsertSkeleton(s)
  PROVE  Contents' = [id \in DOMAIN Contents \cup {last_id} |->
                        IF id = last_id THEN s ELSE Contents[id]]
<1> DEFINE J == Joints \cup {NoJoint}
           n == Capacity(land)
           m == Capacity(land')
<1>1. PICK range \in Ranges :
        /\ LandOK(land')
        /\ range \notin land.full_by_base
        /\ land'.full_by_base = land.full_by_base \cup {range}
        /\ range.size = Len(s)
        /\ joints' \in [1..m -> J]
        /\ n \in Nat /\ m \in Nat /\ m >= n
        /\ land'.range.base = land.range.base
        /\ \A k \in 1..n : ~(range.base < k /\ k <= End(range)) => joints'[k] = joints[k]
        /\ \A k \in 1..m : range.base < k /\ k <= End(range) => joints'[k] = s[k - range.base]
        /\ table' = [id \in DOMAIN table \cup {last_id} |->
                       IF id = last_id THEN range ELSE table[id]]
  BY InsertStep
<1>2. LandOK(land) /\ land.range.base = 0 /\ joints \in [1..n -> J]
  BY DEF IInv, VectorOK
<1>3. last_id \notin DOMAIN table
  BY StorageAssumption DEF IInv, IdsOK
<1>4. \A id \in DOMAIN table : table[id] \in land.full_by_base
  BY DEF IInv, TableMatchesLand
<1>5. SubSeq(joints', range.base + 1, End(range)) = s
  <2>1. /\ range \in land'.full_by_base /\ land'.range.base = 0
    BY <1>1, <1>2
  <2>2. /\ range.base \in Nat /\ End(range) = range.base + Len(s)
        /\ End(range) <= m
    BY <1>1, <2>1, RangeInside
  <2>3. s \in Seq(Joints) /\ End(range) \in Nat
    BY <2>2, StorageAssumption
  <2> DEFINE a == range.base
             b == End(range)
             v == joints'
  <2>4. /\ m \in Nat /\ v \in [1..m -> J] /\ s \in Seq(Joints)
        /\ a \in Nat /\ b \in Nat /\ b = a + Len(s) /\ b <= m
        /\ \A k \in 1..m : a < k /\ k <= b => v[k] = s[k - a]
    BY <1>1, <2>2, <2>3
  <2>5. SubSeq(v, a + 1, b) = s
    <3> HIDE DEF a, b, v, m, J
    <3> QED BY <2>4, WrittenPart
  <2> QED BY <2>5
<1>6. ASSUME NEW id \in DOMAIN table
      PROVE  SubSeq(joints', table[id].base + 1, End(table[id]))
             = SubSeq(joints, table[id].base + 1, End(table[id]))
  <2> DEFINE r == table[id]
             a == r.base
             b == End(r)
             v == joints'
             w == joints
  <2>1. /\ a \in Nat /\ b \in Nat /\ a <= b /\ b <= n
        /\ r.size \in Nat \ {0}
    <3>1. r \in land.full_by_base
      BY <1>4
    <3>2. /\ r \in Ranges /\ r.base \in Nat /\ r.size \in Nat
          /\ End(r) = r.base + r.size /\ End(r) <= n
      BY <1>2, <3>1, RangeInside
    <3>3. r.size # 0
      BY <3>2 DEF Ranges
    <3> QED BY <3>2, <3>3
  <2>2. End(r) <= range.base \/ End(range) <= r.base
    <3>1. r \in land'.full_by_base /\ range \in land'.full_by_base /\ r # range
      BY <1>1, <1>4
    <3> QED BY <1>1, <3>1 DEF LandOK, TiledBy, Disjoint
  <2>3. \A k \in (a + 1)..b : v[k] = w[k]
    <3>1. range.base \in Nat /\ End(range) \in Int
      BY DEF Ranges, End
    <3>2. ASSUME NEW k \in (a + 1)..b PROVE v[k] = w[k]
      <4>1. k \in 1..n /\ ~(range.base < k /\ k <= End(range))
        <5> HIDE DEF n, a, b
        <5>1. b <= range.base \/ End(range) <= a
          BY <2>2 DEF a, b
        <5> QED BY <1>1, <2>1, <3>1, <3>2, <5>1
      <4> QED BY <1>1, <4>1
    <3> QED BY <3>2
  <2>4. /\ n \in Nat /\ m \in Nat /\ b <= m
        /\ v \in [1..m -> J] /\ w \in [1..n -> J]
    BY <1>1, <1>2, <2>1
  <2>5. SubSeq(v, a + 1, b) = SubSeq(w, a + 1, b)
    <3> HIDE DEF a, b, v, w, n, m, J
    <3> QED BY <2>1, <2>3, <2>4, SamePart
  <2> QED BY <2>5
<1>7. Contents' = [id \in DOMAIN table \cup {last_id} |->
                     IF id = last_id THEN s ELSE Contents[id]]
  <2>1. Contents' = [id \in DOMAIN table' |->
                       SubSeq(joints', table'[id].base + 1, End(table'[id]))]
    BY DEF Contents, End
  <2>2. DOMAIN table' = DOMAIN table \cup {last_id}
    BY <1>1
  <2>3. \A id \in DOMAIN table' :
          SubSeq(joints', table'[id].base + 1, End(table'[id]))
          = IF id = last_id THEN s ELSE Contents[id]
    BY <1>1, <1>3, <1>5, <1>6 DEF Contents
  <2> QED BY <2>1, <2>2, <2>3
<1> QED BY <1>7 DEF Contents

\* The storage implements the table: a query returns the skeleton as it was
\* inserted, whatever was inserted, grown and removed since.
THEOREM StorageIsATable == Spec => ImplementsTable
<1>1. Init => Table!Init
  BY DEF Init, Table!Init
<1>2. IInv /\ [Next]_vars => [Table!Next]_(Table!vars)
  <2> SUFFICES ASSUME IInv, [Next]_vars PROVE [Table!Next]_(Table!vars)
    OBVIOUS
  <2>1. ASSUME NEW s \in Skeletons, InsertSkeleton(s) PROVE Table!Insert(s)
    <3>1. last_id' = last_id + 1
      BY <2>1 DEF InsertSkeleton
    <3> QED BY <2>1, <3>1, InsertImplements DEF Table!Insert, Contents
  <2>2. ASSUME NEW id \in DOMAIN table, Remove(id) PROVE Table!Remove(id)
    <3>1. /\ table' = [i \in DOMAIN table \ {id} |-> table[i]]
          /\ joints' = joints /\ last_id' = last_id
      BY <2>2 DEF Remove
    <3> QED BY <3>1 DEF Table!Remove, End
  <2>3. CASE UNCHANGED vars
    BY <2>3 DEF vars, Table!vars, End
  <2> QED BY <2>1, <2>2, <2>3 DEF Next, Table!Next
<1> QED BY <1>1, <1>2, StorageInvariant, PTL DEF Spec, ImplementsTable, Table!Spec

-----------------------------------------------------------------------------
(* ShaderPool: the watcher *)

FileRecord == [program : Programs, primary : Files, file : Files, included : BOOLEAN,
               load : Nat]

Watchers == [kernel : [Files -> Nat], next_wd : Nat,
             wd2id_ : SUBSET (Nat \X FileRecord), id2wd_ : SUBSET (FileRecord \X Nat)]

(***************************************************************************)
(* W watches the files S: wd2id_ has each of them once, under the          *)
(* descriptor of its file; id2wd_ may also know files that are gone; and   *)
(* no two files have the same descriptor.                                  *)
(***************************************************************************)
Watching(W, S) ==
  /\ W.wd2id_ = {<<W.kernel[e.file], e>> : e \in S}
  /\ \A e \in S : W.kernel[e.file] # 0 /\ \E pair \in W.id2wd_ : pair[1] = e
  /\ \A pair \in W.id2wd_ : pair[1] \in S => pair[2] = W.kernel[pair[1].file]
  /\ \A f, g \in Files : W.kernel[f] = W.kernel[g] /\ W.kernel[f] # 0 => f = g
  /\ \A f \in Files : W.kernel[f] < W.next_wd

LEMMA AddWatchIs ==
  ASSUME NEW W \in Watchers, NEW f \in Files, W.kernel[f] < W.next_wd
  PROVE  /\ AddWatch(W, f) \in Watchers
         /\ AddWatch(W, f).wd2id_ = W.wd2id_ /\ AddWatch(W, f).id2wd_ = W.id2wd_
         /\ W.kernel[f] # 0 => AddWatch(W, f) = W
         /\ W.kernel[f] = 0 =>
              /\ AddWatch(W, f).kernel = [W.kernel EXCEPT ![f] = W.next_wd]
              /\ AddWatch(W, f).next_wd = W.next_wd + 1
<1>1. W.kernel \in [Files -> Nat] /\ W.next_wd \in Nat
  BY DEF Watchers
<1>2. CASE W.kernel[f] # 0
  BY <1>2 DEF AddWatch
<1>3. CASE W.kernel[f] = 0
  <2>1. AddWatch(W, f) = [W EXCEPT !.kernel = [W.kernel EXCEPT ![f] = W.next_wd],
                                   !.next_wd = W.next_wd + 1]
    BY <1>3 DEF AddWatch, Watchers
  <2>2. [W.kernel EXCEPT ![f] = W.next_wd] \in [Files -> Nat] /\ W.next_wd + 1 \in Nat
    BY <1>1
  <2>3. QED
    BY <1>3, <2>1, <2>2 DEF Watchers
<1>4. QED
  BY <1>2, <1>3

LEMMA WatchIs ==
  ASSUME NEW W \in Watchers, NEW id \in FileRecord, NEW f \in Files,
         NEW A, A = AddWatch(W, f), A \in Watchers
  PROVE  /\ watch(W, id, f) \in Watchers
         /\ watch(W, id, f).kernel = A.kernel /\ watch(W, id, f).next_wd = A.next_wd
         /\ watch(W, id, f).wd2id_ = A.wd2id_ \cup {<<A.kernel[f], id>>}
         /\ watch(W, id, f).id2wd_ = A.id2wd_ \cup {<<id, A.kernel[f]>>}
<1>1. A.kernel[f] \in Nat
  BY DEF Watchers
<1>2. watch(W, id, f) = [A EXCEPT !.wd2id_ = A.wd2id_ \cup {<<A.kernel[f], id>>},
                                  !.id2wd_ = A.id2wd_ \cup {<<id, A.kernel[f]>>}]
  BY DEF watch
<1>3. /\ A.wd2id_ \cup {<<A.kernel[f], id>>} \in SUBSET (Nat \X FileRecord)
      /\ A.id2wd_ \cup {<<id, A.kernel[f]>>} \in SUBSET (FileRecord \X Nat)
  BY <1>1 DEF Watchers
<1>4. QED
  BY <1>2, <1>3 DEF Watchers

\* A file that is watched, or was never known, is watched from now on.
LEMMA WatchKeeps ==
  ASSUME NEW W \in Watchers, NEW S \in SUBSET FileRecord, NEW e \in FileRecord,
         Watching(W, S), IsFiniteSet(W.wd2id_),
         \A pair \in W.id2wd_ : pair[1] = e => e \in S
  PROVE  /\ watch(W, e, e.file) \in Watchers
         /\ Watching(watch(W, e, e.file), S \cup {e})
         /\ IsFiniteSet(watch(W, e, e.file).wd2id_)
         /\ \A pair \in watch(W, e, e.file).id2wd_ : pair \in W.id2wd_ \/ pair[1] = e
<1> DEFINE f == e.file
           A == AddWatch(W, f)
           V == watch(W, e, f)
<1>1. f \in Files
  BY DEF FileRecord
<1>2. /\ A \in Watchers /\ A.wd2id_ = W.wd2id_ /\ A.id2wd_ = W.id2wd_
      /\ W.kernel[f] # 0 => A = W
      /\ W.kernel[f] = 0 => /\ A.kernel = [W.kernel EXCEPT ![f] = W.next_wd]
                            /\ A.next_wd = W.next_wd + 1
  BY <1>1, AddWatchIs DEF Watching
<1>3. /\ V \in Watchers /\ V.kernel = A.kernel /\ V.next_wd = A.next_wd
      /\ V.wd2id_ = A.wd2id_ \cup {<<A.kernel[f], e>>}
      /\ V.id2wd_ = A.id2wd_ \cup {<<e, A.kernel[f]>>}
  BY <1>1, <1>2, WatchIs
<1>4. W.kernel \in [Files -> Nat] /\ W.next_wd \in Nat
  BY DEF Watchers
<1>5. \A s \in S : s.file \in Files
  BY DEF FileRecord
<1> HIDE DEF A, V, f
<1>6. A.kernel[f] # 0
  BY <1>1, <1>2, <1>4 DEF Watching
<1>7. \A s \in S : A.kernel[s.file] = W.kernel[s.file]
  BY <1>1, <1>2, <1>4, <1>5 DEF Watching
<1>8. f = e.file
  BY DEF f
<1>9. V.wd2id_ = {<<V.kernel[s.file], s>> : s \in S \cup {e}}
  <2>1. W.wd2id_ = {<<A.kernel[s.file], s>> : s \in S}
    BY <1>7 DEF Watching
  <2>2. QED
    BY <1>2, <1>3, <1>8, <2>1
<1>10. \A s \in S \cup {e} : V.kernel[s.file] # 0 /\ \E pair \in V.id2wd_ : pair[1] = s
  <2>1. ASSUME NEW s \in S PROVE V.kernel[s.file] # 0 /\ \E pair \in V.id2wd_ : pair[1] = s
    <3>1. PICK pair \in W.id2wd_ : pair[1] = s
      BY DEF Watching
    <3>2. pair \in V.id2wd_
      BY <1>2, <1>3
    <3>3. QED
      BY <1>3, <1>7, <3>1, <3>2 DEF Watching
  <2>2. <<e, A.kernel[f]>> \in V.id2wd_ /\ V.kernel[e.file] # 0
    BY <1>3, <1>6, <1>8
  <2>3. QED
    BY <2>1, <2>2
<1>11. \A pair \in V.id2wd_ : pair[1] \in S \cup {e} => pair[2] = V.kernel[pair[1].file]
  <2>1. \A pair \in W.id2wd_ : pair[1] \in S \cup {e} => pair[1] \in S
    OBVIOUS
  <2>2. \A pair \in W.id2wd_ : pair[1] \in S \cup {e} => pair[2] = V.kernel[pair[1].file]
    BY <1>3, <1>7, <2>1 DEF Watching
  <2>3. QED
    BY <1>2, <1>3, <1>8, <2>2
<1>12. /\ \A g, h \in Files : V.kernel[g] = V.kernel[h] /\ V.kernel[g] # 0 => g = h
       /\ \A g \in Files : V.kernel[g] < V.next_wd
  BY <1>1, <1>2, <1>3, <1>4 DEF Watching
<1>13. IsFiniteSet(V.wd2id_)
  <2>1. IsFiniteSet(W.wd2id_ \cup {<<A.kernel[f], e>>})
    BY FS_AddElement
  <2>2. QED
    BY <1>2, <1>3, <2>1
<1>14. Watching(V, S \cup {e})
  BY <1>9, <1>10, <1>11, <1>12 DEF Watching
<1>15. \A pair \in V.id2wd_ : pair \in W.id2wd_ \/ pair[1] = e
  BY <1>2, <1>3
<1>16. QED
  BY <1>3, <1>13, <1>14, <1>15 DEF V, f

LEMMA WdOfIs ==
  ASSUME NEW W \in Watchers, NEW S \in SUBSET FileRecord, NEW e \in S, Watching(W, S)
  PROVE  WdOf(W, e) = W.kernel[e.file]
<1> DEFINE pair == CHOOSE x \in W.id2wd_ : x[1] = e
<1>1. pair \in W.id2wd_ /\ pair[1] = e
  BY DEF Watching
<1>2. pair[2] = W.kernel[e.file]
  BY <1>1 DEF Watching
<1>3. QED
  BY <1>2 DEF WdOf

\* When a bucket has one pair left, no other file has its descriptor.
LEMMA LastOfBucket ==
  ASSUME NEW W \in Watchers, NEW S \in SUBSET FileRecord, NEW e \in S, Watching(W, S),
         IsFiniteSet(W.wd2id_), BucketSize(W, W.kernel[e.file]) = 1
  PROVE  \A s \in S : W.kernel[s.file] = W.kernel[e.file] => s = e
<1> DEFINE wd == W.kernel[e.file]
           B == {pair \in W.wd2id_ : bucket(pair[1]) = bucket(wd)}
<1>1. IsFiniteSet(B) /\ Cardinality(B) = 1
  BY FS_Subset DEF BucketSize
<1>2. PICK x : B = {x}
  BY <1>1, FS_Singleton
<1>3. ASSUME NEW s \in S, W.kernel[s.file] = wd PROVE s = e
  <2>1. <<wd, s>> \in W.wd2id_ /\ <<wd, e>> \in W.wd2id_
    BY <1>3 DEF Watching
  <2>2. <<wd, s>> \in B /\ <<wd, e>> \in B
    BY <2>1
  <2>3. <<wd, s>> = x /\ <<wd, e>> = x
    BY <1>2, <2>2
  <2>4. QED
    BY <2>3
<1>4. QED
  BY <1>3

LEMMA StopIs ==
  ASSUME NEW W \in Watchers, NEW e \in FileRecord, NEW wd \in Nat, WdOf(W, e) = wd
  PROVE  /\ stop_watching(W, e) \in Watchers
         /\ stop_watching(W, e).next_wd = W.next_wd
         /\ stop_watching(W, e).wd2id_ = W.wd2id_ \ {<<wd, e>>}
         /\ stop_watching(W, e).id2wd_ \in {W.id2wd_, W.id2wd_ \ {<<e, wd>>}}
         /\ \/ stop_watching(W, e).kernel = W.kernel
            \/ /\ BucketSize(W, wd) = 1
               /\ stop_watching(W, e).kernel =
                    [f \in Files |-> IF W.kernel[f] = wd THEN 0 ELSE W.kernel[f]]
<1>1. CASE BucketSize(W, wd) = 1
  <2>1. stop_watching(W, e) =
          [[W EXCEPT !.kernel = [f \in Files |-> IF W.kernel[f] = wd THEN 0
                                                 ELSE W.kernel[f]]]
             EXCEPT !.id2wd_ = W.id2wd_ \ {<<e, wd>>}, !.wd2id_ = W.wd2id_ \ {<<wd, e>>}]
    BY <1>1 DEF stop_watching, RemoveWatch, Watchers
  <2>2. /\ [f \in Files |-> IF W.kernel[f] = wd THEN 0 ELSE W.kernel[f]] \in [Files -> Nat]
        /\ W.id2wd_ \ {<<e, wd>>} \in SUBSET (FileRecord \X Nat)
        /\ W.wd2id_ \ {<<wd, e>>} \in SUBSET (Nat \X FileRecord)
    BY DEF Watchers
  <2>3. QED
    BY <1>1, <2>1, <2>2 DEF Watchers
<1>2. CASE BucketSize(W, wd) # 1
  <2>1. stop_watching(W, e) =
          [W EXCEPT !.id2wd_ = W.id2wd_, !.wd2id_ = W.wd2id_ \ {<<wd, e>>}]
    BY <1>2 DEF stop_watching, Watchers
  <2>2. QED
    BY <2>1 DEF Watchers
<1>3. QED
  BY <1>1, <1>2

\* A file is not watched from now on, the others are as before.
LEMMA StopKeeps ==
  ASSUME NEW W \in Watchers, NEW S \in SUBSET FileRecord, NEW e \in S,
         Watching(W, S), IsFiniteSet(W.wd2id_)
  PROVE  /\ stop_watching(W, e) \in Watchers
         /\ Watching(stop_watching(W, e), S \ {e})
         /\ IsFiniteSet(stop_watching(W, e).wd2id_)
         /\ stop_watching(W, e).id2wd_ \subseteq W.id2wd_
<1> DEFINE wd == W.kernel[e.file]
           V == stop_watching(W, e)
<1>1. /\ e.file \in Files /\ \A s \in S : s.file \in Files
      /\ W.kernel \in [Files -> Nat] /\ W.next_wd \in Nat /\ wd \in Nat
  BY DEF Watchers, FileRecord
<1>2. /\ V \in Watchers /\ V.next_wd = W.next_wd /\ V.wd2id_ = W.wd2id_ \ {<<wd, e>>}
      /\ V.id2wd_ \in {W.id2wd_, W.id2wd_ \ {<<e, wd>>}}
      /\ \/ V.kernel = W.kernel
         \/ /\ BucketSize(W, wd) = 1
            /\ V.kernel = [f \in Files |-> IF W.kernel[f] = wd THEN 0 ELSE W.kernel[f]]
  BY <1>1, WdOfIs, StopIs
<1>3. \A s \in S : s # e => V.kernel[s.file] = W.kernel[s.file]
  BY <1>1, <1>2, LastOfBucket
<1> HIDE DEF V, wd
<1>4. V.wd2id_ = {<<V.kernel[s.file], s>> : s \in S \ {e}}
  <2>1. W.wd2id_ \ {<<wd, e>>} = {<<W.kernel[s.file], s>> : s \in S \ {e}}
    BY DEF Watching, wd
  <2>2. QED
    BY <1>2, <1>3, <2>1
<1>5. \A s \in S \ {e} : V.kernel[s.file] # 0 /\ \E pair \in V.id2wd_ : pair[1] = s
  <2>1. ASSUME NEW s \in S, s # e PROVE \E pair \in V.id2wd_ : pair[1] = s
    <3>1. PICK pair \in W.id2wd_ : pair[1] = s
      BY DEF Watching
    <3>2. pair # <<e, wd>>
      BY <2>1, <3>1
    <3>3. QED
      BY <1>2, <3>1, <3>2
  <2>2. QED
    BY <1>3, <2>1 DEF Watching
<1>6. V.id2wd_ \subseteq W.id2wd_
  BY <1>2
<1>7. \A pair \in V.id2wd_ : pair[1] \in S \ {e} => pair[2] = V.kernel[pair[1].file]
  BY <1>3, <1>6 DEF Watching
<1>8. /\ \A f, g \in Files : V.kernel[f] = V.kernel[g] /\ V.kernel[f] # 0 => f = g
      /\ \A f \in Files : V.kernel[f] < V.next_wd
  BY <1>1, <1>2 DEF Watching
<1>9. Watching(V, S \ {e})
  BY <1>4, <1>5, <1>7, <1>8 DEF Watching
<1>10. IsFiniteSet(V.wd2id_)
  <2>1. IsFiniteSet(W.wd2id_ \ {<<wd, e>>})
    BY FS_RemoveElement
  <2>2. QED
    BY <1>2, <2>1
<1>11. QED
  BY <1>2, <1>6, <1>9, <1>10 DEF V

-----------------------------------------------------------------------------
(* ShaderPool: the parts of programs *)

Triple(x) == <<x.primary, x.file, x.included>>
OwnOf(ts) == {t \in ts : ~t[3]}

LEMMA PartsOfUnion ==
  ASSUME NEW S, NEW T
  PROVE  /\ PartsOf(S \cup T) = PartsOf(S) \cup PartsOf(T)
         /\ OwnOf(PartsOf(S \cup T)) = OwnOf(PartsOf(S)) \cup OwnOf(PartsOf(T))
BY DEF PartsOf, OwnOf

LEMMA PartsOfOne ==
  ASSUME NEW x
  PROVE  /\ PartsOf({x}) = {Triple(x)}
         /\ x.included = TRUE => OwnOf(PartsOf({x})) = {}
         /\ x.included = FALSE => OwnOf(PartsOf({x})) = {Triple(x)}
BY DEF PartsOf, OwnOf, Triple

LEMMA PartsOfNone ==
  PartsOf({}) = {} /\ OwnOf({}) = {}
BY DEF PartsOf, OwnOf

\* Files that are told apart by what they are for are as many as that.
LEMMA PartsCounted ==
  ASSUME NEW S, IsFiniteSet(S), \A a, b \in S : Triple(a) = Triple(b) => a = b
  PROVE  Cardinality(S) = Cardinality(PartsOf(S))
<1> DEFINE F == [x \in S |-> Triple(x)]
<1>1. F \in [S -> PartsOf(S)]
  BY DEF PartsOf, Triple
<1>2. \A t \in PartsOf(S) : \E x \in S : F[x] = t
  BY DEF PartsOf, Triple
<1>3. \A a, b \in S : F[a] = F[b] => a = b
  OBVIOUS
<1> HIDE DEF F
<1>4. F \in Bijection(S, PartsOf(S))
  BY <1>1, <1>2, <1>3 DEF Bijection, Injection, Surjection, IsInjective
<1>5. ExistsBijection(S, PartsOf(S))
  BY <1>4 DEF ExistsBijection
<1>6. QED
  BY <1>5, FS_Bijection

-----------------------------------------------------------------------------
(* ShaderPool: the invariant *)

TextRecord == [rev : Nat, includes : SUBSET Files, ok : BOOLEAN, saved_in : SUBSET Programs]
PartRecord == [primary : Files, file : Files, included : BOOLEAN, text : TextRecord]
LoadRecord == [pc : {"read", "sweep", "watch"}, program : Programs, id : Nat,
               rest : SUBSET Files, todo : SUBSET (Files \X Files), parts : SUBSET PartRecord]

TextsTyped == /\ text \in [Files -> TextRecord]
              /\ \A f \in Files : text[f].rev <= edits
              /\ edits \in 0 .. MaxEdits

FilesTyped == /\ watcher \in Watchers /\ IsFiniteSet(watcher.wd2id_)
              /\ entities \in SUBSET FileRecord /\ IsFiniteSet(entities)

ProgramsTyped == /\ program_map_ \in SUBSET Programs
                 /\ object \in [Programs -> SUBSET PartRecord]
                 /\ failed \in [Programs -> BOOLEAN]
                 /\ marked \subseteq program_map_ /\ forced \in 0 .. MaxForced

LoadTyped == load \in LoadRecord \cup {NoLoad} /\ loads \in Nat

Tree(q)    == {e \in entities : e.program = q}
Stages(S)  == {<<f, f, FALSE>> : f \in S}
At(q, pcs) == load.pc \in pcs /\ load.program = q

(* An id is watched once: that of a file that is gone is of an earlier load. *)
IdsFresh ==
  \A pair \in watcher.id2wd_ :
    /\ pair[1].load <= loads
    /\ pair[1].load = loads => load = NoLoad \/ (load.pc = "watch" /\ pair[1] \in entities)

FilesOnce ==
  \A a, b \in entities : a.program = b.program /\ Triple(a) = Triple(b) => a = b

(* A program that is there has the files of its stages, one that is not has nothing. *)
StagesStay == \A q \in program_map_ : OwnOf(PartsOf(Tree(q))) = Stages(Primaries[q])

NothingYet ==
  \A q \in Programs \ program_map_ :
    /\ At(q, {"sweep", "watch"}) \/ object[q] = {}
    /\ At(q, {"watch"}) \/ Tree(q) = {}

TreesMatch ==
  \A q \in Programs : At(q, {"sweep", "watch"}) \/ PartsOf(object[q]) = PartsOf(Tree(q))

(* How far a load has come. *)
Reading(q) == /\ load.rest \subseteq Primaries[q]
              /\ OwnOf(PartsOf(load.parts)) = Stages(Primaries[q] \ load.rest)

Replacing(q) == /\ PartsOf(object[q]) = PartsOf(Tree(q)) \cup PartsOf(load.parts)
                /\ q \in program_map_ => \A x \in load.parts : x.included
                /\ \A e \in Tree(q) : e.included \/ q \notin program_map_ => e.load = loads

LoadInOrder ==
  load # NoLoad =>
    /\ load.id = loads
    /\ load.pc = "read" => Reading(load.program)
    /\ load.pc # "read" => OwnOf(PartsOf(object[load.program])) = Stages(Primaries[load.program])
    /\ load.pc = "sweep" => load.parts = object[load.program]
    /\ load.pc = "watch" => Replacing(load.program)

PoolInv == /\ TextsTyped /\ FilesTyped /\ ProgramsTyped /\ LoadTyped
           /\ Watching(watcher, entities) /\ IdsFresh
           /\ FilesOnce /\ StagesStay /\ NothingYet /\ TreesMatch /\ LoadInOrder

LEMMA LoadFacts ==
  ASSUME LoadTyped
  PROVE  /\ load = NoLoad <=> load.pc = "none"
         /\ load # NoLoad => load \in LoadRecord
         /\ load # NoLoad => load.program \in Programs /\ load.parts \subseteq PartRecord
BY DEF LoadTyped, LoadRecord, NoLoad

LEMMA SomeOfIs ==
  ASSUME NEW S, S # {} PROVE SomeOf(S) \in S
BY DEF SomeOf

-----------------------------------------------------------------------------
(* ShaderPool: the steps *)

\* Nothing but texts, events and marks change.
LEMMA StillWatching ==
  ASSUME PoolInv, UNCHANGED <<watcher, entities, program_map_, object, load, loads>>,
         TextsTyped', ProgramsTyped'
  PROVE  PoolInv'
<1>1. FilesTyped' /\ LoadTyped' /\ Watching(watcher, entities)'
  BY DEF PoolInv, FilesTyped, LoadTyped
<1>2. (\A q \in Programs : Tree(q)' = Tree(q)) /\ UNCHANGED <<load, object, loads>>
  BY DEF Tree
<1>3. IdsFresh' /\ FilesOnce'
  BY DEF PoolInv, IdsFresh, FilesOnce
<1>4. StagesStay' /\ NothingYet' /\ TreesMatch'
  BY DEF PoolInv, StagesStay, NothingYet, TreesMatch, At, Tree
<1>5. LoadInOrder'
  BY DEF PoolInv, LoadInOrder, Reading, Replacing, Tree
<1>6. QED
  BY <1>1, <1>3, <1>4, <1>5 DEF PoolInv

LEMMA SaveKeeps ==
  ASSUME PoolInv, NEW f \in Files, NEW t \in Texts[f], Save(f, t)
  PROVE  PoolInv'
<1>1. TextsTyped'
  <2> DEFINE new == [rev |-> text[f].rev + 1, includes |-> t.includes, ok |-> t.ok,
                     saved_in |-> IF load = NoLoad THEN {} ELSE {load.program}]
  <2>1. text \in [Files -> TextRecord] /\ edits \in 0 .. MaxEdits /\ MaxEdits \in Nat
    BY ProgramsAssumption DEF PoolInv, TextsTyped
  <2>2. text[f].rev \in Nat /\ \A g \in Files : text[g].rev \in Nat /\ text[g].rev <= edits
    BY <2>1 DEF TextRecord, PoolInv, TextsTyped
  <2>3. t.includes \in SUBSET Files /\ t.ok \in BOOLEAN
    BY ProgramsAssumption
  <2>4. (IF load = NoLoad THEN {} ELSE {load.program}) \in SUBSET Programs
    BY LoadFacts DEF PoolInv
  <2>5. new \in TextRecord /\ new.rev = text[f].rev + 1
    BY <2>2, <2>3, <2>4 DEF TextRecord
  <2>6. text' = [text EXCEPT ![f] = new] /\ edits' = edits + 1 /\ edits < MaxEdits
    BY DEF Save
  <2> HIDE DEF new
  <2>7. QED
    BY <2>1, <2>2, <2>5, <2>6 DEF TextsTyped
<1>2. ProgramsTyped'
  BY DEF Save, pool, PoolInv, ProgramsTyped
<1>3. QED
  BY <1>1, <1>2, StillWatching DEF Save, pool

LEMMA ReadThreadKeeps ==
  ASSUME PoolInv, read_thread_loop \/ UNCHANGED pool_vars
  PROVE  PoolInv'
<1>1. UNCHANGED <<text, watcher, pool, marked, load, loads, edits, forced>>
  BY DEF read_thread_loop, pool_vars
<1>2. TextsTyped' /\ ProgramsTyped'
  BY <1>1 DEF pool, PoolInv, TextsTyped, ProgramsTyped
<1>3. QED
  BY <1>1, <1>2, StillWatching DEF pool

\* Whoever an event is for belongs to a program that is there.
LEMMA HotReloadKeeps ==
  ASSUME PoolInv, hot_reload
  PROVE  PoolInv'
<1>1. load = NoLoad /\ UNCHANGED <<text, watcher, pool, load, loads, edits, forced>>
      /\ marked' = {e.program : e \in UNION {Subscribed(watcher, wd) : wd \in Events}}
  BY DEF hot_reload
<1>2. ASSUME NEW wd, NEW e \in Subscribed(watcher, wd) PROVE e.program \in program_map_
  <2>1. e \in entities
    BY <1>2 DEF Subscribed, PoolInv, Watching
  <2>2. e.program \in Programs /\ e \in Tree(e.program)
    BY <2>1 DEF PoolInv, FilesTyped, FileRecord, Tree
  <2>3. ~At(e.program, {"watch"})
    BY <1>1 DEF NoLoad, At
  <2>4. QED
    BY <2>2, <2>3 DEF PoolInv, NothingYet
<1>3. marked' \subseteq program_map_
  BY <1>1, <1>2
<1>4. TextsTyped' /\ ProgramsTyped'
  BY <1>1, <1>3 DEF pool, PoolInv, TextsTyped, ProgramsTyped
<1>5. QED
  BY <1>1, <1>4, StillWatching DEF pool

LEMMA ForceReloadKeeps ==
  ASSUME PoolInv, force_reload
  PROVE  PoolInv'
<1>1. /\ UNCHANGED <<text, watcher, pool, load, loads, edits>>
      /\ marked' = program_map_ /\ forced < MaxForced /\ forced' = forced + 1
  BY DEF force_reload
<1>2. TextsTyped' /\ ProgramsTyped'
  BY <1>1, ProgramsAssumption DEF pool, PoolInv, TextsTyped, ProgramsTyped
<1>3. QED
  BY <1>1, <1>2, StillWatching DEF pool

\* The load begins, goes on reading, or gives up: nothing else changes.
LEMMA LoadingKeeps ==
  ASSUME PoolInv, load = NoLoad \/ load.pc = "read",
         UNCHANGED <<text, edits, forced, watcher, entities, program_map_, object>>,
         failed' \in [Programs -> BOOLEAN], marked' \subseteq marked,
         LoadTyped', LoadInOrder', loads <= loads',
         load' = NoLoad \/ load'.pc = "read",
         load' # NoLoad /\ load = NoLoad => loads' = loads + 1
  PROVE  PoolInv'
<1>1. TextsTyped' /\ FilesTyped' /\ ProgramsTyped' /\ Watching(watcher, entities)'
  BY DEF PoolInv, TextsTyped, FilesTyped, ProgramsTyped
<1>2. /\ load.pc \notin {"sweep", "watch"} /\ load'.pc \notin {"sweep", "watch"}
      /\ load # NoLoad => load.pc = "read"
  BY DEF NoLoad
<1>3. IdsFresh'
  <2>1. ASSUME NEW pair \in watcher.id2wd_
        PROVE  /\ pair[1].load <= loads'
               /\ pair[1].load = loads' => load' = NoLoad
    <3>1. pair[1].load \in Nat /\ loads \in Nat /\ loads' \in Nat
      BY DEF PoolInv, FilesTyped, LoadTyped, Watchers, FileRecord
    <3>2. pair[1].load <= loads /\ (pair[1].load = loads => load = NoLoad)
      BY <1>2 DEF PoolInv, IdsFresh
    <3>3. QED
      BY <3>1, <3>2
  <2>2. watcher' = watcher
    OBVIOUS
  <2>3. QED
    BY <2>1, <2>2 DEF IdsFresh
<1>4. FilesOnce' /\ StagesStay' /\ NothingYet' /\ TreesMatch'
  BY <1>2 DEF PoolInv, FilesOnce, StagesStay, NothingYet, TreesMatch, At, Tree
<1>5. QED
  BY <1>1, <1>3, <1>4 DEF PoolInv


LEMMA BeginKeeps ==
  ASSUME PoolInv, NEW p \in Programs, get(p) \/ (load = NoLoad /\ Begin(p)
           /\ UNCHANGED <<text, inotify, wd_events_, watcher, pool, marked, edits, forced>>)
  PROVE  PoolInv'
<1>1. /\ load = NoLoad /\ Begin(p) /\ loads' = loads + 1
      /\ UNCHANGED <<text, watcher, pool, marked, edits, forced>>
  BY DEF get, Begin
<1>2. /\ load'.pc = "read" /\ load'.program = p /\ load'.id = loads' /\ load'.parts = {}
      /\ load'.rest = Primaries[p]
  BY <1>1 DEF Begin
<1>3. LoadTyped' /\ loads <= loads'
  <2>1. loads \in Nat /\ Primaries[p] \subseteq Files
    BY ProgramsAssumption DEF PoolInv, LoadTyped
  <2>2. QED
    BY <1>1, <2>1 DEF Begin, LoadTyped, LoadRecord
<1>4. LoadInOrder'
  BY <1>2, PartsOfNone DEF LoadInOrder, Reading, Stages
<1>5. failed' \in [Programs -> BOOLEAN]
  BY <1>1 DEF pool, PoolInv, ProgramsTyped
<1>6. QED
  BY <1>1, <1>2, <1>3, <1>4, <1>5, LoadingKeeps DEF pool

\* A file is read.
LEMMA ReadKeeps ==
  ASSUME PoolInv, load.pc = "read",
         UNCHANGED <<text, edits, forced, watcher, pool, marked, loads>>,
         NEW new \in PartRecord, NEW rest, NEW todo \in SUBSET (Files \X Files),
         rest \subseteq load.rest,
         OwnOf(PartsOf({new})) = Stages(load.rest \ rest),
         load' = [load EXCEPT !.rest = rest, !.todo = todo, !.parts = load.parts \cup {new}]
  PROVE  PoolInv'
<1> DEFINE p == load.program
<1>1. load \in LoadRecord /\ load # NoLoad /\ load.rest \subseteq Files
  BY LoadFacts DEF PoolInv, LoadRecord, NoLoad
<1>2. /\ load' \in LoadRecord /\ load'.pc = "read" /\ load'.program = p /\ load'.id = load.id
      /\ load'.rest = rest /\ load'.parts = load.parts \cup {new}
  BY <1>1 DEF LoadRecord
<1>3. LoadTyped'
  BY <1>2 DEF PoolInv, LoadTyped
<1>4. LoadInOrder'
  <2>1. /\ load.id = loads /\ load.rest \subseteq Primaries[p]
        /\ OwnOf(PartsOf(load.parts)) = Stages(Primaries[p] \ load.rest)
    BY <1>1 DEF PoolInv, LoadInOrder, Reading
  <2>2. OwnOf(PartsOf(load.parts \cup {new})) = Stages(Primaries[p] \ rest)
    <3>1. Primaries[p] \ rest = (Primaries[p] \ load.rest) \cup (load.rest \ rest)
      BY <2>1
    <3>2. Stages(Primaries[p] \ rest)
            = Stages(Primaries[p] \ load.rest) \cup Stages(load.rest \ rest)
      BY <3>1 DEF Stages
    <3>3. OwnOf(PartsOf(load.parts \cup {new}))
            = OwnOf(PartsOf(load.parts)) \cup OwnOf(PartsOf({new}))
      BY PartsOfUnion
    <3>4. QED
      BY <2>1, <3>2, <3>3
  <2>3. QED
    BY <1>2, <2>1, <2>2 DEF LoadInOrder, Reading
<1>5. QED
  BY <1>1, <1>2, <1>3, <1>4, LoadingKeeps DEF pool, PoolInv, ProgramsTyped, LoadTyped

LEMMA PartTyped ==
  ASSUME TextsTyped, NEW primary \in Files, NEW f \in Files, NEW included \in BOOLEAN
  PROVE  /\ Part(primary, f, included) \in PartRecord
         /\ Part(primary, f, included).included = included
         /\ Triple(Part(primary, f, included)) = <<primary, f, included>>
BY DEF Part, PartRecord, TextsTyped, Triple

LEMMA ReadPrimaryKeeps ==
  ASSUME PoolInv, NEW primary \in Files, ReadPrimary(primary)
  PROVE  PoolInv'
<1>1. /\ load.pc = "read" /\ primary \in load.rest
      /\ UNCHANGED <<text, edits, forced, watcher, pool, marked, loads>>
  BY DEF ReadPrimary
<1>2. /\ Part(primary, primary, FALSE) \in PartRecord
      /\ Part(primary, primary, FALSE).included = FALSE
      /\ Triple(Part(primary, primary, FALSE)) = <<primary, primary, FALSE>>
  BY PartTyped DEF PoolInv
<1>3. PICK new \in PartRecord : new = Part(primary, primary, FALSE)
  BY <1>2
<1>4. {<<primary, f>> : f \in text[primary].includes} \in SUBSET (Files \X Files)
  BY DEF PoolInv, TextsTyped, TextRecord
<1>5. PICK todo \in SUBSET (Files \X Files) :
          todo = {<<primary, f>> : f \in text[primary].includes}
  BY <1>4
<1>6. PICK rest : rest = load.rest \ {primary}
  OBVIOUS
<1>7. load \in LoadRecord
  BY <1>1, LoadFacts DEF PoolInv, NoLoad
<1>8. load' = [load EXCEPT !.rest = rest, !.todo = todo, !.parts = load.parts \cup {new}]
  BY <1>3, <1>5, <1>6, <1>7 DEF ReadPrimary, LoadRecord
<1>9. OwnOf(PartsOf({new})) = Stages(load.rest \ rest)
  <2>1. load.rest \ rest = {primary}
    BY <1>1, <1>6
  <2>2. Stages({primary}) = {<<primary, primary, FALSE>>}
    BY DEF Stages
  <2>3. QED
    BY <1>2, <1>3, <2>1, <2>2, PartsOfOne
<1>10. rest \subseteq load.rest
  BY <1>6
<1>11. QED
  BY <1>1, <1>8, <1>9, <1>10, ReadKeeps

LEMMA ReadIncludeKeeps ==
  ASSUME PoolInv, NEW primary \in Files, NEW f \in Files, ReadInclude(primary, f)
  PROVE  PoolInv'
<1> DEFINE known == Included(load.parts, primary) \cup {f}
           more  == {<<primary, g>> : g \in text[f].includes \ known}
<1>1. /\ load.pc = "read"
      /\ UNCHANGED <<text, edits, forced, watcher, pool, marked, loads>>
  BY DEF ReadInclude
<1>2. /\ Part(primary, f, TRUE) \in PartRecord /\ Part(primary, f, TRUE).included = TRUE
  BY PartTyped DEF PoolInv
<1>3. PICK new \in PartRecord : new = Part(primary, f, TRUE)
  BY <1>2
<1>4. load \in LoadRecord
  BY <1>1, LoadFacts DEF PoolInv, NoLoad
<1>5. more \in SUBSET (Files \X Files)
  BY DEF PoolInv, TextsTyped, TextRecord
<1>6. (load.todo \ {<<primary, f>>}) \cup more \in SUBSET (Files \X Files)
  BY <1>4, <1>5 DEF LoadRecord
<1>7. load' = [load EXCEPT !.todo = (load.todo \ {<<primary, f>>}) \cup more,
                           !.parts = load.parts \cup {Part(primary, f, TRUE)}]
  BY <1>4 DEF ReadInclude, LoadRecord
<1> HIDE DEF more
<1>8. PICK todo \in SUBSET (Files \X Files) : todo = (load.todo \ {<<primary, f>>}) \cup more
  BY <1>6
<1>9. PICK rest : rest = load.rest
  OBVIOUS
<1>10. load' = [load EXCEPT !.rest = rest, !.todo = todo, !.parts = load.parts \cup {new}]
  BY <1>3, <1>4, <1>7, <1>8, <1>9 DEF LoadRecord
<1>11. OwnOf(PartsOf({new})) = Stages(load.rest \ rest)
  BY <1>2, <1>3, <1>9, PartsOfOne DEF Stages
<1>12. rest \subseteq load.rest
  BY <1>9
<1>13. QED
  BY <1>1, <1>10, <1>11, <1>12, ReadKeeps

LEMMA LoadFailsKeeps ==
  ASSUME PoolInv, LoadFails
  PROVE  PoolInv'
<1>1. /\ load.pc = "read" /\ load' = NoLoad /\ marked' = marked \ {load.program}
      /\ failed' = [failed EXCEPT ![load.program] = TRUE]
      /\ UNCHANGED <<text, edits, forced, watcher, entities, program_map_, object, loads>>
  BY DEF LoadFails, AllRead
<1>2. LoadTyped' /\ LoadInOrder' /\ loads <= loads'
  BY <1>1 DEF PoolInv, LoadTyped, LoadInOrder
<1>3. failed' \in [Programs -> BOOLEAN]
  BY <1>1 DEF PoolInv, ProgramsTyped
<1>4. QED
  BY <1>1, <1>2, <1>3, LoadingKeeps

\* All stages have been read: the program is what it was compiled from.
LEMMA LoadSucceedsKeeps ==
  ASSUME PoolInv, LoadSucceeds
  PROVE  PoolInv'
<1> DEFINE p == load.program
<1>1. /\ load.pc = "read" /\ load.rest = {} /\ object' = [object EXCEPT ![p] = load.parts]
      /\ failed' = [failed EXCEPT ![p] = FALSE] /\ load' = [load EXCEPT !.pc = "sweep"]
      /\ UNCHANGED <<text, edits, forced, watcher, entities, program_map_, marked, loads>>
  BY DEF LoadSucceeds, AllRead
<1>2. load \in LoadRecord /\ load # NoLoad /\ p \in Programs
  BY <1>1, LoadFacts DEF PoolInv, NoLoad
<1>3. /\ load' \in LoadRecord /\ load'.pc = "sweep" /\ load'.program = p
      /\ load'.id = load.id /\ load'.parts = load.parts /\ load' # NoLoad
  BY <1>1, <1>2 DEF LoadRecord, NoLoad
<1>4. /\ \A q \in Programs : object'[q] = IF q = p THEN load.parts ELSE object[q]
      /\ object' \in [Programs -> SUBSET PartRecord]
  BY <1>1, <1>2 DEF PoolInv, ProgramsTyped, LoadRecord
<1>5. TextsTyped' /\ FilesTyped' /\ ProgramsTyped' /\ LoadTyped'
  BY <1>1, <1>3, <1>4 DEF PoolInv, TextsTyped, FilesTyped, ProgramsTyped, LoadTyped
<1>6. Watching(watcher, entities)' /\ FilesOnce' /\ StagesStay'
  BY <1>1 DEF PoolInv, FilesOnce, StagesStay, Tree
<1>7. IdsFresh'
  <2>1. \A pair \in watcher.id2wd_ : pair[1].load <= loads /\ pair[1].load # loads
    BY <1>1, <1>2 DEF PoolInv, IdsFresh
  <2>2. watcher' = watcher /\ loads' = loads
    BY <1>1
  <2>3. QED
    BY <2>1, <2>2 DEF IdsFresh
<1>8. NothingYet' /\ TreesMatch'
  <2>1. ASSUME NEW q \in Programs
        PROVE  /\ At(q, {"sweep", "watch"})' <=> q = p
               /\ ~At(q, {"sweep", "watch"}) /\ ~At(q, {"watch"}) /\ Tree(q)' = Tree(q)
    BY <1>1, <1>3 DEF At, Tree
  <2>2. program_map_' = program_map_
    BY <1>1
  <2>3. QED
    BY <1>4, <2>1, <2>2 DEF PoolInv, NothingYet, TreesMatch
<1>9. LoadInOrder'
  <2>1. load.id = loads /\ OwnOf(PartsOf(load.parts)) = Stages(Primaries[p])
    BY <1>1, <1>2 DEF PoolInv, LoadInOrder, Reading
  <2>2. object'[p] = load.parts
    BY <1>2, <1>4
  <2>3. QED
    BY <1>1, <1>3, <2>1, <2>2 DEF LoadInOrder
<1>10. QED
  BY <1>5, <1>6, <1>7, <1>8, <1>9 DEF PoolInv


\* A file that was included goes, with its watch.
LEMMA DestroyKeeps ==
  ASSUME PoolInv, load.pc = "sweep", NEW e \in Secondaries(load.program), DestroySecondary(e)
  PROVE  PoolInv'
<1> DEFINE p == load.program
<1>1. load \in LoadRecord /\ load # NoLoad /\ p \in Programs
  BY LoadFacts DEF PoolInv, NoLoad
<1>2. e \in entities /\ e.program = p /\ e.included /\ e \in FileRecord
  BY DEF Secondaries, PoolInv, FilesTyped
<1>3. /\ entities' = entities \ {e} /\ watcher' = stop_watching(watcher, e)
      /\ UNCHANGED <<text, program_map_, object, failed, marked, load, loads, edits, forced>>
  BY DEF DestroySecondary
<1>4. /\ watcher' \in Watchers /\ Watching(watcher', entities')
      /\ IsFiniteSet(watcher'.wd2id_) /\ watcher'.id2wd_ \subseteq watcher.id2wd_
  BY <1>2, <1>3, StopKeeps DEF PoolInv, FilesTyped
<1>5. TextsTyped' /\ FilesTyped' /\ ProgramsTyped' /\ LoadTyped' /\ Watching(watcher, entities)'
  <2>1. IsFiniteSet(entities \ {e})
    BY FS_RemoveElement DEF PoolInv, FilesTyped
  <2>2. QED
    BY <1>3, <1>4, <2>1 DEF PoolInv, TextsTyped, FilesTyped, ProgramsTyped, LoadTyped
<1>6. IdsFresh'
  <2>1. \A pair \in watcher.id2wd_ : pair[1].load <= loads /\ pair[1].load # loads
    BY <1>1 DEF PoolInv, IdsFresh
  <2>2. QED
    BY <1>3, <1>4, <2>1 DEF IdsFresh
<1>7. FilesOnce'
  BY <1>3 DEF PoolInv, FilesOnce
<1>8. \A q \in Programs : Tree(q)' = IF q = p THEN Tree(p) \ {e} ELSE Tree(q)
  BY <1>2, <1>3 DEF Tree
<1>9. OwnOf(PartsOf(Tree(p) \ {e})) = OwnOf(PartsOf(Tree(p)))
  <2>1. Tree(p) = (Tree(p) \ {e}) \cup {e}
    BY <1>2 DEF Tree
  <2>2. OwnOf(PartsOf({e})) = {}
    BY <1>2, PartsOfOne DEF FileRecord
  <2>3. OwnOf(PartsOf((Tree(p) \ {e}) \cup {e}))
          = OwnOf(PartsOf(Tree(p) \ {e})) \cup OwnOf(PartsOf({e}))
    BY PartsOfUnion
  <2>4. QED
    BY <2>1, <2>2, <2>3
<1>10. StagesStay'
  <2>1. \A q \in Programs : OwnOf(PartsOf(Tree(q)')) = OwnOf(PartsOf(Tree(q)))
    BY <1>8, <1>9
  <2>2. \A q \in program_map_ : q \in Programs
    BY DEF PoolInv, ProgramsTyped
  <2>3. QED
    BY <1>3, <2>1, <2>2 DEF PoolInv, StagesStay, OwnOf, PartsOf
<1>11. NothingYet' /\ TreesMatch'
  <2>1. \A q \in Programs : At(q, {"sweep", "watch"})' = At(q, {"sweep", "watch"})
                            /\ At(q, {"watch"})' = At(q, {"watch"})
    BY <1>3 DEF At
  <2>2. At(p, {"sweep", "watch"})
    BY DEF At
  <2>3. \A q \in Programs : Tree(q) = {} => Tree(q)' = {}
    BY <1>8
  <2>4. NothingYet'
    BY <1>3, <2>1, <2>3 DEF PoolInv, NothingYet
  <2>5. \A q \in Programs : q # p => PartsOf(Tree(q))' = PartsOf(Tree(q))
    BY <1>8 DEF PartsOf
  <2>6. TreesMatch'
    BY <1>3, <2>1, <2>2, <2>5 DEF PoolInv, TreesMatch, PartsOf
  <2>7. QED
    BY <2>4, <2>6
<1>12. LoadInOrder'
  BY <1>1, <1>3 DEF PoolInv, LoadInOrder
<1>13. QED
  BY <1>5, <1>6, <1>7, <1>10, <1>11, <1>12 DEF PoolInv

\* What remains of the program are its stages, or nothing if it is new.
LEMMA SweptKeeps ==
  ASSUME PoolInv, Swept
  PROVE  PoolInv'
<1> DEFINE p == load.program
<1>1. /\ load.pc = "sweep" /\ Secondaries(p) = {}
      /\ load' = [load EXCEPT !.pc = "watch", !.parts = ToWatch]
      /\ UNCHANGED <<text, watcher, pool, marked, loads, edits, forced>>
  BY DEF Swept
<1>2. load \in LoadRecord /\ load # NoLoad /\ p \in Programs
  BY <1>1, LoadFacts DEF PoolInv, NoLoad
<1>3. ToWatch \in SUBSET load.parts /\ load.parts \in SUBSET PartRecord
  BY <1>2 DEF ToWatch, LoadRecord
<1>4. /\ load' \in LoadRecord /\ load'.pc = "watch" /\ load'.program = p
      /\ load'.id = load.id /\ load'.parts = ToWatch
  BY <1>1, <1>2, <1>3 DEF LoadRecord
<1>5. TextsTyped' /\ FilesTyped' /\ ProgramsTyped' /\ LoadTyped' /\ Watching(watcher, entities)'
  BY <1>1, <1>4 DEF pool, PoolInv, TextsTyped, FilesTyped, ProgramsTyped, LoadTyped
<1>6. IdsFresh'
  <2>1. \A pair \in watcher.id2wd_ : pair[1].load <= loads /\ pair[1].load # loads
    BY <1>1, <1>2 DEF PoolInv, IdsFresh
  <2>2. QED
    BY <1>1, <2>1 DEF IdsFresh
<1>7. FilesOnce' /\ StagesStay'
  BY <1>1 DEF pool, PoolInv, FilesOnce, StagesStay, Tree
<1>8. NothingYet' /\ TreesMatch'
  <2>1. \A q \in Programs : /\ At(q, {"sweep", "watch"})' = At(q, {"sweep", "watch"})
                            /\ At(q, {"watch"}) => At(q, {"watch"})'
                            /\ Tree(q)' = Tree(q)
    BY <1>1, <1>4 DEF At, Tree, pool
  <2>2. UNCHANGED <<program_map_, object>>
    BY <1>1 DEF pool
  <2>3. QED
    BY <2>1, <2>2 DEF PoolInv, NothingYet, TreesMatch, PartsOf
<1>9. /\ load.id = loads /\ load.parts = object[p]
      /\ OwnOf(PartsOf(object[p])) = Stages(Primaries[p])
  BY <1>1, <1>2 DEF PoolInv, LoadInOrder
<1>10. \A e \in Tree(p) : e.included = FALSE
  BY <1>1 DEF Secondaries, Tree, PoolInv, FilesTyped, FileRecord
<1>11. PartsOf(object[p]) = PartsOf(Tree(p)) \cup PartsOf(ToWatch)
  <2>1. CASE p \in program_map_
    <3>1. ToWatch = {part \in object[p] : part.included}
      BY <1>9, <2>1 DEF ToWatch
    <3>2. PartsOf(Tree(p)) = OwnOf(PartsOf(Tree(p)))
      BY <1>10 DEF PartsOf, OwnOf
    <3>3. PartsOf(Tree(p)) = OwnOf(PartsOf(object[p]))
      BY <1>9, <2>1, <3>2 DEF PoolInv, StagesStay
    <3>4. \A part \in object[p] : part.included \in BOOLEAN
      BY <1>3, <1>9 DEF PartRecord
    <3>5. PartsOf(object[p]) = OwnOf(PartsOf(object[p]))
                                 \cup PartsOf({part \in object[p] : part.included})
      BY <3>4 DEF PartsOf, OwnOf
    <3>6. QED
      BY <3>1, <3>3, <3>5
  <2>2. CASE p \notin program_map_
    <3>1. ToWatch = object[p]
      BY <1>9, <2>2 DEF ToWatch
    <3>2. Tree(p) = {}
      BY <1>1, <1>2, <2>2 DEF PoolInv, NothingYet, At
    <3>3. QED
      BY <3>1, <3>2, PartsOfNone
  <2>3. QED
    BY <2>1, <2>2
<1>12. Replacing(p)'
  <2>1. p \in program_map_ => \A x \in ToWatch : x.included
    BY DEF ToWatch
  <2>2. p \notin program_map_ => Tree(p) = {}
    BY <1>1, <1>2 DEF PoolInv, NothingYet, At
  <2>3. UNCHANGED <<object, entities, program_map_, loads>>
    BY <1>1 DEF pool
  <2>4. QED
    BY <1>4, <1>10, <1>11, <2>1, <2>2, <2>3 DEF Replacing, Tree, PartsOf
<1>13. LoadInOrder'
  <2>1. UNCHANGED <<object, loads>>
    BY <1>1 DEF pool
  <2>2. QED
    BY <1>4, <1>9, <1>12, <2>1 DEF LoadInOrder
<1>14. QED
  BY <1>5, <1>6, <1>7, <1>8, <1>13 DEF PoolInv


\* A file of the load gets its entity and its watch.
LEMMA EmplaceKeeps ==
  ASSUME PoolInv, load.pc = "watch", NEW part \in load.parts, EmplaceFile(part)
  PROVE  PoolInv'
<1> DEFINE p == load.program
<1>1. load \in LoadRecord /\ load # NoLoad /\ p \in Programs /\ part \in PartRecord
  BY LoadFacts DEF PoolInv, NoLoad
<1>2. load.id = loads /\ loads \in Nat /\ Replacing(p)
      /\ OwnOf(PartsOf(object[p])) = Stages(Primaries[p])
  BY <1>1 DEF PoolInv, LoadInOrder, LoadTyped
<1>3. PICK e : e = Entity(part)
  OBVIOUS
<1>4. /\ e \in FileRecord /\ e.program = p /\ e.load = loads /\ e.file = part.file
      /\ e.included = part.included /\ Triple(e) = Triple(part)
  BY <1>1, <1>2, <1>3 DEF Entity, FileRecord, PartRecord, Triple
<1>5. /\ entities' = entities \cup {e} /\ watcher' = watch(watcher, e, e.file)
      /\ load' = [load EXCEPT !.parts = load.parts \ {part}]
      /\ UNCHANGED <<text, program_map_, object, failed, marked, loads, edits, forced>>
  BY <1>1, <1>3, <1>4 DEF EmplaceFile, LoadRecord
<1>6. \A pair \in watcher.id2wd_ : pair[1] = e => e \in entities
  BY <1>1, <1>4 DEF PoolInv, IdsFresh
<1>7. /\ watcher' \in Watchers /\ Watching(watcher', entities')
      /\ IsFiniteSet(watcher'.wd2id_)
      /\ \A pair \in watcher'.id2wd_ : pair \in watcher.id2wd_ \/ pair[1] = e
  BY <1>4, <1>5, <1>6, WatchKeeps DEF PoolInv, FilesTyped
<1>8. /\ load' \in LoadRecord /\ load'.pc = "watch" /\ load'.program = p
      /\ load'.id = load.id /\ load'.parts = load.parts \ {part}
  BY <1>1, <1>5 DEF LoadRecord
<1>9. TextsTyped' /\ FilesTyped' /\ ProgramsTyped' /\ LoadTyped' /\ Watching(watcher, entities)'
  <2>1. IsFiniteSet(entities \cup {e})
    BY FS_AddElement DEF PoolInv, FilesTyped
  <2>2. QED
    BY <1>4, <1>5, <1>7, <1>8, <2>1
    DEF PoolInv, TextsTyped, FilesTyped, ProgramsTyped, LoadTyped
<1>10. IdsFresh'
  <2>1. ASSUME NEW pair \in watcher'.id2wd_
        PROVE  pair[1].load <= loads /\ (pair[1].load = loads => pair[1] \in entities')
    <3>1. CASE pair \in watcher.id2wd_
      BY <1>1, <1>5, <3>1 DEF PoolInv, IdsFresh
    <3>2. CASE pair[1] = e
      BY <1>2, <1>4, <1>5, <3>2
    <3>3. QED
      BY <1>7, <3>1, <3>2
  <2>2. QED
    BY <1>5, <1>8, <2>1 DEF IdsFresh
<1>11. \A a \in entities : a.program = p /\ Triple(a) = Triple(e) => a = e
  <2>1. ASSUME NEW a \in entities, a.program = p, Triple(a) = Triple(e) PROVE a = e
    <3>1. a \in FileRecord /\ a \in Tree(p)
      BY <2>1 DEF PoolInv, FilesTyped, Tree
    <3>2. a.primary = e.primary /\ a.file = e.file /\ a.included = e.included
      BY <2>1 DEF Triple
    <3>3. e.included \/ p \notin program_map_
      BY <1>2, <1>4 DEF Replacing
    <3>4. a.load = e.load
      BY <1>2, <1>4, <3>1, <3>2, <3>3 DEF Replacing
    <3>5. QED
      BY <1>4, <2>1, <3>1, <3>2, <3>4 DEF FileRecord
  <2>2. QED
    BY <2>1
<1>12. FilesOnce'
  BY <1>4, <1>5, <1>11 DEF PoolInv, FilesOnce
<1>13. \A q \in Programs : Tree(q)' = IF q = p THEN Tree(p) \cup {e} ELSE Tree(q)
  BY <1>4, <1>5 DEF Tree
<1>14. PartsOf(Tree(p) \cup {e}) = PartsOf(Tree(p)) \cup {Triple(part)}
  <2>1. PartsOf(Tree(p) \cup {e}) = PartsOf(Tree(p)) \cup PartsOf({e})
    BY PartsOfUnion
  <2>2. QED
    BY <1>4, <2>1, PartsOfOne
<1>15. StagesStay'
  <2>1. ASSUME p \in program_map_
        PROVE  OwnOf(PartsOf(Tree(p) \cup {e})) = OwnOf(PartsOf(Tree(p)))
    <3>1. e.included = TRUE
      BY <1>2, <1>4, <2>1 DEF Replacing, FileRecord
    <3>2. OwnOf(PartsOf(Tree(p) \cup {e}))
            = OwnOf(PartsOf(Tree(p))) \cup OwnOf(PartsOf({e}))
      BY PartsOfUnion
    <3>3. QED
      BY <3>1, <3>2, PartsOfOne
  <2>2. \A q \in program_map_ : OwnOf(PartsOf(Tree(q)')) = OwnOf(PartsOf(Tree(q)))
    BY <1>13, <2>1 DEF PoolInv, ProgramsTyped
  <2>3. QED
    BY <1>5, <2>2 DEF PoolInv, StagesStay, OwnOf, PartsOf
<1>16. NothingYet' /\ TreesMatch'
  <2>1. \A q \in Programs : /\ At(q, {"sweep", "watch"})' = At(q, {"sweep", "watch"})
                            /\ At(q, {"watch"})' = At(q, {"watch"})
                            /\ q # p => Tree(q)' = Tree(q)
    BY <1>8, <1>13 DEF At
  <2>2. At(p, {"sweep", "watch"}) /\ At(p, {"watch"})
    BY DEF At
  <2>3. UNCHANGED <<program_map_, object>>
    BY <1>5
  <2>4. QED
    BY <2>1, <2>2, <2>3 DEF PoolInv, NothingYet, TreesMatch, PartsOf
<1>17. Replacing(p)'
  <2>1. PartsOf(load.parts) = PartsOf(load.parts \ {part}) \cup {Triple(part)}
    <3>1. load.parts = (load.parts \ {part}) \cup {part}
      OBVIOUS
    <3>2. PartsOf((load.parts \ {part}) \cup {part})
            = PartsOf(load.parts \ {part}) \cup PartsOf({part})
      BY PartsOfUnion
    <3>3. QED
      BY <3>1, <3>2, PartsOfOne
  <2>2. PartsOf(object[p]) = PartsOf(Tree(p) \cup {e}) \cup PartsOf(load.parts \ {part})
    BY <1>2, <1>14, <2>1 DEF Replacing
  <2>3. /\ p \in program_map_ => \A x \in load.parts \ {part} : x.included
        /\ \A a \in Tree(p) \cup {e} : a.included \/ p \notin program_map_ => a.load = loads
    BY <1>2, <1>4 DEF Replacing
  <2>4. Tree(p)' = Tree(p) \cup {e} /\ object' = object
    BY <1>1, <1>5, <1>13
  <2>5. QED
    BY <1>5, <1>8, <2>2, <2>3, <2>4 DEF Replacing, PartsOf
<1>18. LoadInOrder'
  BY <1>2, <1>5, <1>8, <1>17 DEF LoadInOrder
<1>19. QED
  BY <1>9, <1>10, <1>12, <1>15, <1>16, <1>18 DEF PoolInv

\* The program is there, with its stages and what they include.
LEMMA LoadEndsKeeps ==
  ASSUME PoolInv, LoadEnds
  PROVE  PoolInv'
<1> DEFINE p == load.program
<1>1. /\ load.pc = "watch" /\ load.parts = {} /\ load' = NoLoad
      /\ program_map_' = program_map_ \cup {p} /\ marked' = marked \ {p}
      /\ UNCHANGED <<text, watcher, entities, object, failed, loads, edits, forced>>
  BY DEF LoadEnds
<1>2. load \in LoadRecord /\ load # NoLoad /\ p \in Programs
  BY <1>1, LoadFacts DEF PoolInv, NoLoad
<1>3. TextsTyped' /\ FilesTyped' /\ ProgramsTyped' /\ LoadTyped' /\ Watching(watcher, entities)'
  BY <1>1, <1>2 DEF PoolInv, TextsTyped, FilesTyped, ProgramsTyped, LoadTyped
<1>4. IdsFresh' /\ FilesOnce'
  BY <1>1 DEF PoolInv, IdsFresh, FilesOnce
<1>5. \A q \in Programs : Tree(q)' = Tree(q)
  BY <1>1 DEF Tree
<1>6. PartsOf(object[p]) = PartsOf(Tree(p)) /\ OwnOf(PartsOf(object[p])) = Stages(Primaries[p])
  BY <1>1, <1>2, PartsOfNone DEF PoolInv, LoadInOrder, Replacing
<1>7. StagesStay'
  <2>1. \A q \in program_map_ \cup {p} : OwnOf(PartsOf(Tree(q))) = Stages(Primaries[q])
    BY <1>6 DEF PoolInv, StagesStay
  <2>2. QED
    BY <1>1, <2>1 DEF StagesStay, Tree
<1>8. \A q \in Programs : /\ ~At(q, {"sweep", "watch"})' /\ ~At(q, {"watch"})'
                          /\ q # p => ~At(q, {"sweep", "watch"}) /\ ~At(q, {"watch"})
  BY <1>1 DEF At, NoLoad
<1>9. NothingYet'
  BY <1>1, <1>5, <1>8 DEF PoolInv, NothingYet
<1>10. TreesMatch'
  <2>1. \A q \in Programs : PartsOf(object[q]) = PartsOf(Tree(q))
    BY <1>6, <1>8 DEF PoolInv, TreesMatch
  <2>2. QED
    BY <1>1, <2>1 DEF TreesMatch, Tree
<1>11. LoadInOrder'
  BY <1>1 DEF LoadInOrder
<1>12. QED
  BY <1>3, <1>4, <1>7, <1>9, <1>10, <1>11 DEF PoolInv

LEMMA PoolInitHolds ==
  ASSUME PoolInit
  PROVE  PoolInv
<1>1. /\ entities = {} /\ program_map_ = {} /\ marked = {} /\ load = NoLoad /\ loads = 0
      /\ \A q \in Programs : object[q] = {}
  BY DEF PoolInit
<1>2. /\ watcher.kernel = [f \in Files |-> 0] /\ watcher.next_wd = 1
      /\ watcher.wd2id_ = {} /\ watcher.id2wd_ = {} /\ watcher \in Watchers
  BY DEF PoolInit, NewWatcher, Watchers
<1>3. TextsTyped
  <2>1. ASSUME NEW f \in Files
        PROVE  [rev |-> 0, includes |-> FirstTexts[f].includes, ok |-> FirstTexts[f].ok,
                saved_in |-> {}] \in TextRecord
    BY ProgramsAssumption DEF TextRecord
  <2>2. QED
    BY <2>1, ProgramsAssumption DEF PoolInit, TextsTyped
<1>4. FilesTyped
  BY <1>1, <1>2, FS_EmptySet DEF FilesTyped
<1>5. ProgramsTyped /\ LoadTyped
  BY ProgramsAssumption DEF PoolInit, ProgramsTyped, LoadTyped
<1>6. Watching(watcher, entities)
  BY <1>1, <1>2 DEF Watching
<1>7. \A q \in Programs : Tree(q) = {}
  BY <1>1 DEF Tree
<1>8. IdsFresh /\ FilesOnce /\ StagesStay /\ NothingYet /\ TreesMatch /\ LoadInOrder
  BY <1>1, <1>2, <1>7 DEF IdsFresh, FilesOnce, StagesStay, NothingYet, TreesMatch, LoadInOrder
<1>9. QED
  BY <1>3, <1>4, <1>5, <1>6, <1>8 DEF PoolInv

LEMMA PoolStepKeeps ==
  ASSUME PoolInv, [PoolNext]_pool_vars
  PROVE  PoolInv'
<1>1. CASE sweep_reload_marked
  <2>1. PICK p \in marked : Begin(p)
    BY <1>1 DEF sweep_reload_marked
  <2>2. p \in Programs
    BY DEF PoolInv, ProgramsTyped
  <2>3. QED
    BY <1>1, <2>1, <2>2, BeginKeeps DEF sweep_reload_marked
<1>2. CASE Loading
  <2>1. CASE \E f \in Files : ReadPrimary(f) \/ \E g \in Files : ReadInclude(f, g)
    BY <2>1, ReadPrimaryKeeps, ReadIncludeKeeps
  <2>2. CASE load.pc = "sweep" /\ Secondaries(load.program) # {}
             /\ DestroySecondary(SomeOf(Secondaries(load.program)))
    <3>1. SomeOf(Secondaries(load.program)) \in Secondaries(load.program)
      BY <2>2, SomeOfIs
    <3>2. PICK e \in Secondaries(load.program) : e = SomeOf(Secondaries(load.program))
      BY <3>1
    <3>3. DestroySecondary(e)
      BY <2>2, <3>2
    <3>4. QED
      BY <2>2, <3>3, DestroyKeeps
  <2>3. CASE load.pc = "watch" /\ load.parts # {} /\ EmplaceFile(SomeOf(load.parts))
    <3>1. PICK part \in load.parts : part = SomeOf(load.parts)
      BY <2>3, SomeOfIs
    <3>2. EmplaceFile(part)
      BY <2>3, <3>1
    <3>3. QED
      BY <2>3, <3>2, EmplaceKeeps
  <2>4. QED
    BY <1>2, <2>1, <2>2, <2>3, LoadFailsKeeps, LoadSucceedsKeeps, SweptKeeps, LoadEndsKeeps
    DEF Loading
<1>3. QED
  BY <1>1, <1>2, BeginKeeps, HotReloadKeeps, ForceReloadKeeps, ReadThreadKeeps, SaveKeeps
  DEF PoolNext, Reload, QuietFrame

-----------------------------------------------------------------------------
(* ShaderPool: the theorems *)

\* In whatever order programs are got and reloaded, files are saved and events
\* arrive, the pool and the watcher are in a state of the invariant.
LEMMA PoolInvariant == PoolSpec => []PoolInv
BY PoolInitHolds, PoolStepKeeps, PTL DEF PoolSpec

\* The files, the programs, the load and the counters have their types.
THEOREM PoolTypeCorrect == PoolSpec => []PoolTypeOK
<1>1. PoolInv => PoolTypeOK
  <2> SUFFICES ASSUME PoolInv PROVE PoolTypeOK
    OBVIOUS
  <2>1. \A f \in Files : text[f].rev \in 0 .. MaxEdits
    BY ProgramsAssumption DEF PoolInv, TextsTyped, TextRecord
  <2>2. watcher.kernel \in [Files -> Nat]
    BY DEF PoolInv, FilesTyped, Watchers
  <2>3. \A e \in entities : e.program \in Programs /\ IsPart(e)
    BY DEF PoolInv, FilesTyped, FileRecord, IsPart
  <2>4. \A p \in Programs : \A part \in object[p] : IsPart(part)
    BY DEF PoolInv, ProgramsTyped, PartRecord, IsPart
  <2>5. load.pc \in {"none", "read", "sweep", "watch"}
    BY DEF PoolInv, LoadTyped, LoadRecord, NoLoad
  <2>6. QED
    BY <2>1, <2>2, <2>3, <2>4, <2>5 DEF PoolTypeOK, PoolInv, TextsTyped, ProgramsTyped
<1>2. QED
  BY <1>1, PoolInvariant, PTL

\* The maps of the watcher and the files of the registry agree, and between
\* two loads a program has the files it was compiled from, each once.
THEOREM WatchesStayRight == PoolSpec => []WatchesAreRight
<1>1. PoolInv => WatchesMatchFiles
  BY DEF PoolInv, Watching, WatchesMatchFiles
<1>2. PoolInv => ProgramsWatchTheirParts
  <2> SUFFICES ASSUME PoolInv, load = NoLoad, NEW p \in Programs
               PROVE  /\ PartsOf(object[p]) = PartsOf(Tree(p))
                      /\ Cardinality(Tree(p)) = Cardinality(PartsOf(Tree(p)))
    BY DEF ProgramsWatchTheirParts, Tree
  <2>1. PartsOf(object[p]) = PartsOf(Tree(p))
    BY DEF PoolInv, TreesMatch, At, NoLoad
  <2>2. IsFiniteSet(Tree(p))
    BY FS_Subset DEF PoolInv, FilesTyped, Tree
  <2>3. \A a, b \in Tree(p) : Triple(a) = Triple(b) => a = b
    BY DEF PoolInv, FilesOnce, Tree
  <2>4. QED
    BY <2>1, <2>2, <2>3, PartsCounted
<1>3. QED
  BY <1>1, <1>2, PoolInvariant, PTL DEF WatchesAreRight

(***************************************************************************)
(* An event finds its files: for whichever programs a file is watched, the *)
(* descriptor inotify has for it leads to the entities of that file, all   *)
(* of them and no other.                                                   *)
(***************************************************************************)
EventsFindTheirFiles ==
    \A f \in Files : watcher.kernel[f] # 0 =>
        Subscribed(watcher, watcher.kernel[f]) = {e \in entities : e.file = f}

\* hot_reload() marks every program that has the file that was saved, and none
\* that has not, however many share it and whichever came and went before.
THEOREM EventsReachTheirPrograms == PoolSpec => []EventsFindTheirFiles
<1>1. PoolInv => EventsFindTheirFiles
  <2> SUFFICES ASSUME PoolInv, NEW f \in Files, watcher.kernel[f] # 0
               PROVE  Subscribed(watcher, watcher.kernel[f]) = {e \in entities : e.file = f}
    BY DEF EventsFindTheirFiles
  <2>1. \A e \in entities : e.file \in Files
    BY DEF PoolInv, FilesTyped, FileRecord
  <2>2. watcher.wd2id_ = {<<watcher.kernel[e.file], e>> : e \in entities}
    BY DEF PoolInv, Watching
  <2>3. \A e \in entities : watcher.kernel[e.file] = watcher.kernel[f] => e.file = f
    BY <2>1 DEF PoolInv, Watching
  <2>4. ASSUME NEW e PROVE e \in Subscribed(watcher, watcher.kernel[f])
                           <=> <<watcher.kernel[f], e>> \in watcher.wd2id_
    <3>1. \A pair \in watcher.wd2id_ : pair = <<pair[1], pair[2]>>
      BY <2>2
    <3>2. QED
      BY <3>1 DEF Subscribed
  <2>5. ASSUME NEW e PROVE <<watcher.kernel[f], e>> \in watcher.wd2id_
                           <=> e \in entities /\ e.file = f
    BY <2>2, <2>3
  <2>6. QED
    BY <2>4, <2>5
<1>2. QED
  BY <1>1, PoolInvariant, PTL

-----------------------------------------------------------------------------
(* ShaderPool: descriptors and the events that are still on their way *)

InQueue(q) == {q[i] : i \in DOMAIN q}

(* In the queue of the kernel, or in that of the watcher. *)
Queued == InQueue(inotify) \cup InQueue(wd_events_)

LEMMA Appended ==
  ASSUME NEW q \in Seq(Nat), NEW n \in Nat
  PROVE  Append(q, n) \in Seq(Nat) /\ InQueue(Append(q, n)) = InQueue(q) \cup {n}
<1> DEFINE r == Append(q, n)
<1>1. /\ r \in Seq(Nat) /\ DOMAIN r = 1..(Len(q) + 1) /\ DOMAIN q = 1..Len(q) /\ Len(q) \in Nat
      /\ \A i \in 1..Len(q) : r[i] = q[i]
      /\ r[Len(q) + 1] = n
  OBVIOUS
<1> HIDE DEF r
<1>2. InQueue(r) \subseteq InQueue(q) \cup {n}
  <2>1. ASSUME NEW i \in DOMAIN r PROVE r[i] \in InQueue(q) \cup {n}
    <3>1. i \in 1..Len(q) \/ i = Len(q) + 1
      BY <1>1
    <3>2. QED
      BY <1>1, <3>1 DEF InQueue
  <2>2. QED
    BY <2>1 DEF InQueue
<1>3. InQueue(q) \subseteq InQueue(r)
  <2>1. ASSUME NEW i \in DOMAIN q PROVE i \in DOMAIN r /\ r[i] = q[i]
    BY <1>1
  <2>2. QED
    BY <2>1 DEF InQueue
<1>4. n \in InQueue(r)
  <2>1. Len(q) + 1 \in DOMAIN r
    BY <1>1
  <2>2. QED
    BY <1>1, <2>1 DEF InQueue
<1>5. QED
  BY <1>1, <1>2, <1>3, <1>4 DEF r

LEMMA Dequeued ==
  ASSUME NEW q \in Seq(Nat), q # <<>>
  PROVE  /\ Head(q) \in Nat /\ Tail(q) \in Seq(Nat)
         /\ Head(q) \in InQueue(q) /\ InQueue(Tail(q)) \subseteq InQueue(q)
<1>1. /\ 1 \in DOMAIN q /\ Head(q) = q[1] /\ q[1] \in Nat /\ Tail(q) \in Seq(Nat)
      /\ \A i \in DOMAIN Tail(q) : i + 1 \in DOMAIN q /\ Tail(q)[i] = q[i + 1]
  OBVIOUS
<1>2. QED
  BY <1>1 DEF InQueue

(***************************************************************************)
(* A file that is watched keeps its descriptor for as long as somebody has *)
(* the file, also while a reload takes some of its watches and adds them   *)
(* again; a file that gets one gets none that an event is still queued     *)
(* for.  So events that were queued before a reload are for the file that  *)
(* was saved, or for nobody (hot_reload(), ShaderPool.cpp:515).            *)
(***************************************************************************)
DescriptorsAreKept ==
    \A f \in Files : watcher'.kernel[f] # watcher.kernel[f] =>
        /\ watcher.kernel[f] # 0 => \A e \in entities' : e.file # f
        /\ watcher'.kernel[f] \notin Queued

EventsKnown == /\ inotify \in Seq(Nat) /\ wd_events_ \in Seq(Nat)
               /\ \A wd \in Queued : 0 < wd /\ wd < watcher.next_wd

\* What a step does to the descriptors.
Redescribed == /\ watcher'.next_wd \in Nat /\ watcher.next_wd <= watcher'.next_wd
               /\ \A f \in Files : \/ watcher'.kernel[f] = watcher.kernel[f]
                                   \/ watcher'.kernel[f] = 0
                                   \/ /\ watcher.kernel[f] = 0
                                      /\ watcher'.kernel[f] = watcher.next_wd

LEMMA DestroyRedescribes ==
  ASSUME PoolInv, NEW e \in entities, DestroySecondary(e)
  PROVE  Redescribed
<1>1. watcher \in Watchers /\ e \in FileRecord /\ Watching(watcher, entities)
  BY DEF PoolInv, FilesTyped
<1>2. WdOf(watcher, e) = watcher.kernel[e.file]
  BY <1>1, WdOfIs DEF PoolInv, FilesTyped
<1>3. watcher.kernel[e.file] \in Nat
  BY <1>1 DEF Watchers, FileRecord
<1>4. watcher' = stop_watching(watcher, e)
  BY DEF DestroySecondary
<1>5. PICK W \in Watchers : W = watcher
  BY <1>1
<1>6. PICK wd \in Nat : wd = watcher.kernel[e.file]
  BY <1>3
<1>7. /\ stop_watching(W, e).next_wd = W.next_wd
      /\ \/ stop_watching(W, e).kernel = W.kernel
         \/ stop_watching(W, e).kernel = [f \in Files |-> IF W.kernel[f] = wd THEN 0
                                                          ELSE W.kernel[f]]
  BY <1>1, <1>2, <1>5, <1>6, StopIs
<1>8. W.next_wd \in Nat
  BY DEF Watchers
<1>9. QED
  BY <1>4, <1>5, <1>7, <1>8 DEF Redescribed

LEMMA EmplaceRedescribes ==
  ASSUME PoolInv, load.pc = "watch", NEW part \in load.parts, EmplaceFile(part)
  PROVE  Redescribed
<1>1. /\ watcher \in Watchers /\ Watching(watcher, entities)
      /\ part \in PartRecord /\ load \in LoadRecord
  BY LoadFacts DEF PoolInv, FilesTyped, NoLoad
<1>2. watcher' = watch(watcher, Entity(part), part.file)
  BY DEF EmplaceFile
<1>3. Entity(part) \in FileRecord /\ part.file \in Files
  BY <1>1 DEF Entity, FileRecord, LoadRecord, PartRecord
<1>4. PICK W \in Watchers : W = watcher
  BY <1>1
<1>5. PICK f \in Files : f = part.file
  BY <1>3
<1>6. PICK id \in FileRecord : id = Entity(part)
  BY <1>3
<1>7. W.kernel[f] < W.next_wd /\ W.next_wd \in Nat /\ W.kernel \in [Files -> Nat]
  BY <1>1, <1>4 DEF Watching, Watchers
<1>8. PICK A \in Watchers : A = AddWatch(W, f)
  BY <1>7, AddWatchIs
<1>9. /\ W.kernel[f] # 0 => A = W
      /\ W.kernel[f] = 0 => /\ A.kernel = [W.kernel EXCEPT ![f] = W.next_wd]
                            /\ A.next_wd = W.next_wd + 1
  BY <1>7, <1>8, AddWatchIs
<1>10. watcher'.kernel = A.kernel /\ watcher'.next_wd = A.next_wd
  BY <1>2, <1>4, <1>5, <1>6, <1>8, WatchIs
<1>11. QED
  BY <1>4, <1>7, <1>9, <1>10 DEF Redescribed

\* Nothing else touches the watcher.
LEMMA StepRedescribes ==
  ASSUME PoolInv, [PoolNext]_pool_vars
  PROVE  Redescribed
<1>1. watcher.next_wd \in Nat
  BY DEF PoolInv, FilesTyped, Watchers
<1>2. CASE UNCHANGED watcher
  BY <1>1, <1>2 DEF Redescribed
<1>3. CASE load.pc = "sweep" /\ Secondaries(load.program) # {}
           /\ DestroySecondary(SomeOf(Secondaries(load.program)))
  <2>1. PICK e \in Secondaries(load.program) : e = SomeOf(Secondaries(load.program))
    BY <1>3, SomeOfIs
  <2>2. e \in entities /\ DestroySecondary(e)
    BY <1>3, <2>1 DEF Secondaries
  <2>3. QED
    BY <2>2, DestroyRedescribes
<1>4. CASE load.pc = "watch" /\ load.parts # {} /\ EmplaceFile(SomeOf(load.parts))
  <2>1. PICK part \in load.parts : part = SomeOf(load.parts)
    BY <1>4, SomeOfIs
  <2>2. EmplaceFile(part)
    BY <1>4, <2>1
  <2>3. QED
    BY <1>4, <2>2, EmplaceRedescribes
<1>5. CASE Loading /\ ~UNCHANGED watcher
  BY <1>3, <1>4, <1>5
  DEF Loading, ReadPrimary, ReadInclude, LoadFails, LoadSucceeds, Swept, LoadEnds
<1>6. QED
  BY <1>2, <1>5
  DEF PoolNext, pool_vars, Reload, QuietFrame, hot_reload, sweep_reload_marked, read_thread_loop,
      get, force_reload, Save

\* A step queues what the kernel has for a file that was saved, if anything.
LEMMA StepQueues ==
  ASSUME PoolInv, EventsKnown, [PoolNext]_pool_vars
  PROVE  /\ inotify' \in Seq(Nat) /\ wd_events_' \in Seq(Nat)
         /\ \A wd \in Queued' : \/ wd \in Queued
                                \/ wd # 0 /\ \E f \in Files : wd = watcher.kernel[f]
<1> DEFINE queued == InQueue(inotify') \cup InQueue(wd_events_')
<1>0. Queued' = queued /\ Queued = InQueue(inotify) \cup InQueue(wd_events_)
  BY DEF Queued, InQueue
<1>1. CASE UNCHANGED <<inotify, wd_events_>>
  BY <1>0, <1>1 DEF EventsKnown
<1>2. ASSUME NEW f \in Files, NEW t, Save(f, t)
      PROVE  /\ inotify' \in Seq(Nat) /\ wd_events_' = wd_events_
             /\ \A wd \in Queued' : wd \in Queued \/ (wd # 0 /\ wd = watcher.kernel[f])
  <2>1. watcher.kernel[f] \in Nat
    BY DEF PoolInv, FilesTyped, Watchers
  <2>2. wd_events_' = wd_events_ /\ inotify' = Notified(watcher.kernel[f])
    BY <1>2 DEF Save
  <2>3. CASE inotify' = inotify
    BY <1>0, <2>2, <2>3 DEF EventsKnown
  <2>4. CASE watcher.kernel[f] # 0 /\ inotify' = Append(inotify, watcher.kernel[f])
    <3>1. inotify' \in Seq(Nat) /\ InQueue(inotify') = InQueue(inotify) \cup {watcher.kernel[f]}
      BY <2>1, <2>4, Appended DEF EventsKnown
    <3>2. QED
      BY <1>0, <2>2, <2>4, <3>1
  <2>5. QED
    BY <2>2, <2>3, <2>4 DEF Notified
<1>3. CASE read_thread_loop
  <2>1. /\ inotify # <<>> /\ inotify' = Tail(inotify)
        /\ wd_events_' = Append(wd_events_, Head(inotify))
    BY <1>3 DEF read_thread_loop
  <2>2. /\ Head(inotify) \in Nat /\ inotify' \in Seq(Nat)
        /\ Head(inotify) \in InQueue(inotify) /\ InQueue(inotify') \subseteq InQueue(inotify)
    BY <2>1, Dequeued DEF EventsKnown
  <2>3. /\ wd_events_' \in Seq(Nat)
        /\ InQueue(wd_events_') = InQueue(wd_events_) \cup {Head(inotify)}
    BY <2>1, <2>2, Appended DEF EventsKnown
  <2>4. QED
    BY <1>0, <2>2, <2>3
<1>4. CASE hot_reload
  <2>1. inotify' = inotify /\ wd_events_' = <<>>
    BY <1>4 DEF hot_reload
  <2>2. wd_events_' \in Seq(Nat) /\ InQueue(wd_events_') = {}
    BY <2>1 DEF InQueue
  <2>3. QED
    BY <1>0, <2>1, <2>2 DEF EventsKnown
<1>5. CASE Loading
  BY <1>1, <1>5
  DEF Loading, ReadPrimary, ReadInclude, LoadFails, LoadSucceeds, Swept, LoadEnds,
      DestroySecondary, EmplaceFile
<1>6. CASE \E f \in Files : \E t \in Texts[f] : Save(f, t)
  <2>1. PICK f \in Files : \E t \in Texts[f] : Save(f, t)
    BY <1>6
  <2>2. QED
    BY <1>2, <2>1 DEF EventsKnown
<1>7. QED
  BY <1>1, <1>3, <1>4, <1>5, <1>6
  DEF PoolNext, pool_vars, Reload, QuietFrame, sweep_reload_marked, get, force_reload

LEMMA EventsStayKnown == PoolInv /\ EventsKnown /\ [PoolNext]_pool_vars => EventsKnown'
<1> SUFFICES ASSUME PoolInv, EventsKnown, [PoolNext]_pool_vars PROVE EventsKnown'
  OBVIOUS
<1>1. /\ watcher.next_wd \in Nat /\ watcher.kernel \in [Files -> Nat]
      /\ \A f \in Files : watcher.kernel[f] < watcher.next_wd
  BY DEF PoolInv, FilesTyped, Watchers, Watching
<1>2. watcher'.next_wd \in Nat /\ watcher.next_wd <= watcher'.next_wd
  BY StepRedescribes DEF Redescribed
<1>3. Queued \in SUBSET Nat
  BY DEF EventsKnown, Queued, InQueue
<1>4. ASSUME NEW wd \in Queued' PROVE wd \in Nat /\ 0 < wd /\ wd < watcher.next_wd
  <2>1. CASE wd \in Queued
    BY <1>3, <2>1 DEF EventsKnown
  <2>2. CASE wd # 0 /\ \E f \in Files : wd = watcher.kernel[f]
    BY <1>1, <2>2
  <2>3. QED
    BY <2>1, <2>2, StepQueues
<1>5. \A wd \in Queued' : 0 < wd /\ wd < watcher'.next_wd
  BY <1>1, <1>2, <1>4
<1>6. QED
  BY <1>5, StepQueues DEF EventsKnown

\* Events of before a reload find the programs of the file that was saved, or
\* nobody: whichever watches are taken and added again while they are queued.
THEOREM DescriptorsStay == PoolSpec => [][DescriptorsAreKept]_pool_vars
<1>1. PoolInit => EventsKnown
  BY DEF PoolInit, EventsKnown, Queued, InQueue
<1>2. PoolInv /\ PoolInv' /\ EventsKnown /\ [PoolNext]_pool_vars
      => [DescriptorsAreKept]_pool_vars
  <2> SUFFICES ASSUME PoolInv, PoolInv', EventsKnown, [PoolNext]_pool_vars,
                      NEW f \in Files, watcher'.kernel[f] # watcher.kernel[f]
               PROVE  /\ watcher.kernel[f] # 0 => \A e \in entities' : e.file # f
                      /\ watcher'.kernel[f] \notin Queued
    BY DEF DescriptorsAreKept
  <2>1. \/ watcher'.kernel[f] = 0
        \/ watcher.kernel[f] = 0 /\ watcher'.kernel[f] = watcher.next_wd
    BY StepRedescribes DEF Redescribed
  <2>2. \A e \in entities' : watcher'.kernel[e.file] # 0
    BY DEF PoolInv, Watching
  <2>3. watcher.next_wd \in Nat /\ watcher.next_wd \notin Queued /\ 0 \notin Queued
    BY DEF PoolInv, FilesTyped, Watchers, EventsKnown
  <2>4. QED
    BY <2>1, <2>2, <2>3
<1>3. QED
  BY <1>1, <1>2, EventsStayKnown, PoolInvariant, PTL DEF PoolSpec

=============================================================================
