-------------------------------- MODULE Land --------------------------------
(***************************************************************************)
(* Land, the allocator of contiguous ranges of positions: three ordered    *)
(* sets of ranges and two counters, that every operation must keep in      *)
(* agreement.  A Land is a value here, and an operation maps a Land to the *)
(* Land it leaves; the caller's variable holds it.                         *)
(*                                                                         *)
(* _unoccupy() reads a range through an iterator it has just erased.  The  *)
(* read is taken to return what the node held before: the allocators the   *)
(* engine is built with leave that part of a freed node alone.             *)
(***************************************************************************)
EXTENDS Integers

\* An empty range stands for "no range", at any base.
Ranges  == [base: Nat, size: Nat \ {0}]
NoRange == [base |-> 0, size |-> 0]

End(r) == r.base + r.size

\* The ordered sets: a range is found by its base alone, and an insertion at
\* a base that is taken does nothing.
Insert(S, r) == IF \E s \in S : s.base = r.base THEN S ELSE S \cup {r}
Erase(S, r)  == {s \in S : s.base # r.base}

\* empty_by_size compares the size, then the base.
InsertBySize(S, r) == S \cup {r}
EraseBySize(S, r)  == S \ {r}

\* Land() and Land(initial_range).
NewLand(range) ==
  LET empty == IF range.size > 0 THEN {range} ELSE {} IN
  [range |-> range, occupied_size |-> 0, empty_size |-> range.size,
   full_by_base |-> {}, empty_by_size |-> empty, empty_by_base |-> empty]

Capacity(L) == L.range.size

-----------------------------------------------------------------------------
(* try_occupy() *)

Fits(L, size) == {r \in L.empty_by_size : r.size >= size}

\* The first of the smallest ranges that fit, if any fits.
BestFits(L, size) ==
  {r \in Fits(L, size) : \A s \in Fits(L, size) :
     r.size < s.size \/ (r.size = s.size /\ r.base <= s.base)}

LeftPart(r, size)  == [base |-> r.base, size |-> size]

\* Mutant: the rest of a split range starts one position early.
RightPartEarly(r, size) == [base |-> r.base + size - 1, size |-> r.size - size]

RightPart(r, size) == [base |-> r.base + size, size |-> r.size - size]

\* _occupy(): r, an empty range that fits, is split.
Occupied(L, r, size) ==
  LET right    == RightPart(r, size)
      bySize   == EraseBySize(L.empty_by_size, r)
      byBase   == Erase(L.empty_by_base, r)
      hasRight == right.size > 0
  IN [L EXCEPT !.full_by_base  = Insert(@, LeftPart(r, size)),
               !.empty_by_size = IF hasRight THEN InsertBySize(bySize, right) ELSE bySize,
               !.empty_by_base = IF hasRight THEN Insert(byBase, right) ELSE byBase,
               !.empty_size    = @ - size,
               !.occupied_size = @ + size]

-----------------------------------------------------------------------------
(* expand_by() and the growth of occupy_amortized() *)

\* The empty range with the highest base, when it ends where the land does.
Rightmost(L) ==
  {r \in L.empty_by_base : /\ \A s \in L.empty_by_base : s.base <= r.base
                           /\ End(r) = End(L.range)}

Longer(range, size) == [base |-> range.base, size |-> range.size + size]

ExpandedBy(L, size) ==
  LET merged == Rightmost(L) # {}
      last   == CHOOSE r \in Rightmost(L) : TRUE
      new    == IF merged THEN [base |-> last.base, size |-> last.size + size]
                ELSE [base |-> End(L.range), size |-> size]
  IN [L EXCEPT
        !.empty_by_size = InsertBySize(IF merged THEN EraseBySize(@, last) ELSE @, new),
        !.empty_by_base = Insert(IF merged THEN Erase(@, last) ELSE @, new),
        !.empty_size    = @ + size,
        !.range         = Longer(@, size)]

\* amortized_size_at_least(): the ratio is numer / denom.
\* Mutant: the growth ratio alone decides.
RatioOnly(new_size, cur_size, numer, denom) ==
  LET amortized == (cur_size * numer) \div denom IN
  IF amortized > cur_size THEN amortized ELSE new_size

AmortizedSize(new_size, cur_size, numer, denom) ==
  LET amortized == (cur_size * numer) \div denom IN
  IF amortized > new_size THEN amortized ELSE new_size

Grown(L, size, numer, denom) ==
  ExpandedBy(L, AmortizedSize(Capacity(L) + size, Capacity(L), numer, denom)
                - Capacity(L))

\* The land in which occupy_amortized() finds its range.
Amortized(L, size, numer, denom) ==
  IF Fits(L, size) = {} THEN Grown(L, size, numer, denom) ELSE L

-----------------------------------------------------------------------------
(* release() *)

\* The empty neighbours a released range is merged with.  The left one is
\* looked for only when some empty range follows.
LeftOf(L, r) ==
  {s \in L.empty_by_base : /\ End(s) = r.base
                           /\ \E t \in L.empty_by_base : t.base >= r.base}
RightOf(L, r) == {s \in L.empty_by_base : s.base = End(r)}

\* Mutant: the counter of empty positions counts the merged range.
UnoccupiedCountsMerged(L, r) ==
  LET gone   == LeftOf(L, r) \cup RightOf(L, r)
      merged == [base |-> IF LeftOf(L, r) = {} THEN r.base
                          ELSE (CHOOSE s \in LeftOf(L, r) : TRUE).base,
                 size |-> r.size + (IF LeftOf(L, r) = {} THEN 0
                                    ELSE (CHOOSE s \in LeftOf(L, r) : TRUE).size)
                                 + (IF RightOf(L, r) = {} THEN 0
                                    ELSE (CHOOSE s \in RightOf(L, r) : TRUE).size)]
  IN [L EXCEPT !.full_by_base  = Erase(@, r),
               !.empty_by_base = Insert(@ \ gone, merged),
               !.empty_by_size = InsertBySize(@ \ gone, merged),
               !.empty_size    = @ + merged.size,
               !.occupied_size = @ - r.size]

\* _unoccupy() of r, an element of full_by_base.
Unoccupied(L, r) ==
  LET merge_left  == LeftOf(L, r) # {}
      merge_right == RightOf(L, r) # {}
      left        == CHOOSE s \in LeftOf(L, r) : TRUE
      right       == CHOOSE s \in RightOf(L, r) : TRUE
      gone        == LeftOf(L, r) \cup RightOf(L, r)
      merged      == [base |-> IF merge_left THEN left.base ELSE r.base,
                      size |-> (IF merge_left THEN left.size ELSE 0) + r.size
                               + (IF merge_right THEN right.size ELSE 0)]
  IN [L EXCEPT !.full_by_base  = Erase(@, r),
               !.empty_by_base = Insert(@ \ gone, merged),
               !.empty_by_size = InsertBySize(@ \ gone, merged),
               !.empty_size    = @ + r.size,
               !.occupied_size = @ - r.size]

\* range_of(), the occupied range that release() finds: by its base.
RangeOf(L, base) == {r \in L.full_by_base : r.base = base}

-----------------------------------------------------------------------------
(* What holds of every Land the operations can make *)

Lands == [range: [base: Nat, size: Nat], occupied_size: Int, empty_size: Int,
          full_by_base: SUBSET Ranges,
          empty_by_size: SUBSET Ranges, empty_by_base: SUBSET Ranges]

\* Occupied ranges F and empty ranges E: none is both, and no two overlap.
Disjoint(F, E) ==
  /\ F \cap E = {}
  /\ \A r, s \in F \cup E : r = s \/ End(r) <= s.base \/ End(s) <= r.base

\* Every one is inside g, and every position of g in one of them.
Covering(F, E, g) ==
  /\ \A r \in F \cup E : g.base <= r.base /\ End(r) <= End(g)
  /\ \A p \in g.base..(End(g) - 1) : \E r \in F \cup E : r.base <= p /\ p < End(r)

TiledBy(F, E, g) == Disjoint(F, E) /\ Covering(F, E, g)

\* The two sets of empty ranges are the same set.
EmptySetsAgree(L) == L.empty_by_size = L.empty_by_base

=============================================================================
