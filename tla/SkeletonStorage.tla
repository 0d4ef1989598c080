-------------------------- MODULE SkeletonStorage --------------------------
(***************************************************************************)
(* SkeletonStorage: skeletons are copied, joint by joint, into vectors     *)
(* shared by all of them, at the range a Land gives out; a table finds the *)
(* range of an id.  A removed skeleton's range is given back and its       *)
(* joints left where they are.  The two vectors (inverse binds and parent  *)
(* indices) are resized and written together and are one here.             *)
(***************************************************************************)
EXTENDS Land, Sequences, FiniteSets

CONSTANTS
  Joints,      \* an inverse bind and a parent index
  Skeletons,   \* sequences of joints
  MaxInserts,  \* bounds the number of insertions
  NoJoint      \* the joint a resize fills the vector with

\* try_occupy() panics on an empty skeleton.
ASSUME StorageAssumption ==
  /\ MaxInserts \in Nat
  /\ \A s \in Skeletons : s \in Seq(Joints) /\ s # <<>>

VARIABLES
  land,    \* _land
  table,   \* _table: the range of each id
  joints,  \* _inv_binds and _parent_idxs
  last_id  \* _last_id, the next id to give

vars == <<land, table, joints, last_id>>

Init ==
  /\ land = NewLand(NoRange)
  /\ table = <<>>
  /\ joints = <<>>
  /\ last_id = 0

\* The growth ratio insert() asks for.
Numer == 3
Denom == 2

\* Position p of the land is element p + 1 of the vector.
\* Mutant: the vector is allocated anew.
Reallocated(v, size) == [k \in 1..size |-> NoJoint]

Resized(v, size) == [k \in 1..size |-> IF k <= Len(v) THEN v[k] ELSE NoJoint]

Written(v, range, s) ==
  [k \in 1..Len(v) |-> IF range.base < k /\ k <= End(range)
                       THEN s[k - range.base] ELSE v[k]]

InsertSkeleton(s) ==
  LET fitting == Amortized(land, Len(s), Numer, Denom) IN
  /\ last_id < MaxInserts
  /\ \E r \in BestFits(fitting, Len(s)) :
       LET range == LeftPart(r, Len(s)) IN
       /\ land' = Occupied(fitting, r, Len(s))
       /\ joints' = Written(IF fitting = land THEN joints
                            ELSE Resized(joints, Capacity(fitting)), range, s)
       /\ table' = [id \in DOMAIN table \cup {last_id} |->
                      IF id = last_id THEN range ELSE table[id]]
  /\ last_id' = last_id + 1

\* remove() of an id that is not there returns false and changes nothing.
Remove(id) ==
  /\ \E r \in RangeOf(land, table[id].base) : land' = Unoccupied(land, r)
  /\ table' = [i \in DOMAIN table \ {id} |-> table[i]]
  /\ UNCHANGED <<joints, last_id>>

Next == \/ \E s \in Skeletons : InsertSkeleton(s)
        \/ \E id \in DOMAIN table : Remove(id)

Spec == Init /\ [][Next]_vars

-----------------------------------------------------------------------------
(* Properties *)

Positions(r)  == r.base..(End(r) - 1)
Total(ranges) == Cardinality(UNION {Positions(r) : r \in ranges})

\* The types; and the counters of a land, which every operation maintains on
\* its own, count the positions of its ranges.
TypeOK ==
  /\ land \in Lands
  /\ land.occupied_size = Total(land.full_by_base)
  /\ land.empty_size = Total(land.empty_by_base)
  /\ DOMAIN table \subseteq 0..MaxInserts
  /\ \A id \in DOMAIN table : table[id] \in Ranges
  /\ joints \in Seq(Joints \cup {NoJoint})
  /\ last_id \in 0..MaxInserts

\* The ranges tile the land: every position is in exactly one range, occupied
\* or empty, however they were split, merged and grown (_occupy(),
\* _unoccupy() and expand_by()).
Tiled == TiledBy(land.full_by_base, land.empty_by_base, land.range)

\* The lookup by size and the lookup by base see the same empty ranges.
LookupsAgree == EmptySetsAgree(land)

\* The land is sound, whatever was split, merged and grown.
LandSound == Tiled /\ LookupsAgree

\* The table and the land know the same ranges, one per id: no range leaks and
\* release() always finds the range that it is given ("Released range is not
\* occupied"), although it looks for its base alone.
TableMatchesLand ==
  /\ {table[id] : id \in DOMAIN table} = land.full_by_base
  /\ \A id, jd \in DOMAIN table : table[id] = table[jd] => id = jd

\* Every position is accounted for: in one range, and in no more than one's
\* skeleton.
RangesAccounted == LandSound /\ TableMatchesLand

\* The land never gives out a position that the vector lacks, and when it has
\* grown the range asked for does fit (the assertion of occupy_amortized()).
GrowthSuffices ==
  /\ Len(joints) = Capacity(land)
  /\ \A s \in Skeletons :
       Fits(Amortized(land, Len(s), Numer, Denom), Len(s)) # {}

\* A query returns the skeleton as it was inserted: no insertion overwrites
\* the joints of another skeleton, no resize loses them, and no id is reused.
Table == INSTANCE SkeletonTable WITH
           contents <- [id \in DOMAIN table |->
                          SubSeq(joints, table[id].base + 1, End(table[id]))],
           next_id  <- last_id

ImplementsTable == Table!Spec

=============================================================================
