------------------------ MODULE ResourceDatabaseProofs ------------------------
(***************************************************************************)
(* Proofs about ResourceDatabase, for any assets and what they refer to,   *)
(* any names and limit of versions, and any number of rows, crashes and    *)
(* calls.                                                                  *)
(***************************************************************************)
EXTENDS ResourceDatabase, FiniteSetTheorems, SequenceTheorems, WellFoundedInduction, TLAPS

\* Who waits for the lock does not have it; who is in the middle of something does.
Importing == {"try", "map", "record"}
Holding   == Importing \cup {"sweep", "nuke"}

RoleOf(t) ==
  CASE t = Main   -> {"idle", "sweep", "nuke"}
    [] t = Client -> {"idle", "nuke"}
    [] t = Loader -> {"idle", "open", "done"}
    [] OTHER      -> Importing \cup {"idle", "fill", "done", "failed"}

Roles == IF Down THEN \A t \in Threads : pc[t] = "down"
         ELSE \A t \in Threads : pc[t] \in RoleOf(t)

LockHeld ==
  /\ \A t \in Threads : pc[t] \in Holding <=> state_mutex_.writer = t
  /\ state_mutex_.readers = IF pc[Loader] = "open" THEN {Loader} ELSE {}
  /\ state_mutex_.writer # NoOne => state_mutex_.readers = {}

\* Every step that changes a row changes what is made of the rows as well.
Mirrored ==
  /\ Distinct(rows)
  /\ ~Down => /\ table_ = TableOf(rows)
              /\ empty_rows_ = EmptyRowsOf(rows)
              /\ path_uses_ = PathUsesOf(rows)

Issued == UuidsIn(rows) \subseteq issued

RowsHaveFiles == \A i \in NonEmpty(rows) : files[rows[i].filepath] # NoFile

Unused(p) == \A i \in NonEmpty(rows) : rows[i].filepath # p

\* A file that was just made is empty, and of nobody else.
NewFile(a) == [of |-> a, text |-> Nil, refs |-> {}]

FreshAt(a) ==
  /\ pc[a] \in Importing => job[a].uuid \in issued /\ job[a].uuid \notin UuidsIn(rows)
  /\ pc[a] = "try" => job[a].version < VersionLimit
  /\ pc[a] \in {"map", "record"} =>
       job[a].path \in Paths /\ Unused(job[a].path) /\ files[job[a].path] = NewFile(a)

Fresh == \A a \in Assets : FreshAt(a)

\* A file that was made for a stays so until its record is removed.
Recorded(a) ==
  \/ job[a].uuid \in removed
  \/ /\ \E j \in NonEmpty(rows) : rows[j] = [uuid |-> job[a].uuid, filepath |-> job[a].path]
     /\ files[job[a].path].of = a

ImportedAt(a) ==
  /\ pc[a] = "fill" =>
       /\ job[a].uuid \in issued /\ job[a].path \in Paths
       /\ Recorded(a)
       /\ files[job[a].path] # NoFile /\ files[job[a].path].of = a =>
            files[job[a].path] = NewFile(a)
  /\ pc[a] = "done" =>
       job[a].uuid \in issued /\ (job[a].uuid \in removed \/ Readable(rows, files, job[a].uuid))
  /\ pc[a] \in Importing \cup {"fill"} => \A b \in Uses[a] : pc[b] = "done"

Imported == \A a \in Assets : ImportedAt(a)

Removing ==
  \A t \in {Main, Client} : pc[t] = "nuke" => job[t].path \in Paths /\ Unused(job[t].path)

Looking ==
  pc[Loader] = "open" => job[Loader].path \in Paths /\ files[job[Loader].path] # NoFile

IInv == TypeOK /\ Roles /\ LockHeld /\ Mirrored /\ Issued /\ RowsHaveFiles /\ Fresh /\ Imported
        /\ Removing /\ Looking /\ RefsResolve

-----------------------------------------------------------------------------
(* The rows *)

LEMMA RowFacts ==
    /\ \A r \in Row : /\ r.uuid \in Uuids \cup {Nil}
                      /\ r.uuid # Nil => r.uuid \in Uuids /\ r.filepath \in Paths
    /\ EmptyRow \in Row /\ EmptyRow.uuid = Nil
  BY DEF Row, EmptyRow

LEMMA RowsFacts ==
    ASSUME NEW rs \in Seq(Row)
    PROVE  /\ Len(rs) \in Nat /\ DOMAIN rs = 1 .. Len(rs) /\ rs \in [1 .. Len(rs) -> Row]
           /\ NonEmpty(rs) \subseteq DOMAIN rs
           /\ \A i \in NonEmpty(rs) : /\ rs[i].uuid \in Uuids /\ rs[i].filepath \in Paths
                                      /\ rs[i].uuid # Nil /\ i # 0 /\ i \in Nat
           /\ UuidsIn(rs) \subseteq Uuids
  <1>1. Len(rs) \in Nat /\ DOMAIN rs = 1 .. Len(rs) /\ rs \in [1 .. Len(rs) -> Row]
    BY LenProperties
  <1>2. NonEmpty(rs) \subseteq DOMAIN rs
    BY DEF NonEmpty
  <1>3. \A i \in NonEmpty(rs) : /\ rs[i].uuid \in Uuids /\ rs[i].filepath \in Paths
                                /\ rs[i].uuid # Nil /\ i # 0 /\ i \in Nat
    BY <1>1, RowFacts DEF NonEmpty
  <1>4. UuidsIn(rs) \subseteq Uuids
    BY <1>3 DEF UuidsIn
  <1>5. QED
    BY <1>1, <1>2, <1>3, <1>4

\* What TableOf() says of the rows, and nothing else does.
IsTable(tb, rs) ==
  /\ tb \in [Uuids -> Nat]
  /\ \A u \in Uuids : /\ u \in UuidsIn(rs) => tb[u] \in NonEmpty(rs) /\ rs[tb[u]].uuid = u
                      /\ u \notin UuidsIn(rs) => tb[u] = 0

LEMMA TableIs ==
    ASSUME NEW rs \in Seq(Row)
    PROVE  IsTable(TableOf(rs), rs)
  <1>1. ASSUME NEW u \in Uuids, u \in UuidsIn(rs)
        PROVE  TableOf(rs)[u] \in NonEmpty(rs) /\ rs[TableOf(rs)[u]].uuid = u
    <2>1. \E i \in NonEmpty(rs) : rs[i].uuid = u
      BY <1>1 DEF UuidsIn
    <2>2. TableOf(rs)[u] = CHOOSE i \in NonEmpty(rs) : rs[i].uuid = u
      BY <1>1 DEF TableOf
    <2>3. QED
      BY <2>1, <2>2
  <1>2. \A u \in Uuids : u \notin UuidsIn(rs) => TableOf(rs)[u] = 0
    BY DEF TableOf
  <1>3. \A u \in Uuids : TableOf(rs)[u] \in Nat
    BY <1>1, <1>2, RowsFacts
  <1>4. TableOf(rs) = [u \in Uuids |-> TableOf(rs)[u]]
    BY DEF TableOf
  <1>5. TableOf(rs) \in [Uuids -> Nat]
    BY <1>3, <1>4
  <1>6. QED
    BY <1>1, <1>2, <1>5 DEF IsTable

LEMMA TableUnique ==
    ASSUME NEW rs \in Seq(Row), Distinct(rs), NEW tb, IsTable(tb, rs)
    PROVE  tb = TableOf(rs)
  <1>1. IsTable(TableOf(rs), rs)
    BY TableIs
  <1>2. \A u \in Uuids : tb[u] = TableOf(rs)[u]
    BY <1>1 DEF IsTable, Distinct
  <1>3. QED
    BY <1>1, <1>2 DEF IsTable

\* The rows that name a path.
At(rs, p) == {i \in NonEmpty(rs) : rs[i].filepath = p}

LEMMA UsesAre ==
    ASSUME NEW rs \in Seq(Row)
    PROVE  /\ PathUsesOf(rs) \in [Paths -> Nat]
           /\ \A p \in Paths : /\ PathUsesOf(rs)[p] = Cardinality(At(rs, p))
                               /\ IsFiniteSet(At(rs, p))
                               /\ PathUsesOf(rs)[p] = 0 <=> At(rs, p) = {}
  <1>1. ASSUME NEW p \in Paths
        PROVE  /\ PathUsesOf(rs)[p] = Cardinality(At(rs, p)) /\ Cardinality(At(rs, p)) \in Nat
               /\ IsFiniteSet(At(rs, p))
               /\ PathUsesOf(rs)[p] = 0 <=> At(rs, p) = {}
    <2>1. At(rs, p) \in SUBSET (1 .. Len(rs)) /\ Len(rs) \in Nat
      BY RowsFacts DEF At
    <2>2. IsFiniteSet(1 .. Len(rs))
      BY <2>1, FS_Interval
    <2>3. IsFiniteSet(At(rs, p))
      BY <2>1, <2>2, FS_Subset
    <2>4. Cardinality(At(rs, p)) \in Nat /\ (Cardinality(At(rs, p)) = 0 <=> At(rs, p) = {})
      BY <2>3, FS_CardinalityType, FS_EmptySet
    <2>5. PathUsesOf(rs)[p] = Cardinality(At(rs, p))
      BY DEF PathUsesOf, At
    <2>6. QED
      BY <2>3, <2>4, <2>5
  <1>2. PathUsesOf(rs) = [p \in Paths |-> PathUsesOf(rs)[p]]
    BY DEF PathUsesOf
  <1>3. \A p \in Paths : PathUsesOf(rs)[p] \in Nat
    BY <1>1
  <1>4. PathUsesOf(rs) \in [Paths -> Nat]
    BY <1>2, <1>3
  <1>5. QED
    BY <1>1, <1>4

\* The first of the empty rows, as NewEntry() takes it.
LEMMA FirstExists ==
    ASSUME NEW S \in SUBSET Nat, S # {}
    PROVE  \E i \in S : \A j \in S : i <= j
  <1> DEFINE R == OpToRel(<, Nat)
  <1>1. \E i \in S : \A j \in S : ~ (<<j, i>> \in R)
    BY NatLessThanWellFounded, WFMin
  <1>2. \A i, j \in Nat : j < i => <<j, i>> \in R
    BY DEF OpToRel
  <1> HIDE DEF R
  <1>3. PICK i \in S : \A j \in S : ~ (<<j, i>> \in R)
    BY <1>1
  <1>4. ASSUME NEW j \in S PROVE i <= j
    <2>1. i \in Nat /\ j \in Nat /\ ~(j < i)
      BY <1>2, <1>3
    <2>2. QED
      BY <2>1
  <1>5. QED
    BY <1>4


\* A record in a row that was empty, a record less, and the same records.
Added(rs, rt, i, u, p) ==
  /\ rt \in Seq(Row) /\ i \notin NonEmpty(rs) /\ i \in Nat
  /\ NonEmpty(rt) = NonEmpty(rs) \cup {i}
  /\ rt[i].uuid = u /\ rt[i].filepath = p
  /\ \A j \in NonEmpty(rs) : rt[j] = rs[j]

Dropped(rs, rt, i) ==
  /\ rt \in Seq(Row) /\ i \in NonEmpty(rs)
  /\ NonEmpty(rt) = NonEmpty(rs) \ {i}
  /\ \A j \in NonEmpty(rt) : rt[j] = rs[j]

SameRecords(rs, rt) ==
  /\ rt \in Seq(Row) /\ NonEmpty(rt) = NonEmpty(rs)
  /\ \A j \in NonEmpty(rs) : rt[j] = rs[j]

LEMMA SameMirrors ==
    ASSUME NEW rs \in Seq(Row), NEW rt, SameRecords(rs, rt), Distinct(rs)
    PROVE  /\ Distinct(rt) /\ TableOf(rt) = TableOf(rs) /\ PathUsesOf(rt) = PathUsesOf(rs)
           /\ UuidsIn(rt) = UuidsIn(rs)
  <1>1. rt \in Seq(Row) /\ NonEmpty(rt) = NonEmpty(rs) /\ \A j \in NonEmpty(rs) : rt[j] = rs[j]
    BY DEF SameRecords
  <1>2. Distinct(rt)
    BY <1>1 DEF Distinct
  <1>3. UuidsIn(rt) = UuidsIn(rs)
    BY <1>1 DEF UuidsIn
  <1>4. IsTable(TableOf(rs), rs)
    BY TableIs
  <1>5. IsTable(TableOf(rs), rt)
    BY <1>1, <1>3, <1>4 DEF IsTable
  <1>6. TableOf(rt) = TableOf(rs)
    BY <1>1, <1>2, <1>5, TableUnique
  <1>7. \A p \in Paths : At(rt, p) = At(rs, p)
    BY <1>1 DEF At
  <1>8. \A p \in Paths : PathUsesOf(rt)[p] = PathUsesOf(rs)[p]
    BY <1>1, <1>7, UsesAre
  <1>9. PathUsesOf(rt) = PathUsesOf(rs)
    BY <1>8 DEF PathUsesOf
  <1>10. QED
    BY <1>2, <1>3, <1>6, <1>9

LEMMA AddedMirrors ==
    ASSUME NEW rs \in Seq(Row), NEW rt, NEW i, NEW u \in Uuids, NEW p \in Paths,
           Added(rs, rt, i, u, p), Distinct(rs), u \notin UuidsIn(rs)
    PROVE  /\ Distinct(rt)
           /\ TableOf(rt) = [TableOf(rs) EXCEPT ![u] = i]
           /\ PathUsesOf(rt) = [PathUsesOf(rs) EXCEPT ![p] = @ + 1]
           /\ UuidsIn(rt) = UuidsIn(rs) \cup {u}
  <1>1. /\ rt \in Seq(Row) /\ i \notin NonEmpty(rs) /\ i \in Nat
        /\ NonEmpty(rt) = NonEmpty(rs) \cup {i} /\ rt[i].uuid = u /\ rt[i].filepath = p
        /\ \A j \in NonEmpty(rs) : rt[j] = rs[j]
    BY DEF Added
  <1>2. \A j \in NonEmpty(rs) : rs[j].uuid # u
    BY DEF UuidsIn
  <1>3. Distinct(rt)
    <2> SUFFICES ASSUME NEW j \in NonEmpty(rt), NEW k \in NonEmpty(rt), rt[j].uuid = rt[k].uuid
                 PROVE  j = k
      BY DEF Distinct
    <2>1. QED
      BY <1>1, <1>2 DEF Distinct
  <1>4. UuidsIn(rt) = UuidsIn(rs) \cup {u}
    <2>1. \A v : v \in UuidsIn(rt) <=> \E j \in NonEmpty(rt) : rt[j].uuid = v
      BY DEF UuidsIn
    <2>2. \A v : v \in UuidsIn(rs) <=> \E j \in NonEmpty(rs) : rs[j].uuid = v
      BY DEF UuidsIn
    <2>3. \A v : v \in UuidsIn(rt) <=> v \in UuidsIn(rs) \/ v = u
      BY <1>1, <2>1, <2>2
    <2>4. QED
      BY <2>3
  <1>5. IsTable(TableOf(rs), rs)
    BY TableIs
  <1> DEFINE tb == [TableOf(rs) EXCEPT ![u] = i]
  <1>6. tb \in [Uuids -> Nat] /\ \A v \in Uuids : tb[v] = IF v = u THEN i ELSE TableOf(rs)[v]
    BY <1>1, <1>5 DEF IsTable
  <1>7. IsTable(tb, rt)
    <2> HIDE DEF tb
    <2>1. QED
      BY <1>1, <1>4, <1>5, <1>6 DEF IsTable
  <1>8. TableOf(rt) = tb
    BY <1>1, <1>3, <1>7, TableUnique
  <1>9. \A q \in Paths : At(rt, q) = IF q = p THEN At(rs, q) \cup {i} ELSE At(rs, q)
    <2> SUFFICES ASSUME NEW q \in Paths, NEW j
                 PROVE  j \in At(rt, q) <=> j \in At(rs, q) \/ (q = p /\ j = i)
      OBVIOUS
    <2>1. QED
      BY <1>1 DEF At
  <1>10. i \notin At(rs, p)
    BY <1>1 DEF At
  <1>11. Cardinality(At(rs, p) \cup {i}) = Cardinality(At(rs, p)) + 1
    BY <1>10, UsesAre, FS_AddElement
  <1>12. \A q \in Paths : PathUsesOf(rt)[q] = IF q = p THEN PathUsesOf(rs)[q] + 1
                                              ELSE PathUsesOf(rs)[q]
    <2> SUFFICES ASSUME NEW q \in Paths
                 PROVE  PathUsesOf(rt)[q] = IF q = p THEN PathUsesOf(rs)[q] + 1
                                            ELSE PathUsesOf(rs)[q]
      OBVIOUS
    <2>1. PathUsesOf(rt)[q] = Cardinality(At(rt, q)) /\ PathUsesOf(rs)[q] = Cardinality(At(rs, q))
      BY <1>1, UsesAre
    <2>2. QED
      BY <1>9, <1>11, <2>1
  <1>13. PathUsesOf(rt) = [PathUsesOf(rs) EXCEPT ![p] = @ + 1]
    <2>1. PathUsesOf(rt) \in [Paths -> Nat] /\ PathUsesOf(rs) \in [Paths -> Nat]
      BY <1>1, UsesAre
    <2>2. QED
      BY <1>12, <2>1
  <1>14. QED
    BY <1>3, <1>4, <1>8, <1>13

LEMMA DroppedMirrors ==
    ASSUME NEW rs \in Seq(Row), NEW rt, NEW i, Dropped(rs, rt, i), Distinct(rs)
    PROVE  /\ Distinct(rt)
           /\ TableOf(rt) = [TableOf(rs) EXCEPT ![rs[i].uuid] = 0]
           /\ PathUsesOf(rt) = [PathUsesOf(rs) EXCEPT ![rs[i].filepath] = @ - 1]
           /\ UuidsIn(rt) = UuidsIn(rs) \ {rs[i].uuid}
  <1>1. /\ rt \in Seq(Row) /\ i \in NonEmpty(rs) /\ NonEmpty(rt) = NonEmpty(rs) \ {i}
        /\ \A j \in NonEmpty(rt) : rt[j] = rs[j]
    BY DEF Dropped
  <1>2. PICK u \in Uuids : u = rs[i].uuid
    BY <1>1, RowsFacts
  <1>3. PICK p \in Paths : p = rs[i].filepath
    BY <1>1, RowsFacts
  <1>4. \A j \in NonEmpty(rs) : rs[j].uuid = u => j = i
    BY <1>1, <1>2 DEF Distinct
  <1>5. Distinct(rt)
    BY <1>1 DEF Distinct
  <1>6. UuidsIn(rt) = UuidsIn(rs) \ {u}
    <2>1. \A v : v \in UuidsIn(rt) <=> \E j \in NonEmpty(rt) : rt[j].uuid = v
      BY DEF UuidsIn
    <2>2. \A v : v \in UuidsIn(rs) <=> \E j \in NonEmpty(rs) : rs[j].uuid = v
      BY DEF UuidsIn
    <2>3. \A v : v \in UuidsIn(rt) <=> v \in UuidsIn(rs) /\ v # u
      BY <1>1, <1>2, <1>4, <2>1, <2>2
    <2>4. QED
      BY <2>3
  <1>7. IsTable(TableOf(rs), rs)
    BY TableIs
  <1> DEFINE tb == [TableOf(rs) EXCEPT ![u] = 0]
  <1>8. tb \in [Uuids -> Nat] /\ \A v \in Uuids : tb[v] = IF v = u THEN 0 ELSE TableOf(rs)[v]
    BY <1>7 DEF IsTable
  <1>9. IsTable(tb, rt)
    <2> HIDE DEF tb
    <2>1. QED
      BY <1>1, <1>2, <1>6, <1>7, <1>8 DEF IsTable
  <1>10. TableOf(rt) = tb
    BY <1>1, <1>5, <1>9, TableUnique
  <1>11. \A q \in Paths : At(rt, q) = IF q = p THEN At(rs, q) \ {i} ELSE At(rs, q)
    <2> SUFFICES ASSUME NEW q \in Paths, NEW j
                 PROVE  j \in At(rt, q) <=> j \in At(rs, q) /\ ~(q = p /\ j = i)
      OBVIOUS
    <2>1. QED
      BY <1>1, <1>3 DEF At
  <1>12. i \in At(rs, p)
    BY <1>1, <1>3 DEF At
  <1>13. Cardinality(At(rs, p) \ {i}) = Cardinality(At(rs, p)) - 1
    BY <1>12, UsesAre, FS_RemoveElement
  <1>14. \A q \in Paths : PathUsesOf(rt)[q] = IF q = p THEN PathUsesOf(rs)[q] - 1
                                              ELSE PathUsesOf(rs)[q]
    <2> SUFFICES ASSUME NEW q \in Paths
                 PROVE  PathUsesOf(rt)[q] = IF q = p THEN PathUsesOf(rs)[q] - 1
                                            ELSE PathUsesOf(rs)[q]
      OBVIOUS
    <2>1. PathUsesOf(rt)[q] = Cardinality(At(rt, q)) /\ PathUsesOf(rs)[q] = Cardinality(At(rs, q))
      BY <1>1, UsesAre
    <2>2. QED
      BY <1>11, <1>13, <2>1
  <1>15. PathUsesOf(rt) = [PathUsesOf(rs) EXCEPT ![p] = @ - 1]
    <2>1. PathUsesOf(rt) \in [Paths -> Nat] /\ PathUsesOf(rs) \in [Paths -> Nat]
      BY <1>1, UsesAre
    <2>2. QED
      BY <1>14, <2>1
  <1>16. QED
    BY <1>2, <1>3, <1>5, <1>6, <1>10, <1>15


-----------------------------------------------------------------------------
(* The threads and the lock *)

LEMMA InvParts ==
    ASSUME IInv
    PROVE  /\ TypeOK /\ Roles /\ LockHeld /\ Mirrored /\ Issued /\ RowsHaveFiles /\ Fresh
           /\ Imported /\ Removing /\ Looking /\ RefsResolve
  BY DEF IInv

LEMMA InvSplit ==
    ASSUME TypeOK', Roles', LockHeld', Mirrored', Issued', RowsHaveFiles', Fresh', Imported',
           Removing', Looking', RefsResolve'
    PROVE  IInv'
  BY DEF IInv

LEMMA ThreadFacts ==
    /\ Main \in Threads /\ Client \in Threads /\ Loader \in Threads
    /\ Main # Client /\ Main # Loader /\ Client # Loader /\ NoOne \notin Threads
    /\ \A a \in Assets : a \in Threads /\ a # Main /\ a # Client /\ a # Loader
    /\ \A t \in Threads : t \in Assets \/ t = Main \/ t = Client \/ t = Loader
  BY NamesAssumption DEF Threads

LEMMA RoleFacts ==
    /\ RoleOf(Main) = {"idle", "sweep", "nuke"} /\ RoleOf(Client) = {"idle", "nuke"}
    /\ RoleOf(Loader) = {"idle", "open", "done"}
    /\ \A a \in Assets : RoleOf(a) = Importing \cup {"idle", "fill", "done", "failed"}
  BY ThreadFacts DEF RoleOf

Labels == {"idle", "try", "map", "record", "fill", "done", "failed", "open", "missing", "nuke",
           "sweep", "down"}

JobRecord == [uuid : Uuids \cup {Nil}, path : Paths \cup {Nil}, version : 0 .. VersionLimit]

\* One thread goes on.
LEMMA Moves ==
    ASSUME IInv, NEW t \in Threads, NEW l, l \in RoleOf(t), pc[t] # "down", Goto(t, l)
    PROVE  /\ Roles' /\ ~Down /\ ~Down' /\ pc' \in [Threads -> Labels]
           /\ \A s \in Threads : pc'[s] = IF s = t THEN l ELSE pc[s]
  <1>1. Roles /\ pc \in [Threads -> Labels]
    BY InvParts DEF TypeOK, Labels
  <1>2. l \in Labels /\ l # "down"
    BY ThreadFacts, RoleFacts DEF Labels, Importing
  <1>3. pc' \in [Threads -> Labels] /\ \A s \in Threads : pc'[s] = IF s = t THEN l ELSE pc[s]
    BY <1>1, <1>2 DEF Goto
  <1>4. ~Down
    BY <1>1 DEF Roles
  <1>5. ~Down'
    BY <1>2, <1>3, <1>4, ThreadFacts DEF Down
  <1>6. Roles'
    BY <1>1, <1>3, <1>4, <1>5 DEF Roles
  <1>7. QED
    BY <1>3, <1>4, <1>5, <1>6

MutexType == [writer : Threads \cup {NoOne}, readers : SUBSET Threads]

LEMMA LockTaken ==
    ASSUME IInv, NEW t \in Threads \ {Loader}, NEW l \in Holding, pc[t] \notin Holding, Lock(t),
           \A s \in Threads : pc'[s] = IF s = t THEN l ELSE pc[s]
    PROVE  LockHeld' /\ state_mutex_' \in MutexType /\ \A s \in Threads : pc[s] \notin Holding
  <1>1. LockHeld /\ state_mutex_ \in MutexType
    BY InvParts DEF TypeOK, MutexType
  <1>2. state_mutex_.writer = NoOne /\ state_mutex_.readers = {}
    BY DEF Lock, Free
  <1>3. /\ state_mutex_' \in MutexType
        /\ state_mutex_'.writer = t /\ state_mutex_'.readers = {}
    BY <1>1, <1>2 DEF Lock, MutexType
  <1>4. \A s \in Threads : pc[s] \notin Holding
    BY <1>1, <1>2, ThreadFacts DEF LockHeld
  <1>5. pc'[Loader] # "open"
    BY <1>1, <1>2, ThreadFacts DEF LockHeld
  <1>6. \A s \in Threads : pc'[s] \in Holding <=> state_mutex_'.writer = s
    BY <1>3, <1>4
  <1>7. QED
    BY <1>3, <1>4, <1>5, <1>6 DEF LockHeld

LEMMA LockReleased ==
    ASSUME IInv, NEW t \in Threads \ {Loader}, NEW l, l \notin Holding, pc[t] \in Holding, Unlock,
           \A s \in Threads : pc'[s] = IF s = t THEN l ELSE pc[s]
    PROVE  LockHeld' /\ state_mutex_' \in MutexType
  <1>1. LockHeld /\ state_mutex_ \in MutexType
    BY InvParts DEF TypeOK, MutexType
  <1>2. /\ state_mutex_' \in MutexType
        /\ state_mutex_'.writer = NoOne /\ state_mutex_'.readers = state_mutex_.readers
    BY <1>1 DEF Unlock, MutexType
  <1>3. state_mutex_.writer = t
    BY <1>1 DEF LockHeld
  <1>4. \A s \in Threads : pc'[s] \notin Holding
    BY <1>1, <1>3 DEF LockHeld
  <1>5. pc'[Loader] = pc[Loader]
    BY ThreadFacts
  <1>6. QED
    BY <1>1, <1>2, <1>4, <1>5, ThreadFacts DEF LockHeld

LEMMA LockKept ==
    ASSUME IInv, NEW t \in Threads \ {Loader}, NEW l, l \in Holding <=> pc[t] \in Holding,
           state_mutex_' = state_mutex_,
           \A s \in Threads : pc'[s] = IF s = t THEN l ELSE pc[s]
    PROVE  LockHeld' /\ state_mutex_' \in MutexType
  <1>1. LockHeld /\ state_mutex_ \in MutexType
    BY InvParts DEF TypeOK, MutexType
  <1>2. pc'[Loader] = pc[Loader]
    BY ThreadFacts
  <1>3. \A s \in Threads : pc'[s] \in Holding <=> pc[s] \in Holding
    OBVIOUS
  <1>4. QED
    BY <1>1, <1>2, <1>3 DEF LockHeld

\* Nobody else is in the middle of something with the lock, and nobody reads.
LEMMA Alone ==
    ASSUME IInv, NEW t \in Threads, pc[t] \in Holding
    PROVE  /\ \A s \in Threads : s # t => pc[s] \notin Holding
           /\ pc[Loader] # "open"
  <1>1. LockHeld
    BY InvParts
  <1>2. QED
    BY <1>1, ThreadFacts DEF LockHeld

LEMMA FreeAlone ==
    ASSUME IInv, Free
    PROVE  /\ \A s \in Threads : pc[s] \notin Holding
           /\ pc[Loader] # "open"
  <1>1. LockHeld
    BY InvParts
  <1>2. QED
    BY <1>1, ThreadFacts DEF LockHeld, Free

-----------------------------------------------------------------------------
(* What lasts *)

\* A record goes only by a removal, its file stays whose it is, and what could
\* be read can be.
Lasting ==
  /\ removed \subseteq removed' /\ issued \subseteq issued'
  /\ \A u \in Uuids : Readable(rows, files, u) => u \in removed' \/ Readable(rows, files, u)'
  /\ \A i \in NonEmpty(rows) :
       \/ rows[i].uuid \in removed'
       \/ /\ i \in NonEmpty(rows)' /\ rows'[i] = rows[i]
          /\ files'[rows[i].filepath].of = files[rows[i].filepath].of

LEMMA OthersKept ==
    ASSUME IInv, Lasting, NEW b \in Assets, pc'[b] = pc[b], job'[b] = job[b],
           \A c \in Assets : pc[c] = "done" => pc'[c] = "done",
           pc[b] \in Importing =>
             rows' = rows /\ (pc[b] # "try" => files'[job[b].path] = files[job[b].path]),
           \A p \in Paths : files'[p] = files[p] \/ files'[p] = NoFile \/ files'[p].of # b
    PROVE  FreshAt(b)' /\ ImportedAt(b)'
  <1>1. FreshAt(b) /\ ImportedAt(b) /\ TypeOK
    BY InvParts DEF Fresh, Imported
  <1>2. removed \subseteq removed' /\ issued \subseteq issued'
    BY DEF Lasting
  <1>3. FreshAt(b)'
    BY <1>1, <1>2 DEF FreshAt, Importing, Unused
  <1>4. ASSUME pc[b] = "fill"
        PROVE  /\ job'[b].uuid \in issued' /\ job'[b].path \in Paths
               /\ Recorded(b)'
               /\ files'[job'[b].path] # NoFile /\ files'[job'[b].path].of = b =>
                    files'[job'[b].path] = NewFile(b)
    <2>1. /\ job[b].uuid \in issued /\ job[b].path \in Paths /\ Recorded(b)
          /\ files[job[b].path] # NoFile /\ files[job[b].path].of = b =>
               files[job[b].path] = NewFile(b)
      BY <1>1, <1>4 DEF ImportedAt
    <2>2. Recorded(b)'
      <3>1. CASE job[b].uuid \in removed
        BY <1>2, <3>1 DEF Recorded
      <3>2. CASE job[b].uuid \notin removed
        <4>1. files[job[b].path].of = b
          BY <2>1, <3>2 DEF Recorded
        <4>2. PICK j \in NonEmpty(rows) : rows[j] = [uuid |-> job[b].uuid, filepath |-> job[b].path]
          BY <2>1, <3>2 DEF Recorded
        <4>3. rows[j].uuid = job[b].uuid /\ rows[j].filepath = job[b].path
          BY <4>2
        <4>4. CASE rows[j].uuid \in removed'
          BY <4>3, <4>4 DEF Recorded
        <4>5. CASE /\ j \in NonEmpty(rows)' /\ rows'[j] = rows[j]
                   /\ files'[rows[j].filepath].of = files[rows[j].filepath].of
          BY <4>1, <4>2, <4>3, <4>5 DEF Recorded
        <4>6. QED
          BY <4>4, <4>5 DEF Lasting
      <3>3. QED
        BY <3>1, <3>2
    <2>3. QED
      BY <1>2, <2>1, <2>2
  <1>5. ASSUME pc[b] = "done"
        PROVE  /\ job'[b].uuid \in issued'
               /\ job'[b].uuid \in removed' \/ Readable(rows, files, job[b].uuid)'
    <2>1. job[b].uuid \in issued /\ (job[b].uuid \in removed \/ Readable(rows, files, job[b].uuid))
      BY <1>1, <1>5 DEF ImportedAt
    <2>2. job[b].uuid \in Uuids
      BY <1>1, <2>1 DEF TypeOK
    <2>3. QED
      BY <1>2, <2>1, <2>2 DEF Lasting
  <1>6. pc[b] \in Importing \cup {"fill"} => \A c \in Uses[b] : pc'[c] = "done"
    <2>1. Uses[b] \subseteq Assets
      BY SizesAssumption
    <2>2. QED
      BY <1>1, <2>1 DEF ImportedAt
  <1>7. ImportedAt(b)'
    BY <1>4, <1>5, <1>6 DEF ImportedAt, Readable
  <1>8. QED
    BY <1>3, <1>7

\* Nothing on disk, nothing in memory.
LEMMA StillKeeps ==
    ASSUME IInv, TypeOK', Roles', LockHeld', Down' <=> Down,
           UNCHANGED <<rows, files, memory, removed>>, issued \subseteq issued',
           \A b \in Assets : \/ pc'[b] = pc[b] /\ job'[b] = job[b]
                             \/ pc[b] # "done" /\ FreshAt(b)' /\ ImportedAt(b)',
           \A t \in {Main, Client} : pc'[t] = "nuke" => pc[t] = "nuke" /\ job'[t] = job[t],
           Looking'
    PROVE  IInv'
  <1>1. /\ TypeOK /\ Mirrored /\ Issued /\ RowsHaveFiles /\ Fresh /\ Imported /\ Removing
        /\ RefsResolve
    BY InvParts
  <1>2. /\ rows' = rows /\ files' = files /\ removed' = removed
        /\ table_' = table_ /\ empty_rows_' = empty_rows_ /\ path_uses_' = path_uses_
    BY DEF memory
  <1>3. Mirrored'
    BY <1>1, <1>2 DEF Mirrored
  <1>4. Issued' /\ RowsHaveFiles' /\ RefsResolve'
    BY <1>1, <1>2 DEF Issued, RowsHaveFiles, RefsResolve
  <1>5. Lasting
    BY <1>2 DEF Lasting
  <1>6. ASSUME NEW b \in Assets PROVE FreshAt(b)' /\ ImportedAt(b)'
    <2>1. CASE pc'[b] = pc[b] /\ job'[b] = job[b]
      BY <1>2, <1>5, <2>1, OthersKept
    <2>2. CASE FreshAt(b)' /\ ImportedAt(b)'
      BY <2>2
    <2>3. QED
      BY <2>1, <2>2
  <1>7. Fresh' /\ Imported'
    BY <1>6 DEF Fresh, Imported
  <1>8. Removing'
    BY <1>1, <1>2 DEF Removing, Unused
  <1>9. QED
    BY <1>3, <1>4, <1>7, <1>8, InvSplit


-----------------------------------------------------------------------------
(* An import *)

LEMMA PartFailsKeeps ==
    ASSUME IInv, NEW a \in Assets, PartFails(a)
    PROVE  IInv'
  <1>1. TypeOK /\ LockHeld /\ Looking
    BY InvParts
  <1>2. /\ pc[a] = "idle" /\ Goto(a, "failed")
        /\ UNCHANGED <<rows, files, memory, removals, state_mutex_, job, bounds, history>>
    BY DEF PartFails
  <1>3. a \in Threads \ {Loader} /\ "failed" \in RoleOf(a)
    BY ThreadFacts, RoleFacts
  <1>4. /\ Roles' /\ ~Down /\ ~Down' /\ pc' \in [Threads -> Labels]
        /\ \A s \in Threads : pc'[s] = IF s = a THEN "failed" ELSE pc[s]
    BY <1>2, <1>3, Moves
  <1>5. "failed" \in Holding <=> pc[a] \in Holding
    BY <1>2 DEF Holding, Importing
  <1>6. LockHeld'
    BY <1>2, <1>3, <1>4, <1>5, LockKept
  <1>7. TypeOK'
    BY <1>1, <1>2, <1>4 DEF TypeOK, memory, removals, bounds, history, Labels
  <1>8. FreshAt(a)' /\ ImportedAt(a)'
    BY <1>3, <1>4 DEF FreshAt, ImportedAt, Importing
  <1>9. Looking'
    BY <1>1, <1>2, <1>3, <1>4, ThreadFacts DEF Looking
  <1>10. QED
    BY <1>2, <1>4, <1>6, <1>7, <1>8, <1>9, ThreadFacts, StillKeeps DEF history

LEMMA GenerateUuidKeeps ==
    ASSUME IInv, NEW a \in Assets, GenerateUuid(a)
    PROVE  IInv'
  <1>1. TypeOK /\ LockHeld /\ Looking /\ Issued
    BY InvParts
  <1>2. PICK u : u = generate_uuid
    OBVIOUS
  <1>3. u \in Uuids /\ u \notin issued
    <2>1. \E v \in Uuids : v \notin issued
      BY <1>1 DEF GenerateUuid, TypeOK
    <2>2. QED
      BY <1>2, <2>1 DEF generate_uuid
  <1>4. /\ pc[a] = "idle" /\ Goto(a, "try") /\ Lock(a) /\ \A b \in Uses[a] : pc[b] = "done"
        /\ issued' = issued \cup {u} /\ removed' = removed
        /\ job' = [job EXCEPT ![a] = [NoJob EXCEPT !.uuid = u]]
        /\ UNCHANGED <<rows, files, memory, removals, bounds>>
    BY <1>2 DEF GenerateUuid
  <1>5. a \in Threads \ {Loader} /\ "try" \in RoleOf(a) /\ "try" \in Holding
    BY ThreadFacts, RoleFacts DEF Holding, Importing
  <1>6. /\ Roles' /\ ~Down /\ ~Down' /\ pc' \in [Threads -> Labels]
        /\ \A s \in Threads : pc'[s] = IF s = a THEN "try" ELSE pc[s]
    BY <1>4, <1>5, Moves
  <1>7. pc[a] \notin Holding
    BY <1>4 DEF Holding, Importing
  <1>8. LockHeld' /\ state_mutex_' \in MutexType
    BY <1>4, <1>5, <1>6, <1>7, LockTaken
  <1>9. /\ job' \in [Threads -> JobRecord]
        /\ job'[a].uuid = u /\ job'[a].version = 0
        /\ \A s \in Threads : s # a => job'[s] = job[s]
    <2>1. PICK r : r = [NoJob EXCEPT !.uuid = u]
      OBVIOUS
    <2>2. r \in JobRecord /\ r.uuid = u /\ r.version = 0
      BY <1>3, <2>1, SizesAssumption DEF NoJob, JobRecord
    <2>3. job \in [Threads -> JobRecord] /\ job' = [job EXCEPT ![a] = r]
      BY <1>1, <1>4, <2>1 DEF TypeOK, JobRecord
    <2>4. QED
      BY <1>5, <2>2, <2>3
  <1>10. TypeOK'
    BY <1>1, <1>3, <1>4, <1>6, <1>8, <1>9
       DEF TypeOK, memory, removals, bounds, Labels, MutexType, JobRecord
  <1>11. FreshAt(a)' /\ ImportedAt(a)'
    <2>1. u \notin UuidsIn(rows)
      BY <1>1, <1>3 DEF Issued
    <2>2. rows' = rows /\ pc'[a] = "try"
      BY <1>4, <1>5, <1>6
    <2>3. FreshAt(a)'
      BY <1>4, <1>9, <2>1, <2>2, SizesAssumption DEF FreshAt
    <2>4. \A b \in Uses[a] : pc'[b] = "done"
      <3>1. Uses[a] \subseteq Assets
        BY SizesAssumption
      <3>2. QED
        BY <1>4, <1>6, <3>1, ThreadFacts
    <2>5. QED
      BY <2>2, <2>3, <2>4 DEF ImportedAt
  <1>12. Looking'
    BY <1>1, <1>4, <1>5, <1>6, <1>9, ThreadFacts DEF Looking
  <1>13. QED
    BY <1>4, <1>6, <1>8, <1>9, <1>10, <1>11, <1>12, ThreadFacts, StillKeeps

\* Another try, or the exception.
LEMMA RetryIs ==
    ASSUME IInv, NEW a \in Assets, pc[a] \in {"try", "map"}, NEW v, Retry(a, v)
    PROVE  /\ Roles' /\ ~Down /\ ~Down' /\ pc' \in [Threads -> Labels]
           /\ LockHeld' /\ state_mutex_' \in MutexType
           /\ \A s \in Threads : s # a => pc'[s] = pc[s]
           /\ pc'[a] = IF v < VersionLimit THEN "try" ELSE "failed"
  <1>1. /\ a \in Threads \ {Loader} /\ "try" \in RoleOf(a) /\ "failed" \in RoleOf(a)
        /\ pc[a] \in Holding /\ "try" \in Holding /\ "failed" \notin Holding /\ pc[a] # "down"
    BY ThreadFacts, RoleFacts DEF Holding, Importing
  <1>2. CASE v < VersionLimit
    <2>1. Goto(a, "try") /\ state_mutex_' = state_mutex_
      BY <1>2 DEF Retry
    <2>2. /\ Roles' /\ ~Down /\ ~Down' /\ pc' \in [Threads -> Labels]
          /\ \A s \in Threads : pc'[s] = IF s = a THEN "try" ELSE pc[s]
      BY <1>1, <2>1, Moves
    <2>3. LockHeld' /\ state_mutex_' \in MutexType
      BY <1>1, <2>1, <2>2, LockKept
    <2>4. QED
      BY <1>1, <1>2, <2>2, <2>3
  <1>3. CASE ~(v < VersionLimit)
    <2>1. Goto(a, "failed") /\ Unlock
      BY <1>3 DEF Retry
    <2>2. /\ Roles' /\ ~Down /\ ~Down' /\ pc' \in [Threads -> Labels]
          /\ \A s \in Threads : pc'[s] = IF s = a THEN "failed" ELSE pc[s]
      BY <1>1, <2>1, Moves
    <2>3. LockHeld' /\ state_mutex_' \in MutexType
      BY <1>1, <2>1, <2>2, LockReleased
    <2>4. QED
      BY <1>1, <1>3, <2>2, <2>3
  <1>4. QED
    BY <1>2, <1>3

\* What a job in the middle of generate_resource() holds on to, when its file
\* is not the one of the step.
LEMMA RetryKept ==
    ASSUME IInv, NEW a \in Assets, pc[a] \in {"try", "map"},
           pc'[a] = "try" => job'[a].version < VersionLimit,
           pc'[a] \in {"try", "failed"}, job'[a].uuid = job[a].uuid,
           \A s \in Threads : s # a => pc'[s] = pc[s],
           rows' = rows, issued' = issued
    PROVE  FreshAt(a)' /\ ImportedAt(a)'
  <1>1. FreshAt(a) /\ ImportedAt(a)
    BY InvParts DEF Fresh, Imported
  <1>2. FreshAt(a)'
    BY <1>1 DEF FreshAt, Importing
  <1>3. \A b \in Uses[a] : pc'[b] = "done"
    <2>1. Uses[a] \subseteq Assets
      BY SizesAssumption
    <2>2. \A b \in Uses[a] : pc[b] = "done"
      BY <1>1 DEF ImportedAt, Importing
    <2>3. QED
      BY <2>1, <2>2, ThreadFacts
  <1>4. QED
    BY <1>2, <1>3 DEF ImportedAt, Importing

LEMMA MapFileKeeps ==
    ASSUME IInv, NEW a \in Assets, MapFile(a)
    PROVE  IInv'
  <1>1. TypeOK /\ LockHeld /\ Looking /\ FreshAt(a) /\ ImportedAt(a)
    BY InvParts DEF Fresh, Imported
  <1>2. /\ pc[a] = "map" /\ UNCHANGED <<rows, files, memory, removals, job, calls, history>>
        /\ faults' \in 0 .. MaxFaults
    BY <1>1, SizesAssumption DEF MapFile, Fault, TypeOK
  <1>3. /\ a \in Threads \ {Loader} /\ "record" \in RoleOf(a)
        /\ "record" \in Holding /\ pc[a] \in Holding
    BY <1>2, ThreadFacts, RoleFacts DEF Holding, Importing
  <1>4. job[a].version \in Nat /\ VersionLimit \in Nat
    BY <1>1, <1>3, SizesAssumption DEF TypeOK
  <1>5. /\ Roles' /\ ~Down /\ ~Down' /\ pc' \in [Threads -> Labels]
        /\ LockHeld' /\ state_mutex_' \in MutexType
        /\ \A s \in Threads : s # a => pc'[s] = pc[s]
        /\ FreshAt(a)' /\ ImportedAt(a)'
    <2>1. CASE Goto(a, "record") /\ state_mutex_' = state_mutex_
      <3>1. /\ Roles' /\ ~Down /\ ~Down' /\ pc' \in [Threads -> Labels]
            /\ \A s \in Threads : pc'[s] = IF s = a THEN "record" ELSE pc[s]
        BY <1>2, <1>3, <2>1, Moves
      <3>2. LockHeld' /\ state_mutex_' \in MutexType
        BY <1>3, <2>1, <3>1, LockKept
      <3>3. pc'[a] = "record" /\ rows' = rows /\ files' = files /\ job' = job /\ issued' = issued
        BY <1>2, <1>3, <3>1 DEF history
      <3>4. FreshAt(a)'
        BY <1>1, <1>2, <3>3 DEF FreshAt, Importing, Unused
      <3>5. \A b \in Uses[a] : pc'[b] = "done"
        <4>1. Uses[a] \subseteq Assets
          BY SizesAssumption
        <4>2. \A b \in Uses[a] : pc[b] = "done"
          BY <1>1, <1>2 DEF ImportedAt, Importing
        <4>3. QED
          BY <1>2, <3>1, <4>1, <4>2, ThreadFacts
      <3>6. ImportedAt(a)'
        BY <3>3, <3>5 DEF ImportedAt
      <3>7. QED
        BY <3>1, <3>2, <3>4, <3>6
    <2>2. ASSUME NEW v \in Nat, Retry(a, v), v = VersionLimit \/ v = job[a].version
          PROVE  /\ Roles' /\ ~Down /\ ~Down' /\ pc' \in [Threads -> Labels]
                 /\ LockHeld' /\ state_mutex_' \in MutexType
                 /\ \A s \in Threads : s # a => pc'[s] = pc[s]
                 /\ FreshAt(a)' /\ ImportedAt(a)'
      <3>1. /\ Roles' /\ ~Down /\ ~Down' /\ pc' \in [Threads -> Labels]
            /\ LockHeld' /\ state_mutex_' \in MutexType
            /\ \A s \in Threads : s # a => pc'[s] = pc[s]
            /\ pc'[a] = IF v < VersionLimit THEN "try" ELSE "failed"
        BY <1>2, <2>2, RetryIs
      <3>2. rows' = rows /\ job' = job /\ issued' = issued
        BY <1>2 DEF history
      <3>3. pc'[a] = "try" => job'[a].version < VersionLimit
        BY <1>4, <2>2, <3>1, <3>2
      <3>4. FreshAt(a)' /\ ImportedAt(a)'
        BY <1>2, <3>1, <3>2, <3>3, RetryKept
      <3>5. QED
        BY <3>1, <3>4
    <2>3. \/ Goto(a, "record") /\ state_mutex_' = state_mutex_
          \/ Retry(a, VersionLimit)
          \/ Retry(a, job[a].version)
      BY DEF MapFile
    <2>4. QED
      BY <1>4, <2>1, <2>2, <2>3
  <1>6. TypeOK'
    BY <1>1, <1>2, <1>5 DEF TypeOK, memory, removals, history, Labels, MutexType
  <1>7. Looking'
    BY <1>1, <1>2, <1>3, <1>5, ThreadFacts DEF Looking
  <1>8. QED
    BY <1>2, <1>5, <1>6, <1>7, ThreadFacts, StillKeeps DEF history


\* A file is made, or one that no record names is deleted.
LEMMA ShelvesKeep ==
    ASSUME IInv, TypeOK', Roles', LockHeld', ~Down, ~Down',
           UNCHANGED <<rows, memory, history>>,
           \A i \in NonEmpty(rows) : files'[rows[i].filepath] = files[rows[i].filepath],
           \A b \in Assets :
             \/ /\ pc'[b] = pc[b] /\ job'[b] = job[b] /\ pc[b] \notin Importing
                /\ \A p \in Paths : files'[p] = files[p] \/ files'[p] = NoFile \/ files'[p].of # b
             \/ pc[b] # "done" /\ FreshAt(b)' /\ ImportedAt(b)',
           \A t \in {Main, Client} : pc'[t] = "nuke" => pc[t] = "nuke" /\ job'[t] = job[t],
           pc'[Loader] # "open"
    PROVE  IInv'
  <1>1. /\ TypeOK /\ Mirrored /\ Issued /\ RowsHaveFiles /\ Fresh /\ Imported /\ Removing
        /\ RefsResolve
    BY InvParts
  <1>2. /\ rows' = rows /\ removed' = removed /\ issued' = issued
        /\ table_' = table_ /\ empty_rows_' = empty_rows_ /\ path_uses_' = path_uses_
    BY DEF memory, history
  <1>3. Mirrored'
    BY <1>1, <1>2 DEF Mirrored
  <1>4. Issued' /\ RowsHaveFiles'
    BY <1>1, <1>2 DEF Issued, RowsHaveFiles
  <1>5. \A u : Readable(rows, files, u) => Readable(rows, files, u)'
    BY <1>2 DEF Readable
  <1>6. Lasting
    BY <1>2, <1>5 DEF Lasting
  <1>7. RefsResolve'
    BY <1>1, <1>2, <1>5 DEF RefsResolve, Resolved
  <1>8. ASSUME NEW b \in Assets PROVE FreshAt(b)' /\ ImportedAt(b)'
    <2>1. CASE /\ pc'[b] = pc[b] /\ job'[b] = job[b] /\ pc[b] \notin Importing
               /\ \A p \in Paths : files'[p] = files[p] \/ files'[p] = NoFile \/ files'[p].of # b
      BY <1>2, <1>6, <2>1, OthersKept
    <2>2. CASE FreshAt(b)' /\ ImportedAt(b)'
      BY <2>2
    <2>3. QED
      BY <2>1, <2>2
  <1>9. Fresh' /\ Imported'
    BY <1>8 DEF Fresh, Imported
  <1>10. Removing'
    BY <1>1, <1>2 DEF Removing, Unused
  <1>11. Looking'
    BY DEF Looking
  <1>12. QED
    BY <1>3, <1>4, <1>7, <1>9, <1>10, <1>11, InvSplit

LEMMA FileFacts ==
    /\ \A a \in Assets : /\ NewFile(a) \in Contents /\ NewFile(a) # NoFile /\ NewFile(a).of = a
                         /\ NewFile(a).text = Nil /\ NewFile(a).refs = {}
  BY NamesAssumption DEF NewFile, Contents

LEMMA TryPathKeeps ==
    ASSUME IInv, NEW a \in Assets, TryPath(a)
    PROVE  /\ IInv' /\ rows' = rows
           /\ \/ files' = files
              \/ \E p \in Paths : \E c \in Contents :
                   files[p] = NoFile /\ files' = [files EXCEPT ![p] = c]
  <1>1. /\ TypeOK /\ LockHeld /\ Looking /\ FreshAt(a) /\ ImportedAt(a) /\ Mirrored
        /\ RowsHaveFiles
    BY InvParts DEF Fresh, Imported
  <1>2. PICK version : version = job[a].version + 1
    OBVIOUS
  <1>3. PICK path : path = path_from_hint(HintOf[a], job[a].version)
    OBVIOUS
  <1>4. /\ pc[a] = "try" /\ UNCHANGED <<rows, memory, removals, bounds, history>>
        /\ job' = [job EXCEPT ![a].path = path, ![a].version = version]
    BY <1>2, <1>3 DEF TryPath
  <1>5. /\ a \in Threads \ {Loader} /\ "map" \in RoleOf(a)
        /\ "map" \in Holding /\ pc[a] \in Holding
    BY <1>4, ThreadFacts, RoleFacts DEF Holding, Importing
  <1>6. job[a] \in JobRecord /\ job \in [Threads -> JobRecord]
    BY <1>1, <1>5 DEF TypeOK, JobRecord
  <1>7. version \in 0 .. VersionLimit /\ job[a].version \in 0 .. VersionLimit - 1
    BY <1>1, <1>2, <1>4, <1>6, SizesAssumption DEF FreshAt, JobRecord
  <1>8. path \in Paths
    BY <1>3, <1>7, SizesAssumption DEF Paths
  <1>9. /\ job' \in [Threads -> JobRecord]
        /\ job'[a].uuid = job[a].uuid /\ job'[a].path = path /\ job'[a].version = version
        /\ \A s \in Threads : s # a => job'[s] = job[s]
    <2>1. PICK r : r = [job[a] EXCEPT !.path = path, !.version = version]
      OBVIOUS
    <2>2. r \in JobRecord /\ r.uuid = job[a].uuid /\ r.path = path /\ r.version = version
      BY <1>6, <1>7, <1>8, <2>1 DEF JobRecord
    <2>3. job' = [job EXCEPT ![a] = r]
      BY <1>4, <1>6, <2>1
    <2>4. QED
      BY <1>5, <1>6, <2>2, <2>3
  <1>10. rows' = rows /\ issued' = issued /\ removed' = removed
    BY <1>4 DEF history
  <1>11. pc[Loader] # "open" /\ \A s \in Threads : s # a => pc[s] \notin Holding
    BY <1>5, Alone
  <1>12. CASE path_uses_[path] > 0 \/ files[path] # NoFile
    <2>1. Retry(a, version) /\ files' = files
      BY <1>2, <1>3, <1>12 DEF TryPath
    <2>2. /\ Roles' /\ ~Down /\ ~Down' /\ pc' \in [Threads -> Labels]
          /\ LockHeld' /\ state_mutex_' \in MutexType
          /\ \A s \in Threads : s # a => pc'[s] = pc[s]
          /\ pc'[a] = IF version < VersionLimit THEN "try" ELSE "failed"
      BY <1>4, <2>1, RetryIs
    <2>3. FreshAt(a)' /\ ImportedAt(a)'
      BY <1>4, <1>9, <1>10, <2>2, RetryKept
    <2>4. TypeOK'
      BY <1>1, <1>4, <1>9, <2>1, <2>2
         DEF TypeOK, memory, removals, bounds, history, Labels, MutexType, JobRecord
    <2>5. Looking'
      BY <1>5, <1>11, <2>2, ThreadFacts DEF Looking
    <2>6. IInv'
      BY <1>4, <1>9, <1>10, <2>1, <2>2, <2>3, <2>4, <2>5, ThreadFacts, StillKeeps
    <2>7. QED
      BY <1>10, <2>1, <2>6
  <1>13. CASE ~(path_uses_[path] > 0 \/ files[path] # NoFile)
    <2>1. /\ files' = [files EXCEPT ![path] = NewFile(a)]
          /\ Goto(a, "map") /\ state_mutex_' = state_mutex_
      BY <1>3, <1>13 DEF TryPath, NewFile
    <2>2. /\ Roles' /\ ~Down /\ ~Down' /\ pc' \in [Threads -> Labels]
          /\ \A s \in Threads : pc'[s] = IF s = a THEN "map" ELSE pc[s]
      BY <1>4, <1>5, <2>1, Moves
    <2>3. LockHeld' /\ state_mutex_' \in MutexType
      BY <1>5, <2>1, <2>2, LockKept
    <2>4. files \in [Paths -> Contents \cup {NoFile}]
      BY <1>1 DEF TypeOK
    <2>5. /\ files' \in [Paths -> Contents \cup {NoFile}]
          /\ \A p \in Paths : files'[p] = IF p = path THEN NewFile(a) ELSE files[p]
      BY <1>8, <2>1, <2>4, FileFacts
    <2>6. TypeOK'
      BY <1>1, <1>4, <1>9, <2>2, <2>3, <2>5
         DEF TypeOK, memory, removals, bounds, history, Labels, MutexType, JobRecord
    <2>7. rows \in Seq(Row) /\ \A i \in NonEmpty(rows) : rows[i].filepath \in Paths
      BY <1>1, RowsFacts DEF TypeOK
    <2>8. Unused(path)
      BY <1>1, <1>13 DEF Unused, RowsHaveFiles
    <2>9. \A i \in NonEmpty(rows) : files'[rows[i].filepath] = files[rows[i].filepath]
      BY <2>5, <2>7, <2>8 DEF Unused
    <2>10. pc'[a] = "map" /\ files'[path] = NewFile(a)
      BY <1>5, <1>8, <2>2, <2>5
    <2>11. FreshAt(a)'
      BY <1>1, <1>4, <1>8, <1>9, <1>10, <2>8, <2>10 DEF FreshAt, Importing, Unused
    <2>12. ImportedAt(a)'
      <3>1. Uses[a] \subseteq Assets /\ \A b \in Uses[a] : pc[b] = "done"
        BY <1>1, <1>4, SizesAssumption DEF ImportedAt, Importing
      <3>2. \A b \in Uses[a] : pc'[b] = "done"
        BY <1>4, <2>2, <3>1, ThreadFacts
      <3>3. QED
        BY <2>10, <3>2 DEF ImportedAt
    <2>13. \A b \in Assets : b # a =>
              /\ pc'[b] = pc[b] /\ job'[b] = job[b] /\ pc[b] \notin Importing
              /\ \A p \in Paths : files'[p] = files[p] \/ files'[p] = NoFile \/ files'[p].of # b
      BY <1>9, <1>11, <2>2, <2>5, ThreadFacts, FileFacts DEF Holding
    <2>14. /\ \A t \in {Main, Client} : pc'[t] = "nuke" => pc[t] = "nuke" /\ job'[t] = job[t]
           /\ pc'[Loader] # "open"
      BY <1>5, <1>9, <1>11, <2>2, ThreadFacts
    <2>15. UNCHANGED <<rows, memory, history>>
      BY <1>4
    <2>16. IInv'
      BY <1>4, <2>2, <2>3, <2>6, <2>9, <2>11, <2>12, <2>13, <2>14, <2>15, ShelvesKeep
    <2>17. files[path] = NoFile /\ NewFile(a) \in Contents
      BY <1>13, FileFacts
    <2>18. QED
      BY <1>8, <1>10, <2>1, <2>16, <2>17
  <1>14. QED
    BY <1>12, <1>13


\* The rows change, no file does: a record that goes is removed, and the file of
\* one that comes is empty.
LEMMA RecordsKeep ==
    ASSUME IInv, TypeOK', Roles', LockHeld', Mirrored', Issued', Removing',
           files' = files, issued' = issued, removed \subseteq removed',
           \A i \in NonEmpty(rows) :
             rows[i].uuid \in removed' \/ (i \in NonEmpty(rows)' /\ rows'[i] = rows[i]),
           \A i \in NonEmpty(rows)' :
             \/ i \in NonEmpty(rows) /\ rows'[i] = rows[i]
             \/ files[rows'[i].filepath] # NoFile /\ files[rows'[i].filepath].refs = {},
           \A b \in Assets :
             \/ pc'[b] = pc[b] /\ job'[b] = job[b] /\ pc[b] \notin Importing
             \/ pc[b] # "done" /\ (Lasting => FreshAt(b)' /\ ImportedAt(b)'),
           pc'[Loader] # "open"
    PROVE  IInv'
  <1>1. TypeOK /\ RowsHaveFiles /\ Fresh /\ Imported /\ RefsResolve
    BY InvParts
  <1>2. ASSUME NEW u, Readable(rows, files, u) PROVE u \in removed' \/ Readable(rows, files, u)'
    BY <1>2 DEF Readable
  <1>3. Lasting
    BY <1>2 DEF Lasting
  <1>4. RowsHaveFiles'
    BY <1>1 DEF RowsHaveFiles
  <1>5. RefsResolve'
    BY <1>1, <1>2 DEF RefsResolve, Resolved
  <1>6. ASSUME NEW b \in Assets PROVE FreshAt(b)' /\ ImportedAt(b)'
    <2>1. CASE pc'[b] = pc[b] /\ job'[b] = job[b] /\ pc[b] \notin Importing
      BY <1>3, <2>1, OthersKept
    <2>2. CASE FreshAt(b)' /\ ImportedAt(b)'
      BY <2>2
    <2>3. QED
      BY <1>3, <2>1, <2>2
  <1>7. Fresh' /\ Imported'
    BY <1>6 DEF Fresh, Imported
  <1>8. Looking'
    BY DEF Looking
  <1>9. QED
    BY <1>4, <1>5, <1>7, <1>8, InvSplit

LEMMA GrowFileKeeps ==
    ASSUME IInv, NEW a \in Assets, GrowFile(a)
    PROVE  IInv' /\ files' = files /\ SameRecords(rows, rows')
  <1>1. /\ TypeOK /\ Roles /\ LockHeld /\ Mirrored /\ Issued /\ Removing /\ RowsHaveFiles
        /\ FreshAt(a) /\ ImportedAt(a)
    BY InvParts DEF Fresh, Imported
  <1>2. PICK size : size = 1 + (Len(rows) * 13) \div 10
    OBVIOUS
  <1>3. /\ pc[a] = "record" /\ empty_rows_ = {}
        /\ rows' = [i \in 1 .. size |-> IF i \in DOMAIN rows THEN rows[i] ELSE EmptyRow]
        /\ empty_rows_' = Len(rows) + 1 .. size
        /\ UNCHANGED <<files, table_, path_uses_, removals, state_mutex_, pc, job, bounds, history>>
    BY <1>2 DEF GrowFile
  <1>4. /\ rows \in Seq(Row) /\ Len(rows) \in Nat /\ DOMAIN rows = 1 .. Len(rows)
        /\ NonEmpty(rows) \subseteq DOMAIN rows /\ \A i \in DOMAIN rows : rows[i] \in Row
    BY <1>1, RowsFacts DEF TypeOK
  <1>5. size \in Nat /\ Len(rows) < size
    BY <1>2, <1>4
  <1>6. rows' \in Seq(Row)
    <2>1. rows' \in [1 .. size -> Row]
      BY <1>3, <1>4, RowFacts
    <2>2. QED
      BY <1>5, <2>1, SeqDef
  <1>7. DOMAIN rows' = 1 .. size /\ \A i \in DOMAIN rows' :
           rows'[i] = IF i \in DOMAIN rows THEN rows[i] ELSE EmptyRow
    BY <1>3
  <1>8. SameRecords(rows, rows')
    <2>1. \A i : i \in NonEmpty(rows') <=> i \in NonEmpty(rows)
      BY <1>4, <1>5, <1>7, RowFacts DEF NonEmpty
    <2>2. \A i \in NonEmpty(rows) : rows'[i] = rows[i]
      BY <1>4, <1>5, <1>7
    <2>3. QED
      BY <1>6, <2>1, <2>2 DEF SameRecords
  <1>9. pc[a] \in Holding /\ a \in Threads /\ a # Loader
    BY <1>3, ThreadFacts DEF Holding, Importing
  <1>10. ~Down
    BY <1>1, <1>3, <1>9 DEF Roles
  <1>11. NonEmpty(rows') = NonEmpty(rows) /\ UuidsIn(rows') = UuidsIn(rows)
    BY <1>1, <1>4, <1>8, SameMirrors DEF SameRecords, Mirrored
  <1>12. Mirrored'
    <2>1. Distinct(rows') /\ TableOf(rows') = TableOf(rows) /\ PathUsesOf(rows') = PathUsesOf(rows)
      BY <1>1, <1>4, <1>8, SameMirrors DEF Mirrored
    <2>2. table_' = table_ /\ path_uses_' = path_uses_
      BY <1>3
    <2>3. empty_rows_' = EmptyRowsOf(rows')
      <3>1. \A i \in DOMAIN rows : i \in NonEmpty(rows)
        BY <1>1, <1>3, <1>10 DEF Mirrored, EmptyRowsOf
      <3>2. \A i : i \in 1 .. size /\ i \notin NonEmpty(rows') <=> i \in Len(rows) + 1 .. size
        BY <1>4, <1>5, <1>11, <3>1
      <3>3. EmptyRowsOf(rows') = (1 .. size) \ NonEmpty(rows')
        BY <1>7 DEF EmptyRowsOf
      <3>4. QED
        BY <1>3, <3>2, <3>3
    <2>4. QED
      BY <1>1, <1>10, <2>1, <2>2, <2>3 DEF Mirrored
  <1>13. pc' = pc /\ job' = job /\ files' = files /\ issued' = issued /\ removed' = removed
         /\ state_mutex_' = state_mutex_
    BY <1>3 DEF history
  <1>14. TypeOK'
    <2>1. empty_rows_' \subseteq Nat
      BY <1>3, <1>4, <1>5
    <2>2. QED
      BY <1>1, <1>3, <1>6, <2>1 DEF TypeOK, removals, bounds, history
  <1>15. Roles' /\ LockHeld'
    BY <1>1, <1>13 DEF Roles, Down, LockHeld
  <1>16. Issued'
    BY <1>1, <1>11, <1>13 DEF Issued
  <1>17. \A p : Unused(p) => Unused(p)'
    BY <1>8 DEF Unused, SameRecords
  <1>18. Removing'
    BY <1>1, <1>13, <1>17 DEF Removing
  <1>19. \A b \in Assets : b # a => pc[b] \notin Importing
    BY <1>9, Alone, ThreadFacts DEF Holding
  <1>20. FreshAt(a)'
    BY <1>1, <1>3, <1>11, <1>13, <1>17 DEF FreshAt
  <1>21. ImportedAt(a)'
    BY <1>1, <1>3, <1>13 DEF ImportedAt
  <1>22. pc'[Loader] # "open"
    BY <1>9, <1>13, Alone
  <1>23. \A i \in NonEmpty(rows) : i \in NonEmpty(rows') /\ rows'[i] = rows[i]
    BY <1>8 DEF SameRecords
  <1>24. IInv'
    BY <1>3, <1>11, <1>12, <1>13, <1>14, <1>15, <1>16, <1>18, <1>19, <1>20, <1>21, <1>22, <1>23,
       RecordsKeep
  <1>25. QED
    BY <1>8, <1>13, <1>24

LEMMA NewEntryKeeps ==
    ASSUME IInv, NEW a \in Assets, NewEntry(a)
    PROVE  /\ IInv'
           /\ \E row : Added(rows, rows', row, job[a].uuid, job[a].path)
           /\ job[a].uuid \in Uuids /\ job[a].uuid \notin UuidsIn(rows)
           /\ job[a].path \in Paths /\ Unused(job[a].path) /\ files[job[a].path] # NoFile
           /\ files' = files
  <1>1. /\ TypeOK /\ Mirrored /\ Issued /\ Removing /\ RowsHaveFiles
        /\ FreshAt(a) /\ ImportedAt(a)
    BY InvParts DEF Fresh, Imported
  <1>2. PICK row : row = CHOOSE i \in empty_rows_ : \A j \in empty_rows_ : i <= j
    OBVIOUS
  <1>3. PICK u : u = job[a].uuid
    OBVIOUS
  <1>4. PICK p : p = job[a].path
    OBVIOUS
  <1>5. /\ pc[a] = "record" /\ empty_rows_ # {} /\ Unlock /\ Goto(a, "fill")
        /\ rows' = [rows EXCEPT ![row] = [uuid |-> u, filepath |-> p]]
        /\ empty_rows_' = empty_rows_ \ {row}
        /\ table_' = [table_ EXCEPT ![u] = row]
        /\ path_uses_' = [path_uses_ EXCEPT ![p] = @ + 1]
        /\ UNCHANGED <<files, removals, job, bounds, history>>
    BY <1>2, <1>3, <1>4 DEF NewEntry
  <1>6. row \in empty_rows_ /\ row \in Nat
    <2>1. empty_rows_ \in SUBSET Nat
      BY <1>1 DEF TypeOK
    <2>2. \E i \in empty_rows_ : \A j \in empty_rows_ : i <= j
      BY <1>5, <2>1, FirstExists
    <2>3. QED
      BY <1>2, <2>1, <2>2
  <1>7. /\ a \in Threads \ {Loader} /\ "fill" \in RoleOf(a) /\ "fill" \notin Holding
        /\ pc[a] \in Holding
    BY <1>5, ThreadFacts, RoleFacts DEF Holding, Importing
  <1>8. /\ Roles' /\ ~Down /\ ~Down' /\ pc' \in [Threads -> Labels]
        /\ \A s \in Threads : pc'[s] = IF s = a THEN "fill" ELSE pc[s]
    BY <1>5, <1>7, Moves
  <1>9. LockHeld' /\ state_mutex_' \in MutexType
    BY <1>5, <1>7, <1>8, LockReleased
  <1>10. pc[Loader] # "open" /\ \A s \in Threads : s # a => pc[s] \notin Holding
    BY <1>7, Alone
  <1>11. u \in Uuids /\ u \notin UuidsIn(rows) /\ p \in Paths /\ Unused(p) /\ files[p] = NewFile(a)
    BY <1>1, <1>3, <1>4, <1>5 DEF FreshAt, Importing, TypeOK
  <1>12. /\ rows \in Seq(Row) /\ Len(rows) \in Nat /\ DOMAIN rows = 1 .. Len(rows)
         /\ rows \in [1 .. Len(rows) -> Row] /\ NonEmpty(rows) \subseteq DOMAIN rows
    BY <1>1, RowsFacts DEF TypeOK
  <1>13. row \in DOMAIN rows /\ row \notin NonEmpty(rows)
    BY <1>1, <1>6, <1>8 DEF Mirrored, EmptyRowsOf
  <1>14. PICK r : r = [uuid |-> u, filepath |-> p]
    OBVIOUS
  <1>15. r \in Row /\ r.uuid = u /\ r.filepath = p /\ u # Nil
    BY <1>11, <1>14, NamesAssumption DEF Row
  <1>16. /\ rows' \in Seq(Row) /\ DOMAIN rows' = DOMAIN rows
         /\ \A i \in DOMAIN rows : rows'[i] = IF i = row THEN r ELSE rows[i]
    <2>1. rows' = [rows EXCEPT ![row] = r]
      BY <1>5, <1>14
    <2>2. rows' \in [1 .. Len(rows) -> Row]
      BY <1>12, <1>15, <2>1
    <2>3. QED
      BY <1>12, <2>1, <2>2, SeqDef
  <1>17. Added(rows, rows', row, u, p)
    <2>1. \A i : i \in NonEmpty(rows') <=> i \in NonEmpty(rows) \/ i = row
      BY <1>13, <1>15, <1>16 DEF NonEmpty
    <2>2. NonEmpty(rows') = NonEmpty(rows) \cup {row}
      BY <2>1
    <2>3. rows'[row].uuid = u /\ rows'[row].filepath = p
      BY <1>13, <1>15, <1>16
    <2>4. \A j \in NonEmpty(rows) : rows'[j] = rows[j]
      BY <1>12, <1>13, <1>16
    <2>5. QED
      BY <1>6, <1>13, <1>16, <2>2, <2>3, <2>4 DEF Added
  <1>18. /\ Distinct(rows')
         /\ TableOf(rows') = [TableOf(rows) EXCEPT ![u] = row]
         /\ PathUsesOf(rows') = [PathUsesOf(rows) EXCEPT ![p] = @ + 1]
         /\ UuidsIn(rows') = UuidsIn(rows) \cup {u}
    BY <1>1, <1>11, <1>12, <1>17, AddedMirrors DEF Mirrored
  <1>19. Mirrored'
    <2>1. table_ = TableOf(rows) /\ path_uses_ = PathUsesOf(rows) /\ empty_rows_ = EmptyRowsOf(rows)
      BY <1>1, <1>8 DEF Mirrored
    <2>2. empty_rows_' = EmptyRowsOf(rows')
      BY <1>5, <1>16, <1>17, <2>1 DEF EmptyRowsOf, Added
    <2>3. table_' = TableOf(rows') /\ path_uses_' = PathUsesOf(rows')
      BY <1>5, <1>18, <2>1
    <2>4. QED
      BY <1>18, <2>2, <2>3 DEF Mirrored
  <1>20. job' = job /\ files' = files /\ issued' = issued /\ removed' = removed
    BY <1>5 DEF history
  <1>21. TypeOK'
    <2>1. table_' \in [Uuids -> Nat] /\ path_uses_' \in [Paths -> Nat] /\ empty_rows_' \subseteq Nat
      BY <1>1, <1>5, <1>6, <1>11 DEF TypeOK
    <2>2. QED
      BY <1>1, <1>5, <1>8, <1>9, <1>16, <2>1
         DEF TypeOK, removals, bounds, history, Labels, MutexType
  <1>22. u \in issued
    BY <1>1, <1>3, <1>5 DEF FreshAt, Importing
  <1>23. Issued'
    BY <1>1, <1>18, <1>20, <1>22 DEF Issued
  <1>24. Removing'
    BY <1>7, <1>8, <1>10, ThreadFacts DEF Removing, Holding
  <1>25. FreshAt(a)'
    BY <1>7, <1>8 DEF FreshAt, Importing
  <1>26. Recorded(a)'
    <2>1. row \in NonEmpty(rows')
      BY <1>17 DEF Added
    <2>2. rows'[row] = [uuid |-> job[a].uuid, filepath |-> job[a].path]
      BY <1>3, <1>4, <1>13, <1>14, <1>16
    <2>3. files[job[a].path].of = a
      BY <1>4, <1>11, FileFacts
    <2>4. QED
      BY <1>20, <2>1, <2>2, <2>3 DEF Recorded
  <1>27. ImportedAt(a)'
    <2>1. pc'[a] = "fill"
      BY <1>7, <1>8
    <2>2. \A b \in Uses[a] : pc'[b] = "done"
      <3>1. Uses[a] \subseteq Assets /\ \A b \in Uses[a] : pc[b] = "done"
        BY <1>1, <1>5, SizesAssumption DEF ImportedAt, Importing
      <3>2. QED
        BY <1>5, <1>8, <3>1, ThreadFacts
    <2>3. QED
      BY <1>3, <1>4, <1>11, <1>20, <1>22, <1>26, <2>1, <2>2 DEF ImportedAt
  <1>28. \A b \in Assets : b # a => pc'[b] = pc[b] /\ job'[b] = job[b] /\ pc[b] \notin Importing
    BY <1>8, <1>10, <1>20, ThreadFacts DEF Holding
  <1>29. pc'[Loader] # "open"
    BY <1>7, <1>8, <1>10, ThreadFacts
  <1>30. /\ \A i \in NonEmpty(rows) : i \in NonEmpty(rows') /\ rows'[i] = rows[i]
         /\ \A i \in NonEmpty(rows') :
              \/ i \in NonEmpty(rows) /\ rows'[i] = rows[i]
              \/ files[rows'[i].filepath] # NoFile /\ files[rows'[i].filepath].refs = {}
    BY <1>11, <1>17, FileFacts DEF Added
  <1>31. IInv'
    BY <1>5, <1>8, <1>9, <1>19, <1>20, <1>21, <1>23, <1>24, <1>25, <1>27, <1>28, <1>29, <1>30,
       RecordsKeep
  <1>32. QED
    BY <1>3, <1>4, <1>11, <1>17, <1>20, <1>31, FileFacts


\* What a job has made is written, for what refers to it and to it alone.
LEMMA FillFileKeeps ==
    ASSUME IInv, NEW a \in Assets, FillFile(a)
    PROVE  /\ IInv' /\ rows' = rows /\ job[a].path \in Paths
           /\ \/ files' = files
              \/ /\ files[job[a].path] = NewFile(a)
                 /\ \E c \in Contents : files' = [files EXCEPT ![job[a].path] = c]
  <1>1. /\ TypeOK /\ Mirrored /\ Issued /\ Removing /\ RowsHaveFiles /\ Looking /\ RefsResolve
        /\ Imported /\ ImportedAt(a)
    BY InvParts DEF Imported
  <1>2. PICK p : p = job[a].path
    OBVIOUS
  <1>3. PICK refs : refs = {job[b].uuid : b \in Uses[a]}
    OBVIOUS
  <1>4. /\ pc[a] = "fill" /\ Goto(a, "done")
        /\ files' = [files EXCEPT ![p] = IF @ = NoFile \/ @.of # a THEN @
                                         ELSE [@ EXCEPT !.text = a, !.refs = refs]]
        /\ UNCHANGED <<rows, memory, removals, state_mutex_, job, bounds, history>>
    BY <1>2, <1>3 DEF FillFile
  <1>5. /\ a \in Threads \ {Loader} /\ "done" \in RoleOf(a)
        /\ "done" \in Holding <=> pc[a] \in Holding
    BY <1>4, ThreadFacts, RoleFacts DEF Holding, Importing
  <1>6. /\ Roles' /\ ~Down /\ ~Down' /\ pc' \in [Threads -> Labels]
        /\ \A s \in Threads : pc'[s] = IF s = a THEN "done" ELSE pc[s]
    BY <1>4, <1>5, Moves
  <1>7. LockHeld' /\ state_mutex_' \in MutexType
    BY <1>4, <1>5, <1>6, LockKept
  <1>8. /\ p \in Paths /\ job[a].uuid \in issued /\ Recorded(a)
        /\ files[p] # NoFile /\ files[p].of = a => files[p] = NewFile(a)
    BY <1>1, <1>2, <1>4 DEF ImportedAt
  <1>9. /\ rows' = rows /\ job' = job /\ issued' = issued /\ removed' = removed
        /\ table_' = table_ /\ empty_rows_' = empty_rows_ /\ path_uses_' = path_uses_
    BY <1>4 DEF memory, history
  <1>10. Uses[a] \subseteq Assets /\ \A b \in Uses[a] : pc[b] = "done"
    BY <1>1, <1>4, SizesAssumption DEF ImportedAt
  <1>11. \A u \in refs : u \in Uuids /\ (u \in removed \/ Readable(rows, files, u))
    BY <1>1, <1>3, <1>10 DEF Imported, ImportedAt, TypeOK
  <1>12. PICK c : c = [NewFile(a) EXCEPT !.text = a, !.refs = refs]
    OBVIOUS
  <1>13. /\ c \in Contents /\ c # NoFile /\ c.of = a /\ c.text = a /\ a # Nil /\ c.refs = refs
    BY <1>11, <1>12, NamesAssumption DEF NewFile, Contents
  <1>14. files \in [Paths -> Contents \cup {NoFile}]
    BY <1>1 DEF TypeOK
  <1>15. \/ files' = files
         \/ /\ files[p] = NewFile(a) /\ files' = [files EXCEPT ![p] = c]
            /\ \A q \in Paths : files'[q] = IF q = p THEN c ELSE files[q]
    BY <1>4, <1>8, <1>12, <1>14
  <1>16. files' \in [Paths -> Contents \cup {NoFile}]
    BY <1>8, <1>13, <1>14, <1>15
  <1>17. TypeOK'
    BY <1>1, <1>4, <1>6, <1>7, <1>9, <1>16
       DEF TypeOK, removals, bounds, Labels, MutexType
  <1>18. \A q \in Paths :
            /\ files'[q] = files[q] \/ (files[q] = NewFile(a) /\ files'[q] = c)
            /\ files[q] # NoFile => files'[q] # NoFile /\ files'[q].of = files[q].of
            /\ files[q].text # Nil /\ files[q] # NoFile => files'[q].text # Nil
    BY <1>13, <1>15, FileFacts
  <1>19. \A i \in NonEmpty(rows) : rows[i].filepath \in Paths
    BY <1>1, RowsFacts DEF TypeOK
  <1>20. \A u : Readable(rows, files, u) => Readable(rows, files, u)'
    BY <1>9, <1>18, <1>19 DEF Readable
  <1>21. RowsHaveFiles'
    BY <1>1, <1>9, <1>18, <1>19 DEF RowsHaveFiles
  <1>22. Lasting
    BY <1>1, <1>9, <1>18, <1>19, <1>20 DEF Lasting, RowsHaveFiles
  <1>23. RefsResolve'
    <2> SUFFICES ASSUME NEW i \in NonEmpty(rows), NEW u \in files'[rows[i].filepath].refs \ removed
                 PROVE  Readable(rows, files, u)'
      BY <1>9 DEF RefsResolve, Resolved, Readable
    <2>1. CASE files'[rows[i].filepath] = files[rows[i].filepath]
      BY <1>1, <1>20, <2>1 DEF RefsResolve, Resolved, RowsHaveFiles
    <2>2. CASE files'[rows[i].filepath] = c
      BY <1>11, <1>13, <1>20, <2>2
    <2>3. QED
      BY <1>18, <1>19, <2>1, <2>2
  <1>24. Mirrored' /\ Issued'
    BY <1>1, <1>6, <1>9 DEF Mirrored, Issued
  <1>25. Removing'
    BY <1>1, <1>5, <1>6, <1>9, ThreadFacts DEF Removing, Unused
  <1>26. Looking'
    BY <1>1, <1>5, <1>6, <1>9, <1>18, ThreadFacts DEF Looking
  <1>27. ImportedAt(a)' /\ FreshAt(a)'
    <2>1. pc'[a] = "done"
      BY <1>5, <1>6
    <2>2. job[a].uuid \in removed \/ Readable(rows, files, job[a].uuid)'
      <3>1. CASE job[a].uuid \in removed
        BY <3>1
      <3>2. CASE job[a].uuid \notin removed
        <4>1. PICK j \in NonEmpty(rows) : rows[j] = [uuid |-> job[a].uuid, filepath |-> job[a].path]
          BY <1>8, <3>2 DEF Recorded
        <4>2. rows[j].uuid = job[a].uuid /\ rows[j].filepath = p /\ files[p].of = a
          BY <1>2, <1>8, <3>2, <4>1 DEF Recorded
        <4>3. files[p] # NoFile
          BY <1>1, <4>2 DEF RowsHaveFiles
        <4>4. files'[p] = c
          BY <1>4, <1>8, <1>12, <1>14, <4>2, <4>3
        <4>5. QED
          BY <1>9, <1>13, <4>2, <4>4 DEF Readable
      <3>3. QED
        BY <3>1, <3>2
    <2>3. QED
      BY <1>8, <1>9, <2>1, <2>2 DEF ImportedAt, FreshAt, Importing
  <1>28. ASSUME NEW b \in Assets, b # a PROVE FreshAt(b)' /\ ImportedAt(b)'
    <2>1. pc'[b] = pc[b] /\ job'[b] = job[b]
      BY <1>6, <1>9, <1>28, ThreadFacts
    <2>2. \A d \in Assets : pc[d] = "done" => pc'[d] = "done"
      BY <1>6, ThreadFacts
    <2>3. \A q \in Paths : files'[q] = files[q] \/ files'[q] = NoFile \/ files'[q].of # b
      BY <1>13, <1>18, <1>28
    <2>4. pc[b] \in {"map", "record"} => files'[job[b].path] = files[job[b].path]
      <3>1. pc[b] \in {"map", "record"} =>
               job[b].path \in Paths /\ files[job[b].path] = NewFile(b)
        BY InvParts DEF Fresh, FreshAt
      <3>2. NewFile(b).of = b /\ NewFile(a).of = a
        BY FileFacts
      <3>3. QED
        BY <1>18, <1>28, <3>1, <3>2
    <2>5. QED
      BY <1>9, <1>22, <2>1, <2>2, <2>3, <2>4, OthersKept DEF Importing
  <1>29. Fresh' /\ Imported'
    BY <1>27, <1>28 DEF Fresh, Imported
  <1>30. IInv'
    BY <1>6, <1>7, <1>17, <1>21, <1>23, <1>24, <1>25, <1>26, <1>29, InvSplit
  <1>31. QED
    BY <1>2, <1>8, <1>9, <1>13, <1>15, <1>30

-----------------------------------------------------------------------------
(* A removal *)

LEMMA UnlinkIs ==
    ASSUME IInv, ~Down, NEW u \in Uuids, table_[u] # 0, UnlinkRecord(u)
    PROVE  /\ Dropped(rows, rows', table_[u]) /\ rows[table_[u]].uuid = u
           /\ rows[table_[u]].filepath \in Paths
           /\ LastUse(u) =>
                \A i \in NonEmpty(rows') : rows'[i].filepath # rows[table_[u]].filepath
           /\ Distinct(rows') /\ UuidsIn(rows') \subseteq UuidsIn(rows)
           /\ table_' = TableOf(rows') /\ empty_rows_' = EmptyRowsOf(rows')
           /\ path_uses_' = PathUsesOf(rows')
           /\ rows' \in Seq(Row) /\ table_' \in [Uuids -> Nat] /\ path_uses_' \in [Paths -> Nat]
           /\ empty_rows_' \subseteq Nat /\ removed' = removed \cup {u}
  <1>1. TypeOK /\ Mirrored
    BY InvParts
  <1>2. PICK row : row = table_[u]
    OBVIOUS
  <1>3. PICK p : p = rows[row].filepath
    OBVIOUS
  <1>4. /\ rows' = [rows EXCEPT ![row] = EmptyRow]
        /\ table_' = [table_ EXCEPT ![u] = 0]
        /\ empty_rows_' = empty_rows_ \cup {row}
        /\ path_uses_' = [path_uses_ EXCEPT ![p] = @ - 1]
        /\ removed' = removed \cup {u}
    BY <1>2, <1>3 DEF UnlinkRecord
  <1>5. /\ Distinct(rows) /\ table_ = TableOf(rows) /\ empty_rows_ = EmptyRowsOf(rows)
        /\ path_uses_ = PathUsesOf(rows)
    BY <1>1 DEF Mirrored
  <1>6. /\ rows \in Seq(Row) /\ Len(rows) \in Nat /\ DOMAIN rows = 1 .. Len(rows)
        /\ rows \in [1 .. Len(rows) -> Row] /\ NonEmpty(rows) \subseteq DOMAIN rows
    BY <1>1, RowsFacts DEF TypeOK
  <1>7. row \in NonEmpty(rows) /\ rows[row].uuid = u
    <2>1. IsTable(table_, rows)
      BY <1>5, <1>6, TableIs
    <2>2. QED
      BY <1>2, <2>1 DEF IsTable
  <1>8. p \in Paths /\ row \in DOMAIN rows /\ row \in Nat
    BY <1>3, <1>6, <1>7, RowsFacts
  <1>9. /\ rows' \in Seq(Row) /\ DOMAIN rows' = DOMAIN rows
        /\ \A i \in DOMAIN rows : rows'[i] = IF i = row THEN EmptyRow ELSE rows[i]
    <2>1. rows' \in [1 .. Len(rows) -> Row]
      BY <1>4, <1>6, RowFacts
    <2>2. QED
      BY <1>4, <1>6, <2>1, SeqDef
  <1>10. Dropped(rows, rows', row)
    <2>1. \A i : i \in NonEmpty(rows') <=> i \in NonEmpty(rows) /\ i # row
      BY <1>8, <1>9, RowFacts DEF NonEmpty
    <2>2. NonEmpty(rows') = NonEmpty(rows) \ {row}
      BY <2>1
    <2>3. \A i \in NonEmpty(rows') : rows'[i] = rows[i]
      BY <1>6, <1>9, <2>1
    <2>4. QED
      BY <1>7, <1>9, <2>2, <2>3 DEF Dropped
  <1>11. /\ Distinct(rows')
         /\ TableOf(rows') = [TableOf(rows) EXCEPT ![u] = 0]
         /\ PathUsesOf(rows') = [PathUsesOf(rows) EXCEPT ![p] = @ - 1]
         /\ UuidsIn(rows') = UuidsIn(rows) \ {u}
    BY <1>3, <1>5, <1>6, <1>7, <1>10, DroppedMirrors
  <1>12. table_' = TableOf(rows') /\ path_uses_' = PathUsesOf(rows')
    BY <1>4, <1>5, <1>11
  <1>13. empty_rows_' = EmptyRowsOf(rows')
    BY <1>4, <1>5, <1>8, <1>9, <1>10 DEF EmptyRowsOf, Dropped
  <1>14. /\ table_' \in [Uuids -> Nat] /\ path_uses_' \in [Paths -> Nat]
    BY <1>9, <1>12, TableIs, UsesAre DEF IsTable
  <1>15. empty_rows_' \subseteq Nat
    BY <1>1, <1>4, <1>8 DEF TypeOK
  <1>16. LastUse(u) => \A i \in NonEmpty(rows') : rows'[i].filepath # p
    <2> SUFFICES ASSUME LastUse(u) PROVE \A i \in NonEmpty(rows') : rows'[i].filepath # p
      OBVIOUS
    <2>1. path_uses_[p] = 1
      BY <1>2, <1>3 DEF LastUse
    <2>2. path_uses_'[p] = 0
      BY <1>1, <1>4, <1>8, <2>1 DEF TypeOK
    <2>3. At(rows', p) = {}
      BY <1>8, <1>9, <1>12, <2>2, UsesAre
    <2>4. QED
      BY <2>3 DEF At
  <1>17. QED
    BY <1>2, <1>3, <1>4, <1>7, <1>8, <1>9, <1>10, <1>11, <1>12, <1>13, <1>14, <1>15, <1>16

\* The record goes, whatever the thread does next.
LEMMA UnlinkKeeps ==
    ASSUME IInv, ~Down, ~Down', NEW u \in Uuids, table_[u] # 0, UnlinkRecord(u),
           TypeOK', Roles', LockHeld', files' = files, issued' = issued,
           \A b \in Assets : pc'[b] = pc[b] /\ job'[b] = job[b] /\ pc[b] \notin Importing,
           \A t \in {Main, Client} : pc'[t] = "nuke" =>
             job'[t].path = rows[table_[u]].filepath /\ LastUse(u),
           pc'[Loader] # "open"
    PROVE  IInv'
  <1>1. TypeOK /\ Mirrored /\ Issued
    BY InvParts
  <1>2. /\ Dropped(rows, rows', table_[u]) /\ rows[table_[u]].uuid = u
        /\ rows[table_[u]].filepath \in Paths
        /\ LastUse(u) =>
             \A i \in NonEmpty(rows') : rows'[i].filepath # rows[table_[u]].filepath
        /\ Distinct(rows') /\ UuidsIn(rows') \subseteq UuidsIn(rows)
        /\ table_' = TableOf(rows') /\ empty_rows_' = EmptyRowsOf(rows')
        /\ path_uses_' = PathUsesOf(rows')
        /\ removed' = removed \cup {u}
    BY UnlinkIs
  <1>3. Mirrored' /\ Issued'
    BY <1>1, <1>2 DEF Mirrored, Issued
  <1>4. Removing'
    BY <1>2 DEF Removing, Unused
  <1>5. /\ \A i \in NonEmpty(rows) :
             rows[i].uuid \in removed' \/ (i \in NonEmpty(rows') /\ rows'[i] = rows[i])
        /\ \A i \in NonEmpty(rows') : i \in NonEmpty(rows) /\ rows'[i] = rows[i]
    BY <1>2 DEF Dropped
  <1>6. removed \subseteq removed'
    BY <1>2
  <1>7. QED
    BY <1>3, <1>4, <1>5, <1>6, RecordsKeep


LEMMA PathSet ==
    ASSUME TypeOK, NEW t \in Threads, NEW p \in Paths, job' = [job EXCEPT ![t].path = p]
    PROVE  /\ job' \in [Threads -> JobRecord] /\ job'[t].path = p
           /\ \A s \in Threads : s # t => job'[s] = job[s]
  <1>1. job \in [Threads -> JobRecord]
    BY DEF TypeOK, JobRecord
  <1>2. PICK r : r = [job[t] EXCEPT !.path = p]
    OBVIOUS
  <1>3. r \in JobRecord /\ r.path = p
    BY <1>1, <1>2 DEF JobRecord
  <1>4. job' = [job EXCEPT ![t] = r]
    BY <1>1, <1>2
  <1>5. QED
    BY <1>1, <1>3, <1>4

LEMMA UpdateRemoveKeeps ==
    ASSUME IInv, UpdateRemove
    PROVE  /\ IInv' /\ files' = files
           /\ rows' = rows \/ \E i : Dropped(rows, rows', i)
  <1>1. TypeOK
    BY InvParts
  <1>2. PICK u : u = Head(remove_list_)
    OBVIOUS
  <1>3. /\ pc[Main] = "sweep" /\ remove_list_ # <<>> /\ RemoveRecord(Main, u, "sweep")
        /\ remove_list_' = Tail(remove_list_)
        /\ UNCHANGED <<files, remove_queue_, state_mutex_, bounds, issued>>
    BY <1>2 DEF UpdateRemove
  <1>4. u \in Uuids /\ remove_list_' \in Seq(Uuids)
    BY <1>1, <1>2, <1>3, HeadTailProperties DEF TypeOK
  <1>5. /\ Main \in Threads \ {Loader} /\ "sweep" \in RoleOf(Main) /\ "nuke" \in RoleOf(Main)
        /\ "sweep" \in Holding /\ "nuke" \in Holding /\ pc[Main] \in Holding
    BY <1>3, ThreadFacts, RoleFacts DEF Holding
  <1>6. pc[Loader] # "open" /\ \A s \in Threads : s # Main => pc[s] \notin Holding
    BY <1>5, Alone
  <1>7. CASE table_[u] = 0
    <2>1. UNCHANGED <<rows, memory, job, removed>> /\ Goto(Main, "sweep")
      BY <1>3, <1>7 DEF RemoveRecord
    <2>2. /\ Roles' /\ ~Down /\ ~Down' /\ pc' \in [Threads -> Labels]
          /\ \A s \in Threads : pc'[s] = IF s = Main THEN "sweep" ELSE pc[s]
      BY <1>3, <1>5, <2>1, Moves
    <2>3. LockHeld' /\ state_mutex_' \in MutexType
      BY <1>3, <1>5, <2>2, LockKept
    <2>4. TypeOK'
      BY <1>1, <1>3, <1>4, <2>1, <2>2, <2>3 DEF TypeOK, memory, bounds, Labels, MutexType
    <2>5. Looking'
      BY <1>5, <1>6, <2>2, ThreadFacts DEF Looking
    <2>6. IInv'
      BY <1>3, <2>1, <2>2, <2>3, <2>4, <2>5, ThreadFacts, StillKeeps
    <2>7. QED
      BY <1>3, <2>1, <2>6
  <1>8. CASE table_[u] # 0
    <2>1. PICK l : l = IF LastUse(u) THEN "nuke" ELSE "sweep"
      OBVIOUS
    <2>2. PICK p : p = rows[table_[u]].filepath
      OBVIOUS
    <2>3. /\ UnlinkRecord(u) /\ Goto(Main, l) /\ job' = [job EXCEPT ![Main].path = p]
          /\ l \in RoleOf(Main) /\ l \in Holding /\ (l = "nuke" => LastUse(u))
      BY <1>3, <1>5, <1>8, <2>1, <2>2 DEF RemoveRecord
    <2>4. /\ Roles' /\ ~Down /\ ~Down' /\ pc' \in [Threads -> Labels]
          /\ \A s \in Threads : pc'[s] = IF s = Main THEN l ELSE pc[s]
      BY <1>3, <1>5, <2>3, Moves
    <2>5. LockHeld' /\ state_mutex_' \in MutexType
      BY <1>3, <1>5, <2>3, <2>4, LockKept
    <2>6. /\ Dropped(rows, rows', table_[u]) /\ p \in Paths /\ rows' \in Seq(Row)
          /\ table_' \in [Uuids -> Nat] /\ path_uses_' \in [Paths -> Nat]
          /\ empty_rows_' \subseteq Nat /\ removed' = removed \cup {u}
      BY <1>4, <1>8, <2>2, <2>3, <2>4, UnlinkIs
    <2>7. /\ job' \in [Threads -> JobRecord] /\ job'[Main].path = p
          /\ \A s \in Threads : s # Main => job'[s] = job[s]
      BY <1>1, <1>5, <2>3, <2>6, PathSet
    <2>8. TypeOK'
      BY <1>1, <1>3, <1>4, <2>4, <2>5, <2>6, <2>7
         DEF TypeOK, bounds, Labels, MutexType, JobRecord
    <2>9. \A b \in Assets : pc'[b] = pc[b] /\ job'[b] = job[b] /\ pc[b] \notin Importing
      BY <1>6, <2>4, <2>7, ThreadFacts DEF Holding
    <2>10. \A t \in {Main, Client} : pc'[t] = "nuke" => job'[t].path = p /\ LastUse(u)
      BY <1>5, <1>6, <2>3, <2>4, <2>7, ThreadFacts DEF Holding
    <2>11. pc'[Loader] # "open"
      BY <1>5, <1>6, <2>4, ThreadFacts
    <2>12. IInv'
      BY <1>3, <1>4, <1>8, <2>2, <2>3, <2>4, <2>5, <2>8, <2>9, <2>10, <2>11, UnlinkKeeps
    <2>13. QED
      BY <1>3, <2>6, <2>12
  <1>9. QED
    BY <1>7, <1>8

LEMMA TryRemoveKeeps ==
    ASSUME IInv, NEW u \in Uuids, try_remove_resource(u)
    PROVE  /\ IInv' /\ files' = files
           /\ rows' = rows \/ \E i : Dropped(rows, rows', i)
  <1>1. TypeOK
    BY InvParts
  <1>2. /\ pc[Client] = "idle" /\ Free /\ RemoveRecord(Client, u, "idle")
        /\ IF pc'[Client] = "nuke" THEN Lock(Client) ELSE state_mutex_' = state_mutex_
        /\ calls' \in 0 .. MaxCalls
        /\ UNCHANGED <<files, removals, faults, issued>>
    BY <1>1, SizesAssumption DEF try_remove_resource, Call, TypeOK
  <1>3. /\ Client \in Threads \ {Loader} /\ "idle" \in RoleOf(Client) /\ "nuke" \in RoleOf(Client)
        /\ "idle" \notin Holding /\ "nuke" \in Holding /\ pc[Client] \notin Holding
    BY <1>2, ThreadFacts, RoleFacts DEF Holding, Importing
  <1>4. pc[Loader] # "open" /\ \A s \in Threads : pc[s] \notin Holding
    BY <1>2, FreeAlone
  <1>5. CASE table_[u] = 0
    <2>1. UNCHANGED <<rows, memory, job, removed>> /\ Goto(Client, "idle")
      BY <1>2, <1>5 DEF RemoveRecord
    <2>2. /\ Roles' /\ ~Down /\ ~Down' /\ pc' \in [Threads -> Labels]
          /\ \A s \in Threads : pc'[s] = IF s = Client THEN "idle" ELSE pc[s]
      BY <1>2, <1>3, <2>1, Moves
    <2>3. state_mutex_' = state_mutex_
      BY <1>2, <1>3, <2>2
    <2>4. LockHeld' /\ state_mutex_' \in MutexType
      BY <1>3, <2>2, <2>3, LockKept
    <2>5. TypeOK'
      BY <1>1, <1>2, <2>1, <2>2, <2>4 DEF TypeOK, memory, removals, Labels, MutexType
    <2>6. Looking'
      BY <1>3, <1>4, <2>2, ThreadFacts DEF Looking
    <2>7. IInv'
      BY <1>2, <2>1, <2>2, <2>4, <2>5, <2>6, ThreadFacts, StillKeeps
    <2>8. QED
      BY <1>2, <2>1, <2>7
  <1>6. CASE table_[u] # 0
    <2>1. PICK l : l = IF LastUse(u) THEN "nuke" ELSE "idle"
      OBVIOUS
    <2>2. PICK p : p = rows[table_[u]].filepath
      OBVIOUS
    <2>3. /\ UnlinkRecord(u) /\ Goto(Client, l) /\ job' = [job EXCEPT ![Client].path = p]
          /\ l \in RoleOf(Client) /\ l \in {"nuke", "idle"} /\ (l = "nuke" => LastUse(u))
      BY <1>2, <1>3, <1>6, <2>1, <2>2 DEF RemoveRecord
    <2>4. /\ Roles' /\ ~Down /\ ~Down' /\ pc' \in [Threads -> Labels]
          /\ \A s \in Threads : pc'[s] = IF s = Client THEN l ELSE pc[s]
      BY <1>2, <1>3, <2>3, Moves
    <2>5. LockHeld' /\ state_mutex_' \in MutexType
      <3>1. CASE l = "nuke"
        BY <1>2, <1>3, <2>4, <3>1, LockTaken
      <3>2. CASE l = "idle"
        <4>1. state_mutex_' = state_mutex_
          BY <1>2, <1>3, <2>4, <3>2
        <4>2. QED
          BY <1>3, <2>4, <3>2, <4>1, LockKept
      <3>3. QED
        BY <2>3, <3>1, <3>2
    <2>6. /\ Dropped(rows, rows', table_[u]) /\ p \in Paths /\ rows' \in Seq(Row)
          /\ table_' \in [Uuids -> Nat] /\ path_uses_' \in [Paths -> Nat]
          /\ empty_rows_' \subseteq Nat /\ removed' = removed \cup {u}
      BY <1>6, <2>2, <2>3, <2>4, UnlinkIs
    <2>7. /\ job' \in [Threads -> JobRecord] /\ job'[Client].path = p
          /\ \A s \in Threads : s # Client => job'[s] = job[s]
      BY <1>1, <1>3, <2>3, <2>6, PathSet
    <2>8. TypeOK'
      BY <1>1, <1>2, <2>4, <2>5, <2>6, <2>7
         DEF TypeOK, removals, Labels, MutexType, JobRecord
    <2>9. \A b \in Assets : pc'[b] = pc[b] /\ job'[b] = job[b] /\ pc[b] \notin Importing
      BY <1>4, <2>4, <2>7, ThreadFacts DEF Holding
    <2>10. \A t \in {Main, Client} : pc'[t] = "nuke" => job'[t].path = p /\ LastUse(u)
      BY <1>3, <1>4, <2>3, <2>4, <2>7, ThreadFacts DEF Holding
    <2>11. pc'[Loader] # "open"
      BY <1>3, <1>4, <2>4, ThreadFacts
    <2>12. IInv'
      BY <1>2, <1>6, <2>2, <2>3, <2>4, <2>5, <2>8, <2>9, <2>10, <2>11, UnlinkKeeps
    <2>13. QED
      BY <1>2, <2>6, <2>12
  <1>7. QED
    BY <1>5, <1>6

LEMMA TryUnlinkKeeps ==
    ASSUME IInv, NEW u \in Uuids, try_unlink_record(u)
    PROVE  /\ IInv' /\ files' = files /\ \E i : Dropped(rows, rows', i)
  <1>1. TypeOK /\ Roles /\ LockHeld
    BY InvParts
  <1>2. /\ pc[Client] = "idle" /\ Free /\ table_[u] # 0 /\ UnlinkRecord(u)
        /\ calls' \in 0 .. MaxCalls
        /\ UNCHANGED <<files, removals, state_mutex_, pc, job, faults, issued>>
    BY <1>1, SizesAssumption DEF try_unlink_record, Call, TypeOK
  <1>3. pc[Loader] # "open" /\ \A s \in Threads : pc[s] \notin Holding
    BY <1>2, FreeAlone
  <1>4. ~Down /\ ~Down'
    BY <1>1, <1>2, ThreadFacts DEF Roles, Down
  <1>5. /\ Dropped(rows, rows', table_[u]) /\ rows' \in Seq(Row)
        /\ table_' \in [Uuids -> Nat] /\ path_uses_' \in [Paths -> Nat]
        /\ empty_rows_' \subseteq Nat /\ removed' = removed \cup {u}
    BY <1>2, <1>4, UnlinkIs
  <1>6. TypeOK'
    BY <1>1, <1>2, <1>5 DEF TypeOK, removals
  <1>7. Roles' /\ LockHeld'
    BY <1>1, <1>2 DEF Roles, Down, LockHeld
  <1>8. /\ \A b \in Assets : pc'[b] = pc[b] /\ job'[b] = job[b] /\ pc[b] \notin Importing
        /\ \A t \in {Main, Client} : pc'[t] # "nuke"
        /\ pc'[Loader] # "open"
    BY <1>2, <1>3, ThreadFacts DEF Holding
  <1>9. IInv'
    BY <1>2, <1>4, <1>6, <1>7, <1>8, UnlinkKeeps
  <1>10. QED
    BY <1>2, <1>5, <1>9

\* No record names the file that is deleted.
LEMMA RemoveFileKeeps ==
    ASSUME IInv, NEW t \in {Main, Client}, NEW l \in RoleOf(t), RemoveFile(t), Goto(t, l),
           \/ l \in Holding /\ state_mutex_' = state_mutex_
           \/ l \notin Holding /\ Unlock,
           l # "nuke", UNCHANGED <<rows, memory, removals, job, bounds, history>>
    PROVE  /\ IInv' /\ rows' = rows /\ job[t].path \in Paths /\ Unused(job[t].path)
           /\ files' = [files EXCEPT ![job[t].path] = NoFile]
  <1>1. TypeOK /\ Removing
    BY InvParts
  <1>2. pc[t] = "nuke" /\ files' = [files EXCEPT ![job[t].path] = NoFile]
    BY DEF RemoveFile
  <1>3. PICK p : p = job[t].path
    OBVIOUS
  <1>4. p \in Paths /\ Unused(p)
    BY <1>1, <1>2, <1>3 DEF Removing
  <1>5. t \in Threads \ {Loader} /\ pc[t] \in Holding
    BY <1>2, ThreadFacts DEF Holding
  <1>6. /\ Roles' /\ ~Down /\ ~Down' /\ pc' \in [Threads -> Labels]
        /\ \A s \in Threads : pc'[s] = IF s = t THEN l ELSE pc[s]
    BY <1>2, <1>5, Moves
  <1>7. LockHeld' /\ state_mutex_' \in MutexType
    BY <1>5, <1>6, LockKept, LockReleased
  <1>8. pc[Loader] # "open" /\ \A s \in Threads : s # t => pc[s] \notin Holding
    BY <1>5, Alone
  <1>9. /\ files' \in [Paths -> Contents \cup {NoFile}]
        /\ \A q \in Paths : files'[q] = IF q = p THEN NoFile ELSE files[q]
    BY <1>1, <1>2, <1>3, <1>4 DEF TypeOK
  <1>10. TypeOK'
    BY <1>1, <1>6, <1>7, <1>9
       DEF TypeOK, memory, removals, bounds, history, Labels, MutexType
  <1>11. \A i \in NonEmpty(rows) : rows[i].filepath \in Paths
    BY <1>1, RowsFacts DEF TypeOK
  <1>12. \A i \in NonEmpty(rows) : files'[rows[i].filepath] = files[rows[i].filepath]
    BY <1>4, <1>9, <1>11 DEF Unused
  <1>13. \A b \in Assets :
           /\ pc'[b] = pc[b] /\ job'[b] = job[b] /\ pc[b] \notin Importing
           /\ \A q \in Paths : files'[q] = files[q] \/ files'[q] = NoFile \/ files'[q].of # b
    BY <1>6, <1>8, <1>9, ThreadFacts DEF Holding
  <1>14. /\ \A s \in {Main, Client} : pc'[s] = "nuke" => pc[s] = "nuke" /\ job'[s] = job[s]
         /\ pc'[Loader] # "open"
    BY <1>5, <1>6, <1>8, ThreadFacts DEF Holding
  <1>15. IInv'
    BY <1>6, <1>7, <1>10, <1>12, <1>13, <1>14, ShelvesKeep
  <1>16. QED
    BY <1>2, <1>3, <1>4, <1>15


LEMMA UpdateRemoveFileKeeps ==
    ASSUME IInv, UpdateRemoveFile
    PROVE  /\ IInv' /\ rows' = rows
           /\ \E p \in Paths : Unused(p) /\ files' = [files EXCEPT ![p] = NoFile]
  <1>1. /\ RemoveFile(Main) /\ Goto(Main, "sweep") /\ state_mutex_' = state_mutex_
        /\ UNCHANGED <<rows, memory, removals, job, bounds, history>>
    BY DEF UpdateRemoveFile
  <1>2. "sweep" \in RoleOf(Main) /\ "sweep" \in Holding
    BY RoleFacts DEF Holding
  <1>3. QED
    BY <1>1, <1>2, RemoveFileKeeps

LEMMA ClientRemoveFileKeeps ==
    ASSUME IInv, ClientRemoveFile
    PROVE  /\ IInv' /\ rows' = rows
           /\ \E p \in Paths : Unused(p) /\ files' = [files EXCEPT ![p] = NoFile]
  <1>1. /\ RemoveFile(Client) /\ Goto(Client, "idle") /\ Unlock
        /\ UNCHANGED <<rows, memory, removals, job, bounds, history>>
    BY DEF ClientRemoveFile
  <1>2. "idle" \in RoleOf(Client) /\ "idle" \notin Holding
    BY RoleFacts DEF Holding, Importing
  <1>3. QED
    BY <1>1, <1>2, RemoveFileKeeps

\* The queues are of UUIDs, and of nothing else that is proved of.
LEMMA QueuesKeep ==
    ASSUME IInv, remove_queue_' \in Seq(Uuids), remove_list_' \in Seq(Uuids),
           calls' \in 0 .. MaxCalls,
           UNCHANGED <<rows, files, memory, state_mutex_, pc, job, faults, history>>
    PROVE  IInv'
  <1>1. TypeOK /\ Roles /\ LockHeld /\ Looking
    BY InvParts
  <1>2. TypeOK'
    BY <1>1 DEF TypeOK, memory, history
  <1>3. Roles' /\ LockHeld' /\ Looking' /\ (Down' <=> Down)
    BY <1>1 DEF Roles, LockHeld, Looking, Down
  <1>4. QED
    BY <1>2, <1>3, StillKeeps DEF history

LEMMA UpdatePopKeeps ==
    ASSUME IInv, UpdatePop
    PROVE  IInv'
  <1>1. TypeOK
    BY InvParts
  <1>2. remove_queue_ \in Seq(Uuids) /\ remove_queue_ # <<>> /\ remove_list_ \in Seq(Uuids)
    BY <1>1 DEF UpdatePop, TypeOK
  <1>3. Head(remove_queue_) \in Uuids /\ Tail(remove_queue_) \in Seq(Uuids)
    BY <1>2, HeadTailProperties
  <1>4. Append(remove_list_, Head(remove_queue_)) \in Seq(Uuids)
    BY <1>2, <1>3, AppendProperties
  <1>5. QED
    BY <1>1, <1>3, <1>4, QueuesKeep DEF UpdatePop, bounds, TypeOK

LEMMA RemoveLaterKeeps ==
    ASSUME IInv, NEW u \in Uuids, remove_resource_later(u)
    PROVE  IInv'
  <1>1. TypeOK
    BY InvParts
  <1>2. Append(remove_queue_, u) \in Seq(Uuids)
    BY <1>1, AppendProperties DEF TypeOK
  <1>3. calls' \in 0 .. MaxCalls
    BY <1>1, SizesAssumption DEF remove_resource_later, Call, TypeOK
  <1>4. QED
    BY <1>1, <1>2, <1>3, QueuesKeep DEF remove_resource_later, TypeOK

\* The lock is taken for an update, or let go after it.
LEMMA UpdateLockKeeps ==
    ASSUME IInv, NEW l,
           \/ pc[Main] = "idle" /\ l = "sweep" /\ Lock(Main)
           \/ pc[Main] = "sweep" /\ l = "idle" /\ Unlock,
           Goto(Main, l), UNCHANGED <<rows, files, memory, removals, job, bounds, history>>
    PROVE  IInv'
  <1>1. TypeOK /\ Looking
    BY InvParts
  <1>2. /\ Main \in Threads \ {Loader} /\ "sweep" \in Holding /\ "idle" \notin Holding
        /\ l \in RoleOf(Main) /\ pc[Main] # "down"
    BY ThreadFacts, RoleFacts DEF Holding, Importing
  <1>3. /\ Roles' /\ ~Down /\ ~Down' /\ pc' \in [Threads -> Labels]
        /\ \A s \in Threads : pc'[s] = IF s = Main THEN l ELSE pc[s]
    BY <1>2, Moves
  <1>4. LockHeld' /\ state_mutex_' \in MutexType
    BY <1>2, <1>3, LockTaken, LockReleased
  <1>5. TypeOK'
    BY <1>1, <1>3, <1>4 DEF TypeOK, memory, removals, bounds, history, Labels, MutexType
  <1>6. Looking'
    BY <1>1, <1>2, <1>3, ThreadFacts DEF Looking
  <1>7. job' = job /\ UNCHANGED <<rows, files, memory, removed>> /\ issued' = issued
    BY DEF history
  <1>8. QED
    BY <1>2, <1>3, <1>4, <1>5, <1>6, <1>7, ThreadFacts, StillKeeps

-----------------------------------------------------------------------------
(* A lookup *)

\* A record that is found under the lock has a file.
LEMMA TryMapKeeps ==
    ASSUME IInv, NEW u \in Uuids, try_map_resource(u)
    PROVE  IInv'
  <1>1. TypeOK /\ LockHeld /\ Mirrored /\ RowsHaveFiles /\ Looking
    BY InvParts
  <1>2. PICK p : p = rows[table_[u]].filepath
    OBVIOUS
  <1>3. /\ pc[Loader] = "idle" /\ table_[u] # 0 /\ LockShared(Loader) /\ Goto(Loader, "open")
        /\ job' = [job EXCEPT ![Loader].path = p]
        /\ UNCHANGED <<rows, files, memory, removals, bounds, history>>
    BY <1>2 DEF try_map_resource
  <1>4. Loader \in Threads /\ "open" \in RoleOf(Loader) /\ "open" \notin Holding
    BY ThreadFacts, RoleFacts DEF Holding, Importing
  <1>5. /\ Roles' /\ ~Down /\ ~Down' /\ pc' \in [Threads -> Labels]
        /\ \A s \in Threads : pc'[s] = IF s = Loader THEN "open" ELSE pc[s]
    BY <1>3, <1>4, Moves
  <1>6. /\ state_mutex_' \in MutexType /\ state_mutex_'.writer = NoOne
        /\ state_mutex_'.readers = state_mutex_.readers \cup {Loader}
    BY <1>1, <1>3, <1>4 DEF LockShared, TypeOK, MutexType
  <1>7. state_mutex_.writer = NoOne /\ state_mutex_.readers = {}
    BY <1>1, <1>3 DEF LockShared, LockHeld
  <1>8. LockHeld'
    <2>1. \A t \in Threads : pc'[t] \notin Holding
      BY <1>1, <1>4, <1>5, <1>7, ThreadFacts DEF LockHeld
    <2>2. QED
      BY <1>4, <1>5, <1>6, <1>7, <2>1, ThreadFacts DEF LockHeld
  <1>9. p \in Paths /\ files[p] # NoFile
    <2>1. rows \in Seq(Row) /\ table_ = TableOf(rows)
      BY <1>1, <1>5 DEF TypeOK, Mirrored
    <2>2. table_[u] \in NonEmpty(rows)
      BY <1>3, <2>1, TableIs DEF IsTable
    <2>3. QED
      BY <1>1, <1>2, <2>1, <2>2, RowsFacts DEF RowsHaveFiles
  <1>10. /\ job' \in [Threads -> JobRecord] /\ job'[Loader].path = p
         /\ \A s \in Threads : s # Loader => job'[s] = job[s]
    BY <1>1, <1>3, <1>4, <1>9, PathSet
  <1>11. TypeOK'
    BY <1>1, <1>3, <1>5, <1>6, <1>10
       DEF TypeOK, memory, removals, bounds, history, Labels, MutexType, JobRecord
  <1>12. Looking'
    BY <1>3, <1>9, <1>10 DEF Looking
  <1>13. UNCHANGED <<rows, files, memory, removed>> /\ issued' = issued
    BY <1>3 DEF history
  <1>14. QED
    BY <1>5, <1>8, <1>10, <1>11, <1>12, <1>13, ThreadFacts, StillKeeps

LEMMA OpenFileKeeps ==
    ASSUME IInv, OpenFile
    PROVE  IInv'
  <1>1. TypeOK /\ LockHeld /\ Looking
    BY InvParts
  <1>2. /\ pc[Loader] = "open" /\ UnlockShared(Loader) /\ Goto(Loader, "done")
        /\ UNCHANGED <<rows, files, memory, removals, job, bounds, history>>
    BY <1>1 DEF OpenFile, Looking
  <1>3. Loader \in Threads /\ "done" \in RoleOf(Loader) /\ "done" \notin Holding
        /\ "open" \notin Holding
    BY ThreadFacts, RoleFacts DEF Holding, Importing
  <1>4. /\ Roles' /\ ~Down /\ ~Down' /\ pc' \in [Threads -> Labels]
        /\ \A s \in Threads : pc'[s] = IF s = Loader THEN "done" ELSE pc[s]
    BY <1>2, <1>3, Moves
  <1>5. /\ state_mutex_' \in MutexType /\ state_mutex_'.writer = state_mutex_.writer
        /\ state_mutex_'.readers = state_mutex_.readers \ {Loader}
    BY <1>1, <1>2 DEF UnlockShared, TypeOK, MutexType
  <1>6. state_mutex_.readers = {Loader}
    BY <1>1, <1>2 DEF LockHeld
  <1>7. LockHeld'
    <2>1. \A t \in Threads : pc'[t] \in Holding <=> pc[t] \in Holding
      BY <1>2, <1>3, <1>4
    <2>2. pc'[Loader] # "open" /\ state_mutex_'.readers = {}
      BY <1>3, <1>4, <1>5, <1>6
    <2>3. QED
      BY <1>1, <1>5, <2>1, <2>2 DEF LockHeld
  <1>8. TypeOK'
    BY <1>1, <1>2, <1>4, <1>5
       DEF TypeOK, memory, removals, bounds, history, Labels, MutexType
  <1>9. Looking'
    BY <1>3, <1>4 DEF Looking
  <1>10. job' = job /\ UNCHANGED <<rows, files, memory, removed>> /\ issued' = issued
    BY <1>2 DEF history
  <1>11. QED
    BY <1>4, <1>7, <1>8, <1>9, <1>10, ThreadFacts, StillKeeps

-----------------------------------------------------------------------------
(* The program dies and is started again *)

\* Nobody does anything yet, or any more.
LEMMA NobodyKeeps ==
    ASSUME TypeOK', NEW l \in {"idle", "down"}, pc' = [t \in Threads |-> l],
           state_mutex_' = [writer |-> NoOne, readers |-> {}],
           Mirrored', Issued', RowsHaveFiles', RefsResolve'
    PROVE  IInv'
  <1>1. \A t \in Threads : pc'[t] = l
    OBVIOUS
  <1>2. l \notin Holding /\ l \notin Importing
    BY DEF Holding, Importing
  <1>3. state_mutex_'.writer = NoOne /\ state_mutex_'.readers = {}
    OBVIOUS
  <1>4. Roles'
    <2>1. \A t \in Threads : "idle" \in RoleOf(t)
      BY ThreadFacts, RoleFacts
    <2>2. QED
      BY <1>1, <2>1, ThreadFacts DEF Roles, Down
  <1>5. LockHeld'
    BY <1>1, <1>2, <1>3, ThreadFacts DEF LockHeld
  <1>6. Fresh' /\ Imported'
    BY <1>1, <1>2, ThreadFacts DEF Fresh, FreshAt, Imported, ImportedAt, Importing
  <1>7. Removing' /\ Looking'
    BY <1>1, ThreadFacts DEF Removing, Looking
  <1>8. QED
    BY <1>4, <1>5, <1>6, <1>7, InvSplit

LEMMA CrashKeeps ==
    ASSUME IInv, Crash
    PROVE  IInv'
  <1>1. TypeOK /\ Mirrored /\ Issued /\ RowsHaveFiles /\ RefsResolve
    BY InvParts
  <1>2. /\ table_' = [u \in Uuids |-> 0] /\ empty_rows_' = {} /\ path_uses_' = [p \in Paths |-> 0]
        /\ remove_queue_' = <<>> /\ remove_list_' = <<>>
        /\ state_mutex_' = [writer |-> NoOne, readers |-> {}]
        /\ pc' = [t \in Threads |-> "down"] /\ job' = [t \in Threads |-> NoJob]
        /\ UNCHANGED <<rows, files, calls, issued, removed>>
    BY DEF Crash, history
  <1>3. faults' \in 0 .. MaxFaults
    BY <1>1, SizesAssumption DEF Crash, Fault, TypeOK
  <1>4. NoJob \in JobRecord
    BY SizesAssumption DEF NoJob, JobRecord
  <1>5. <<>> \in Seq(Uuids)
    BY EmptySeq
  <1>6. TypeOK'
    BY <1>1, <1>2, <1>3, <1>4, <1>5 DEF TypeOK, JobRecord
  <1>7. Mirrored'
    <2>1. Down'
      BY <1>2, ThreadFacts DEF Down
    <2>2. QED
      BY <1>1, <1>2, <2>1 DEF Mirrored
  <1>8. Issued' /\ RowsHaveFiles' /\ RefsResolve'
    BY <1>1, <1>2 DEF Issued, RowsHaveFiles, RefsResolve
  <1>9. QED
    BY <1>2, <1>6, <1>7, <1>8, NobodyKeeps

LEMMA MadeOfRows ==
    ASSUME NEW rs \in Seq(Row)
    PROVE  /\ TableOf(rs) \in [Uuids -> Nat] /\ EmptyRowsOf(rs) \subseteq Nat
           /\ PathUsesOf(rs) \in [Paths -> Nat]
  <1>1. TableOf(rs) \in [Uuids -> Nat] /\ PathUsesOf(rs) \in [Paths -> Nat]
    BY TableIs, UsesAre DEF IsTable
  <1>2. EmptyRowsOf(rs) \subseteq Nat
    BY RowsFacts DEF EmptyRowsOf
  <1>3. QED
    BY <1>1, <1>2

LEMMA RestartKeeps ==
    ASSUME IInv, Restart
    PROVE  IInv'
  <1>1. /\ TypeOK /\ LockHeld /\ Mirrored /\ Issued /\ RowsHaveFiles /\ RefsResolve /\ Roles
    BY InvParts
  <1>2. /\ Down /\ table_' = TableOf(rows) /\ empty_rows_' = EmptyRowsOf(rows)
        /\ path_uses_' = PathUsesOf(rows) /\ pc' = [t \in Threads |-> "idle"]
        /\ UNCHANGED <<rows, files, removals, state_mutex_, job, bounds, history>>
    BY DEF Restart
  <1>3. rows \in Seq(Row)
    BY <1>1 DEF TypeOK
  <1>4. TypeOK'
    BY <1>1, <1>2, <1>3, MadeOfRows DEF TypeOK, removals, bounds, history
  <1>5. state_mutex_' = [writer |-> NoOne, readers |-> {}]
    <2>1. \A t \in Threads : pc[t] = "down" /\ pc[t] \notin Holding
      BY <1>1, <1>2 DEF Roles, Holding, Importing
    <2>2. state_mutex_ \in MutexType
      BY <1>1 DEF TypeOK, MutexType
    <2>3. state_mutex_.writer = NoOne /\ state_mutex_.readers = {}
      BY <1>1, <2>1, <2>2, ThreadFacts DEF LockHeld, MutexType
    <2>4. QED
      BY <1>2, <2>2, <2>3 DEF MutexType
  <1>6. Mirrored' /\ Issued' /\ RowsHaveFiles' /\ RefsResolve'
    BY <1>1, <1>2 DEF Mirrored, Issued, RowsHaveFiles, RefsResolve, history
  <1>7. QED
    BY <1>2, <1>4, <1>5, <1>6, NobodyKeeps

LEMMA InitHolds ==
    ASSUME Init
    PROVE  IInv
  <1>1. PICK d \in Found : rows = d.rows /\ files = d.files /\ removed = d.removed
    BY DEF Init
  <1>2. /\ rows \in Seq(Row) /\ Distinct(rows) /\ files \in [Paths -> Contents \cup {NoFile}]
        /\ removed \subseteq Uuids /\ RowsHaveFiles /\ RefsResolve
    BY <1>1, FoundAssumption DEF RowsHaveFiles, RefsResolve
  <1>3. /\ table_ = TableOf(rows) /\ empty_rows_ = EmptyRowsOf(rows)
        /\ path_uses_ = PathUsesOf(rows) /\ remove_queue_ = <<>> /\ remove_list_ = <<>>
        /\ state_mutex_ = [writer |-> NoOne, readers |-> {}]
        /\ pc = [t \in Threads |-> "idle"] /\ job = [t \in Threads |-> NoJob]
        /\ faults = 0 /\ calls = 0 /\ issued = UuidsIn(rows) \cup removed
    BY DEF Init
  <1>4. NoJob \in JobRecord
    BY SizesAssumption DEF NoJob, JobRecord
  <1>5. state_mutex_.writer = NoOne /\ state_mutex_.readers = {} /\ state_mutex_ \in MutexType
    BY <1>3 DEF MutexType
  <1>6. TypeOK
    <2>1. job \in [Threads -> JobRecord]
      BY <1>3, <1>4
    <2>2. issued \subseteq Uuids
      BY <1>2, <1>3, RowsFacts
    <2>3. <<>> \in Seq(Uuids)
      BY EmptySeq
    <2>4. faults \in 0 .. MaxFaults /\ calls \in 0 .. MaxCalls
      BY <1>3, SizesAssumption
    <2>5. QED
      BY <1>2, <1>3, <1>5, <2>1, <2>2, <2>3, <2>4, MadeOfRows DEF TypeOK, MutexType, JobRecord
  <1>7. \A t \in Threads : pc[t] = "idle" /\ pc[t] \notin Holding /\ pc[t] \notin Importing
    BY <1>3 DEF Holding, Importing
  <1>8. Roles
    <2>1. \A t \in Threads : "idle" \in RoleOf(t)
      BY ThreadFacts, RoleFacts
    <2>2. QED
      BY <1>7, <2>1, ThreadFacts DEF Roles, Down
  <1>9. LockHeld
    BY <1>5, <1>7, ThreadFacts DEF LockHeld
  <1>10. Mirrored /\ Issued
    BY <1>2, <1>3 DEF Mirrored, Issued
  <1>11. Fresh /\ Imported
    BY <1>7, ThreadFacts DEF Fresh, FreshAt, Imported, ImportedAt, Importing
  <1>12. Removing /\ Looking
    BY <1>7, ThreadFacts DEF Removing, Looking
  <1>13. QED
    BY <1>2, <1>6, <1>8, <1>9, <1>10, <1>11, <1>12 DEF IInv


-----------------------------------------------------------------------------
(* Every step *)

\* What a step may do to the table file and to the resource files.
OnDisk ==
  \/ files' = files /\ SameRecords(rows, rows')
  \/ files' = files /\ \E i : Dropped(rows, rows', i)
  \/ /\ files' = files
     /\ \E u \in Uuids : \E p \in Paths :
          /\ \E i : Added(rows, rows', i, u, p)
          /\ u \notin UuidsIn(rows) /\ Unused(p) /\ files[p] # NoFile
  \/ /\ rows' = rows
     /\ \E p \in Paths :
          \/ Unused(p) /\ files' = [files EXCEPT ![p] = NoFile]
          \/ \E c \in Contents : files[p] = NoFile /\ files' = [files EXCEPT ![p] = c]
          \/ /\ files[p] # NoFile /\ files[p].text = Nil
             /\ \E c \in Contents : files' = [files EXCEPT ![p] = c]

LEMMA NoneOnDisk ==
    ASSUME IInv, rows' = rows, files' = files
    PROVE  OnDisk
  <1>1. rows \in Seq(Row)
    BY InvParts DEF TypeOK
  <1>2. SameRecords(rows, rows')
    BY <1>1 DEF SameRecords
  <1>3. QED
    BY <1>2 DEF OnDisk

LEMMA ImportKeeps ==
    ASSUME IInv, NEW a \in Assets, Import(a)
    PROVE  IInv' /\ OnDisk
  <1>1. CASE PartFails(a)
    <2>1. rows' = rows /\ files' = files
      BY <1>1 DEF PartFails
    <2>2. QED
      BY <1>1, <2>1, PartFailsKeeps, NoneOnDisk
  <1>2. CASE GenerateUuid(a)
    <2>1. rows' = rows /\ files' = files
      BY <1>2 DEF GenerateUuid
    <2>2. QED
      BY <1>2, <2>1, GenerateUuidKeeps, NoneOnDisk
  <1>3. CASE TryPath(a)
    <2>1. /\ IInv' /\ rows' = rows
          /\ \/ files' = files
             \/ \E p \in Paths : \E c \in Contents :
                  files[p] = NoFile /\ files' = [files EXCEPT ![p] = c]
      BY <1>3, TryPathKeeps
    <2>2. CASE files' = files
      BY <2>1, <2>2, NoneOnDisk
    <2>3. CASE \E p \in Paths : \E c \in Contents :
                 files[p] = NoFile /\ files' = [files EXCEPT ![p] = c]
      BY <2>1, <2>3 DEF OnDisk
    <2>4. QED
      BY <2>1, <2>2, <2>3
  <1>4. CASE MapFile(a)
    <2>1. rows' = rows /\ files' = files
      BY <1>4 DEF MapFile
    <2>2. QED
      BY <1>4, <2>1, MapFileKeeps, NoneOnDisk
  <1>5. CASE GrowFile(a)
    BY <1>5, GrowFileKeeps DEF OnDisk
  <1>6. CASE NewEntry(a)
    <2>1. /\ IInv' /\ files' = files
          /\ \E row : Added(rows, rows', row, job[a].uuid, job[a].path)
          /\ job[a].uuid \in Uuids /\ job[a].uuid \notin UuidsIn(rows)
          /\ job[a].path \in Paths /\ Unused(job[a].path) /\ files[job[a].path] # NoFile
      BY <1>6, NewEntryKeeps
    <2>2. QED
      BY <2>1 DEF OnDisk
  <1>7. CASE FillFile(a)
    <2>1. /\ IInv' /\ rows' = rows /\ job[a].path \in Paths
          /\ \/ files' = files
             \/ /\ files[job[a].path] = NewFile(a)
                /\ \E c \in Contents : files' = [files EXCEPT ![job[a].path] = c]
      BY <1>7, FillFileKeeps
    <2>2. CASE files' = files
      BY <2>1, <2>2, NoneOnDisk
    <2>3. CASE /\ files[job[a].path] = NewFile(a)
               /\ \E c \in Contents : files' = [files EXCEPT ![job[a].path] = c]
      <3>1. files[job[a].path] # NoFile /\ files[job[a].path].text = Nil
        BY <2>3, FileFacts
      <3>2. QED
        BY <2>1, <2>3, <3>1 DEF OnDisk
    <2>4. QED
      BY <2>1, <2>2, <2>3
  <1>8. QED
    BY <1>1, <1>2, <1>3, <1>4, <1>5, <1>6, <1>7 DEF Import, Generate

LEMMA StutterKeeps ==
    ASSUME IInv, UNCHANGED vars
    PROVE  IInv' /\ OnDisk
  <1>1. TypeOK
    BY InvParts
  <1>2. UNCHANGED <<rows, files, memory, state_mutex_, pc, job, faults, calls, history>>
        /\ UNCHANGED <<remove_queue_, remove_list_>>
    BY DEF vars, bounds, removals
  <1>3. /\ remove_queue_' \in Seq(Uuids) /\ remove_list_' \in Seq(Uuids)
        /\ calls' \in 0 .. MaxCalls
    BY <1>1, <1>2 DEF TypeOK
  <1>4. QED
    BY <1>2, <1>3, QueuesKeep, NoneOnDisk

LEMMA UpdateKeeps ==
    ASSUME IInv, Update
    PROVE  IInv' /\ OnDisk
  <1>1. CASE UpdateNothing
    BY <1>1, StutterKeeps DEF UpdateNothing
  <1>2. CASE UpdatePop
    <2>1. rows' = rows /\ files' = files
      BY <1>2 DEF UpdatePop
    <2>2. QED
      BY <1>2, <2>1, UpdatePopKeeps, NoneOnDisk
  <1>3. CASE UpdateLock
    <2>1. UNCHANGED <<rows, files, memory, removals, job, bounds, history>>
      BY <1>3 DEF UpdateLock
    <2>2. pc[Main] = "idle" /\ Lock(Main) /\ Goto(Main, "sweep")
      BY <1>3 DEF UpdateLock
    <2>3. QED
      BY <2>1, <2>2, UpdateLockKeeps, NoneOnDisk
  <1>4. CASE UpdateRemove
    <2>1. /\ IInv' /\ files' = files
          /\ rows' = rows \/ \E i : Dropped(rows, rows', i)
      BY <1>4, UpdateRemoveKeeps
    <2>2. QED
      BY <2>1, NoneOnDisk DEF OnDisk
  <1>5. CASE UpdateRemoveFile
    <2>1. /\ IInv' /\ rows' = rows
          /\ \E p \in Paths : Unused(p) /\ files' = [files EXCEPT ![p] = NoFile]
      BY <1>5, UpdateRemoveFileKeeps
    <2>2. QED
      BY <2>1 DEF OnDisk
  <1>6. CASE UpdateDone
    <2>1. UNCHANGED <<rows, files, memory, removals, job, bounds, history>>
      BY <1>6 DEF UpdateDone
    <2>2. pc[Main] = "sweep" /\ Unlock /\ Goto(Main, "idle")
      BY <1>6 DEF UpdateDone
    <2>3. QED
      BY <2>1, <2>2, UpdateLockKeeps, NoneOnDisk
  <1>7. QED
    BY <1>1, <1>2, <1>3, <1>4, <1>5, <1>6 DEF Update

LEMMA CallKeeps ==
    ASSUME IInv, NEW u \in issued, Calls(u)
    PROVE  IInv' /\ OnDisk
  <1>1. u \in Uuids
    BY InvParts DEF TypeOK
  <1>2. CASE remove_resource_later(u)
    <2>1. rows' = rows /\ files' = files
      BY <1>2 DEF remove_resource_later
    <2>2. QED
      BY <1>1, <1>2, <2>1, RemoveLaterKeeps, NoneOnDisk
  <1>3. CASE try_unlink_record(u)
    BY <1>1, <1>3, TryUnlinkKeeps DEF OnDisk
  <1>4. CASE try_remove_resource(u)
    <2>1. /\ IInv' /\ files' = files
          /\ rows' = rows \/ \E i : Dropped(rows, rows', i)
      BY <1>1, <1>4, TryRemoveKeeps
    <2>2. QED
      BY <2>1, NoneOnDisk DEF OnDisk
  <1>5. CASE try_map_resource(u)
    <2>1. rows' = rows /\ files' = files
      BY <1>5 DEF try_map_resource
    <2>2. QED
      BY <1>1, <1>5, <2>1, TryMapKeeps, NoneOnDisk
  <1>6. QED
    BY <1>2, <1>3, <1>4, <1>5 DEF Calls

LEMMA NextKeeps ==
    ASSUME IInv, [Next]_vars
    PROVE  IInv' /\ OnDisk
  <1>1. CASE \E a \in Assets : Import(a)
    BY <1>1, ImportKeeps
  <1>2. CASE Update
    BY <1>2, UpdateKeeps
  <1>3. CASE \E u \in issued : Calls(u)
    BY <1>3, CallKeeps
  <1>4. CASE OpenFile
    <2>1. rows' = rows /\ files' = files
      BY <1>4 DEF OpenFile
    <2>2. QED
      BY <1>4, <2>1, OpenFileKeeps, NoneOnDisk
  <1>5. CASE ClientRemoveFile
    <2>1. /\ IInv' /\ rows' = rows
          /\ \E p \in Paths : Unused(p) /\ files' = [files EXCEPT ![p] = NoFile]
      BY <1>5, ClientRemoveFileKeeps
    <2>2. QED
      BY <2>1 DEF OnDisk
  <1>6. CASE Crash
    <2>1. rows' = rows /\ files' = files
      BY <1>6 DEF Crash
    <2>2. QED
      BY <1>6, <2>1, CrashKeeps, NoneOnDisk
  <1>7. CASE Restart
    <2>1. rows' = rows /\ files' = files
      BY <1>7 DEF Restart
    <2>2. QED
      BY <1>7, <2>1, RestartKeeps, NoneOnDisk
  <1>8. CASE UNCHANGED vars
    BY <1>8, StutterKeeps
  <1>9. QED
    BY <1>1, <1>2, <1>3, <1>4, <1>5, <1>6, <1>7, <1>8 DEF Next, Returns

-----------------------------------------------------------------------------
(* Theorems *)

(***************************************************************************)
(* The inductive invariant: who holds the lock, that the memory mirrors    *)
(* the rows when the program is up (and no two rows are of one UUID when   *)
(* it is not), that every record has a file, and what a job in the middle  *)
(* of an import or of a removal may count on.                              *)
(***************************************************************************)
THEOREM DatabaseInvariant == Spec => []IInv
  <1>1. Init => IInv
    BY InitHolds
  <1>2. IInv /\ [Next]_vars => IInv'
    BY NextKeeps
  <1>3. QED
    BY <1>1, <1>2, PTL DEF Spec

(* Every variable has its type. *)
THEOREM TypeCorrect == Spec => []TypeOK
  <1>1. IInv => TypeOK
    BY InvParts
  <1>2. QED
    BY <1>1, DatabaseInvariant, PTL

(***************************************************************************)
(* Whenever nobody writes, the lookup table, the empty rows and the use    *)
(* counts are what the constructor would make of the rows.                 *)
(***************************************************************************)
THEOREM MemoryIsOfTheRows == Spec => []MemoryMirrorsRows
  <1>1. IInv => MemoryMirrorsRows
    BY InvParts DEF MemoryMirrorsRows, Mirrored
  <1>2. QED
    BY <1>1, DatabaseInvariant, PTL

(***************************************************************************)
(* What the file of a record refers to can be read unless it was removed,  *)
(* wherever the program died; and a thread that found a record under the   *)
(* shared lock finds its file.                                             *)
(***************************************************************************)
THEOREM RecordsAreReadable == Spec => []RecordsCanBeRead
  <1>1. IInv => RecordsCanBeRead
    <2> SUFFICES ASSUME IInv PROVE RecordsCanBeRead
      OBVIOUS
    <2>1. RefsResolve /\ Roles
      BY InvParts
    <2>2. LookupsFindTheirFile
      BY <2>1, ThreadFacts, RoleFacts DEF Roles, LookupsFindTheirFile
    <2>3. QED
      BY <2>1, <2>2 DEF RecordsCanBeRead
  <1>2. QED
    BY <1>1, DatabaseInvariant, PTL

(***************************************************************************)
(* No step touches what was written to the file of a record that stays.    *)
(***************************************************************************)
THEOREM ContentsAreKept == Spec => ContentsKept
  <1> DEFINE Kept == \A i \in NonEmpty(rows) :
                        /\ rows'[i] = rows[i]
                        /\ files[rows[i].filepath] # NoFile /\ files[rows[i].filepath].text # Nil
                        => files'[rows[i].filepath] = files[rows[i].filepath]
  <1>1. IInv /\ [Next]_vars => [Kept]_vars
    <2> SUFFICES ASSUME IInv, [Next]_vars, NEW i \in NonEmpty(rows),
                        files[rows[i].filepath] # NoFile, files[rows[i].filepath].text # Nil
                 PROVE  files'[rows[i].filepath] = files[rows[i].filepath]
      OBVIOUS
    <2>1. OnDisk
      BY NextKeeps
    <2>2. files \in [Paths -> Contents \cup {NoFile}] /\ rows[i].filepath \in Paths
      BY InvParts, RowsFacts DEF TypeOK
    <2>3. QED
      BY <2>1, <2>2 DEF OnDisk, Unused
  <1>2. QED
    BY <1>1, DatabaseInvariant, PTL DEF Spec, ContentsKept

-----------------------------------------------------------------------------
(* The catalog *)

\* What Catalog() says of the rows, and nothing else does.
IsCatalog(cat, rs) ==
  /\ cat \in [Uuids -> Paths \cup {Nil}]
  /\ \A i \in NonEmpty(rs) : cat[rs[i].uuid] = rs[i].filepath
  /\ \A u \in Uuids : u \notin UuidsIn(rs) => cat[u] = Nil

LEMMA CatalogIs ==
    ASSUME NEW rs \in Seq(Row), Distinct(rs)
    PROVE  IsCatalog(Catalog(rs), rs)
  <1>1. \A i \in NonEmpty(rs) : /\ rs[i].uuid \in Uuids /\ rs[i].filepath \in Paths
                                /\ rs[i].uuid # Nil /\ i \in DOMAIN rs
    BY RowsFacts
  <1>2. ASSUME NEW i \in NonEmpty(rs) PROVE Catalog(rs)[rs[i].uuid] = rs[i].filepath
    <2>1. rs[i].uuid \in UuidsIn(rs) /\ rs[i].uuid \in Uuids
      BY <1>1 DEF UuidsIn
    <2>2. rs[i] \in Range(rs)
      BY <1>1 DEF Range
    <2>3. ASSUME NEW row \in Range(rs), row.uuid = rs[i].uuid PROVE row = rs[i]
      <3>1. PICK j \in DOMAIN rs : row = rs[j]
        BY DEF Range
      <3>2. j \in NonEmpty(rs)
        BY <1>1, <2>3, <3>1 DEF NonEmpty
      <3>3. QED
        BY <2>3, <3>1, <3>2 DEF Distinct
    <2>4. (CHOOSE row \in Range(rs) : row.uuid = rs[i].uuid) = rs[i]
      BY <2>2, <2>3
    <2>5. QED
      BY <2>1, <2>4 DEF Catalog
  <1>3. \A u \in Uuids : u \notin UuidsIn(rs) => Catalog(rs)[u] = Nil
    BY DEF Catalog
  <1>4. \A u \in Uuids : Catalog(rs)[u] \in Paths \cup {Nil}
    <2>1. \A u \in UuidsIn(rs) : \E i \in NonEmpty(rs) : rs[i].uuid = u
      BY DEF UuidsIn
    <2>2. QED
      BY <1>1, <1>2, <1>3, <2>1
  <1>5. Catalog(rs) = [u \in Uuids |-> Catalog(rs)[u]]
    BY DEF Catalog
  <1>6. Catalog(rs) \in [Uuids -> Paths \cup {Nil}]
    BY <1>4, <1>5
  <1>7. QED
    BY <1>2, <1>3, <1>6 DEF IsCatalog

LEMMA CatalogUnique ==
    ASSUME NEW rs \in Seq(Row), Distinct(rs), NEW cat, IsCatalog(cat, rs)
    PROVE  cat = Catalog(rs)
  <1>1. IsCatalog(Catalog(rs), rs)
    BY CatalogIs
  <1>2. ASSUME NEW u \in Uuids PROVE cat[u] = Catalog(rs)[u]
    <2>1. CASE u \in UuidsIn(rs)
      <3>1. PICK i \in NonEmpty(rs) : rs[i].uuid = u
        BY <2>1 DEF UuidsIn
      <3>2. QED
        BY <1>1, <3>1 DEF IsCatalog
    <2>2. CASE u \notin UuidsIn(rs)
      BY <1>1, <2>2 DEF IsCatalog
    <2>3. QED
      BY <2>1, <2>2
  <1>3. QED
    BY <1>1, <1>2 DEF IsCatalog

\* A path is in the catalog when a record names it.
LEMMA CatalogNames ==
    ASSUME NEW rs \in Seq(Row), Distinct(rs), NEW p \in Paths
    PROVE  (\E u \in Uuids : Catalog(rs)[u] = p) <=> (\E i \in NonEmpty(rs) : rs[i].filepath = p)
  <1>1. IsCatalog(Catalog(rs), rs)
    BY CatalogIs
  <1>2. ASSUME NEW u \in Uuids, Catalog(rs)[u] = p PROVE \E i \in NonEmpty(rs) : rs[i].filepath = p
    <2>1. p # Nil
      BY NamesAssumption
    <2>2. u \in UuidsIn(rs)
      BY <1>1, <1>2, <2>1 DEF IsCatalog
    <2>3. PICK i \in NonEmpty(rs) : rs[i].uuid = u
      BY <2>2 DEF UuidsIn
    <2>4. QED
      BY <1>1, <1>2, <2>3 DEF IsCatalog
  <1>3. ASSUME NEW i \in NonEmpty(rs), rs[i].filepath = p PROVE \E u \in Uuids : Catalog(rs)[u] = p
    BY <1>1, <1>3, RowsFacts DEF IsCatalog
  <1>4. QED
    BY <1>2, <1>3

LEMMA SameCatalog ==
    ASSUME NEW rs \in Seq(Row), NEW rt, SameRecords(rs, rt), Distinct(rs)
    PROVE  Catalog(rt) = Catalog(rs)
  <1>1. /\ rt \in Seq(Row) /\ NonEmpty(rt) = NonEmpty(rs)
        /\ \A j \in NonEmpty(rs) : rt[j] = rs[j]
    BY DEF SameRecords
  <1>2. Distinct(rt) /\ UuidsIn(rt) = UuidsIn(rs)
    BY SameMirrors
  <1>3. IsCatalog(Catalog(rs), rs)
    BY CatalogIs
  <1>4. IsCatalog(Catalog(rs), rt)
    BY <1>1, <1>2, <1>3 DEF IsCatalog
  <1>5. QED
    BY <1>1, <1>2, <1>4, CatalogUnique

LEMMA AddedCatalog ==
    ASSUME NEW rs \in Seq(Row), NEW rt, NEW i, NEW u \in Uuids, NEW p \in Paths,
           Added(rs, rt, i, u, p), Distinct(rs), u \notin UuidsIn(rs)
    PROVE  Catalog(rt) = [Catalog(rs) EXCEPT ![u] = p]
  <1>1. /\ rt \in Seq(Row) /\ NonEmpty(rt) = NonEmpty(rs) \cup {i}
        /\ rt[i].uuid = u /\ rt[i].filepath = p /\ \A j \in NonEmpty(rs) : rt[j] = rs[j]
    BY DEF Added
  <1>2. Distinct(rt) /\ UuidsIn(rt) = UuidsIn(rs) \cup {u}
    BY AddedMirrors
  <1>3. IsCatalog(Catalog(rs), rs)
    BY CatalogIs
  <1> DEFINE cat == [Catalog(rs) EXCEPT ![u] = p]
  <1>4. /\ cat \in [Uuids -> Paths \cup {Nil}]
        /\ \A v \in Uuids : cat[v] = IF v = u THEN p ELSE Catalog(rs)[v]
    BY <1>3 DEF IsCatalog
  <1> HIDE DEF cat
  <1>5. \A j \in NonEmpty(rs) : rs[j].uuid # u /\ rs[j].uuid \in Uuids
    BY RowsFacts DEF UuidsIn
  <1>6. \A j \in NonEmpty(rt) : cat[rt[j].uuid] = rt[j].filepath
    BY <1>1, <1>3, <1>4, <1>5 DEF IsCatalog
  <1>7. \A v \in Uuids : v \notin UuidsIn(rt) => cat[v] = Nil
    BY <1>2, <1>3, <1>4 DEF IsCatalog
  <1>8. IsCatalog(cat, rt)
    BY <1>4, <1>6, <1>7 DEF IsCatalog
  <1>9. cat = Catalog(rt)
    BY <1>1, <1>2, <1>8, CatalogUnique
  <1>10. QED
    BY <1>9 DEF cat

LEMMA DroppedCatalog ==
    ASSUME NEW rs \in Seq(Row), NEW rt, NEW i, Dropped(rs, rt, i), Distinct(rs)
    PROVE  \E u \in Uuids : /\ Catalog(rs)[u] # Nil
                            /\ Catalog(rt) = [Catalog(rs) EXCEPT ![u] = Nil]
  <1>1. /\ rt \in Seq(Row) /\ i \in NonEmpty(rs) /\ NonEmpty(rt) = NonEmpty(rs) \ {i}
        /\ \A j \in NonEmpty(rt) : rt[j] = rs[j]
    BY DEF Dropped
  <1>2. PICK u \in Uuids : u = rs[i].uuid
    BY <1>1, RowsFacts
  <1>3. Distinct(rt) /\ UuidsIn(rt) = UuidsIn(rs) \ {u}
    BY <1>2, DroppedMirrors
  <1>4. IsCatalog(Catalog(rs), rs)
    BY CatalogIs
  <1> DEFINE cat == [Catalog(rs) EXCEPT ![u] = Nil]
  <1>5. /\ cat \in [Uuids -> Paths \cup {Nil}]
        /\ \A v \in Uuids : cat[v] = IF v = u THEN Nil ELSE Catalog(rs)[v]
    BY <1>4 DEF IsCatalog
  <1> HIDE DEF cat
  <1>6. \A j \in NonEmpty(rt) : rs[j].uuid # u /\ rs[j].uuid \in Uuids /\ j \in NonEmpty(rs)
    BY <1>1, <1>2, RowsFacts DEF Distinct
  <1>7. \A j \in NonEmpty(rt) : cat[rt[j].uuid] = rt[j].filepath
    BY <1>1, <1>4, <1>5, <1>6 DEF IsCatalog
  <1>8. \A v \in Uuids : v \notin UuidsIn(rt) => cat[v] = Nil
    BY <1>3, <1>4, <1>5 DEF IsCatalog
  <1>9. IsCatalog(cat, rt)
    BY <1>5, <1>7, <1>8 DEF IsCatalog
  <1>10. cat = Catalog(rt)
    BY <1>1, <1>3, <1>9, CatalogUnique
  <1>11. Catalog(rs)[u] # Nil
    BY <1>1, <1>2, <1>4, RowsFacts, NamesAssumption DEF IsCatalog
  <1>12. QED
    BY <1>10, <1>11 DEF cat

LEMMA CatalogSteps ==
    ASSUME IInv, OnDisk
    PROVE  [AsCatalog!Next]_(AsCatalog!vars)
  <1>1. /\ rows \in Seq(Row) /\ Distinct(rows) /\ files \in [Paths -> Contents \cup {NoFile}]
        /\ NoFile \notin Contents
    BY InvParts, NamesAssumption DEF TypeOK, Mirrored
  <1>2. \A p \in Paths : p \in Present(files) <=> files[p] # NoFile
    BY DEF Present
  <1>3. \A p \in Paths : Unused(p) => ~AsCatalog!Named(p)
    BY <1>1, CatalogNames DEF AsCatalog!Named, Unused
  <1>4. CASE files' = files /\ SameRecords(rows, rows')
    <2>1. Catalog(rows)' = Catalog(rows) /\ Present(files)' = Present(files)
      BY <1>1, <1>4, SameCatalog DEF Present
    <2>2. QED
      BY <2>1 DEF AsCatalog!vars
  <1>5. CASE files' = files /\ \E i : Dropped(rows, rows', i)
    <2>1. PICK u \in Uuids : /\ Catalog(rows)[u] # Nil
                             /\ Catalog(rows') = [Catalog(rows) EXCEPT ![u] = Nil]
      BY <1>1, <1>5, DroppedCatalog
    <2>2. Present(files)' = Present(files)
      BY <1>5 DEF Present
    <2>3. AsCatalog!Removed(u)
      BY <2>1, <2>2 DEF AsCatalog!Removed
    <2>4. QED
      BY <2>3 DEF AsCatalog!Next
  <1>6. CASE /\ files' = files
             /\ \E u \in Uuids : \E p \in Paths :
                  /\ \E i : Added(rows, rows', i, u, p)
                  /\ u \notin UuidsIn(rows) /\ Unused(p) /\ files[p] # NoFile
    <2>1. PICK u \in Uuids, p \in Paths :
                  /\ \E i : Added(rows, rows', i, u, p)
                  /\ u \notin UuidsIn(rows) /\ Unused(p) /\ files[p] # NoFile
      BY <1>6
    <2>2. Catalog(rows') = [Catalog(rows) EXCEPT ![u] = p]
      BY <1>1, <2>1, AddedCatalog
    <2>3. Catalog(rows)[u] = Nil
      BY <1>1, <2>1, CatalogIs DEF IsCatalog
    <2>4. Present(files)' = Present(files)
      BY <1>6 DEF Present
    <2>5. AsCatalog!Created(u, p)
      BY <1>2, <1>3, <2>1, <2>2, <2>3, <2>4 DEF AsCatalog!Created
    <2>6. QED
      BY <2>5 DEF AsCatalog!Next
  <1>7. ASSUME rows' = rows, NEW p \in Paths, Unused(p), files' = [files EXCEPT ![p] = NoFile]
        PROVE  [AsCatalog!Next]_(AsCatalog!vars)
    <2>1. Catalog(rows)' = Catalog(rows)
      BY <1>7 DEF Catalog, UuidsIn, NonEmpty
    <2>2. \A q \in Paths : files'[q] = IF q = p THEN NoFile ELSE files[q]
      BY <1>1, <1>7
    <2>3. CASE files[p] = NoFile
      <3>1. Present(files)' = Present(files)
        BY <2>2, <2>3 DEF Present
      <3>2. QED
        BY <2>1, <3>1 DEF AsCatalog!vars
    <2>4. CASE files[p] # NoFile
      <3>1. Present(files)' = Present(files) \ {p}
        BY <2>2 DEF Present
      <3>2. AsCatalog!FileDeleted(p)
        BY <1>2, <1>3, <1>7, <2>1, <2>4, <3>1 DEF AsCatalog!FileDeleted
      <3>3. QED
        BY <3>2 DEF AsCatalog!Next
    <2>5. QED
      BY <2>3, <2>4
  <1>8. ASSUME rows' = rows, NEW p \in Paths, NEW c \in Contents, files' = [files EXCEPT ![p] = c]
        PROVE  [AsCatalog!Next]_(AsCatalog!vars)
    <2>1. Catalog(rows)' = Catalog(rows)
      BY <1>8 DEF Catalog, UuidsIn, NonEmpty
    <2>2. \A q \in Paths : files'[q] = IF q = p THEN c ELSE files[q]
      BY <1>1, <1>8
    <2>3. CASE files[p] = NoFile
      <3>1. Present(files)' = Present(files) \cup {p}
        BY <1>1, <2>2 DEF Present
      <3>2. AsCatalog!FileMade(p)
        BY <1>2, <2>1, <2>3, <3>1 DEF AsCatalog!FileMade
      <3>3. QED
        BY <3>2 DEF AsCatalog!Next
    <2>4. CASE files[p] # NoFile
      <3>1. Present(files)' = Present(files)
        BY <1>1, <2>2, <2>4 DEF Present
      <3>2. QED
        BY <2>1, <3>1 DEF AsCatalog!vars
    <2>5. QED
      BY <2>3, <2>4
  <1>9. QED
    BY <1>4, <1>5, <1>6, <1>7, <1>8 DEF OnDisk

(***************************************************************************)
(* The database is a catalog of files: one entry comes or goes at a time,  *)
(* with a file of its own that is there for as long as the entry is, and   *)
(* nothing of it changes when the program dies.                            *)
(***************************************************************************)
THEOREM DatabaseIsACatalog == Spec => ImplementsCatalog
  <1>1. Init => AsCatalog!Init
    BY DEF Init, AsCatalog!Init
  <1>2. IInv /\ [Next]_vars => [AsCatalog!Next]_(AsCatalog!vars)
    BY NextKeeps, CatalogSteps
  <1>3. QED
    BY <1>1, <1>2, DatabaseInvariant, PTL DEF Spec, ImplementsCatalog, AsCatalog!Spec

-----------------------------------------------------------------------------
(* The requests for a removal. *)

(* Whoever is put at the end of a queue, the others stay in it. *)
LEMMA AppendKeeps ==
  ASSUME NEW S, NEW q \in Seq(S), NEW w \in S, NEW u, \E i \in DOMAIN q : q[i] = u
  PROVE  \E i \in DOMAIN Append(q, w) : Append(q, w)[i] = u
  <1>1. PICK i \in DOMAIN q : q[i] = u
    OBVIOUS
  <1>2. i \in DOMAIN Append(q, w) /\ Append(q, w)[i] = u
    BY <1>1
  <1>3. QED
    BY <1>2

(* What is in a queue is its head or in its tail. *)
LEMMA HeadOrTail ==
  ASSUME NEW S, NEW q \in Seq(S), NEW u, NEW i \in DOMAIN q, q[i] = u, u # Head(q)
  PROVE  \E j \in DOMAIN Tail(q) : Tail(q)[j] = u
  <1>1. i \in 2 .. Len(q)
    OBVIOUS
  <1>2. i - 1 \in DOMAIN Tail(q) /\ Tail(q)[i - 1] = q[i]
    BY <1>1
  <1>3. QED
    BY <1>2

(***************************************************************************)
(* A resource that is to be removed is asked for in the queue or the list  *)
(* until it is out of the table: neither the move from the one to the      *)
(* other, nor a frame in which the lock was taken, nor the removal of      *)
(* another loses a request (the safety half of RemovalsHappen).            *)
(***************************************************************************)
RequestsKept ==
    [][\A u \in Uuids : ToRemove(u) /\ table_[u] # 0 => ToRemove(u)' \/ table_'[u] = 0]_vars

THEOREM NoRemovalIsLost == Spec => RequestsKept
  <1> DEFINE Kept == \A u \in Uuids : ToRemove(u) /\ table_[u] # 0
                                      => ToRemove(u)' \/ table_'[u] = 0
  <1>1. ASSUME TypeOK, TypeOK', Next
        PROVE  Kept
    <2> SUFFICES ASSUME NEW u \in Uuids, ToRemove(u)
                 PROVE  ToRemove(u)' \/ table_'[u] = 0
      OBVIOUS
    <2>1. remove_queue_ \in Seq(Uuids) /\ remove_list_ \in Seq(Uuids)
      BY <1>1 DEF TypeOK
    <2>2. CASE UNCHANGED removals
      BY <2>2 DEF removals, ToRemove
    <2>3. CASE UpdatePop
      <3>1. CASE \E i \in DOMAIN remove_list_ : remove_list_[i] = u
        <4>1. Head(remove_queue_) \in Uuids
          BY <2>1, <2>3, HeadTailProperties DEF UpdatePop
        <4>2. remove_list_' = Append(remove_list_, Head(remove_queue_))
          BY <2>3 DEF UpdatePop
        <4>3. \E i \in DOMAIN remove_list_' : remove_list_'[i] = u
          BY <2>1, <3>1, <4>1, <4>2, AppendKeeps
        <4>4. QED
          BY <4>3 DEF ToRemove
      <3>2. CASE \E i \in DOMAIN remove_queue_ : remove_queue_[i] = u
        <4>1. PICK i \in DOMAIN remove_queue_ : remove_queue_[i] = u
          BY <3>2
        <4>2. CASE u = Head(remove_queue_)
          <5>1. remove_list_'[Len(remove_list_) + 1] = u
                /\ Len(remove_list_) + 1 \in DOMAIN remove_list_'
            BY <2>1, <2>3, <4>2 DEF UpdatePop
          <5>2. QED
            BY <5>1 DEF ToRemove
        <4>3. CASE u # Head(remove_queue_)
          BY <2>1, <2>3, <4>1, <4>3, HeadOrTail DEF UpdatePop, ToRemove
        <4>4. QED
          BY <4>2, <4>3
      <3>3. QED
        BY <3>1, <3>2 DEF ToRemove
    <2>4. CASE UpdateRemove
      <3>1. CASE \E i \in DOMAIN remove_queue_ : remove_queue_[i] = u
        BY <2>4, <3>1 DEF UpdateRemove, ToRemove
      <3>2. CASE \E i \in DOMAIN remove_list_ : remove_list_[i] = u
        <4>1. PICK i \in DOMAIN remove_list_ : remove_list_[i] = u
          BY <3>2
        <4>2. CASE u = Head(remove_list_)
          <5>1. table_ \in [Uuids -> Nat]
            BY <1>1 DEF TypeOK
          <5>2. CASE table_[u] = 0
            BY <2>4, <4>2, <5>2 DEF UpdateRemove, RemoveRecord, memory
          <5>3. CASE table_[u] # 0
            BY <2>4, <4>2, <5>1, <5>3 DEF UpdateRemove, RemoveRecord, UnlinkRecord
          <5>4. QED
            BY <5>2, <5>3
        <4>3. CASE u # Head(remove_list_)
          BY <2>1, <2>4, <4>1, <4>3, HeadOrTail DEF UpdateRemove, ToRemove
        <4>4. QED
          BY <4>2, <4>3
      <3>3. QED
        BY <3>1, <3>2 DEF ToRemove
    <2>5. ASSUME NEW v \in issued, remove_resource_later(v)
          PROVE  ToRemove(u)'
      <3>1. v \in Uuids
        BY <1>1, <2>5 DEF TypeOK
      <3>2. CASE \E i \in DOMAIN remove_list_ : remove_list_[i] = u
        BY <2>5, <3>2 DEF remove_resource_later, ToRemove
      <3>3. CASE \E i \in DOMAIN remove_queue_ : remove_queue_[i] = u
        BY <2>1, <2>5, <3>1, <3>3, AppendKeeps DEF remove_resource_later, ToRemove
      <3>4. QED
        BY <3>2, <3>3 DEF ToRemove
    <2>6. CASE Crash
      BY <2>6 DEF Crash
    <2>7. ASSUME NEW a \in Assets, Import(a)
          PROVE  UNCHANGED removals
      BY <2>7 DEF Import, Generate, PartFails, GenerateUuid, TryPath, MapFile, GrowFile, NewEntry,
                  FillFile
    <2>8. CASE UpdateNothing \/ UpdateLock \/ UpdateRemoveFile \/ UpdateDone
      <3>1. UNCHANGED removals
        BY <2>8 DEF UpdateNothing, UpdateLock, UpdateRemoveFile, UpdateDone, vars
      <3>2. QED
        BY <2>2, <3>1
    <2>9. ASSUME NEW v \in issued,
                 try_unlink_record(v) \/ try_remove_resource(v) \/ try_map_resource(v)
          PROVE  UNCHANGED removals
      BY <2>9 DEF try_unlink_record, try_remove_resource, try_map_resource
    <2>10. CASE Returns \/ Restart
      <3>1. UNCHANGED removals
        BY <2>10 DEF Returns, OpenFile, ClientRemoveFile, Restart
      <3>2. QED
        BY <2>2, <3>1
    <2>11. QED
      BY <1>1, <2>2, <2>3, <2>4, <2>5, <2>6, <2>7, <2>8, <2>9, <2>10
         DEF Next, Update, Calls
  <1>2. ASSUME TypeOK, TypeOK', [Next]_vars
        PROVE  [Kept]_vars
    BY <1>1, <1>2
  <1>3. QED
    BY <1>2, TypeCorrect, PTL DEF Spec, RequestsKept

=============================================================================
