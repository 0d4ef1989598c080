-------------------------- MODULE ResourceDatabase --------------------------
(***************************************************************************)
(* resource2/ResourceDatabase.{hpp,cpp}, with the importers that fill what *)
(* it generates.                                                           *)
(*                                                                         *)
(* The table is a mapped file of rows; beside it are the resource files.   *)
(* Both survive the program.  The lookup table, the set of empty rows, the *)
(* use counts of the paths and the removal queues are memory: the          *)
(* constructor (Restart) makes the first three again from the rows.        *)
(*                                                                         *)
(* A step is what happens between two changes of something on disk, or one *)
(* critical section when nothing on disk changes.  The program may die     *)
(* (Crash) between any two steps.  What was stored in a mapped file or     *)
(* written to one stays: the system holds it, not the program.             *)
(***************************************************************************)
EXTENDS Integers, FiniteSets, Sequences, Functions

CONSTANTS Uuids,          \* what generate_uuid() may return: enough for every call
          Nil,            \* the nil UUID, and no path
          Hints,          \* names for a file
          Assets,         \* the assets to import
          Uses,           \* Uses[a]: the assets that the file of a refers to
          HintOf,         \* HintOf[a]: the ResourcePathHint of a
          VersionLimit,   \* version_limit: names tried for one hint
          Main, Client,   \* the main thread; a thread that removes
          Loader,         \* a thread that looks up, once while the program runs
          NoFile,         \* what is at a path without a file
          NoOne,          \* the lock is free
          Found,          \* the directories, [rows, files, removed], a program may find
          MaxRows,        \* bound of the rows
          MaxFaults,      \* bound of the crashes and of the files that cannot be mapped
          MaxCalls        \* bound of the calls of Client

(***************************************************************************)
(* The version is put between the name and the extension, none for 0.  Two *)
(* names that are the same when truncated are one hint.                    *)
(***************************************************************************)
path_from_hint(hint, version) == <<hint, version>>

Paths == {path_from_hint(h, v) : h \in Hints, v \in 0 .. VersionLimit - 1}

Threads == Assets \cup {Main, Client, Loader}

EmptyRow == [uuid |-> Nil, filepath |-> Nil]
Row      == [uuid : Uuids, filepath : Paths] \cup {EmptyRow}
(* of: who created the file; text: whose contents were written to it; refs: UUIDs in these. *)
Contents == [of : Assets \cup {Nil}, text : Assets \cup {Nil}, refs : SUBSET Uuids]

NonEmpty(rs) == {i \in DOMAIN rs : rs[i].uuid # Nil}
UuidsIn(rs)  == {rs[i].uuid : i \in NonEmpty(rs)}
Distinct(rs) == \A i, j \in NonEmpty(rs) : rs[i].uuid = rs[j].uuid => i = j

(* u is recorded, and there is something written in its file. *)
Readable(rs, fs, u) == \E j \in NonEmpty(rs) : /\ rs[j].uuid = u
                                               /\ fs[rs[j].filepath] # NoFile
                                               /\ fs[rs[j].filepath].text # Nil

(* What the files of the records refer to can be read, but for what is gone. *)
Resolved(rs, fs, gone) ==
    \A i \in NonEmpty(rs) : fs[rs[i].filepath] # NoFile =>
        \A u \in fs[rs[i].filepath].refs \ gone : Readable(rs, fs, u)

ASSUME SizesAssumption ==
    /\ VersionLimit \in Nat \ {0}
    /\ MaxRows \in Nat /\ MaxFaults \in Nat /\ MaxCalls \in Nat
    /\ HintOf \in [Assets -> Hints]
    /\ Uses \in [Assets -> SUBSET Assets]

ASSUME NamesAssumption ==
    /\ Nil \notin Uuids \cup Paths \cup Assets
    /\ Main \notin Assets /\ Client \notin Assets \cup {Main}
    /\ Loader \notin Assets \cup {Main, Client}
    /\ NoOne \notin Threads
    /\ NoFile \notin Contents

(* A directory of another run: no two rows of one UUID, files for all, and   *)
(* nothing missing but what was removed.                                     *)
ASSUME FoundAssumption ==
    \A d \in Found : /\ d.rows \in Seq(Row) /\ Distinct(d.rows)
                     /\ d.files \in [Paths -> Contents \cup {NoFile}]
                     /\ d.removed \subseteq Uuids
                     /\ \A i \in NonEmpty(d.rows) :
                            d.files[d.rows[i].filepath] # NoFile
                     /\ Resolved(d.rows, d.files, d.removed)

VARIABLES
    rows,          \* the table file
    files,         \* files[p]: what is in the resource file p
    table_,        \* table_[u]: the row of u, 0 when there is none
    empty_rows_,
    path_uses_,    \* path_uses_[p]: rows that name p
    remove_queue_, remove_list_,
    state_mutex_,  \* [writer, readers]
    pc,            \* pc[t]: what thread t does next
    job,           \* job[t]: the locals of t, [uuid, path, version]
    faults, calls,
    issued,        \* the UUIDs generated so far
    removed        \* the UUIDs whose removal was asked for and done

memory   == <<table_, empty_rows_, path_uses_>>
removals == <<remove_queue_, remove_list_>>
bounds   == <<faults, calls>>
history  == <<issued, removed>>
vars     == <<rows, files, memory, removals, state_mutex_, pc, job, bounds, history>>

NoJob == [uuid |-> Nil, path |-> Nil, version |-> 0]

TypeOK == /\ rows \in Seq(Row)
          /\ files \in [Paths -> Contents \cup {NoFile}]
          /\ table_ \in [Uuids -> Nat]
          /\ empty_rows_ \subseteq Nat
          /\ path_uses_ \in [Paths -> Nat]
          /\ remove_queue_ \in Seq(Uuids) /\ remove_list_ \in Seq(Uuids)
          /\ state_mutex_ \in [writer : Threads \cup {NoOne}, readers : SUBSET Threads]
          /\ pc \in [Threads -> {"idle", "try", "map", "record", "fill",
                                 "done", "failed", "open", "missing", "nuke", "sweep",
                                 "down"}]
          /\ job \in [Threads -> [uuid : Uuids \cup {Nil}, path : Paths \cup {Nil},
                                  version : 0 .. VersionLimit]]
          /\ faults \in 0 .. MaxFaults /\ calls \in 0 .. MaxCalls
          /\ issued \subseteq Uuids /\ removed \subseteq Uuids

-----------------------------------------------------------------------------
(* What the constructor makes of the rows. *)

TableOf(rs)     == [u \in Uuids |-> IF u \in UuidsIn(rs)
                                    THEN CHOOSE i \in NonEmpty(rs) : rs[i].uuid = u ELSE 0]
EmptyRowsOf(rs) == DOMAIN rs \ NonEmpty(rs)
PathUsesOf(rs)  == [p \in Paths |-> Cardinality({i \in NonEmpty(rs) : rs[i].filepath = p})]

Init == /\ \E d \in Found : rows = d.rows /\ files = d.files /\ removed = d.removed
        /\ table_ = TableOf(rows)
        /\ empty_rows_ = EmptyRowsOf(rows)
        /\ path_uses_ = PathUsesOf(rows)
        /\ remove_queue_ = <<>> /\ remove_list_ = <<>>
        /\ state_mutex_ = [writer |-> NoOne, readers |-> {}]
        /\ pc = [t \in Threads |-> "idle"]
        /\ job = [t \in Threads |-> NoJob]
        /\ faults = 0 /\ calls = 0
        /\ issued = UuidsIn(rows) \cup removed

-----------------------------------------------------------------------------
(* std::shared_mutex *)

\* Mutant: a writer does not wait for the readers.
NoWriter   == state_mutex_.writer = NoOne

Free       == state_mutex_ = [writer |-> NoOne, readers |-> {}]
Lock(t)    == Free /\ state_mutex_' = [state_mutex_ EXCEPT !.writer = t]
Unlock     == state_mutex_' = [state_mutex_ EXCEPT !.writer = NoOne]
LockShared(t)   == /\ state_mutex_.writer = NoOne
                   /\ state_mutex_' = [state_mutex_ EXCEPT !.readers = @ \cup {t}]
UnlockShared(t) == state_mutex_' = [state_mutex_ EXCEPT !.readers = @ \ {t}]

Fault == faults < MaxFaults /\ faults' = faults + 1

Goto(t, label) == pc' = [pc EXCEPT ![t] = label]

-----------------------------------------------------------------------------
(* generate_resource(), called by the job that imports a. *)

(* A job imports what its file refers to first, and fails when one of these failed. *)
PartFails(a) ==
    /\ pc[a] = "idle"
    /\ \E b \in Uses[a] : pc[b] = "failed"
    /\ Goto(a, "failed")
    /\ UNCHANGED <<rows, files, memory, removals, state_mutex_, job, bounds, history>>

(* 122 random bits: never the same twice, and never one of the table. *)
generate_uuid == CHOOSE u \in Uuids : u \notin issued

\* Mutant: a part that failed does not stop what refers to it.
GenerateWithoutParts(a) ==
    /\ pc[a] = "idle"
    /\ \A b \in Uses[a] : pc[b] \in {"done", "failed"}
    /\ Lock(a)
    /\ issued # Uuids
    /\ issued' = issued \cup {generate_uuid}
    /\ job' = [job EXCEPT ![a] = [NoJob EXCEPT !.uuid = generate_uuid]]
    /\ Goto(a, "try")
    /\ UNCHANGED <<rows, files, memory, removals, bounds, removed>>

GenerateUuid(a) ==
    /\ pc[a] = "idle"
    /\ \A b \in Uses[a] : pc[b] = "done"
    /\ Lock(a)
    /\ issued # Uuids
    /\ issued' = issued \cup {generate_uuid}
    /\ job' = [job EXCEPT ![a] = [NoJob EXCEPT !.uuid = generate_uuid]]
    /\ Goto(a, "try")
    /\ UNCHANGED <<rows, files, memory, removals, bounds, removed>>

(* The end of the loop: another try, or the exception after the last one. *)
Retry(a, version) == IF version < VersionLimit
                     THEN Goto(a, "try") /\ UNCHANGED state_mutex_
                     ELSE Goto(a, "failed") /\ Unlock

TryPath(a) ==
    LET path    == path_from_hint(HintOf[a], job[a].version)
        version == job[a].version + 1
    IN  /\ pc[a] = "try"
        /\ job' = [job EXCEPT ![a].path = path, ![a].version = version]
        /\ IF path_uses_[path] > 0 \/ files[path] # NoFile
           THEN Retry(a, version) /\ UNCHANGED files
           ELSE /\ files' = [files EXCEPT ![path] =
                                [of |-> a, text |-> Nil, refs |-> {}]]
                /\ Goto(a, "map")
                /\ UNCHANGED state_mutex_
        /\ UNCHANGED <<rows, memory, removals, bounds, history>>

(***************************************************************************)
(* Resizing or mapping the new file may fail: it stays where it is.  When  *)
(* it succeeds with the last version, the exception is thrown all the same.*)
(***************************************************************************)
MapFile(a) ==
    /\ pc[a] = "map"
    /\ \/ /\ IF job[a].version < VersionLimit
             THEN Goto(a, "record") /\ UNCHANGED state_mutex_
             ELSE Retry(a, VersionLimit)
          /\ UNCHANGED faults
       \/ Retry(a, job[a].version) /\ Fault
    /\ UNCHANGED <<rows, files, memory, removals, job, calls, history>>

(* _grow_file() *)
GrowFile(a) ==
    LET size == 1 + (Len(rows) * 13) \div 10
    IN  /\ pc[a] = "record" /\ empty_rows_ = {}
        /\ size <= MaxRows
        /\ rows' = [i \in 1 .. size |-> IF i \in DOMAIN rows THEN rows[i] ELSE EmptyRow]
        /\ empty_rows_' = empty_rows_ \cup Len(rows) + 1 .. size
        /\ UNCHANGED <<files, table_, path_uses_, removals, state_mutex_, pc, job, bounds, history>>

(* The rest of _new_entry(), and the return. *)
NewEntry(a) ==
    LET row == CHOOSE i \in empty_rows_ : \A j \in empty_rows_ : i <= j
    IN  /\ pc[a] = "record" /\ empty_rows_ # {}
        /\ rows' = [rows EXCEPT ![row] = [uuid |-> job[a].uuid, filepath |-> job[a].path]]
        /\ empty_rows_' = empty_rows_ \ {row}
        /\ table_' = [table_ EXCEPT ![job[a].uuid] = row]
        /\ path_uses_' = [path_uses_ EXCEPT ![job[a].path] = @ + 1]
        /\ Unlock
        /\ Goto(a, "fill")
        /\ UNCHANGED <<files, removals, job, bounds, history>>

\* Mutant: the importer opens the path again.
FillPath(a) ==
    /\ pc[a] = "fill"
    /\ files' = [files EXCEPT ![job[a].path] =
                     IF @ = NoFile THEN @
                     ELSE [@ EXCEPT !.text = a, !.refs = {job[b].uuid : b \in Uses[a]}]]
    /\ Goto(a, "done")
    /\ UNCHANGED <<rows, memory, removals, state_mutex_, job, bounds, history>>

(***************************************************************************)
(* The importer writes through its mapping: to the file it created, never  *)
(* to another that took its path after a removal.                          *)
(***************************************************************************)
FillFile(a) ==
    /\ pc[a] = "fill"
    /\ files' = [files EXCEPT ![job[a].path] =
                     IF @ = NoFile \/ @.of # a THEN @
                     ELSE [@ EXCEPT !.text = a, !.refs = {job[b].uuid : b \in Uses[a]}]]
    /\ Goto(a, "done")
    /\ UNCHANGED <<rows, memory, removals, state_mutex_, job, bounds, history>>

-----------------------------------------------------------------------------
(* Removal. *)

\* Mutant: the record goes, the use of its path stays.
UnlinkKeepsUse(u) ==
    /\ rows' = [rows EXCEPT ![table_[u]] = EmptyRow]
    /\ table_' = [table_ EXCEPT ![u] = 0]
    /\ empty_rows_' = empty_rows_ \cup {table_[u]}
    /\ UNCHANGED path_uses_
    /\ removed' = removed \cup {u}

\* Mutant: the use count drops twice.
UnlinkCountsTwice(u) ==
    /\ rows' = [rows EXCEPT ![table_[u]] = EmptyRow]
    /\ table_' = [table_ EXCEPT ![u] = 0]
    /\ empty_rows_' = empty_rows_ \cup {table_[u]}
    /\ path_uses_' = [path_uses_ EXCEPT ![rows[table_[u]].filepath] = @ - 2]
    /\ removed' = removed \cup {u}

(* _try_unlink_record(), up to the flush. *)
UnlinkRecord(u) ==
    /\ rows' = [rows EXCEPT ![table_[u]] = EmptyRow]
    /\ table_' = [table_ EXCEPT ![u] = 0]
    /\ empty_rows_' = empty_rows_ \cup {table_[u]}
    /\ path_uses_' = [path_uses_ EXCEPT ![rows[table_[u]].filepath] = @ - 1]
    /\ removed' = removed \cup {u}

\* Mutant: the file goes with its first record.
AnyUse(u) == path_uses_[rows[table_[u]].filepath] > 0

LastUse(u) == path_uses_[rows[table_[u]].filepath] = 1

(***************************************************************************)
(* _try_remove_resource() of u by t, which goes on at next: the record,    *)
(* then, in a step of its own, the file unless others use it.              *)
(***************************************************************************)
RemoveRecord(t, u, next) ==
    /\ IF table_[u] = 0
       THEN UNCHANGED <<rows, memory, job, removed>> /\ Goto(t, next)
       ELSE /\ UnlinkRecord(u)
            /\ job' = [job EXCEPT ![t].path = rows[table_[u]].filepath]
            /\ Goto(t, IF LastUse(u) THEN "nuke" ELSE next)

RemoveFile(t) == /\ pc[t] = "nuke"
                 /\ files' = [files EXCEPT ![job[t].path] = NoFile]

(* update(), once a frame on the main thread. *)
UpdateNothing == pc[Main] = "idle" /\ remove_queue_ = <<>> /\ remove_list_ = <<>>
                 /\ UNCHANGED vars

UpdatePop ==
    /\ pc[Main] = "idle" /\ remove_queue_ # <<>>
    /\ remove_list_' = Append(remove_list_, Head(remove_queue_))
    /\ remove_queue_' = Tail(remove_queue_)
    /\ UNCHANGED <<rows, files, memory, state_mutex_, pc, job, bounds, history>>

\* Mutant: the list is cleared whether or not the lock was taken.
UpdateClears ==
    /\ pc[Main] = "idle" /\ remove_list_ # <<>>
    /\ IF Free THEN Lock(Main) /\ Goto(Main, "sweep") /\ UNCHANGED remove_list_
               ELSE remove_list_' = <<>> /\ UNCHANGED <<state_mutex_, pc>>
    /\ UNCHANGED <<rows, files, memory, remove_queue_, job, bounds, history>>

(* std::try_to_lock: when the lock is taken the list waits for another frame. *)
UpdateLock ==
    /\ pc[Main] = "idle" /\ remove_list_ # <<>>
    /\ Lock(Main)
    /\ Goto(Main, "sweep")
    /\ UNCHANGED <<rows, files, memory, removals, job, bounds, history>>

UpdateRemove ==
    /\ pc[Main] = "sweep" /\ remove_list_ # <<>>
    /\ RemoveRecord(Main, Head(remove_list_), "sweep")
    /\ remove_list_' = Tail(remove_list_)
    /\ UNCHANGED <<files, remove_queue_, state_mutex_, bounds, issued>>

UpdateRemoveFile ==
    /\ RemoveFile(Main)
    /\ Goto(Main, "sweep")
    /\ UNCHANGED <<rows, memory, removals, state_mutex_, job, bounds, history>>

UpdateDone ==
    /\ pc[Main] = "sweep" /\ remove_list_ = <<>>
    /\ Unlock
    /\ Goto(Main, "idle")
    /\ UNCHANGED <<rows, files, memory, removals, job, bounds, history>>

-----------------------------------------------------------------------------
(* Any other thread that knows a UUID, when it has the lock. *)

Call == pc[Client] = "idle" /\ calls < MaxCalls /\ calls' = calls + 1

remove_resource_later(u) ==
    /\ Call
    /\ remove_queue_' = Append(remove_queue_, u)
    /\ UNCHANGED <<rows, files, memory, remove_list_, state_mutex_, pc, job, faults, history>>

try_unlink_record(u) ==
    /\ Call
    /\ Free
    /\ table_[u] # 0 /\ UnlinkRecord(u)
    /\ UNCHANGED <<files, removals, state_mutex_, pc, job, faults, issued>>

try_remove_resource(u) ==
    /\ Call
    /\ Free
    /\ RemoveRecord(Client, u, "idle")
    /\ IF pc'[Client] = "nuke" THEN Lock(Client) ELSE UNCHANGED state_mutex_
    /\ UNCHANGED <<files, removals, faults, issued>>

ClientRemoveFile ==
    /\ RemoveFile(Client)
    /\ Unlock
    /\ Goto(Client, "idle")
    /\ UNCHANGED <<rows, memory, removals, job, bounds, history>>

(* try_map_resource(), in which the constructor of FileMapping throws without a file. *)
try_map_resource(u) ==
    /\ pc[Loader] = "idle"
    /\ table_[u] # 0
    /\ LockShared(Loader)
    /\ job' = [job EXCEPT ![Loader].path = rows[table_[u]].filepath]
    /\ Goto(Loader, "open")
    /\ UNCHANGED <<rows, files, memory, removals, bounds, history>>

OpenFile ==
    /\ pc[Loader] = "open"
    /\ UnlockShared(Loader)
    /\ Goto(Loader, IF files[job[Loader].path] = NoFile THEN "missing" ELSE "done")
    /\ UNCHANGED <<rows, files, memory, removals, job, bounds, history>>

-----------------------------------------------------------------------------
(* The program dies, between any two steps, and is started again. *)

Down == pc[Main] = "down"

Crash == /\ ~Down /\ Fault
         /\ table_' = [u \in Uuids |-> 0]
         /\ empty_rows_' = {}
         /\ path_uses_' = [p \in Paths |-> 0]
         /\ remove_queue_' = <<>> /\ remove_list_' = <<>>
         /\ state_mutex_' = [writer |-> NoOne, readers |-> {}]
         /\ pc' = [t \in Threads |-> "down"]
         /\ job' = [t \in Threads |-> NoJob]
         /\ UNCHANGED <<rows, files, calls, history>>

(* The constructor throws when two rows have one UUID. *)
Restart == /\ Down /\ Distinct(rows)
           /\ table_' = TableOf(rows)
           /\ empty_rows_' = EmptyRowsOf(rows)
           /\ path_uses_' = PathUsesOf(rows)
           /\ pc' = [t \in Threads |-> "idle"]
           /\ UNCHANGED <<rows, files, removals, state_mutex_, job, bounds, history>>

-----------------------------------------------------------------------------

Generate(a) == GenerateUuid(a) \/ TryPath(a) \/ MapFile(a) \/ GrowFile(a) \/ NewEntry(a)
Import(a)   == PartFails(a) \/ Generate(a) \/ FillFile(a)
Update      == UpdateNothing \/ UpdatePop \/ UpdateLock \/ UpdateRemove \/ UpdateRemoveFile
               \/ UpdateDone
Calls(u)    == remove_resource_later(u) \/ try_unlink_record(u) \/ try_remove_resource(u)
               \/ try_map_resource(u)
Returns     == OpenFile \/ ClientRemoveFile

Next == \/ \E a \in Assets : Import(a)
        \/ Update
        \/ \E u \in issued : Calls(u)
        \/ Returns
        \/ Crash \/ Restart

(***************************************************************************)
(* Every thread goes on.  A try_to_lock that is tried every frame is taken *)
(* to succeed when the lock stays free from some frame on: it does here    *)
(* because imports and calls are bounded.                                  *)
(***************************************************************************)
Spec == /\ Init /\ [][Next]_vars
        /\ \A a \in Assets : WF_vars(Import(a))
        /\ WF_vars(Update) /\ WF_vars(Returns)

-----------------------------------------------------------------------------
(* Properties *)

(***************************************************************************)
(* Whenever nobody writes, what is in memory is what the constructor would *)
(* make of the rows: no removal, growth, retry or restart leaves a row     *)
(* that is neither in the table nor empty, or a use count that is off.     *)
(***************************************************************************)
MemoryMirrorsRows ==
    ~Down /\ state_mutex_.writer = NoOne =>
        /\ Distinct(rows)
        /\ table_ = TableOf(rows)
        /\ empty_rows_ = EmptyRowsOf(rows)
        /\ path_uses_ = PathUsesOf(rows)

(***************************************************************************)
(* What the file of a recorded resource refers to is recorded and written, *)
(* unless its removal was asked for: importers generate bottom-up, so that *)
(* a scene that can be read has all its parts, wherever the program died.  *)
(***************************************************************************)
RefsResolve == Resolved(rows, files, removed)

(***************************************************************************)
(* A thread that found a record under the shared lock finds its file: a    *)
(* removal of the record and of the file does not come in between.         *)
(***************************************************************************)
LookupsFindTheirFile == pc[Loader] # "missing"

(* What is recorded can be read. *)
RecordsCanBeRead == RefsResolve /\ LookupsFindTheirFile

(***************************************************************************)
(* What was written for a resource stays in its file for as long as it is  *)
(* recorded: another import of the same name, an importer that writes when *)
(* its own resource is gone, or a removal do not touch it.                 *)
(***************************************************************************)
ContentsKept ==
    [][\A i \in NonEmpty(rows) :
          /\ rows'[i] = rows[i]
          /\ files[rows[i].filepath] # NoFile /\ files[rows[i].filepath].text # Nil
          => files'[rows[i].filepath] = files[rows[i].filepath]]_vars

(***************************************************************************)
(* The database is a catalog, the rows and files at every moment being its *)
(* state: a crash changes nothing of it, and no file of a record is lost.  *)
(***************************************************************************)
Catalog(rs) == [u \in Uuids |-> IF u \in UuidsIn(rs)
                                THEN (CHOOSE row \in Range(rs) : row.uuid = u).filepath
                                ELSE Nil]
Present(f) == {p \in Paths : f[p] # NoFile}

AsCatalog == INSTANCE ResourceCatalog WITH
    catalog <- Catalog(rows), present <- Present(files), NoPath <- Nil,
    Found <- {[catalog |-> Catalog(d.rows), present |-> Present(d.files)] : d \in Found}

ImplementsCatalog == AsCatalog!Spec

(***************************************************************************)
(* A resource that is to be removed later is out of the table at last: no  *)
(* request is lost between the queue, the list and a lock that was taken.  *)
(***************************************************************************)
ToRemove(u) == \/ \E i \in DOMAIN remove_queue_ : remove_queue_[i] = u
               \/ \E i \in DOMAIN remove_list_ : remove_list_[i] = u

RemovalsHappen == \A u \in Uuids : ToRemove(u) ~> table_[u] = 0

=============================================================================
