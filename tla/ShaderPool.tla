----------------------------- MODULE ShaderPool -----------------------------
(***************************************************************************)
(* resource/ShaderPool.{hpp,cpp} over ShaderWatcher.                       *)
(*                                                                         *)
(* The main thread gets and reloads programs; an editor saves files at any *)
(* time; the thread of the watcher hands on what inotify reports.  A       *)
(* program is loaded one file after another, so that the editor may save   *)
(* between two of them, and between the last one and the moment at which   *)
(* its files are watched.                                                  *)
(*                                                                         *)
(* A text is a revision of a file, what it includes, whether it compiles,  *)
(* and the programs that were being loaded when it was saved.  An entity   *)
(* of the registry that stands for a file is a record of what its          *)
(* components say, and the load that made it: no two are the same, as      *)
(* entities carry a version.                                               *)
(***************************************************************************)
EXTENDS ShaderWatcher, Sequences

CONSTANTS Programs,
          Primaries,  \* Primaries[p]: the files of the stages of p
          Texts,      \* Texts[f]: what may be saved in f, [includes, ok]
          FirstTexts, \* FirstTexts[f]: what is in f to begin with
          MaxEdits,   \* bound of the saves
          MaxForced   \* bound of the calls of force_reload()

ASSUME ProgramsAssumption ==
    /\ Primaries \in [Programs -> SUBSET Files]
    /\ \A f \in Files : /\ FirstTexts[f] \in Texts[f]
                        /\ \A t \in Texts[f] : t.includes \subseteq Files /\ t.ok \in BOOLEAN
    /\ MaxEdits \in Nat /\ MaxForced \in Nat

VARIABLES
    text,         \* text[f]: what is in f, [rev, includes, ok, saved_in]
    inotify,      \* descriptors of the events that are still to be read
    wd_events_,
    watcher,
    entities,     \* the files, [program, primary, file, included, load]
    program_map_, \* the programs there are
    object,       \* object[p]: what p was compiled from
    failed,       \* failed[p]: the last load of p failed
    marked,       \* the programs with MarkedForReload
    load,         \* the program that is being loaded, or NoLoad
    loads, edits, forced

pool == <<entities, program_map_, object, failed>>
pool_vars == <<text, inotify, wd_events_, watcher, pool, marked, load, loads, edits, forced>>

NoLoad == [pc |-> "none"]

(* A part of a program: a file, for a stage, as it was when it was read. *)
IsPart(part) == /\ part.primary \in Files /\ part.file \in Files
                /\ part.included \in BOOLEAN

PoolTypeOK == /\ \A f \in Files : text[f].rev \in 0 .. MaxEdits
              /\ watcher.kernel \in [Files -> Nat]
              /\ \A e \in entities : e.program \in Programs /\ IsPart(e)
              /\ program_map_ \subseteq Programs /\ marked \subseteq program_map_
              /\ \A p \in Programs : \A part \in object[p] : IsPart(part)
              /\ failed \in [Programs -> BOOLEAN]
              /\ load.pc \in {"none", "read", "sweep", "watch"}
              /\ edits \in 0 .. MaxEdits /\ forced \in 0 .. MaxForced

PoolInit == /\ text = [f \in Files |-> [rev |-> 0, includes |-> FirstTexts[f].includes,
                                        ok |-> FirstTexts[f].ok, saved_in |-> {}]]
            /\ inotify = <<>> /\ wd_events_ = <<>>
            /\ watcher = NewWatcher
            /\ entities = {} /\ program_map_ = {}
            /\ object = [p \in Programs |-> {}]
            /\ failed = [p \in Programs |-> FALSE]
            /\ marked = {} /\ load = NoLoad
            /\ loads = 0 /\ edits = 0 /\ forced = 0

-----------------------------------------------------------------------------
(* The editor, and the thread of the watcher. *)

(* inotify drops an event that is the same as the last one still unread. *)
Notified(wd) == IF wd = 0 \/ (inotify # <<>> /\ inotify[Len(inotify)] = wd)
                THEN inotify ELSE Append(inotify, wd)

Save(f, t) ==
    /\ edits < MaxEdits
    /\ edits' = edits + 1
    /\ text' = [text EXCEPT ![f] = [rev |-> @.rev + 1, includes |-> t.includes, ok |-> t.ok,
                                    saved_in |-> IF load = NoLoad THEN {} ELSE {load.program}]]
    /\ inotify' = Notified(watcher.kernel[f])
    /\ UNCHANGED <<wd_events_, watcher, pool, marked, load, loads, forced>>

read_thread_loop ==
    /\ inotify # <<>>
    /\ wd_events_' = Append(wd_events_, Head(inotify))
    /\ inotify' = Tail(inotify)
    /\ UNCHANGED <<text, watcher, pool, marked, load, loads, edits, forced>>

-----------------------------------------------------------------------------
(* load_and_compile_program() *)

Part(primary, file, included) ==
    [primary |-> primary, file |-> file, included |-> included, text |-> text[file]]

Begin(p) == /\ loads' = loads + 1
            /\ load' = [pc |-> "read", program |-> p, id |-> loads + 1,
                        rest |-> Primaries[p], todo |-> {}, parts |-> {}]

(* The includes of a stage that have been read, and those a text adds. *)
Included(parts, primary) == {q.file : q \in {r \in parts : r.primary = primary /\ r.included}}

(* The files of a stage are read before those of the next. *)
ReadPrimary(primary) ==
    /\ load.pc = "read" /\ load.todo = {}
    /\ primary \in load.rest
    /\ load' = [load EXCEPT !.rest  = @ \ {primary},
                            !.todo  = {<<primary, f>> : f \in text[primary].includes},
                            !.parts = @ \cup {Part(primary, primary, FALSE)}]
    /\ UNCHANGED <<text, inotify, wd_events_, watcher, pool, marked, loads, edits, forced>>

ReadInclude(primary, f) ==
    LET known == Included(load.parts, primary) \cup {f}
    IN  /\ load.pc = "read" /\ <<primary, f>> \in load.todo
        /\ load' = [load EXCEPT
               !.todo  = (@ \ {<<primary, f>>})
                         \cup {<<primary, g>> : g \in text[f].includes \ known},
               !.parts = @ \cup {Part(primary, f, TRUE)}]
        /\ UNCHANGED <<text, inotify, wd_events_, watcher, pool, marked, loads, edits, forced>>

Compiles == \A part \in load.parts : part.text.ok

AllRead == load.pc = "read" /\ load.rest = {} /\ load.todo = {}

\* Mutant: a program is dropped before it is loaded again, and stays marked.
LoadFailsForgets ==
    /\ AllRead /\ ~Compiles
    /\ failed' = [failed EXCEPT ![load.program] = TRUE]
    /\ program_map_' = program_map_ \ {load.program}
    /\ load' = NoLoad
    /\ UNCHANGED <<text, inotify, wd_events_, watcher, entities, object, marked, loads, edits,
                   forced>>

(* An exception: get() passes it on, sweep_reload_marked() goes on with the next. *)
LoadFails ==
    /\ AllRead /\ ~Compiles
    /\ failed' = [failed EXCEPT ![load.program] = TRUE]
    /\ marked' = marked \ {load.program}
    /\ load' = NoLoad
    /\ UNCHANGED <<text, inotify, wd_events_, watcher, entities, program_map_, object, loads,
                   edits, forced>>

LoadSucceeds ==
    /\ AllRead /\ Compiles
    /\ object' = [object EXCEPT ![load.program] = load.parts]
    /\ failed' = [failed EXCEPT ![load.program] = FALSE]
    /\ load' = [load EXCEPT !.pc = "sweep"]
    /\ UNCHANGED <<text, inotify, wd_events_, watcher, entities, program_map_, marked, loads,
                   edits, forced>>

-----------------------------------------------------------------------------
(* The rest of get() and of sweep_reload_marked(): the files in the registry. *)

Secondaries(p) == {e \in entities : e.program = p /\ e.included}

(* sweep_marked_for_destruction(): on_destroy stops the watch. *)
DestroySecondary(e) ==
    /\ entities' = entities \ {e}
    /\ watcher' = stop_watching(watcher, e)
    /\ UNCHANGED <<text, inotify, wd_events_, program_map_, object, failed, marked, load, loads,
                   edits, forced>>

(* The primaries of a program that is reloaded stay. *)
ToWatch == IF load.program \in program_map_ THEN {part \in load.parts : part.included}
           ELSE load.parts

\* Mutant: the includes of before the reload are only detached.
SweptDetached ==
    /\ load.pc = "sweep"
    /\ load' = [load EXCEPT !.pc = "watch", !.parts = ToWatch]
    /\ UNCHANGED <<text, inotify, wd_events_, watcher, pool, marked, loads, edits, forced>>

Swept ==
    /\ load.pc = "sweep" /\ Secondaries(load.program) = {}
    /\ load' = [load EXCEPT !.pc = "watch", !.parts = ToWatch]
    /\ UNCHANGED <<text, inotify, wd_events_, watcher, pool, marked, loads, edits, forced>>

Entity(part) == [program |-> load.program, primary |-> part.primary, file |-> part.file,
                 included |-> part.included, load |-> load.id]

(* emplace<WatchedFile>(): on_construct starts the watch. *)
EmplaceFile(part) ==
    /\ load' = [load EXCEPT !.parts = @ \ {part}]
    /\ entities' = entities \cup {Entity(part)}
    /\ watcher' = watch(watcher, Entity(part), part.file)
    /\ UNCHANGED <<text, inotify, wd_events_, program_map_, object, failed, marked, loads, edits,
                   forced>>

LoadEnds ==
    /\ load.pc = "watch" /\ load.parts = {}
    /\ program_map_' = program_map_ \cup {load.program}
    /\ marked' = marked \ {load.program}
    /\ load' = NoLoad
    /\ UNCHANGED <<text, inotify, wd_events_, watcher, entities, object, failed, loads, edits,
                   forced>>

-----------------------------------------------------------------------------
(* What the main thread calls. *)

(* A program that is there is returned as it is; a failure ends the program that asked. *)
get(p) ==
    /\ load = NoLoad /\ marked = {} /\ p \notin program_map_ /\ ~failed[p]
    /\ Begin(p)
    /\ UNCHANGED <<text, inotify, wd_events_, watcher, pool, marked, edits, forced>>

(* hot_reload(), up to the sweep: every event that has arrived marks its programs. *)
Events == {wd_events_[i] : i \in DOMAIN wd_events_}

hot_reload ==
    /\ load = NoLoad /\ marked = {} /\ wd_events_ # <<>>
    /\ wd_events_' = <<>>
    /\ marked' = {e.program : e \in UNION {Subscribed(watcher, wd) : wd \in Events}}
    /\ UNCHANGED <<text, inotify, watcher, pool, load, loads, edits, forced>>

force_reload ==
    /\ load = NoLoad /\ marked = {} /\ forced < MaxForced
    /\ forced' = forced + 1
    /\ marked' = program_map_
    /\ UNCHANGED <<text, inotify, wd_events_, watcher, pool, load, loads, edits>>

sweep_reload_marked ==
    /\ load = NoLoad
    /\ \E p \in marked : Begin(p)
    /\ UNCHANGED <<text, inotify, wd_events_, watcher, pool, marked, edits, forced>>

(* The order is that of a hash table: some order, the same every time. *)
SomeOf(S) == CHOOSE x \in S : TRUE

Loading == \/ \E f \in Files : ReadPrimary(f) \/ \E g \in Files : ReadInclude(f, g)
           \/ LoadFails \/ LoadSucceeds \/ Swept \/ LoadEnds
           \/ /\ load.pc = "sweep" /\ Secondaries(load.program) # {}
              /\ DestroySecondary(SomeOf(Secondaries(load.program)))
           \/ /\ load.pc = "watch" /\ load.parts # {}
              /\ EmplaceFile(SomeOf(load.parts))
Reload  == hot_reload \/ sweep_reload_marked \/ Loading

(* A frame in which nothing was reported. *)
QuietFrame == load = NoLoad /\ marked = {} /\ wd_events_ = <<>> /\ UNCHANGED pool_vars

PoolNext == \/ Reload \/ read_thread_loop
            \/ \E p \in Programs : get(p)
            \/ force_reload
            \/ \E f \in Files : \E t \in Texts[f] : Save(f, t)
            \/ QuietFrame

(* The frame loop calls hot_reload() every frame; the watcher has its own thread. *)
PoolSpec == /\ PoolInit /\ [][PoolNext]_pool_vars
            /\ WF_pool_vars(Reload) /\ WF_pool_vars(read_thread_loop)

-----------------------------------------------------------------------------
(* Properties *)

(***************************************************************************)
(* The maps of the watcher and the registry agree: each file entity has    *)
(* one descriptor, that which inotify has for its file, and an event is    *)
(* never for an entity that is gone.  Programs share files and             *)
(* descriptors, and come and go independently.                             *)
(***************************************************************************)
WatchesMatchFiles ==
    /\ \A pair \in watcher.wd2id_ : pair[2] \in entities
    /\ \A e \in entities : /\ <<watcher.kernel[e.file], e>> \in watcher.wd2id_
                           /\ \A pair \in watcher.wd2id_ :
                                  pair[2] = e => pair[1] = watcher.kernel[e.file]
                           /\ watcher.kernel[e.file] # 0

(***************************************************************************)
(* Between two loads, the files that are watched for a program are those   *)
(* it was compiled from, each once, whatever failed, was reloaded or lost  *)
(* an include before.                                                      *)
(***************************************************************************)
PartsOf(S) == {<<x.primary, x.file, x.included>> : x \in S}

ProgramsWatchTheirParts ==
    load = NoLoad => \A p \in Programs :
        LET tree == {e \in entities : e.program = p}
        IN  PartsOf(object[p]) = PartsOf(tree) /\ Cardinality(tree) = Cardinality(PartsOf(tree))

(* Whoever is watched is known, and who is to be watched is watched. *)
WatchesAreRight == WatchesMatchFiles /\ ProgramsWatchTheirParts

(***************************************************************************)
(* When a file of a program was saved, the program is compiled again from  *)
(* what is in its files, or its last load failed: whatever else is being   *)
(* loaded, and whichever descriptors come and go meanwhile.  A save while  *)
(* the program itself is loaded may be missed.                             *)
(***************************************************************************)
Changed(p) == {part \in object[p] : part.text # text[part.file]}
Stale(p)   == \E part \in Changed(p) : p \notin text[part.file].saved_in

StaleIsReloaded == \A p \in Programs : Stale(p) ~> ~Stale(p) \/ failed[p]

=============================================================================
