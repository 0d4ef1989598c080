--------------------------- MODULE ResourceCatalog ---------------------------
(***************************************************************************)
(* What resource2/ResourceDatabase.hpp:46-56 and 136-200 promise of the    *)
(* database as a whole, whoever uses it and whenever the program dies: a   *)
(* table from UUIDs to files of its directory.  It changes by one entry at *)
(* a time, a new resource gets a file of its own, and the file a UUID      *)
(* stands for is there for as long as the entry is.                        *)
(***************************************************************************)

CONSTANTS Uuids,    \* what identifies a resource
          Paths,    \* the files that may be in the directory
          NoPath,   \* of a UUID that is not in the table
          Found     \* the directories, [catalog, present], to begin with

VARIABLES catalog,  \* catalog[u]: the file of u
          present   \* the files in the directory

vars == <<catalog, present>>

-----------------------------------------------------------------------------

Init == [catalog |-> catalog, present |-> present] \in Found

(* A file is created; nothing that is there is overwritten. *)
FileMade(p) == p \notin present
            /\ present' = present \cup {p}
            /\ UNCHANGED catalog

Named(p) == \E u \in Uuids : catalog[u] = p

(* A resource gets a file of its own. *)
Created(u, p) == /\ catalog[u] = NoPath
                 /\ p \in present
                 /\ ~Named(p)
                 /\ catalog' = [catalog EXCEPT ![u] = p]
                 /\ UNCHANGED present

Removed(u) == /\ catalog[u] # NoPath
              /\ catalog' = [catalog EXCEPT ![u] = NoPath]
              /\ UNCHANGED present

(* Only a file that no resource stands for is deleted. *)
FileDeleted(p) == /\ p \in present /\ ~Named(p)
                  /\ present' = present \ {p}
                  /\ UNCHANGED catalog

Next == \/ \E p \in Paths : FileMade(p) \/ FileDeleted(p)
        \/ \E u \in Uuids : Removed(u) \/ \E p \in Paths : Created(u, p)

Spec == Init /\ [][Next]_vars

=============================================================================
