--------------------------- MODULE SkeletonTable ---------------------------
(***************************************************************************)
(* What SkeletonStorage promises: a table.  A skeleton is found as it was  *)
(* inserted, under an id that no other skeleton ever had, until it is      *)
(* removed.                                                                *)
(***************************************************************************)
EXTENDS Naturals

CONSTANT Skeletons

VARIABLES
  contents, \* the skeletons in the table, by id
  next_id   \* every id below was given to some skeleton

vars == <<contents, next_id>>

Init == contents = <<>> /\ next_id = 0

Insert(s) ==
  /\ contents' = [id \in DOMAIN contents \cup {next_id} |->
                    IF id = next_id THEN s ELSE contents[id]]
  /\ next_id' = next_id + 1

Remove(id) ==
  /\ contents' = [i \in DOMAIN contents \ {id} |-> contents[i]]
  /\ UNCHANGED next_id

Next == \/ \E s \in Skeletons : Insert(s)
        \/ \E id \in DOMAIN contents : Remove(id)

Spec == Init /\ [][Next]_vars

=============================================================================
