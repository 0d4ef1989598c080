-------------------------- MODULE MCResourceDatabase --------------------------
(* An instance of ResourceDatabase for TLC. *)
EXTENDS ResourceDatabase, TLC

CONSTANTS u1, u2, u3, u4, u5, u6, u7, u8, u9, mesh, skin, scene, h1, h2

MCUses   == (mesh :> {}) @@ (skin :> {}) @@ (scene :> {mesh, skin})
MCHintOf == (mesh :> h1) @@ (skin :> h1) @@ (scene :> h2)

(* Nothing; and a table of two resources in one file, which refers to one that *)
(* was removed, with an empty row.                                             *)
NothingFound == [rows |-> <<>>, files |-> [p \in Paths |-> NoFile], removed |-> {}]
SharedFound  ==
    LET p == path_from_hint(h1, 0)
    IN  [rows  |-> <<[uuid |-> u1, filepath |-> p], EmptyRow, [uuid |-> u2, filepath |-> p]>>,
         files |-> [NothingFound.files EXCEPT ![p] = [of |-> Nil, text |-> mesh, refs |-> {u3}]],
         removed |-> {u3}]

MCFound == {NothingFound, SharedFound}

=============================================================================
