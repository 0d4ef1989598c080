---------------------------- MODULE MCSceneGraph ----------------------------
(* Instances of SceneGraph for TLC. *)
EXTENDS SceneGraph, TLC

Symmetry == Permutations(Entities)

=============================================================================
