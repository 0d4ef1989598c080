-------------------------- MODULE MCResourceLoader --------------------------
(* Instances of ResourceLoader for TLC. *)
EXTENDS ResourceLoader, TLC

CONSTANTS mesh, material  \* a resource published in parts, one published complete

=============================================================================
