------------------------- MODULE MCSkeletonStorage -------------------------
(* Instances of SkeletonStorage for TLC. *)
EXTENDS SkeletonStorage, TLC

CONSTANTS a, b, c

SomeJoints == {a, b, c}

\* Of one, two and three joints.
SomeSkeletons == {<<a>>, <<b, c>>, <<a, b, c>>}

=============================================================================
