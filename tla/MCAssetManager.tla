--------------------------- MODULE MCAssetManager ---------------------------
(* Instances of AssetManager for TLC. *)
EXTENDS AssetManager, TLC

CONSTANTS brick, house

MCTexturesOf == house :> {brick}

=============================================================================
