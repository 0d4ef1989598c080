--------------------------- MODULE MCAsyncCradle ---------------------------
(* Instances of AsyncCradle for TLC. *)
EXTENDS AsyncCradle, TLC

CONSTANTS
  unpack,  \* as unpack_scene()
  mesh,    \* as an unpacking that unpack_scene() starts
  light,   \* another, which ends where it is loaded
  port,    \* as throughport_external_scene(), which has no guard
  image    \* as load_or_decode_then_upload_esr_image(), which has none either

SomeSteps ==
  unpack :> <<Go("local"), Spawn, Join>> @@
  mesh   :> <<Go("pool"), Go("local")>> @@
  light  :> <<Go("pool")>> @@
  port   :> <<Go("pool"), Spawn, Poll>> @@
  image  :> <<Go("pool"), Go("offscreen"), Fence("offscreen")>>

StepsOf == [c \in Jobs |-> SomeSteps[c]]

SomeChildren == unpack :> {mesh, light} @@ port :> {image}
ChildrenOf   == [c \in Jobs |-> IF c \in DOMAIN SomeChildren
                                THEN SomeChildren[c] \cap Jobs ELSE {}]

=============================================================================
