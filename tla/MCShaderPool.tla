---------------------------- MODULE MCShaderPool ----------------------------
(* Instances of ShaderPool for TLC. *)
EXTENDS ShaderPool, TLC

CONSTANTS p, q, lit, sky, lib

MCPrimaries  == (p :> {lit}) @@ (q :> {sky})
Text(is, ok) == [includes |-> is, ok |-> ok]

(* A stage that may include the library, one that does, a library that may break. *)
MCTexts == (lit :> {Text({}, TRUE), Text({lib}, TRUE)})
           @@ (sky :> {Text({lib}, TRUE)})
           @@ (lib :> {Text({}, TRUE), Text({}, FALSE)})
MCFirstTexts == (lit :> Text({lib}, TRUE)) @@ (sky :> Text({lib}, TRUE))
                @@ (lib :> Text({}, TRUE))

=============================================================================
