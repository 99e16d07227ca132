--------------------------- MODULE MCLoRARegistry ---------------------------
(* Instances of LoRARegistry for TLC.                                       *)
EXTENDS LoRARegistry

CONSTANTS a, b

MCSingle == {<<a>>, <<b>>}
MCBatch == {<<a>>, <<a, b>>}
MCSame == {<<a>>, <<a, a>>}
=============================================================================
