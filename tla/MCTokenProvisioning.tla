------------------------- MODULE MCTokenProvisioning -------------------------
(***************************************************************************)
(* Instances of TokenProvisioning for TLC. The bound on tokens is large    *)
(* enough that there is always a new one: seven places hold a token.       *)
(***************************************************************************)
EXTENDS TokenProvisioning

ASSUME EnoughTokens == MaxTokens >= 8
==============================================================================
