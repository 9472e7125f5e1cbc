--------------------------- MODULE MCGeminiCheck ----------------------------
(***************************************************************************)
(* Three fixtures under two contracts.                                     *)
(***************************************************************************)
EXTENDS GeminiCheck

CONSTANTS EVT1, EVT2, AMB1

MCOrder == <<EVT1, EVT2, AMB1>>

=============================================================================
