------------------------------ MODULE MCEngine ------------------------------
(***************************************************************************)
(* The frozen run under concurrent engine calls.                           *)
(***************************************************************************)
EXTENDS EngineProperties, FrozenData

=============================================================================
