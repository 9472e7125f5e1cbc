---------------------------- MODULE MCDemoReset -----------------------------
(***************************************************************************)
(* Resets of which the last asks for the reliability proof, in a database  *)
(* whose listings see two or three numbers.                                *)
(***************************************************************************)
EXTENDS DemoReset, TLC

CONSTANTS r1, r2, r3, r4

MCResets == {r1, r2, r3, r4}
MCWantProof == [r \in MCResets |-> r = r4]

\* The first three resets differ in nothing but their names.
ResetSymmetry == Permutations({r1, r2, r3})

=============================================================================
