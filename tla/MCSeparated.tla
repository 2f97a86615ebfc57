---------------------------- MODULE MCSeparated ----------------------------
(***************************************************************************)
(* The instances of MCReconcile in which the theorems of ReconcileProofs   *)
(* apply: TLC evaluates their hypothesis.                                  *)
(***************************************************************************)
EXTENDS MCReconcile

ASSUME SeparationHolds == Separation
=============================================================================
