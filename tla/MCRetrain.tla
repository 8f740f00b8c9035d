----------------------------- MODULE MCRetrain -----------------------------
(***************************************************************************)
(* Small instances of Retrain for TLC.                                     *)
(***************************************************************************)
EXTENDS Retrain, TLC

Symmetry == Permutations(Invocations)

=============================================================================
