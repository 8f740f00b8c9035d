---------------------------- MODULE MCPromotion ----------------------------
(***************************************************************************)
(* Small instances of Promotion for TLC.                                   *)
(***************************************************************************)
EXTENDS Promotion

=============================================================================
