------------------------------ MODULE MCDeploy ------------------------------
(***************************************************************************)
(* Small instances of Deploy for TLC.                                      *)
(***************************************************************************)
EXTENDS Deploy, TLC

\* Events of one invocation set are interchangeable.
Symmetry == Permutations(Invocations) \cup Permutations(Packages)

=============================================================================
