------------------------------- MODULE Mirror -------------------------------
(***************************************************************************)
(* What an object derived from a raw object promises: it holds the rows of *)
(* one of the uploads, or none, and it moves forward only, to any upload   *)
(* not older than its own, until two invocations have overlapped.          *)
(***************************************************************************)
EXTENDS Integers

VARIABLES uploads, mirror, overlapped

vars == <<uploads, mirror, overlapped>>

Init == uploads = 0 /\ mirror = 0 /\ overlapped = FALSE

PutUpload == uploads' = uploads + 1 /\ UNCHANGED <<mirror, overlapped>>

Refresh ==
    /\ mirror' \in 1..uploads
    /\ mirror' >= mirror \/ overlapped
    /\ UNCHANGED <<uploads, overlapped>>

Overlap == overlapped' = TRUE /\ UNCHANGED <<uploads, mirror>>

Next == PutUpload \/ Refresh \/ Overlap

Spec == Init /\ [][Next]_vars

=============================================================================
