------------------------------ MODULE Release ------------------------------
(***************************************************************************)
(* What the deploy handler promises: the endpoint serves one package, and  *)
(* moves to another one only when that package has been approved, through  *)
(* one deployment at a time that succeeds as a whole or not at all.        *)
(***************************************************************************)
CONSTANTS Packages, None, Other

VARIABLES
    approved,   \* packages approved at some time
    live,       \* the package answering requests, None, or Other
    target      \* the package being deployed, or None

vars == <<approved, live, target>>

Init ==
    /\ approved = {}
    /\ live \in Packages \cup {None, Other}
    /\ target = None

Approve(p) ==
    /\ approved' = approved \cup {p}
    /\ UNCHANGED <<live, target>>

Start(p) ==
    /\ target = None
    /\ p \in approved
    /\ target' = p
    /\ UNCHANGED <<approved, live>>

Complete ==
    /\ target # None
    /\ live' = target
    /\ target' = None
    /\ UNCHANGED approved

\* The deployment failed; what was live stays live.
Abandon ==
    /\ target' = None
    /\ UNCHANGED <<approved, live>>

\* An operator takes the endpoint down between deployments.
TakeDown ==
    /\ target = None
    /\ live' = None
    /\ UNCHANGED <<approved, target>>

Next ==
    \/ \E p \in Packages : Approve(p) \/ Start(p)
    \/ Complete
    \/ Abandon
    \/ TakeDown

Spec == Init /\ [][Next]_vars

=============================================================================
