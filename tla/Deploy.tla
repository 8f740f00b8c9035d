------------------------------- MODULE Deploy -------------------------------
(***************************************************************************)
(* src/src/serving/deploy_handler.py: the Lambda that turns an approved    *)
(* model package into a serving endpoint, run by concurrent asynchronous   *)
(* invocations against the SageMaker control plane.                        *)
(*                                                                         *)
(* One action is one AWS call of the handler together with the local       *)
(* decision its answer leads to; between two calls every other invocation, *)
(* SageMaker and the people approving packages may act.  The handler acts  *)
(* on `seen', the endpoint description it read before it created its       *)
(* resources, which may be stale when it submits the endpoint change.      *)
(*                                                                         *)
(* The rule that triggers the Lambda passes only Approved events           *)
(* (src/infra/stacks/serving_stack.py), so the handler's first filter on   *)
(* the event's own status always passes and is not a step of its own.      *)
(***************************************************************************)
EXTENDS SageMaker

CONSTANTS
    Invocations,   \* delivered events, duplicates included
    MaxAttempts    \* deliveries of one event: the first and Lambda's retries

ASSUME MaxAttemptsPositive == MaxAttempts \in Nat \ {0}

VARIABLES
    approval,      \* package -> its status in the Model Registry
    everApproved,  \* packages approved at some time (history)
    accepted,      \* packages SageMaker took for the endpoint (history)
    cleared,       \* invocations whose package was approved during their
                   \* current attempt (history)
    pc, pkg,       \* invocation -> its next call, and its package
    seen,          \* invocation -> its endpoint snapshot
    attempts       \* invocation -> deliveries of its event so far

registryVars == <<approval, everApproved>>
vars == <<endpoint, modelOf, configOf, faults,
          approval, everApproved, accepted, cleared, pc, pkg, seen, attempts>>

Succeeded == {"unchanged", "in_progress", "created", "updated"}
Settled == Succeeded \cup {"skipped", "dropped"}

\* The names of the calls an invocation may be about to make.
Calls == {"recheck_approval", "describe_endpoint", "current_config", "current_model",
          "describe_model", "create_model", "confirm_model",
          "describe_config", "create_config", "confirm_config",
          "submit", "recheck_endpoint"}

TypeOK ==
    /\ SageMakerTypeOK
    /\ approval \in [Packages -> {"Pending", "Approved", "Rejected"}]
    /\ everApproved \subseteq Packages
    /\ accepted \subseteq Packages
    /\ cleared \subseteq Invocations
    /\ pc \in [Invocations -> {"idle", "raised"} \cup Calls \cup Settled]
    /\ pkg \in [Invocations -> Packages \cup {None}]
    /\ \A i \in Invocations : pkg[i] = None <=> pc[i] = "idle"
    /\ seen \in [Invocations -> Endpoint]
    /\ attempts \in [Invocations -> 0..MaxAttempts]

Init ==
    /\ SageMakerInit
    /\ approval = [p \in Packages |-> "Pending"]
    /\ everApproved = {}
    /\ accepted = {Hosted(endpoint.current)} \cap Packages
    /\ cleared = {}
    /\ pc = [i \in Invocations |-> "idle"]
    /\ pkg = [i \in Invocations |-> None]
    /\ seen = [i \in Invocations |-> NoEndpoint]
    /\ attempts = [i \in Invocations |-> 0]

-----------------------------------------------------------------------------
(***************************************************************************)
(* The registry and the event bus.                                         *)
(***************************************************************************)
Deliver(i, p) ==
    /\ pc[i] = "idle"
    /\ pc' = [pc EXCEPT ![i] = "recheck_approval"]
    /\ pkg' = [pkg EXCEPT ![i] = p]
    /\ attempts' = [attempts EXCEPT ![i] = 1]

\* A reviewer, or the pipeline in dev, approves a package; the event follows.
Approve(i, p) ==
    /\ approval[p] # "Approved"
    /\ approval' = [approval EXCEPT ![p] = "Approved"]
    /\ everApproved' = everApproved \cup {p}
    /\ Deliver(i, p)
    /\ cleared' = cleared \cup {i} \cup {j \in Invocations : pkg[j] = p}
    /\ UNCHANGED <<smVars, accepted, seen>>

\* The bus delivers at least once, and a metadata change repeats the event.
Redeliver(i, p) ==
    /\ p \in everApproved
    /\ Deliver(i, p)
    /\ cleared' = IF approval[p] = "Approved" THEN cleared \cup {i} ELSE cleared
    /\ UNCHANGED <<smVars, registryVars, accepted, seen>>

Revoke(p) ==
    /\ approval[p] = "Approved"
    /\ Fault
    /\ approval' = [approval EXCEPT ![p] = "Rejected"]
    /\ UNCHANGED <<endpoint, modelOf, configOf, everApproved, accepted, cleared>>
    /\ UNCHANGED <<pc, pkg, seen, attempts>>

-----------------------------------------------------------------------------
(***************************************************************************)
(* The handler.                                                            *)
(***************************************************************************)
Goto(i, step) == pc' = [pc EXCEPT ![i] = step]
Frame == UNCHANGED <<approval, everApproved, cleared, pkg, attempts>>
Local == Frame /\ UNCHANGED <<smVars, accepted>>

\* Mutant of RecheckApproval: trust the event, as if the status were not re-read.
TrustEvent(i) ==
    /\ pc[i] = "recheck_approval"
    /\ Goto(i, "describe_endpoint")
    /\ Local /\ UNCHANGED seen

\* describe_model_package: skip a package that is no longer approved.
RecheckApproval(i) ==
    /\ pc[i] = "recheck_approval"
    /\ Goto(i, IF approval[pkg[i]] = "Approved" THEN "describe_endpoint" ELSE "skipped")
    /\ Local /\ UNCHANGED seen

\* describe_endpoint: the snapshot every later decision uses.
DescribeEndpoint(i) ==
    /\ pc[i] = "describe_endpoint"
    /\ seen' = [seen EXCEPT ![i] = endpoint]
    /\ Goto(i, IF endpoint.status = "InService" THEN "current_config" ELSE "describe_model")
    /\ Local

\* describe_endpoint_config of the serving config: absent or foreign, go on.
DescribeCurrentConfig(i) ==
    /\ pc[i] = "current_config"
    /\ Goto(i, IF configOf[seen[i].current] \in Names THEN "current_model" ELSE "describe_model")
    /\ Local /\ UNCHANGED seen

\* describe_model of the serving model: does the endpoint already serve it?
DescribeCurrentModel(i) ==
    /\ pc[i] = "current_model"
    /\ Goto(i, IF Hosted(seen[i].current) = pkg[i] THEN "unchanged" ELSE "describe_model")
    /\ Local /\ UNCHANGED seen

\* _ensure_resource: describe, create what is missing, recheck a lost race.
\* Mutant of Found: reuse whatever exists under the name.
FoundUnchecked(content, expected, next) == next

Found(content, expected, next) == IF content = expected THEN next ELSE "raised"

DescribeModel(i) ==
    /\ pc[i] = "describe_model"
    /\ Goto(i, IF modelOf[pkg[i]] = None THEN "create_model"
               ELSE Found(modelOf[pkg[i]], pkg[i], "describe_config"))
    /\ Local /\ UNCHANGED seen

CreateModel(i) ==
    /\ pc[i] = "create_model"
    /\ \/ NewModel(pkg[i], pkg[i]) /\ Goto(i, "describe_config")
       \/ /\ modelOf[pkg[i]] # None
          /\ Goto(i, "confirm_model")
          /\ UNCHANGED <<endpoint, modelOf, configOf>>
    /\ Frame /\ UNCHANGED <<faults, accepted, seen>>

\* Mutant of ConfirmModel: poll until the model matches instead of raising.
PollModel(i) ==
    /\ pc[i] = "confirm_model"
    /\ Goto(i, IF modelOf[pkg[i]] = pkg[i] THEN "describe_config" ELSE "confirm_model")
    /\ Local /\ UNCHANGED seen

ConfirmModel(i) ==
    /\ pc[i] = "confirm_model"
    /\ Goto(i, Found(modelOf[pkg[i]], pkg[i], "describe_config"))
    /\ Local /\ UNCHANGED seen

DescribeConfig(i) ==
    /\ pc[i] = "describe_config"
    /\ Goto(i, IF configOf[pkg[i]] = None THEN "create_config"
               ELSE Found(configOf[pkg[i]], pkg[i], "submit"))
    /\ Local /\ UNCHANGED seen

CreateConfig(i) ==
    /\ pc[i] = "create_config"
    /\ \/ NewConfig(pkg[i], pkg[i]) /\ Goto(i, "submit")
       \/ /\ configOf[pkg[i]] # None
          /\ Goto(i, "confirm_config")
          /\ UNCHANGED <<endpoint, modelOf, configOf>>
    /\ Frame /\ UNCHANGED <<faults, accepted, seen>>

\* Mutant of ConfirmConfig: a config that already exists is taken to be ours.
AssumeConfig(i) ==
    /\ pc[i] = "confirm_config"
    /\ Goto(i, "submit")
    /\ Local /\ UNCHANGED seen

ConfirmConfig(i) ==
    /\ pc[i] = "confirm_config"
    /\ Goto(i, Found(configOf[pkg[i]], pkg[i], "submit"))
    /\ Local /\ UNCHANGED seen

\* Mutant of EndpointAction: a healthy endpoint is never out of date.
HealthyIsCurrent(e, c) ==
    CASE e.status \in InFlight ->
            IF e.pending \in {None, c} /\ c \in {e.current, e.pending}
            THEN "in_progress" ELSE "raised"
      [] e.status = "InService" -> "unchanged"
      [] OTHER -> "raised"

\* _endpoint_action: "update" stands for the code's None.
EndpointAction(e, c) ==
    CASE e.status \in InFlight ->
            IF e.pending \in {None, c} /\ c \in {e.current, e.pending}
            THEN "in_progress" ELSE "raised"
      [] e.status = "InService" -> IF e.current = c THEN "unchanged" ELSE "update"
      [] OTHER -> "raised"

\* The snapshot already decides: an in-flight or unusable endpoint.
ActOnSnapshot(i) ==
    /\ pc[i] = "submit"
    /\ seen[i].status # "Absent"
    /\ EndpointAction(seen[i], pkg[i]) # "update"
    /\ Goto(i, EndpointAction(seen[i], pkg[i]))
    /\ Local /\ UNCHANGED seen

\* SageMaker took the request; its reply may be lost, which raises.
Accept(i, outcome) ==
    /\ accepted' = accepted \cup {pkg[i]}
    /\ \/ Goto(i, outcome) /\ UNCHANGED faults
       \/ Goto(i, "raised") /\ Fault

CreateEndpoint(i) ==
    /\ pc[i] = "submit"
    /\ seen[i].status = "Absent"
    /\ \/ NewEndpoint(pkg[i]) /\ Accept(i, "created")
       \/ /\ endpoint.status # "Absent"
          /\ Goto(i, "recheck_endpoint")
          /\ UNCHANGED <<smVars, accepted>>
    /\ Frame /\ UNCHANGED seen

\* A rejected update is ResourceInUse, or an error the handler re-raises.
UpdateEndpoint(i) ==
    /\ pc[i] = "submit"
    /\ seen[i].status # "Absent"
    /\ EndpointAction(seen[i], pkg[i]) = "update"
    /\ \/ StartUpdate(pkg[i]) /\ Accept(i, "updated")
       \/ /\ endpoint.status \notin {"InService", "Absent"}
          /\ Goto(i, "recheck_endpoint")
          /\ UNCHANGED <<smVars, accepted>>
       \/ /\ endpoint.status # "InService" \/ endpoint.current = pkg[i]
          /\ Goto(i, "raised")
          /\ UNCHANGED <<smVars, accepted>>
    /\ Frame /\ UNCHANGED seen

\* Mutants of RecheckEndpoint: return the action unexamined; take the conflict
\* itself as proof that the deployment is under way.
ReturnRecheckedAction(i) ==
    /\ pc[i] = "recheck_endpoint"
    /\ Goto(i, EndpointAction(endpoint, pkg[i]))
    /\ Local /\ UNCHANGED seen

ConflictIsProgress(i) ==
    /\ pc[i] = "recheck_endpoint"
    /\ Goto(i, "in_progress")
    /\ Local /\ UNCHANGED seen

\* describe_endpoint after ResourceInUse: a mismatch or a missing one raises.
RecheckEndpoint(i) ==
    /\ pc[i] = "recheck_endpoint"
    /\ LET action == EndpointAction(endpoint, pkg[i])
       IN  Goto(i, IF action = "update" THEN "raised" ELSE action)
    /\ Local /\ UNCHANGED seen

\* Any call may fail, and the invocation may time out or crash between calls.
CallFails(i) ==
    /\ pc[i] \in Calls
    /\ Fault
    /\ Goto(i, "raised")
    /\ Frame /\ UNCHANGED <<endpoint, modelOf, configOf, accepted, seen>>

\* Lambda's asynchronous retries: the event starts over, and is dropped in the end.
Retry(i) ==
    /\ pc[i] = "raised"
    /\ attempts[i] < MaxAttempts
    /\ Goto(i, "recheck_approval")
    /\ attempts' = [attempts EXCEPT ![i] = @ + 1]
    /\ cleared' = IF approval[pkg[i]] = "Approved" THEN cleared \cup {i} ELSE cleared \ {i}
    /\ seen' = [seen EXCEPT ![i] = NoEndpoint]
    /\ UNCHANGED <<smVars, registryVars, accepted, pkg>>

Drop(i) ==
    /\ pc[i] = "raised"
    /\ attempts[i] = MaxAttempts
    /\ Goto(i, "dropped")
    /\ Local /\ UNCHANGED seen

HandlerStep(i) ==
    \/ RecheckApproval(i)
    \/ DescribeEndpoint(i)
    \/ DescribeCurrentConfig(i)
    \/ DescribeCurrentModel(i)
    \/ DescribeModel(i)
    \/ CreateModel(i)
    \/ ConfirmModel(i)
    \/ DescribeConfig(i)
    \/ CreateConfig(i)
    \/ ConfirmConfig(i)
    \/ ActOnSnapshot(i)
    \/ CreateEndpoint(i)
    \/ UpdateEndpoint(i)
    \/ RecheckEndpoint(i)
    \/ Retry(i)
    \/ Drop(i)

ServiceStep == SageMakerStep /\ UNCHANGED <<registryVars, accepted, cleared, pc, pkg, seen, attempts>>

Next ==
    \/ \E i \in Invocations, p \in Packages : Approve(i, p) \/ Redeliver(i, p)
    \/ \E p \in Packages : Revoke(p)
    \/ \E i \in Invocations : HandlerStep(i) \/ CallFails(i)
    \/ ServiceStep

Spec == Init /\ [][Next]_vars

\* Lambda runs and retries what was delivered; SageMaker ends what it started.
Fairness ==
    /\ \A i \in Invocations : WF_vars(HandlerStep(i))
    /\ WF_vars(ServiceStep /\ faults' = faults)

FairSpec == Spec /\ Fairness

-----------------------------------------------------------------------------
(***************************************************************************)
(* Safety.                                                                 *)
(***************************************************************************)

\* Every configuration the handler put on the endpoint leads, through its
\* model, to exactly the package it was named for: _ensure_resource never
\* deploys through a resource somebody else left under the same name.
DeployedMatchesPackage ==
    \A c \in {endpoint.current, endpoint.pending} : c \in Packages => Hosted(c) = c

\* A handler that returns a deployment result did not lie: SageMaker took the
\* package for this endpoint at some time, whichever invocation asked for it.
SuccessMeansAccepted ==
    \A i \in Invocations : pc[i] \in Succeeded => pkg[i] \in accepted

\* A stale approval event writes nothing: an invocation changes SageMaker only
\* in an attempt during which its package was approved (the recheck of 209).
RevokedNeverDeployed ==
    [][\A i \in Invocations :
          pc'[i] # pc[i] /\ <<endpoint, modelOf, configOf>>' # <<endpoint, modelOf, configOf>>
             => i \in cleared]_vars

\* What the handler promises the rest of the platform: see Release.
ServedPackage == IF endpoint.status \in Answering THEN Hosted(endpoint.current) ELSE None
PendingPackage == IF endpoint.status \in {"Creating", "Updating"} THEN Hosted(endpoint.pending) ELSE None

Promise == INSTANCE Release WITH
    approved <- everApproved, live <- ServedPackage, target <- PendingPackage

\* Seen from outside, an endpoint moves only to an approved package, one
\* deployment at a time, and goes on serving the old package until then.
ImplementsRelease == Promise!Spec

-----------------------------------------------------------------------------
(***************************************************************************)
(* The inductive invariant behind the safety properties (Deploy_proofs).   *)
(***************************************************************************)

\* An invocation past _ensure_resource holds a matching model and config.
ResourcesEnsured ==
    \A i \in Invocations :
        /\ pc[i] \in {"describe_config", "create_config", "confirm_config", "submit", "recheck_endpoint"}
              => modelOf[pkg[i]] = pkg[i]
        /\ pc[i] \in {"submit", "recheck_endpoint"} => configOf[pkg[i]] = pkg[i]

\* A description of the endpoint, fresh or stale, names only ensured stable
\* configurations, and what stands behind them was accepted.
Sound(e) ==
    \A c \in {e.current, e.pending} :
        /\ c \in Packages => configOf[c] = c /\ modelOf[c] = c
        /\ Hosted(c) \in Packages => Hosted(c) \in accepted

\* A deployment is pending exactly while one runs, and is of an approved package.
PendingApproved ==
    /\ endpoint.pending # None <=> endpoint.status \in {"Creating", "Updating"}
    /\ endpoint.pending \in everApproved \cup {None}

\* Past the recheck, the package was approved in this attempt.
ApprovalRechecked ==
    \A i \in Invocations :
        /\ pc[i] \in Calls \ {"recheck_approval"} => i \in cleared
        /\ pc[i] \in {"recheck_approval", "raised"} /\ approval[pkg[i]] = "Approved" => i \in cleared

IInv ==
    /\ TypeOK
    /\ \A c \in Legacy : configOf[c] \notin Packages
    /\ \A i \in Invocations : pc[i] # "idle" => pkg[i] \in everApproved
    /\ ResourcesEnsured
    /\ Sound(endpoint)
    /\ \A i \in Invocations : Sound(seen[i])
    /\ PendingApproved
    /\ ApprovalRechecked
    /\ SuccessMeansAccepted

-----------------------------------------------------------------------------
(***************************************************************************)
(* Liveness.                                                               *)
(***************************************************************************)

\* Every delivered event comes to an end: no retry or recheck loop is endless.
EventsSettle ==
    \A i \in Invocations : (pc[i] = "recheck_approval") ~> (pc[i] \in Settled)

\* A package that stays approved is served in the end (README step 5), unless
\* something failed or somebody else's resource sits under one of its names.
ApprovedIsServed ==
    \A p \in Packages :
        (approval[p] = "Approved") ~>
            \/ approval[p] # "Approved"
            \/ ServedPackage = p
            \/ faults > 0
            \/ Other \in {modelOf[p], configOf[p]}

\* The weaker claim: SageMaker at least takes it, if only to be replaced later.
ApprovedIsAccepted ==
    \A p \in Packages :
        (approval[p] = "Approved") ~> (approval[p] # "Approved" \/ p \in accepted)

=============================================================================
