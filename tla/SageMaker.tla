----------------------------- MODULE SageMaker -----------------------------
(***************************************************************************)
(* The part of the SageMaker control plane the deploy handler talks to:    *)
(* serving models, endpoint configurations and the one endpoint of the     *)
(* stack.  It is a managed service, so it is modelled from what            *)
(* src/src/serving/deploy_handler.py asks of it and expects back, and from *)
(* the endpoint states that handler tells apart.                           *)
(*                                                                         *)
(* The handler names the model and the configuration of a package by one   *)
(* hash of the package and the serverless settings, so a package doubles   *)
(* as its own "stable" resource name here; Legacy holds the names earlier  *)
(* releases built from the clock.                                          *)
(***************************************************************************)
EXTENDS FiniteSets, Naturals

CONSTANTS
    Packages,   \* model package versions
    Legacy,     \* model and config names older releases created
    None,       \* no such resource
    Other,      \* a resource whose contents the handler never accepts
    LeftOver,   \* what may already sit under a stable name: {} or {Other}
    MaxFaults   \* bound on service failures and operator interventions

Names == Packages \cup Legacy

ASSUME ConstantsDistinct ==
    /\ Packages \cap Legacy = {}
    /\ None \notin Names
    /\ Other \notin Names
    /\ None # Other
    /\ LeftOver \subseteq {Other}
    /\ MaxFaults \in Nat

VARIABLES
    endpoint,   \* the endpoint as DescribeEndpoint reports it
    modelOf,    \* model name -> the package it hosts, Other, or None
    configOf,   \* config name -> the model its variant names, Other, or None
    faults      \* failures and interventions so far

smVars == <<endpoint, modelOf, configOf, faults>>

InFlight == {"Creating", "Updating", "SystemUpdating"}
Unhealthy == {"Failed", "UpdateRollbackFailed", "RollingBack", "Deleting"}
Status == {"Absent", "InService"} \cup InFlight \cup Unhealthy

\* States in which requests are answered by the current configuration.
Answering == {"InService", "Updating", "SystemUpdating", "RollingBack", "UpdateRollbackFailed"}

Endpoint == [status: Status, current: Names \cup {None}, pending: Names \cup {None}]

NoEndpoint == [status |-> "Absent", current |-> None, pending |-> None]
Healthy(c) == [status |-> "InService", current |-> c, pending |-> None]

\* The package behind a configuration name, following config -> model -> package.
Hosted(c) ==
    IF c \in Names /\ configOf[c] \in Names THEN modelOf[configOf[c]] ELSE None

SageMakerTypeOK ==
    /\ endpoint \in Endpoint
    /\ modelOf \in [Names -> Packages \cup {None, Other}]
    /\ configOf \in [Names -> Names \cup {None, Other}]
    /\ faults \in 0..MaxFaults

(***************************************************************************)
(* Before the first approval: nothing under the stable names, or something *)
(* the handler did not create; anything under the legacy names; and either *)
(* no endpoint or one that serves a legacy configuration.                  *)
(***************************************************************************)
SageMakerInit ==
    /\ modelOf \in [Names -> Packages \cup {None, Other}]
    /\ configOf \in [Names -> Legacy \cup {None, Other}]
    /\ \A p \in Packages : modelOf[p] \in LeftOver \cup {None}
    /\ \A p \in Packages : configOf[p] \in LeftOver \cup {None}
    /\ endpoint \in {NoEndpoint} \cup {Healthy(c) : c \in Legacy}
    /\ faults = 0

-----------------------------------------------------------------------------
\* CreateModel and CreateEndpointConfig: names are unique, contents immutable.
NewModel(n, p) ==
    /\ modelOf[n] = None
    /\ modelOf' = [modelOf EXCEPT ![n] = p]
    /\ UNCHANGED <<endpoint, configOf>>

NewConfig(n, m) ==
    /\ configOf[n] = None
    /\ configOf' = [configOf EXCEPT ![n] = m]
    /\ UNCHANGED <<endpoint, modelOf>>

NewEndpoint(c) ==
    /\ endpoint.status = "Absent"
    /\ endpoint' = [status |-> "Creating", current |-> c, pending |-> c]
    /\ UNCHANGED <<modelOf, configOf>>

\* An update is accepted only while no deployment is running.
StartUpdate(c) ==
    /\ endpoint.status = "InService"
    /\ endpoint' = [status |-> "Updating", current |-> endpoint.current, pending |-> c]
    /\ UNCHANGED <<modelOf, configOf>>

-----------------------------------------------------------------------------
Fault ==
    /\ faults < MaxFaults
    /\ faults' = faults + 1

\* A running deployment succeeds: the pending configuration becomes current.
FinishDeployment ==
    /\ endpoint.status \in InFlight
    /\ endpoint' = Healthy(IF endpoint.pending = None
                           THEN endpoint.current ELSE endpoint.pending)
    /\ UNCHANGED <<modelOf, configOf, faults>>

\* It fails: a new endpoint is Failed, an existing one rolls back.
FailDeployment ==
    /\ Fault
    /\ endpoint.status \in {"Creating", "Updating"}
    /\ endpoint' = [status |-> IF endpoint.status = "Creating" THEN "Failed" ELSE "RollingBack",
                    current |-> endpoint.current, pending |-> None]
    /\ UNCHANGED <<modelOf, configOf>>

FinishRollback ==
    /\ endpoint.status = "RollingBack"
    /\ \/ endpoint' = Healthy(endpoint.current) /\ UNCHANGED faults
       \/ /\ Fault
          /\ endpoint' = [endpoint EXCEPT !.status = "UpdateRollbackFailed"]
    /\ UNCHANGED <<modelOf, configOf>>

\* Platform maintenance; it ends with FinishDeployment.
StartMaintenance ==
    /\ Fault
    /\ endpoint.status = "InService"
    /\ endpoint' = [endpoint EXCEPT !.status = "SystemUpdating"]
    /\ UNCHANGED <<modelOf, configOf>>

\* An operator deletes the endpoint.
StartDelete ==
    /\ Fault
    /\ endpoint.status \in {"InService", "Failed", "UpdateRollbackFailed"}
    /\ endpoint' = [endpoint EXCEPT !.status = "Deleting"]
    /\ UNCHANGED <<modelOf, configOf>>

FinishDelete ==
    /\ endpoint.status = "Deleting"
    /\ endpoint' = NoEndpoint
    /\ UNCHANGED <<modelOf, configOf, faults>>

\* Somebody else creates a model or a config under a name the handler wants.
CreateForeign ==
    /\ Fault
    /\ \E p \in Packages, o \in LeftOver :
          \/ /\ modelOf[p] = None
             /\ modelOf' = [modelOf EXCEPT ![p] = o]
             /\ UNCHANGED configOf
          \/ /\ configOf[p] = None
             /\ configOf' = [configOf EXCEPT ![p] = o]
             /\ UNCHANGED modelOf
    /\ UNCHANGED endpoint

SageMakerStep ==
    \/ FinishDeployment
    \/ FailDeployment
    \/ FinishRollback
    \/ StartMaintenance
    \/ StartDelete
    \/ FinishDelete
    \/ CreateForeign

=============================================================================
