------------------------------ MODULE Access -------------------------------
(***************************************************************************)
(* infra/stacks: the roles of one environment and what they grant, against *)
(* the AWS calls of the code that runs under each of them, and the objects *)
(* that flow through the buckets.                                          *)
(*                                                                         *)
(* A call is an action and what it is done to.  Objects are known by their *)
(* prefix, which stacks and code spell independently of one another.  The  *)
(* origins of an object are those of what its writer had read; a role may  *)
(* use whatever it is granted, not only what its code does today.          *)
(***************************************************************************)
EXTENDS FiniteSets

\* Roles, named for the functions and steps that run under them.
Roles == {"validate", "pipeline", "model", "deploy", "proxy", "drift", "retrain", "website"}

\* Prefixes of the raw, the curated and the artifacts bucket.
Curated == {"telco", "quarantine"}
Steps == {"code", "training", "evaluations", "baseline", "baselines"}
Objects == {"raw", "capture"} \cup Curated \cup Steps

Origins == {"uploads", "visitors"}

VARIABLES
    from,    \* object prefix or role -> the origins of what it holds
    denied   \* calls of the code that no grant allows: role and call

accessVars == <<from, denied>>

Calls(action, targets) == {<<action, t>> : t \in targets}
Get(prefixes) == Calls("GetObject", prefixes)
PutIn(prefixes) == Calls("PutObject", prefixes)
List(prefixes) == Calls("ListBucket", prefixes)
Describe(kinds) == Calls("Describe", kinds)
Create(kinds) == Calls("Create", kinds)

-----------------------------------------------------------------------------
(***************************************************************************)
(* What the stacks grant.                                                  *)
(***************************************************************************)
ValidateGrants ==
    Get({"raw"}) \cup List({"raw"}) \cup PutIn(Curated) \cup Calls("DeleteObject", Curated)

\* Mutant of PipelineGrants: every object of the artifacts bucket.
PipelineGrantsBucket ==
    Get({"telco", "capture"} \cup Steps) \cup PutIn({"capture"} \cup Steps)
    \cup List(Objects \ {"raw"})
    \cup Create({"job", "package", "group"}) \cup Describe({"job", "package"})
    \cup {<<"ListModelPackages", "group">>, <<"PassRole", "pipeline">>}

PipelineGrants ==
    Get({"telco"} \cup Steps) \cup PutIn(Steps) \cup List(Objects \ {"raw"})
    \cup Create({"job", "package", "group"}) \cup Describe({"job", "package"})
    \cup {<<"ListModelPackages", "group">>, <<"PassRole", "pipeline">>}

ModelGrants == Get({"training"}) \cup List({"capture"} \cup Steps)

\* Mutant of DeployGrants: the configuration can be created, not described.
DeployGrantsNoConfig ==
    Create({"model", "config", "endpoint"}) \cup Describe({"model", "endpoint", "package"})
    \cup {<<"UpdateEndpoint", "endpoint">>, <<"PassRole", "model">>}

DeployGrants ==
    Create({"model", "config", "endpoint"}) \cup Describe({"model", "config", "endpoint", "package"})
    \cup {<<"UpdateEndpoint", "endpoint">>, <<"PassRole", "model">>}

ProxyGrants == {<<"InvokeEndpoint", "endpoint">>} \cup PutIn({"capture"})

DriftGrants ==
    Get({"baseline", "baselines", "capture"}) \cup List({"capture"})
    \cup Describe({"endpoint", "config", "model", "package"}) \cup {<<"PutEvents", "default">>}

RetrainGrants ==
    {<<"StartPipelineExecution", "pipeline">>, <<"ListPipelineExecutions", "pipeline">>,
     <<"ListModelPackages", "group">>} \cup Describe({"package"})

WebsiteGrants ==
    Get({"evaluations"}) \cup List({"evaluations"})
    \cup {<<"UpdateItem", "mailing list">>, <<"Invoke", "predict">>}

Grants(r) ==
    CASE r = "validate" -> ValidateGrants
      [] r = "pipeline" -> PipelineGrants
      [] r = "model"    -> ModelGrants
      [] r = "deploy"   -> DeployGrants
      [] r = "proxy"    -> ProxyGrants
      [] r = "drift"    -> DriftGrants
      [] r = "retrain"  -> RetrainGrants
      [] r = "website"  -> WebsiteGrants

-----------------------------------------------------------------------------
(***************************************************************************)
(* What the code calls.                                                    *)
(***************************************************************************)

\* get_champion, and the handlers' own describe calls.
ChampionCalls == {<<"ListModelPackages", "group">>} \cup Describe({"package"})

PipelineCalls ==
    Get({"telco"} \cup Steps) \cup PutIn(Steps \ {"baseline"}) \cup ChampionCalls
    \cup Create({"job", "package", "group"}) \cup Describe({"job"})
    \cup {<<"PassRole", "pipeline">>}

DeployCalls ==
    Describe({"package", "endpoint", "model", "config"}) \cup Create({"model", "config", "endpoint"})
    \cup {<<"UpdateEndpoint", "endpoint">>, <<"PassRole", "model">>}

DriftCalls ==
    List({"capture"}) \cup Get({"capture", "baseline", "baselines"})
    \cup Describe({"endpoint", "config", "model", "package"}) \cup {<<"PutEvents", "default">>}

CodeCalls(r) ==
    CASE r = "validate" -> Get({"raw"}) \cup PutIn(Curated) \cup Calls("DeleteObject", Curated)
      [] r = "pipeline" -> PipelineCalls
      [] r = "model"    -> Get({"training"})
      [] r = "deploy"   -> DeployCalls
      [] r = "proxy"    -> {<<"InvokeEndpoint", "endpoint">>} \cup PutIn({"capture"})
      [] r = "drift"    -> DriftCalls
      [] r = "retrain"  -> ChampionCalls \cup Calls("ListPipelineExecutions", {"pipeline"})
                           \cup Calls("StartPipelineExecution", {"pipeline"})
      [] r = "website"  -> List({"evaluations"}) \cup Get({"evaluations"})
                           \cup {<<"UpdateItem", "mailing list">>, <<"Invoke", "predict">>}

-----------------------------------------------------------------------------
AccessTypeOK ==
    /\ from \in [Objects \cup Roles -> SUBSET Origins]
    /\ \A d \in denied : d[1] \in Roles /\ d[2] \in CodeCalls(d[1])

\* Uploads are raw objects; the proxy and the website hear visitors.
AccessInit ==
    /\ from = [x \in Objects \cup Roles |->
                  IF x = "raw" THEN {"uploads"}
                  ELSE IF x \in {"proxy", "website"} THEN {"visitors"} ELSE {}]
    /\ denied = {}

\* What a call that is granted does to the objects.
Effect(r, call) ==
    CASE call[1] = "GetObject" -> [from EXCEPT ![r] = @ \cup from[call[2]]]
      [] call[1] = "PutObject" -> [from EXCEPT ![call[2]] = @ \cup from[r]]
      [] OTHER -> from

\* A role makes a call of its code, or another one it is granted; without a
\* grant the call raises AccessDenied.
Call(r, call) ==
    IF call \in Grants(r)
    THEN from' = Effect(r, call) /\ UNCHANGED denied
    ELSE denied' = denied \cup {<<r, call>>} /\ UNCHANGED from

AccessNext == \E r \in Roles : \E call \in CodeCalls(r) \cup Grants(r) : Call(r, call)

AccessSpec == AccessInit /\ [][AccessNext]_accessVars

-----------------------------------------------------------------------------
(***************************************************************************)
(* "A mismatched prefix fails at run time" (shared.py): no call of any     *)
(* handler or step is denied by the role it runs under.                    *)
(***************************************************************************)
NothingDenied == denied = {}

(***************************************************************************)
(* What visitors send is captured in the bucket of the models and scored,  *)
(* but nothing of it can get into curated data, models, reports or drift   *)
(* baselines, through however many roles it passes.                        *)
(***************************************************************************)
ModelsFromUploads ==
    \A x \in Curated \cup Steps : from[x] \subseteq {"uploads"}

=============================================================================
