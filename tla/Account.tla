------------------------------ MODULE Account ------------------------------
(***************************************************************************)
(* src/infra: what synthesis accepts (app.py, security_checks.py), and two *)
(* environments deployed into one AWS account, changed, torn down and      *)
(* deployed again.                                                         *)
(*                                                                         *)
(* A stack's template depends on the flags of infra/config/<env>.yaml that *)
(* it reads, so a deployed stack is known by those of its flags that were  *)
(* on.  What is unique in the account is shared by the environments: the   *)
(* public access block, which each puts and deletes as if it were its own, *)
(* and the Config recorder with its delivery channel, of which AWS has one.*)
(***************************************************************************)
EXTENDS Integers, Sequences, FiniteSets

CONSTANTS
    Environments,
    Owner,         \* the environment that owns the account-wide budget: dev
    MaxEdits,      \* bound: changes of a flag
    MaxTeardowns   \* bound: runs of "make destroy"

ASSUME AccountConstants ==
    Owner \in Environments /\ MaxEdits \in Nat /\ MaxTeardowns \in Nat

\* The services of config.security.services that the model tells apart.
Services == {"access_analyzer", "config_recorder", "security_hub", "account_bpa",
             "eventbridge_alerts"}
Flags == Services \cup {"account_budget", "website"}
Implemented == {"access_analyzer", "config_recorder", "account_bpa", "eventbridge_alerts"}

\* The stacks in the order of build_app.
BuildOrder == <<"security", "security_monitoring", "data", "ingestion", "registry",
                "training", "serving", "cicd", "monitoring", "website">>
Stacks == {BuildOrder[k] : k \in 1..Len(BuildOrder)}
Absent == {"absent"}

VARIABLES
    flags,      \* environment -> the flags that are true in its file
    deployed,   \* environment -> stack -> its flags, or Absent
    phase,      \* environment -> what is going on there
    blocked,    \* account-wide Block Public Access is on
    holders,    \* history: the environments that have put it
    recording,  \* the Config resources: role, recorder, channel -> state
    names,      \* environment -> fixed names that retained resources hold
    failures,   \* environment -> what its deployments and teardowns failed on
    edits, teardowns

accountVars == <<flags, deployed, phase, blocked, holders, recording, names, failures,
                 edits, teardowns>>

\* The committed files: dev.yaml has all but security_hub, prod.yaml nothing.
Committed(e) == IF e = Owner THEN Flags \ {"security_hub"} ELSE {}

\* prod.yaml says of two flags that they stay false: the budget, which dev owns
\* for the account, and the website.  Of the services it says nothing.
MayEnable(e) == IF e = Owner THEN Flags ELSE Services

-----------------------------------------------------------------------------
(***************************************************************************)
(* Synthesis.                                                              *)
(***************************************************************************)
Reads(s) ==
    CASE s = "security" -> {"config_recorder", "eventbridge_alerts"}
      [] s = "security_monitoring" -> Services
      [] s = "data" -> {"account_budget"}
      [] OTHER -> {}

BuiltStacks(on) == Stacks \ (IF "website" \in on THEN {} ELSE {"website"})

Row(stack, constructs, flag) ==
    {[stack |-> stack, construct |-> c, flag |-> flag] : c \in constructs}

Always == "always"

\* Constructs that cdk-nag finds something on, as the stacks build them.
FoundationFindings == {<<"security", "CloudTrailLogsRole">>, <<"ingestion", "ValidateFn">>}

\* The provider of AwsCustomResource is one per stack, whatever uses it.
SecurityMonitoringFindings(on) ==
    IF "account_bpa" \in on
    THEN {"security_monitoring"} \X {"AwsCustomResource", "AccountPublicAccessBlock"} ELSE {}

DataFindings(on) ==
    {<<"data", "BucketNotificationsHandler">>}
    \cup (IF "account_budget" \in on THEN {<<"data", "AwsCustomResource">>} ELSE {})

TrainingFindings == {<<"training", "PipelineExecutionRole">>}

ServingFindings == {"serving"} \X {"ModelExecutionRole", "ProxyFn", "DeployFn", "ChurnApi"}

MonitoringFindings == {"monitoring"} \X {"RetrainTriggerFn", "DriftEvaluationFn"}

WebsiteFindings(on) ==
    IF "website" \in on
    THEN {"website"} \X {"WebsiteInstanceRole", "WebsiteInstance", "WebsiteDistribution"} ELSE {}

Findings(on) ==
    FoundationFindings \cup SecurityMonitoringFindings(on) \cup DataFindings(on)
    \cup TrainingFindings \cup ServingFindings \cup MonitoringFindings \cup WebsiteFindings(on)

\* ACKNOWLEDGEMENTS, by construct, with the flag each requires.
FoundationAcknowledgements ==
    Row("security", {"CloudTrailLogsRole"}, Always)
    \cup Row("security_monitoring", {"AwsCustomResource", "AccountPublicAccessBlock"}, "account_bpa")
    \cup Row("data", {"BucketNotificationsHandler"}, Always)
    \cup Row("data", {"AwsCustomResource"}, "account_budget")
    \cup Row("ingestion", {"ValidateFn"}, Always)

TrainingAcknowledgements == Row("training", {"PipelineExecutionRole"}, Always)

ServingAcknowledgements ==
    Row("serving", {"ModelExecutionRole", "ProxyFn", "DeployFn", "ChurnApi"}, Always)

MonitoringAcknowledgements ==
    Row("monitoring", {"RetrainTriggerFn", "DriftEvaluationFn"}, Always)

WebsiteAcknowledgements ==
    Row("website", {"WebsiteInstanceRole", "WebsiteInstance", "WebsiteDistribution"}, "website")

Acknowledgements ==
    FoundationAcknowledgements \cup TrainingAcknowledgements \cup ServingAcknowledgements
    \cup MonitoringAcknowledgements \cup WebsiteAcknowledgements

\* Mutant of Enabled: the account budget, which is no service, is forgotten.
EnabledServices(on) == (on \cap Services) \cup (on \cap {"website"})

\* The flags apply_security_checks puts together from three places.
Enabled(on) ==
    (on \cap Services) \cup (on \cap {"account_budget"}) \cup (on \cap {"website"})

Registered(on) == {a \in Acknowledgements : a.flag = Always \/ a.flag \in Enabled(on)}

\* SecurityMonitoringStack refuses a service it does not implement,
\* _construct_at an acknowledgement without its construct, and cdk-nag a
\* finding without its acknowledgement.
Synthesises(on) ==
    LET acknowledged == {<<a.stack, a.construct>> : a \in Registered(on)}
    IN  on \cap Services \subseteq Implemented /\ acknowledged = Findings(on)

-----------------------------------------------------------------------------
(***************************************************************************)
(* Deployment: cdk deploy --all takes the stacks one at a time, in the     *)
(* order of their dependencies, and leaves stacks alone that the app no    *)
(* longer has.                                                             *)
(***************************************************************************)
ConfigResources == {"role", "recorder", "channel"}
FixedNames == {"key alias", "log group", "package group"}

AccountTypeOK ==
    /\ flags \in [Environments -> SUBSET Flags]
    /\ deployed \in [Environments -> [Stacks -> SUBSET (Flags \cup Absent)]]
    /\ phase \in [Environments ->
           {"idle", "deploying", "recording", "destroying", "rejected", "failed"}]
    /\ blocked \in BOOLEAN /\ holders \subseteq Environments
    /\ recording \in [ConfigResources -> {"none", "put", "complete"}]
    /\ names \in [Environments -> SUBSET FixedNames]
    /\ failures \in [Environments -> SUBSET (FixedNames \cup {"export in use", "recorder limit"})]
    /\ edits \in 0..MaxEdits /\ teardowns \in 0..MaxTeardowns

AccountInit ==
    /\ flags = [e \in Environments |-> Committed(e)]
    /\ deployed = [e \in Environments |-> [s \in Stacks |-> Absent]]
    /\ phase = [e \in Environments |-> "idle"]
    /\ blocked = FALSE /\ holders = {}
    /\ recording = [r \in ConfigResources |-> "none"]
    /\ names = [e \in Environments |-> {}] /\ failures = [e \in Environments |-> {}]
    /\ edits = 0 /\ teardowns = 0

Resting(e) == phase[e] \in {"idle", "rejected", "failed"}
Goes(e, to) == phase' = [phase EXCEPT ![e] = to]
Exists(e, s) == deployed[e][s] # Absent
Template(e, s) == flags[e] \cap Reads(s)
UpToDate(e, s) == deployed[e][s] = Template(e, s)
\* Somebody changes one flag of an environment's file.
Edit(e, f) ==
    /\ edits < MaxEdits /\ edits' = edits + 1
    /\ Resting(e)
    /\ f \in MayEnable(e)
    /\ flags' = [flags EXCEPT ![e] = IF f \in @ THEN @ \ {f} ELSE @ \cup {f}]
    /\ UNCHANGED <<deployed, phase, blocked, holders, recording, names, failures, teardowns>>

\* make deploy: synthesis comes first, and a rejected app deploys nothing.
Deploy(e) ==
    /\ Resting(e)
    /\ Goes(e, IF Synthesises(flags[e]) THEN "deploying" ELSE "rejected")
    /\ UNCHANGED <<flags, deployed, blocked, holders, recording, names, failures, edits, teardowns>>

\* References to another stack, and the explicit ones to the registry.
Needs(s) ==
    CASE s \in {"security_monitoring", "data"} -> {"security"}
      [] s = "ingestion" -> {"security", "data"}
      [] s = "training" -> {"data", "registry"}
      [] s \in {"serving", "monitoring"} -> {"security", "data", "registry"}
      [] s = "cicd" -> {"serving"}
      [] s = "website" -> {"data", "serving"}
      [] OTHER -> {}

\* What a stack leaves behind (RemovalPolicy.RETAIN) under the very name that
\* its next creation asks for.
Retains(s) ==
    CASE s = "security" -> {"key alias", "log group"}
      [] s = "registry" -> {"package group"}
      [] OTHER -> {}

Orphaned(e, s) == Exists(e, s) /\ s \notin BuiltStacks(flags[e])

Has(e, s, f) == f \in deployed[e][s]
Gains(e, f) == f \in flags[e] /\ ~Has(e, "security_monitoring", f)
Loses(e, f) == f \notin flags[e] /\ Has(e, "security_monitoring", f)

\* A region has one recorder, whatever its name.
RecorderTaken(e) ==
    Gains(e, "config_recorder")
    /\ \E d \in Environments : Has(d, "security_monitoring", "config_recorder")

\* Only the website imports the stage of the API: without it in the app the
\* serving stack would drop an export that a deployed website still uses.
Hindrances(e, s) ==
    (IF Exists(e, s) THEN {} ELSE Retains(s) \cap names[e])
    \cup (IF s = "serving" /\ Orphaned(e, "website") THEN {"export in use"} ELSE {})
    \cup (IF s = "security_monitoring" /\ RecorderTaken(e) THEN {"recorder limit"} ELSE {})

Finished(e) == \A s \in BuiltStacks(flags[e]) : UpToDate(e, s) /\ Hindrances(e, s) = {}

Ready(e, s) ==
    /\ phase[e] = "deploying"
    /\ s \in BuiltStacks(flags[e])
    /\ ~UpToDate(e, s) \/ Hindrances(e, s) # {}
    /\ \A n \in Needs(s) : UpToDate(e, n)

\* The stacks that come before s in the order of build_app.
Earlier == [s \in Stacks |->
    {BuildOrder[l] : l \in {l \in 1..Len(BuildOrder) :
                               \E k \in (l + 1)..Len(BuildOrder) : BuildOrder[k] = s}}]

IsNext(e, s) == Ready(e, s) /\ \A t \in Earlier[s] : ~Ready(e, t)

PutBlock(e) == blocked' = TRUE /\ holders' = holders \cup {e}
DeleteBlock == blocked' = FALSE /\ UNCHANGED holders

\* CloudFormation takes back what it has created of a stack that fails: the
\* block may have been put by then, and is deleted again.
FailStack(e, s) ==
    /\ IsNext(e, s)
    /\ Hindrances(e, s) # {}
    /\ failures' = [failures EXCEPT ![e] = @ \cup Hindrances(e, s)]
    /\ Goes(e, "failed")
    /\ \/ UNCHANGED <<blocked, holders>>
       \/ /\ s = "security_monitoring" /\ Gains(e, "account_bpa")
          /\ blocked' = FALSE /\ holders' = holders \cup {e}
    /\ UNCHANGED <<flags, deployed, recording, names, edits, teardowns>>

\* The custom resource puts the block when it is created and deletes it, for
\* the whole account, when it is removed.
Block(e) ==
    IF Gains(e, "account_bpa") THEN PutBlock(e)
    ELSE IF Loses(e, "account_bpa") THEN DeleteBlock ELSE UNCHANGED <<blocked, holders>>

NoRecording == [r \in ConfigResources |-> "none"]

DeployStack(e, s) ==
    /\ IsNext(e, s)
    /\ Hindrances(e, s) = {}
    /\ IF s # "security_monitoring" THEN UNCHANGED <<blocked, holders, recording, phase>>
       ELSE /\ Block(e)
            /\ recording' = IF Loses(e, "config_recorder") THEN NoRecording ELSE recording
            /\ IF Gains(e, "config_recorder") THEN Goes(e, "recording") ELSE UNCHANGED phase
    /\ deployed' = [deployed EXCEPT ![e][s] = Template(e, s)]
    /\ UNCHANGED <<flags, names, failures, edits, teardowns>>

-----------------------------------------------------------------------------
(***************************************************************************)
(* The Config recorder and its delivery channel.                           *)
(***************************************************************************)

\* Mutant of Before: the channel is ordered after the recorder.
BeforeOrdered(r) ==
    CASE r = "recorder" -> {"role"}
      [] r = "channel" -> {"recorder"}
      [] OTHER -> {}

\* The dependencies between the three resources.
Before(r) == IF r = "recorder" THEN {"role"} ELSE {}

\* PutConfigurationRecorder takes effect at once, PutDeliveryChannel is
\* retried until there is a recorder.
Put(r) ==
    /\ recording[r] = "none"
    /\ \A b \in Before(r) : recording[b] = "complete"
    /\ r = "channel" => recording["recorder"] # "none"
    /\ recording' = [recording EXCEPT ![r] = "put"]

\* StartConfigurationRecorder is retried until there is a channel.
Complete(r) ==
    /\ recording[r] = "put"
    /\ r = "recorder" => recording["channel"] # "none"
    /\ recording' = [recording EXCEPT ![r] = "complete"]

Record(e) ==
    /\ phase[e] = "recording"
    /\ \E r \in ConfigResources : Put(r) \/ Complete(r)
    /\ UNCHANGED <<flags, deployed, phase, blocked, holders, names, failures, edits, teardowns>>

Recorded(e) ==
    /\ phase[e] = "recording"
    /\ \A r \in ConfigResources : recording[r] = "complete"
    /\ Goes(e, "deploying")
    /\ UNCHANGED <<flags, deployed, blocked, holders, recording, names, failures, edits, teardowns>>

Finish(e) ==
    /\ phase[e] = "deploying"
    /\ Finished(e)
    /\ Goes(e, "idle")
    /\ UNCHANGED <<flags, deployed, blocked, holders, recording, names, failures, edits, teardowns>>

-----------------------------------------------------------------------------
(***************************************************************************)
(* make destroy, and the clean-up that follows it.                         *)
(***************************************************************************)
Destroy(e) ==
    /\ teardowns < MaxTeardowns /\ teardowns' = teardowns + 1
    /\ Resting(e)
    /\ Synthesises(flags[e])
    /\ Goes(e, "destroying")
    /\ UNCHANGED <<flags, deployed, blocked, holders, recording, names, failures, edits>>

Doomed(e) == {s \in BuiltStacks(flags[e]) : Exists(e, s)}

\* Stacks go in the reverse order, none before those that need it.
Free(e, s) == s \in Doomed(e) /\ \A t \in Doomed(e) : s \notin Needs(t)
IsLast(e, s) == Free(e, s) /\ \A t \in Stacks : s \in Earlier[t] => ~Free(e, t)

\* Mutant of Deletes: the stack has the custom resource whatever its flags.
DeletesAlways(e, s) == s = "security_monitoring"

\* on_delete of the custom resource.
Deletes(e, s) == s = "security_monitoring" /\ Has(e, s, "account_bpa")

DestroyStack(e, s) ==
    /\ phase[e] = "destroying"
    /\ IsLast(e, s)
    /\ IF \E t \in Stacks : Orphaned(e, t) /\ s \in Needs(t)
       THEN /\ Goes(e, "failed")
            /\ failures' = [failures EXCEPT ![e] = @ \cup {"export in use"}]
            /\ UNCHANGED <<deployed, names, blocked, holders, recording>>
       ELSE /\ deployed' = [deployed EXCEPT ![e][s] = Absent]
            /\ names' = [names EXCEPT ![e] = @ \cup Retains(s)]
            /\ IF Deletes(e, s) THEN DeleteBlock ELSE UNCHANGED <<blocked, holders>>
            /\ recording' = IF s = "security_monitoring" /\ Has(e, s, "config_recorder")
                            THEN NoRecording ELSE recording
            /\ UNCHANGED <<phase, failures>>
    /\ UNCHANGED <<flags, edits, teardowns>>

Destroyed(e) ==
    /\ phase[e] = "destroying"
    /\ Doomed(e) = {}
    /\ Goes(e, "idle")
    /\ UNCHANGED <<flags, deployed, blocked, holders, recording, names, failures, edits, teardowns>>

\* Step 3 of the teardown page: the retained security names are removed.
CleanUp(e) ==
    /\ Resting(e)
    /\ ~Exists(e, "security")
    /\ names[e] \cap Retains("security") # {}
    /\ names' = [names EXCEPT ![e] = @ \ Retains("security")]
    /\ UNCHANGED <<flags, deployed, phase, blocked, holders, recording, failures, edits, teardowns>>

Progress(e) ==
    \/ \E s \in Stacks : DeployStack(e, s) \/ FailStack(e, s) \/ DestroyStack(e, s)
    \/ Record(e) \/ Recorded(e) \/ Finish(e) \/ Destroyed(e)

AccountNext ==
    \E e \in Environments :
        \/ \E f \in Flags : Edit(e, f)
        \/ Deploy(e) \/ Destroy(e) \/ CleanUp(e)
        \/ Progress(e)

\* CloudFormation and the CDK go on with what they have begun.
AccountFairness == \A e \in Environments : WF_accountVars(Progress(e))

AccountSpec == AccountInit /\ [][AccountNext]_accountVars /\ AccountFairness

-----------------------------------------------------------------------------
(***************************************************************************)
(* Alerts and audit data: who publishes or writes, and what the topics, the *)
(* audit bucket and the audit key grant.                                    *)
(***************************************************************************)
\* Deployed publishers: the service, the start of the rule's name, the target.
SecurityPublishers(e) ==
    IF Exists(e, "security")
    THEN {<<"cloudwatch", "any", "alerts">>, <<"cloudtrail", "any", "audit bucket">>} ELSE {}

BudgetPublishers(e) ==
    IF Has(e, "data", "account_budget") THEN {<<"budgets", "any", "alerts">>} ELSE {}

IngestionPublishers(e) ==
    IF Exists(e, "ingestion") THEN {<<"cloudwatch", "any", "ops">>} ELSE {}

ServingPublishers(e) ==
    IF Exists(e, "serving") THEN {<<"cloudwatch", "any", "ops">>, <<"events", "ops", "ops">>} ELSE {}

MonitoringPublishers(e) ==
    IF Exists(e, "monitoring") THEN {<<"cloudwatch", "any", "ops">>, <<"events", "ops", "ops">>} ELSE {}

\* Only the rules of enabled sources are built.
FindingPublishers(e) ==
    IF /\ Has(e, "security_monitoring", "eventbridge_alerts")
       /\ \E f \in {"access_analyzer", "config_recorder"} : Has(e, "security_monitoring", f)
    THEN {<<"events", "security", "alerts">>} ELSE {}

ConfigPublishers(e) ==
    IF Has(e, "security_monitoring", "config_recorder")
    THEN {<<"config", "any", "audit bucket">>} ELSE {}

Publishers(e) ==
    SecurityPublishers(e) \cup BudgetPublishers(e) \cup IngestionPublishers(e)
    \cup ServingPublishers(e) \cup MonitoringPublishers(e)
    \cup FindingPublishers(e) \cup ConfigPublishers(e)

\* Config may write its history and snapshots to the audit bucket.
ConfigGrants(e) ==
    IF Has(e, "security", "config_recorder") THEN {<<"config", "any", "audit bucket">>} ELSE {}

\* CloudTrail may in any case.
TrailGrants == {<<"cloudtrail", "any", "audit bucket">>}

\* The policies of the two topics.
TopicGrants(e) ==
    {<<"cloudwatch", "any", "ops">>, <<"events", "ops", "ops">>,
     <<"cloudwatch", "any", "alerts">>, <<"budgets", "any", "alerts">>}
    \cup (IF Has(e, "security", "eventbridge_alerts")
          THEN {<<"events", "security", "alerts">>} ELSE {})

\* Mutant of KeyGrants: the key lets EventBridge encrypt only security alerts.
KeyGrantsSecurityOnly(e) ==
    {<<"cloudtrail", "any">>, <<"cloudwatch", "any">>, <<"budgets", "any">>}
    \cup (IF Has(e, "security", "eventbridge_alerts") THEN {<<"events", "security">>} ELSE {})
    \cup {<<g[1], g[2]>> : g \in ConfigGrants(e)}

\* The audit key, which encrypts both topics.
KeyGrants(e) ==
    {<<"cloudtrail", "any">>, <<"cloudwatch", "any">>, <<"budgets", "any">>, <<"events", "ops">>}
    \cup (IF Has(e, "security", "eventbridge_alerts") THEN {<<"events", "security">>} ELSE {})
    \cup {<<g[1], g[2]>> : g \in ConfigGrants(e)}

-----------------------------------------------------------------------------
(***************************************************************************)
(* Synthesis rejects no configuration of implemented services: whatever    *)
(* flags are on, every acknowledgement finds its construct, and every      *)
(* finding its acknowledgement.                                            *)
(***************************************************************************)
RejectedForCause ==
    \A e \in Environments :
        phase[e] = "rejected" /\ ~Synthesises(flags[e]) =>
            (flags[e] \cap Services) \ Implemented # {}

(***************************************************************************)
(* A deployed environment with the flag of the account-wide Block Public   *)
(* Access goes without the block only when another environment has put it  *)
(* too and has given it up.  So the block is safe as long as one file of   *)
(* the account has the flag: neither its own environment's changes,        *)
(* failures and teardowns of other stacks, nor anything in environments    *)
(* without the flag, removes it.  As soon as two files have it, either can *)
(* remove it for both (security_monitoring_stack.py:204-244).              *)
(***************************************************************************)
BlockLostToOther ==
    \A e \in Environments : Has(e, "security_monitoring", "account_bpa") /\ ~blocked =>
        \E d \in holders \ {e} : ~Has(d, "security_monitoring", "account_bpa")

(***************************************************************************)
(* After a complete deployment every alarm, rule and budget may publish to *)
(* its topic, the trail and the Config recorder may write to the audit     *)
(* bucket, and each may use the key that encrypts it, though publishers    *)
(* and grants are in different stacks and depend on different flags.       *)
(***************************************************************************)
AlertsArrive ==
    \A e \in Environments : phase[e] = "idle" /\ Finished(e) =>
        \A p \in Publishers(e) :
            /\ p \in TopicGrants(e) \cup TrailGrants \cup ConfigGrants(e)
            /\ <<p[1], p[2]>> \in KeyGrants(e)

(***************************************************************************)
(* Every deployment and every teardown comes to an end: no two resources   *)
(* or stacks wait for each other.                                          *)
(***************************************************************************)
DeploymentsEnd == \A e \in Environments : []<>Resting(e)

(***************************************************************************)
(* wiki/pages/architecture/teardown-and-rebuild.md: "two fixed names then  *)
(* block a naive redeploy", the key alias and the log group.               *)
(***************************************************************************)
OnlyTwoNamesBlock ==
    \A e \in Environments : failures[e] \cap FixedNames \subseteq {"key alias", "log group"}

=============================================================================
