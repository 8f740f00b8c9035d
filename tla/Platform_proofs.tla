-------------------------- MODULE Platform_proofs ---------------------------
(***************************************************************************)
(* Proofs about the account and what its environments share: Account, for  *)
(* any number of environments, changes of their files and teardowns;       *)
(* EventBus, for any number of environments and events on the one bus; and *)
(* Access, the roles of one environment and the origins of its objects.    *)
(* At the end the types of everything MCPlatform puts side by side.        *)
(***************************************************************************)
EXTENDS MCPlatform, Website_proofs, TLAPS

Monitoring == "security_monitoring"

LEMMA MonitoringIsAStack == Monitoring \in Stacks
<1>1. 2 \in 1..Len(BuildOrder) /\ BuildOrder[2] = Monitoring
  BY DEF BuildOrder, Monitoring
<1> QED BY <1>1 DEF Stacks

(***************************************************************************)
(* The inductive invariant: an environment with the block has put it, and  *)
(* goes without it only when another one put it and has it no more.        *)
(***************************************************************************)
FilesTyped ==
    /\ flags \in [Environments -> SUBSET Flags]
    /\ deployed \in [Environments -> [Stacks -> SUBSET (Flags \cup Absent)]]

HasBlock(e) == "account_bpa" \in deployed[e][Monitoring]

BlockInv ==
    /\ FilesTyped
    /\ holders \subseteq Environments
    /\ \A e \in Environments : HasBlock(e) => e \in holders
    /\ BlockLostToOther

LEMMA BlockInit == AccountInit => BlockInv
<1> SUFFICES ASSUME AccountInit PROVE BlockInv
  OBVIOUS
<1>1. FilesTyped
  BY DEF AccountInit, FilesTyped, Committed, Absent
<1>2. \A e \in Environments : deployed[e][Monitoring] = {"absent"}
  BY MonitoringIsAStack DEF AccountInit, Absent
<1>3. \A e \in Environments : ~HasBlock(e)
  BY <1>2 DEF HasBlock
<1>4. holders = {}
  BY DEF AccountInit
<1> QED BY <1>1, <1>3, <1>4 DEF BlockInv, HasBlock, BlockLostToOther, Has, Monitoring

\* What a step that touches neither the files nor the stacks nor the block keeps.
LEMMA Untouched ==
    ASSUME BlockInv, UNCHANGED <<flags, deployed, blocked, holders>>
    PROVE  BlockInv'
BY DEF BlockInv, FilesTyped, HasBlock, BlockLostToOther, Has

LEMMA EditKeeps ==
    ASSUME BlockInv, NEW e \in Environments, NEW f \in Flags, Edit(e, f)
    PROVE  BlockInv'
<1>1. UNCHANGED <<deployed, blocked, holders>>
  BY DEF Edit
<1>2. flags' = [flags EXCEPT ![e] = IF f \in @ THEN @ \ {f} ELSE @ \cup {f}]
  BY DEF Edit
<1>3. FilesTyped'
  BY <1>1, <1>2 DEF BlockInv, FilesTyped
<1> QED BY <1>1, <1>3 DEF BlockInv, HasBlock, BlockLostToOther, Has

\* The three ways in which a step of environment e may touch the block: it puts
\* it, gives it up, or leaves it as it is; the other environments' stacks stay.
LEMMA BlockMoves ==
    ASSUME BlockInv, FilesTyped', NEW e \in Environments,
           \A d \in Environments \ {e} : HasBlock(d)' <=> HasBlock(d),
           \/ blocked' = TRUE /\ holders' = holders \cup {e}
           \/ /\ blocked' = FALSE /\ ~HasBlock(e)'
              /\ (HasBlock(e) /\ holders' = holders) \/ holders' = holders \cup {e}
           \/ UNCHANGED <<blocked, holders>> /\ (HasBlock(e)' <=> HasBlock(e))
    PROVE  BlockInv'
<1> USE DEF HasBlock
<1>1. \A d \in Environments : HasBlock(d)' => d \in holders'
  BY DEF BlockInv
<1>2. \A d \in Environments : HasBlock(d) /\ ~blocked =>
          \E o \in holders \ {d} : o \in Environments /\ ~HasBlock(o)
  BY DEF BlockInv, BlockLostToOther, Has, Monitoring
<1>3. ASSUME NEW d \in Environments, HasBlock(d)', ~blocked'
      PROVE  \E o \in holders' \ {d} : ~HasBlock(o)'
  <2>1. CASE blocked' = FALSE /\ ~HasBlock(e)' /\ e \in holders'
    BY <1>3, <2>1
  <2>2. CASE UNCHANGED <<blocked, holders>> /\ (HasBlock(e)' <=> HasBlock(e))
    <3>1. \A o \in Environments : HasBlock(o)' <=> HasBlock(o)
      BY <2>2
    <3>2. PICK o \in holders \ {d} : o \in Environments /\ ~HasBlock(o)
      BY <1>2, <1>3, <2>2, <3>1
    <3> QED BY <2>2, <3>1, <3>2
  <2>3. HasBlock(e) => e \in holders
    BY DEF BlockInv
  <2> QED BY <1>3, <2>1, <2>2, <2>3
<1>4. BlockLostToOther'
  BY <1>3 DEF BlockLostToOther, Has, Monitoring
<1>5. holders' \subseteq Environments
  BY DEF BlockInv
<1> QED BY <1>1, <1>4, <1>5 DEF BlockInv

LEMMA DeployStackKeeps ==
    ASSUME BlockInv, NEW e \in Environments, NEW s \in Stacks, DeployStack(e, s)
    PROVE  BlockInv'
<1>1. deployed' = [deployed EXCEPT ![e][s] = Template(e, s)] /\ UNCHANGED flags
  BY DEF DeployStack
<1>2. Template(e, s) \subseteq Flags /\ Template(e, s) = flags[e] \cap Reads(s)
  BY DEF Template, BlockInv, FilesTyped
<1>3. \A d \in Environments, t \in Stacks :
         deployed'[d][t] = IF d = e /\ t = s THEN flags[e] \cap Reads(s) ELSE deployed[d][t]
  BY <1>1, <1>2 DEF BlockInv, FilesTyped
<1>4. FilesTyped'
  BY <1>1, <1>2 DEF BlockInv, FilesTyped
<1>5. \A d \in Environments \ {e} : HasBlock(d)' <=> HasBlock(d)
  BY <1>3, MonitoringIsAStack DEF HasBlock
<1>6. CASE s # Monitoring
  <2>1. UNCHANGED <<blocked, holders>>
    BY <1>6 DEF DeployStack, Monitoring
  <2>2. HasBlock(e)' <=> HasBlock(e)
    BY <1>3, <1>6, MonitoringIsAStack DEF HasBlock
  <2> QED BY <1>4, <1>5, <2>1, <2>2, BlockMoves
<1>7. CASE s = Monitoring
  <2>1. Block(e)
    BY <1>7 DEF DeployStack, Monitoring
  <2>2. "account_bpa" \in Reads(Monitoring)
    BY DEF Reads, Services, Monitoring
  <2>3. HasBlock(e)' <=> "account_bpa" \in flags[e]
    BY <1>3, <1>7, <2>2 DEF HasBlock
  <2>4. /\ Gains(e, "account_bpa") <=> "account_bpa" \in flags[e] /\ ~HasBlock(e)
        /\ Loses(e, "account_bpa") <=> "account_bpa" \notin flags[e] /\ HasBlock(e)
    BY DEF Gains, Loses, Has, HasBlock, Monitoring
  <2>5. \/ blocked' = TRUE /\ holders' = holders \cup {e}
        \/ blocked' = FALSE /\ ~HasBlock(e)' /\ HasBlock(e) /\ holders' = holders
        \/ UNCHANGED <<blocked, holders>> /\ (HasBlock(e)' <=> HasBlock(e))
    BY <2>1, <2>3, <2>4 DEF Block, PutBlock, DeleteBlock
  <2> QED BY <1>4, <1>5, <2>5, BlockMoves
<1> QED BY <1>6, <1>7

LEMMA FailStackKeeps ==
    ASSUME BlockInv, NEW e \in Environments, NEW s \in Stacks, FailStack(e, s)
    PROVE  BlockInv'
<1>1. CASE UNCHANGED <<blocked, holders>>
  BY <1>1, Untouched DEF FailStack
<1>2. CASE Gains(e, "account_bpa") /\ blocked' = FALSE /\ holders' = holders \cup {e}
  <2>1. UNCHANGED <<flags, deployed>>
    BY DEF FailStack
  <2>2. FilesTyped' /\ \A d \in Environments : HasBlock(d)' <=> HasBlock(d)
    BY <2>1 DEF BlockInv, FilesTyped, HasBlock
  <2>3. ~HasBlock(e)'
    BY <1>2, <2>2 DEF Gains, Has, HasBlock, Monitoring
  <2> QED BY <1>2, <2>2, <2>3, BlockMoves
<1> QED BY <1>1, <1>2 DEF FailStack

LEMMA DestroyStackKeeps ==
    ASSUME BlockInv, NEW e \in Environments, NEW s \in Stacks, DestroyStack(e, s)
    PROVE  BlockInv'
<1>1. CASE UNCHANGED <<deployed, blocked, holders>>
  BY <1>1, Untouched DEF DestroyStack
<1>2. CASE /\ deployed' = [deployed EXCEPT ![e][s] = Absent]
           /\ IF Deletes(e, s) THEN DeleteBlock ELSE UNCHANGED <<blocked, holders>>
  <2>1. UNCHANGED flags
    BY DEF DestroyStack
  <2>2. \A d \in Environments, t \in Stacks :
           deployed'[d][t] = IF d = e /\ t = s THEN {"absent"} ELSE deployed[d][t]
    BY <1>2 DEF BlockInv, FilesTyped, Absent
  <2>3. FilesTyped'
    BY <1>2, <2>1 DEF BlockInv, FilesTyped, Absent
  <2>4. \A d \in Environments \ {e} : HasBlock(d)' <=> HasBlock(d)
    BY <2>2, MonitoringIsAStack DEF HasBlock
  <2>5. HasBlock(e)' <=> HasBlock(e) /\ s # Monitoring
    BY <2>2, MonitoringIsAStack DEF HasBlock
  <2>6. Deletes(e, s) <=> HasBlock(e) /\ s = Monitoring
    BY DEF Deletes, Has, HasBlock, Monitoring
  <2>7. \/ blocked' = FALSE /\ ~HasBlock(e)' /\ HasBlock(e) /\ holders' = holders
        \/ UNCHANGED <<blocked, holders>> /\ (HasBlock(e)' <=> HasBlock(e))
    BY <1>2, <2>5, <2>6 DEF DeleteBlock
  <2> QED BY <2>3, <2>4, <2>7, BlockMoves
<1> QED BY <1>1, <1>2 DEF DestroyStack

LEMMA BlockStep == BlockInv /\ [AccountNext]_accountVars => BlockInv'
<1> SUFFICES ASSUME BlockInv, [AccountNext]_accountVars PROVE BlockInv'
  OBVIOUS
<1>1. CASE UNCHANGED accountVars
  BY <1>1, Untouched DEF accountVars
<1>2. ASSUME NEW e \in Environments, NEW f \in Flags, Edit(e, f) PROVE BlockInv'
  BY <1>2, EditKeeps
<1>3. ASSUME NEW e \in Environments, Deploy(e) \/ Destroy(e) \/ CleanUp(e) PROVE BlockInv'
  BY <1>3, Untouched DEF Deploy, Destroy, CleanUp
<1>4. ASSUME NEW e \in Environments, Record(e) \/ Recorded(e) \/ Finish(e) \/ Destroyed(e)
      PROVE  BlockInv'
  BY <1>4, Untouched DEF Record, Recorded, Finish, Destroyed
<1> QED BY <1>1, <1>2, <1>3, <1>4, FailStackKeeps, DeployStackKeeps, DestroyStackKeeps
        DEF AccountNext, Progress

-----------------------------------------------------------------------------
\* However many environments share the account, and whatever is changed,
\* deployed, taken back or torn down in them: one whose stack has the
\* account-wide Block Public Access goes without it only when another one put
\* it too and has given it up (security_monitoring_stack.py:204-244).
THEOREM BlockIsKept == AccountSpec => []BlockLostToOther
<1>1. BlockInv => BlockLostToOther
  BY DEF BlockInv
<1> QED BY <1>1, BlockInit, BlockStep, PTL DEF AccountSpec

-----------------------------------------------------------------------------
LEMMA SecurityIsAStack == "security" \in Stacks /\ "security" # "website"
<1>1. 1 \in 1..Len(BuildOrder) /\ BuildOrder[1] = "security"
  BY DEF BuildOrder
<1> QED BY <1>1 DEF Stacks

\* Up-to-date stacks agree on the flags that publishers and grants share.
LEMMA FinishedAgree ==
    ASSUME NEW e \in Environments, Finished(e),
           NEW f \in {"config_recorder", "eventbridge_alerts"}, Has(e, Monitoring, f)
    PROVE  Has(e, "security", f)
<1>1. Monitoring # "website"
  BY DEF Monitoring
<1>2. deployed[e][Monitoring] = flags[e] \cap Reads(Monitoring)
  BY <1>1, MonitoringIsAStack DEF Finished, BuiltStacks, UpToDate, Template
<1>3. deployed[e]["security"] = flags[e] \cap Reads("security")
  BY SecurityIsAStack DEF Finished, BuiltStacks, UpToDate, Template
<1>4. f \in Reads("security")
  BY DEF Reads
<1> QED BY <1>2, <1>3, <1>4 DEF Has

\* Whoever publishes alerts or records in a completely deployed environment is
\* allowed to by the topic or bucket and by the key, for every choice of flags.
THEOREM AlertsAreGranted == AccountSpec => []AlertsArrive
<1>1. ASSUME NEW e \in Environments, Finished(e), NEW p \in Publishers(e)
      PROVE  /\ p \in TopicGrants(e) \cup TrailGrants \cup ConfigGrants(e)
             /\ <<p[1], p[2]>> \in KeyGrants(e)
  <2>1. CASE p \in {<<"cloudwatch", "any", "alerts">>, <<"cloudwatch", "any", "ops">>,
                    <<"events", "ops", "ops">>, <<"budgets", "any", "alerts">>}
    BY <2>1 DEF TopicGrants, KeyGrants
  <2>2. CASE p = <<"cloudtrail", "any", "audit bucket">>
    BY <2>2 DEF TrailGrants, KeyGrants
  <2>3. CASE p \in FindingPublishers(e)
    BY <1>1, <2>3, FinishedAgree DEF FindingPublishers, TopicGrants, KeyGrants, Monitoring
  <2>4. CASE p \in ConfigPublishers(e)
    <3>1. p = <<"config", "any", "audit bucket">> /\ p \in ConfigGrants(e)
      BY <1>1, <2>4, FinishedAgree DEF ConfigPublishers, ConfigGrants, Monitoring
    <3> QED BY <3>1 DEF KeyGrants
  <2>5. CASE p \in SecurityPublishers(e) \cup BudgetPublishers(e) \cup IngestionPublishers(e)
                   \cup ServingPublishers(e) \cup MonitoringPublishers(e)
    BY <2>1, <2>2, <2>5 DEF SecurityPublishers, BudgetPublishers, IngestionPublishers,
                            ServingPublishers, MonitoringPublishers
  <2> QED BY <1>1, <2>3, <2>4, <2>5 DEF Publishers
<1>2. AlertsArrive
  BY <1>1 DEF AlertsArrive
<1> QED BY <1>2, PTL

-----------------------------------------------------------------------------
(***************************************************************************)
(* Synthesis, stack by stack: each acknowledgement that is registered has  *)
(* its finding, and each finding its acknowledgement.                      *)
(***************************************************************************)
LEMMA RowsAre ==
    ASSUME NEW s, NEW C, NEW f
    PROVE  \A a : a \in Row(s, C, f) <=>
                     \E c \in C : a = [stack |-> s, construct |-> c, flag |-> f]
BY DEF Row

LEMMA EnabledFlags ==
    ASSUME NEW on, NEW f \in {"account_bpa", "account_budget", "website"}
    PROVE  f \in Enabled(on) <=> f \in on
BY DEF Enabled, Services

LEMMA AcknowledgedAreFound ==
    ASSUME NEW on, NEW a \in Registered(on)
    PROVE  <<a.stack, a.construct>> \in Findings(on)
<1>1. a \in Acknowledgements /\ (a.flag = "always" \/ a.flag \in Enabled(on))
  BY DEF Registered, Always
<1>2. CASE a \in FoundationAcknowledgements
  BY <1>1, <1>2, RowsAre, EnabledFlags
  DEF FoundationAcknowledgements, Findings, FoundationFindings, SecurityMonitoringFindings,
      DataFindings, Always
<1>3. CASE a \in TrainingAcknowledgements \cup ServingAcknowledgements \cup MonitoringAcknowledgements
  BY <1>3, RowsAre
  DEF TrainingAcknowledgements, ServingAcknowledgements, MonitoringAcknowledgements,
      Findings, TrainingFindings, ServingFindings, MonitoringFindings
<1>4. CASE a \in WebsiteAcknowledgements
  BY <1>1, <1>4, RowsAre, EnabledFlags DEF WebsiteAcknowledgements, Findings, WebsiteFindings
<1> QED BY <1>1, <1>2, <1>3, <1>4 DEF Acknowledgements

LEMMA FoundAreAcknowledged ==
    ASSUME NEW on, NEW p \in Findings(on)
    PROVE  \E a \in Registered(on) : p = <<a.stack, a.construct>>
<1> DEFINE ack(s, c, f) == [stack |-> s, construct |-> c, flag |-> f]
<1>1. ASSUME NEW s, NEW c, NEW f, p = <<s, c>>, ack(s, c, f) \in Acknowledgements,
             f = "always" \/ f \in Enabled(on)
      PROVE  \E a \in Registered(on) : p = <<a.stack, a.construct>>
  BY <1>1 DEF Registered, Always
<1>2. CASE p \in FoundationFindings
  <2>1. \E s, c : p = <<s, c>> /\ ack(s, c, "always") \in FoundationAcknowledgements
    BY <1>2, RowsAre DEF FoundationFindings, FoundationAcknowledgements, Always
  <2> QED BY <1>1, <2>1 DEF Acknowledgements
<1>5. CASE p \in SecurityMonitoringFindings(on)
  <2>1. \E s, c : /\ p = <<s, c>> /\ ack(s, c, "account_bpa") \in FoundationAcknowledgements
                  /\ "account_bpa" \in Enabled(on)
    BY <1>5, RowsAre, EnabledFlags DEF SecurityMonitoringFindings, FoundationAcknowledgements
  <2> QED BY <1>1, <2>1 DEF Acknowledgements
<1>6. CASE p \in DataFindings(on)
  <2>1. CASE p = <<"data", "BucketNotificationsHandler">>
    <3>1. ack("data", "BucketNotificationsHandler", "always") \in FoundationAcknowledgements
      BY RowsAre DEF FoundationAcknowledgements, Always
    <3> QED BY <1>1, <2>1, <3>1 DEF Acknowledgements
  <2>2. CASE p = <<"data", "AwsCustomResource">> /\ "account_budget" \in on
    <3>1. ack("data", "AwsCustomResource", "account_budget") \in FoundationAcknowledgements
      BY RowsAre DEF FoundationAcknowledgements
    <3> QED BY <1>1, <2>2, <3>1, EnabledFlags DEF Acknowledgements
  <2> QED BY <1>6, <2>1, <2>2 DEF DataFindings
<1>3. CASE p \in TrainingFindings \cup ServingFindings \cup MonitoringFindings
  <2>1. \E s, c : /\ p = <<s, c>>
                  /\ ack(s, c, "always") \in
                        TrainingAcknowledgements \cup ServingAcknowledgements
                        \cup MonitoringAcknowledgements
    BY <1>3, RowsAre
    DEF TrainingFindings, ServingFindings, MonitoringFindings, TrainingAcknowledgements,
        ServingAcknowledgements, MonitoringAcknowledgements, Always
  <2> QED BY <1>1, <2>1 DEF Acknowledgements
<1>4. CASE p \in WebsiteFindings(on)
  <2>1. \E s, c : /\ p = <<s, c>> /\ ack(s, c, "website") \in WebsiteAcknowledgements
                  /\ "website" \in Enabled(on)
    BY <1>4, RowsAre, EnabledFlags DEF WebsiteFindings, WebsiteAcknowledgements
  <2> QED BY <1>1, <2>1 DEF Acknowledgements
<1> QED BY <1>2, <1>3, <1>4, <1>5, <1>6 DEF Findings

\* Whatever flags of implemented services are on, the application synthesises:
\* an app is rejected only for a service nobody implemented
\* (security_checks.py, security_monitoring_stack.py).
THEOREM RejectionsHaveACause == AccountSpec => []RejectedForCause
<1>1. ASSUME NEW on PROVE {<<a.stack, a.construct>> : a \in Registered(on)} = Findings(on)
  BY AcknowledgedAreFound, FoundAreAcknowledged
<1>2. RejectedForCause
  BY <1>1 DEF RejectedForCause, Synthesises
<1> QED BY <1>2, PTL

-----------------------------------------------------------------------------
(***************************************************************************)
(* The event bus.  The inductive invariant: what waits for delivery to the *)
(* rules of an environment is in use, and if its rule names what is its    *)
(* own, it is about that environment.                                      *)
(***************************************************************************)
BusInv ==
    /\ DOMAIN events = Numbers /\ DOMAIN alerted = Stages
    /\ pending \subseteq Stages \X Numbers
    /\ \A e \in Stages, n \in Numbers : <<e, n>> \in pending =>
          events[n] # Unused /\ (events[n].type \in Named => events[n].of = e)
    /\ OwnAlertsOnly

\* An alert about a drift violation, or about what is the environment's own.
LEMMA AlertKeeps ==
    ASSUME BusInv, NEW e \in Stages, NEW n \in Numbers, NEW type, Take(e, n, type), Alert(e, n),
           type = "drift" \/ events[n].of = e
    PROVE  BusInv'
<1>1. events' = events /\ pending' \subseteq pending /\ events[n].type = type
  BY DEF Take
<1>2. \A d \in Stages : \A alert \in alerted'[d] :
         alert \in alerted[d] \/ (d = e /\ alert = [type |-> events[n].type, of |-> events[n].of])
  BY DEF Alert, BusInv
<1>3. OwnAlertsOnly'
  BY <1>1, <1>2 DEF OwnAlertsOnly, BusInv
<1>4. DOMAIN alerted' = Stages
  BY DEF Alert, BusInv
<1> QED BY <1>1, <1>3, <1>4 DEF BusInv

LEMMA BusStep == BusInv /\ [BusNext]_busVars => BusInv'
<1> SUFFICES ASSUME BusInv, [BusNext]_busVars PROVE BusInv'
  OBVIOUS
<1> USE DEF BusInv
<1>1. CASE UNCHANGED busVars
  BY <1>1 DEF busVars, OwnAlertsOnly
<1>2. ASSUME NEW e \in Stages, PutEvent(e) PROVE BusInv'
  <2>0. PICK n \in Numbers, type \in Types : \E state \in States(type) :
           /\ events[n] = Unused
           /\ events' = [events EXCEPT ![n] = [type |-> type, state |-> state, of |-> e]]
           /\ pending' = pending \cup {<<d, n>> : d \in {d \in Stages : Matches(d, events'[n])}}
           /\ UNCHANGED alerted
    BY <1>2 DEF PutEvent
  <2>1. PICK state \in States(type) :
           /\ events[n] = Unused
           /\ events' = [events EXCEPT ![n] = [type |-> type, state |-> state, of |-> e]]
           /\ pending' = pending \cup {<<d, n>> : d \in {d \in Stages : Matches(d, events'[n])}}
           /\ UNCHANGED alerted
    BY <2>0
  <2>2. /\ DOMAIN events' = Numbers
        /\ events'[n] = [type |-> type, state |-> state, of |-> e]
        /\ \A k \in Numbers : k # n => events'[k] = events[k]
    BY <2>1
  <2>3. state # "unused"
    BY DEF States, Types
  <2>4. ASSUME NEW d \in Stages, NEW k \in Numbers, <<d, k>> \in pending'
        PROVE  events'[k] # Unused /\ (events'[k].type \in Named => events'[k].of = d)
    <3>1. CASE <<d, k>> \in pending
      BY <2>1, <2>2, <3>1
    <3>2. CASE k = n /\ Matches(d, events'[n])
      <4>1. events'[n].type \in Named => events'[n].of = d
        BY <3>2 DEF Matches
      <4>2. events'[n].state # "unused"
        BY <2>2, <2>3
      <4> QED BY <3>2, <4>1, <4>2 DEF Unused
    <3> QED BY <2>1, <2>4, <3>1, <3>2
  <2> QED BY <2>1, <2>2, <2>4 DEF OwnAlertsOnly
<1>3. ASSUME NEW e \in Stages, NEW n \in Numbers, NEW type, Take(e, n, type), UNCHANGED alerted
      PROVE  BusInv'
  BY <1>3 DEF Take, OwnAlertsOnly
<1>4. ASSUME NEW e \in Stages, NEW n \in Numbers, NEW type \in Named, Take(e, n, type), Alert(e, n)
      PROVE  BusInv'
  <2>1. events[n].of = e
    BY <1>4 DEF Take
  <2> QED BY <1>4, <2>1, AlertKeeps
<1>5. ASSUME NEW e \in Stages, NEW n \in Numbers, Notify(e, n) PROVE BusInv'
  <2>1. PICK type \in {"endpoint", "execution"} : Take(e, n, type)
    BY <1>5 DEF Notify
  <2> QED BY <1>4, <1>5, <2>1 DEF Notify, Named
<1>6. ASSUME NEW e \in Stages, NEW n \in Numbers, DeployModel(e, n) PROVE BusInv'
  BY <1>3, <1>4, <1>6 DEF DeployModel, Named
<1>7. ASSUME NEW e \in Stages, NEW n \in Numbers, Retrain(e, n) PROVE BusInv'
  BY <1>3, <1>7 DEF Retrain
<1>8. ASSUME NEW e \in Stages, CoolDown(e) PROVE BusInv'
  BY <1>8 DEF CoolDown, OwnAlertsOnly
<1>9. ASSUME NEW e \in Stages, NEW n \in Numbers, RetrainAlarms(e, n) PROVE BusInv'
  BY <1>9, AlertKeeps DEF RetrainAlarms
<1> QED BY <1>1, <1>2, <1>5, <1>6, <1>7, <1>8, <1>9 DEF BusNext

\* What happens to packages, endpoints and executions alerts the operators of
\* their own environment only, although the rules of all environments read one
\* bus and deliveries repeat; a drift violation is not covered
\* (serving_stack.py:173-207, monitoring_stack.py:214-293).
THEOREM AlertsStayHome == BusSpec => []OwnAlertsOnly
<1>1. BusInit => BusInv
  BY DEF BusInit, BusInv, OwnAlertsOnly
<1>2. BusInv => OwnAlertsOnly
  BY DEF BusInv
<1> QED BY <1>1, <1>2, BusStep, PTL DEF BusSpec

-----------------------------------------------------------------------------
(***************************************************************************)
(* Access: the grants cover the calls of the code, and what visitors send  *)
(* stays out of the models.                                                *)
(***************************************************************************)
LEMMA CallsGrow ==
    ASSUME NEW S, NEW T, S \subseteq T, NEW a
    PROVE  Calls(a, S) \subseteq Calls(a, T)
BY DEF Calls

\* No call of the code is without its grant, role by role.
LEMMA Covered ==
    ASSUME NEW r \in Roles
    PROVE  CodeCalls(r) \subseteq Grants(r)
<1>1. CASE r = "validate"
  BY <1>1 DEF CodeCalls, Grants, ValidateGrants
<1>2. CASE r = "pipeline"
  <2>1. PutIn(Steps \ {"baseline"}) \subseteq PutIn(Steps)
    BY CallsGrow DEF PutIn
  <2>2. Describe({"job"}) \subseteq Describe({"job", "package"})
        /\ Describe({"package"}) \subseteq Describe({"job", "package"})
    BY CallsGrow DEF Describe
  <2>3. PipelineCalls \subseteq PipelineGrants
    BY <2>1, <2>2 DEF PipelineCalls, PipelineGrants, ChampionCalls
  <2> QED BY <1>2, <2>3 DEF CodeCalls, Grants
<1>3. CASE r = "model"
  BY <1>3 DEF CodeCalls, Grants, ModelGrants
<1>4. CASE r = "deploy"
  <2>1. DeployCalls \subseteq DeployGrants
    BY DEF DeployCalls, DeployGrants, Describe, Create, Calls
  <2> QED BY <1>4, <2>1 DEF CodeCalls, Grants
<1>5. CASE r = "proxy"
  BY <1>5 DEF CodeCalls, Grants, ProxyGrants
<1>6. CASE r = "drift"
  <2>1. DriftCalls \subseteq DriftGrants
    BY DEF DriftCalls, DriftGrants, Describe, Get, Calls
  <2> QED BY <1>6, <2>1 DEF CodeCalls, Grants
<1>7. CASE r = "retrain"
  <2>1. Calls("ListPipelineExecutions", {"pipeline"}) = {<<"ListPipelineExecutions", "pipeline">>}
        /\ Calls("StartPipelineExecution", {"pipeline"}) = {<<"StartPipelineExecution", "pipeline">>}
    BY DEF Calls
  <2> QED BY <1>7, <2>1 DEF CodeCalls, Grants, RetrainGrants, ChampionCalls
<1>8. CASE r = "website"
  BY <1>8 DEF CodeCalls, Grants, WebsiteGrants
<1> QED BY <1>1, <1>2, <1>3, <1>4, <1>5, <1>6, <1>7, <1>8 DEF Roles

\* In every environment each role is granted what its code calls.
THEOREM CallsAreGranted == AccessSpec => []NothingDenied
<1>1. AccessInit => NothingDenied
  BY DEF AccessInit, NothingDenied
<1>2. NothingDenied /\ [AccessNext]_accessVars => NothingDenied'
  BY Covered DEF AccessNext, Call, accessVars, NothingDenied
<1> QED BY <1>1, <1>2, PTL DEF AccessSpec

-----------------------------------------------------------------------------
Trusted == Curated \cup Steps
Trainers == {"validate", "pipeline"}

(***************************************************************************)
(* The inductive invariant: neither what models are made from, nor the     *)
(* roles that write it, ever held anything of a visitor.                   *)
(***************************************************************************)
OriginsInv ==
    /\ from = [y \in Objects \cup Roles |-> from[y]]
    /\ \A x \in Trusted \cup Trainers \cup {"raw"} : from[x] \subseteq {"uploads"}

LEMMA TrainersRead ==
    ASSUME NEW r \in Trainers, NEW x, <<"GetObject", x>> \in Grants(r)
    PROVE  x \in Trusted \cup {"raw"}
<1>1. CASE r = "validate"
  <2>1. <<"GetObject", x>> \in ValidateGrants
    BY <1>1 DEF Grants
  <2> QED BY <2>1 DEF ValidateGrants, Get, List, PutIn, Calls
<1>2. CASE r = "pipeline"
  <2>1. <<"GetObject", x>> \in PipelineGrants
    BY <1>2 DEF Grants
  <2>2. x \in {"telco"} \cup Steps
    BY <2>1 DEF PipelineGrants, Get, List, PutIn, Create, Describe, Calls
  <2> QED BY <2>2 DEF Trusted, Curated
<1> QED BY <1>1, <1>2 DEF Trainers

LEMMA OnlyTrainersWrite ==
    ASSUME NEW r \in Roles, NEW x \in Trusted, <<"PutObject", x>> \in Grants(r)
    PROVE  r \in Trainers
<1>1. <<"PutObject", x>> \notin ModelGrants
  BY DEF ModelGrants, Get, List, Calls
<1>2. <<"PutObject", x>> \notin DeployGrants
  BY DEF DeployGrants, Create, Describe, Calls
<1>3. <<"PutObject", x>> \notin ProxyGrants
  BY DEF ProxyGrants, PutIn, Calls, Trusted, Curated, Steps
<1>4. <<"PutObject", x>> \notin DriftGrants
  BY DEF DriftGrants, Get, List, Describe, Calls
<1>5. <<"PutObject", x>> \notin RetrainGrants
  BY DEF RetrainGrants, Describe, Calls
<1>6. <<"PutObject", x>> \notin WebsiteGrants
  BY DEF WebsiteGrants, Get, List, Calls
<1>7. r = "model" => Grants(r) = ModelGrants
  BY DEF Grants
<1>8. r = "deploy" => Grants(r) = DeployGrants
  BY DEF Grants
<1>9. r = "proxy" => Grants(r) = ProxyGrants
  BY DEF Grants
<1>10. r = "drift" => Grants(r) = DriftGrants
  BY DEF Grants
<1>11. r = "retrain" => Grants(r) = RetrainGrants
  BY DEF Grants
<1>12. r = "website" => Grants(r) = WebsiteGrants
  BY DEF Grants
<1> QED BY <1>1, <1>2, <1>3, <1>4, <1>5, <1>6, <1>7, <1>8, <1>9, <1>10, <1>11, <1>12
        DEF Roles, Trainers

LEMMA WritesGoTo ==
    ASSUME NEW r \in Roles, NEW x, <<"PutObject", x>> \in Grants(r)
    PROVE  x \in Trusted \cup {"capture"}
<1>1. <<"PutObject", x>> \in ValidateGrants \/ <<"PutObject", x>> \in PipelineGrants
      \/ <<"PutObject", x>> \in ModelGrants \/ <<"PutObject", x>> \in DeployGrants
      \/ <<"PutObject", x>> \in ProxyGrants \/ <<"PutObject", x>> \in DriftGrants
      \/ <<"PutObject", x>> \in RetrainGrants \/ <<"PutObject", x>> \in WebsiteGrants
  BY DEF Grants, Roles
<1>2. <<"PutObject", x>> \in ValidateGrants => x \in Curated
  BY DEF ValidateGrants, Get, List, PutIn, Calls
<1>3. <<"PutObject", x>> \in PipelineGrants => x \in Steps
  BY DEF PipelineGrants, Get, List, PutIn, Create, Describe, Calls
<1>4. <<"PutObject", x>> \in ProxyGrants => x = "capture"
  BY DEF ProxyGrants, PutIn, Calls
<1>5. <<"PutObject", x>> \notin ModelGrants
  BY DEF ModelGrants, Get, List, Calls
<1>6. <<"PutObject", x>> \notin DeployGrants
  BY DEF DeployGrants, Create, Describe, Calls
<1>7. <<"PutObject", x>> \notin DriftGrants
  BY DEF DriftGrants, Get, List, Describe, Calls
<1>8. <<"PutObject", x>> \notin RetrainGrants
  BY DEF RetrainGrants, Describe, Calls
<1>9. <<"PutObject", x>> \notin WebsiteGrants
  BY DEF WebsiteGrants, Get, List, Calls
<1> QED BY <1>1, <1>2, <1>3, <1>4, <1>5, <1>6, <1>7, <1>8, <1>9 DEF Trusted

\* Every grant is a pair.
LEMMA PairOf == \A a, T : \A call \in Calls(a, T) : call = <<call[1], call[2]>>
BY DEF Calls

LEMMA GrantsArePairs ==
    ASSUME NEW r \in Roles, NEW call \in Grants(r)
    PROVE  call = <<call[1], call[2]>>
<1>1. \A c \in ValidateGrants : c = <<c[1], c[2]>>
  BY PairOf DEF ValidateGrants, Get, List, PutIn
<1>2. \A c \in PipelineGrants : c = <<c[1], c[2]>>
  BY PairOf DEF PipelineGrants, Get, List, PutIn, Create, Describe
<1>3. \A c \in ModelGrants : c = <<c[1], c[2]>>
  BY PairOf DEF ModelGrants, Get, List
<1>4. \A c \in DeployGrants : c = <<c[1], c[2]>>
  BY PairOf DEF DeployGrants, Create, Describe
<1>5. \A c \in ProxyGrants : c = <<c[1], c[2]>>
  BY PairOf DEF ProxyGrants, PutIn
<1>6. \A c \in DriftGrants : c = <<c[1], c[2]>>
  BY PairOf DEF DriftGrants, Get, List, Describe
<1>7. \A c \in RetrainGrants : c = <<c[1], c[2]>>
  BY PairOf DEF RetrainGrants, Describe
<1>8. \A c \in WebsiteGrants : c = <<c[1], c[2]>>
  <2> SUFFICES ASSUME NEW c \in WebsiteGrants PROVE c = <<c[1], c[2]>>
    OBVIOUS
  <2>1. CASE c \in Get({"evaluations"}) \cup List({"evaluations"})
    <3>1. CASE c \in Calls("GetObject", {"evaluations"})
      BY <3>1, PairOf
    <3>2. CASE c \in Calls("ListBucket", {"evaluations"})
      BY <3>2, PairOf
    <3> QED BY <2>1, <3>1, <3>2 DEF Get, List
  <2>2. CASE c \in Calls("UpdateItem", {"mailing list"})
    BY <2>2, PairOf
  <2>3. CASE c \in Calls("Invoke", {"predict"})
    BY <2>3, PairOf
  <2>4. <<"UpdateItem", "mailing list">> \in Calls("UpdateItem", {"mailing list"})
        /\ <<"Invoke", "predict">> \in Calls("Invoke", {"predict"})
    BY DEF Calls
  <2> QED BY <2>1, <2>2, <2>3, <2>4 DEF WebsiteGrants
<1>9. \/ call \in ValidateGrants \/ call \in PipelineGrants \/ call \in ModelGrants
      \/ call \in DeployGrants \/ call \in ProxyGrants \/ call \in DriftGrants
      \/ call \in RetrainGrants \/ call \in WebsiteGrants
  BY DEF Grants, Roles
<1> QED BY <1>1, <1>2, <1>3, <1>4, <1>5, <1>6, <1>7, <1>8, <1>9

LEMMA KindsDiffer ==
    /\ Roles \cap (Trusted \cup {"raw", "capture"}) = {}
    /\ Trainers \subseteq Roles /\ "raw" \notin Trusted \cup {"capture"}
    /\ Trusted \cup {"raw", "capture"} = Objects
BY DEF Roles, Trusted, Trainers, Curated, Steps, Objects

LEMMA OriginsStep == OriginsInv /\ [AccessNext]_accessVars => OriginsInv'
<1> SUFFICES ASSUME OriginsInv, [AccessNext]_accessVars PROVE OriginsInv'
  OBVIOUS
<1>1. CASE UNCHANGED accessVars
  BY <1>1 DEF accessVars, OriginsInv
<1>2. CASE AccessNext
  <2>1. PICK r \in Roles : \E call \in CodeCalls(r) \cup Grants(r) : Call(r, call)
    BY <1>2 DEF AccessNext
  <2>2. PICK call \in Grants(r) : from' = Effect(r, call)
    BY <2>1, Covered DEF Call
  <2> DEFINE x == call[2]
  <2>3. CASE call[1] = "GetObject"
    <3>1. from' = [from EXCEPT ![r] = @ \cup from[x]]
      BY <2>2, <2>3 DEF Effect
    <3>2. r \in Trainers => x \in Trusted \cup {"raw"}
      BY <2>3, GrantsArePairs, TrainersRead
    <3>3. \A y \in Trusted \cup Trainers \cup {"raw"} : from'[y] \subseteq {"uploads"}
      BY <3>1, <3>2, KindsDiffer DEF OriginsInv
    <3> QED BY <3>1, <3>3 DEF OriginsInv
  <2>4. CASE call[1] = "PutObject"
    <3>1. from' = [from EXCEPT ![x] = @ \cup from[r]]
      BY <2>2, <2>4 DEF Effect
    <3>2. x \in Trusted \cup {"capture"} /\ (x \in Trusted => r \in Trainers)
      BY <2>4, GrantsArePairs, WritesGoTo, OnlyTrainersWrite
    <3>3. \A y \in Trusted \cup Trainers \cup {"raw"} : from'[y] \subseteq {"uploads"}
      BY <3>1, <3>2, KindsDiffer DEF OriginsInv
    <3> QED BY <3>1, <3>3 DEF OriginsInv
  <2>5. CASE call[1] \notin {"GetObject", "PutObject"}
    <3>1. from' = from
      BY <2>2, <2>5 DEF Effect
    <3> QED BY <3>1 DEF OriginsInv
  <2> QED BY <2>3, <2>4, <2>5
<1> QED BY <1>1, <1>2

\* Whatever the roles do with their grants, the models are made from uploads.
THEOREM OnlyUploadsTrain == AccessSpec => []ModelsFromUploads
<1>1. AccessInit => OriginsInv
  <2> SUFFICES ASSUME AccessInit PROVE OriginsInv
    OBVIOUS
  <2>1. DOMAIN from = Objects \cup Roles
    BY DEF AccessInit
  <2>2. ASSUME NEW x \in Trusted \cup Trainers \cup {"raw"}
        PROVE  x \in Objects \cup Roles /\ x \notin {"proxy", "website"}
    BY KindsDiffer DEF Trainers, Trusted, Curated, Steps
  <2>3. \A x \in Trusted \cup Trainers \cup {"raw"} : from[x] \subseteq {"uploads"}
    BY <2>2 DEF AccessInit
  <2> QED BY <2>1, <2>3 DEF AccessInit, OriginsInv
<1>2. OriginsInv => ModelsFromUploads
  BY DEF OriginsInv, ModelsFromUploads, Trusted
<1> QED BY <1>1, <1>2, OriginsStep, PTL DEF AccessSpec

-----------------------------------------------------------------------------
(***************************************************************************)
(* Types.  The closed loop first.                                          *)
(***************************************************************************)
Ends == {"productive", "unproductive", "failed"}

\* However an execution ends, the list stays as long as a page at most.
LEMMA EndTyped ==
    ASSUME NEW how \in Ends, history \in Seq(Ends), End(how)
    PROVE  history' \in Seq(Ends) /\ Len(history') <= Listed
<1> DEFINE ends == <<how>> \o history
           most == IF Len(ends) < Listed THEN Len(ends) ELSE Listed
<1>1. ends \in Seq(Ends) /\ Len(ends) \in Nat
  OBVIOUS
<1>2. Listed \in Nat
  BY LoopConstants DEF Listed
<1>3. most \in 0..Len(ends) /\ most <= Listed
  BY <1>1, <1>2
<1>4. history' = SubSeq(ends, 1, most)
  BY DEF End
<1> HIDE DEF ends, most
<1>5. SubSeq(ends, 1, most) \in Seq(Ends) /\ Len(SubSeq(ends, 1, most)) = most
  BY <1>1, <1>3
<1> QED BY <1>3, <1>4, <1>5

WorldTyped ==
    /\ world \in Epochs /\ curated \in 0..world
    /\ captured \subseteq 0..world /\ captured # {}

ModelsTyped ==
    /\ champion \in Candidates /\ approvals \subseteq Candidates /\ served \in Candidates
    /\ training \in Epochs \cup {Started, NoExecution}

HistoryTyped == history \in Seq(Ends) /\ Len(history) <= Listed

Reasons == {"handler error", "pipeline failed", "loop stalled", "endpoint failed"}

CountersTyped == sent \in 0..MaxViolations /\ troubles \in 0..MaxTroubles

SignalsTyped == cooling \in BOOLEAN /\ told \subseteq Reasons

LEMMA LoopTypeParts ==
    LoopTypeOK <=>
        WorldTyped /\ ModelsTyped /\ HistoryTyped /\ CountersTyped /\ SignalsTyped
BY Zenon DEF LoopTypeOK, WorldTyped, ModelsTyped, HistoryTyped, CountersTyped, SignalsTyped,
             Ends, Reasons

LEMMA LoopTypeStart == LoopInit => LoopTypeOK
<1> SUFFICES ASSUME LoopInit PROVE LoopTypeOK
  OBVIOUS
<1> USE LoopConstants DEF LoopInit
<1>1. 0 \in Epochs /\ 1 \in 1..MaxAuc /\ Listed \in Nat
  BY DEF Epochs, Listed
<1>2. WorldTyped
  BY <1>1 DEF WorldTyped
<1>3. ModelsTyped
  BY <1>1 DEF ModelsTyped, Candidates
<1>4. HistoryTyped
  BY <1>1 DEF HistoryTyped
<1>5. CountersTyped
  BY DEF CountersTyped
<1>6. SignalsTyped
  BY DEF SignalsTyped
<1> QED BY <1>2, <1>3, <1>4, <1>5, <1>6, LoopTypeParts

\* What visitors send, and what is curated and captured of it.
LEMMA WorldTypeStep == WorldTyped /\ [LoopNext]_loopVars => WorldTyped'
<1> SUFFICES ASSUME WorldTyped, [LoopNext]_loopVars PROVE WorldTyped'
  OBVIOUS
<1> USE LoopConstants DEF WorldTyped, Epochs
<1>1. CASE Drift
  <2>1. world' = world + 1 /\ world' \in 0..MaxEpoch /\ curated' = curated
    BY <1>1 DEF Drift
  <2>2. captured' = captured \cup {world'} /\ 0..world \subseteq 0..world' /\ world' \in 0..world'
    BY <1>1, <2>1 DEF Drift
  <2> QED BY <2>1, <2>2
<1>2. CASE CurateData
  BY <1>2 DEF CurateData
<1>3. CASE captured' = {world} /\ UNCHANGED <<world, curated>>
  BY <1>3
<1>4. CASE UNCHANGED <<world, curated, captured>>
  BY <1>4
<1>5. \/ Drift \/ CurateData
      \/ captured' = {world} /\ UNCHANGED <<world, curated>>
      \/ UNCHANGED <<world, curated, captured>>
  BY DEF LoopNext, loopVars, Acknowledge, Evaluate, EvaluateFails, NextWindow, HandleViolation,
         HandleViolationFails, Cool, Preprocess, Evaluated, ExecutionFails, DeployPackage,
         DeployFails, Handled
<1> QED BY <1>1, <1>2, <1>3, <1>4, <1>5

LEMMA ModelsTypeStep ==
    WorldTyped /\ ModelsTyped /\ HistoryTyped /\ [LoopNext]_loopVars
        => (ModelsTyped /\ HistoryTyped)'
<1> SUFFICES ASSUME WorldTyped, ModelsTyped, HistoryTyped, [LoopNext]_loopVars
             PROVE  (ModelsTyped /\ HistoryTyped)'
  OBVIOUS
<1> USE DEF ModelsTyped, HistoryTyped
<1>1. CASE Evaluated
  <2>1. PICK auc \in 1..MaxAuc :
          \/ End("unproductive") /\ UNCHANGED <<champion, approvals>>
          \/ /\ End("productive")
             /\ champion' = [data |-> training, auc |-> auc]
             /\ approvals' = approvals \cup {champion'}
    BY <1>1 DEF Evaluated
  <2>2. HistoryTyped'
    BY <2>1, EndTyped DEF Ends
  <2>3. training \in Epochs /\ training' = NoExecution /\ served' = served
    BY <1>1 DEF Evaluated
  <2>4. [data |-> training, auc |-> auc] \in Candidates
    BY <2>3 DEF Candidates
  <2> QED BY <2>1, <2>2, <2>3, <2>4
<1>2. CASE ExecutionFails
  BY <1>2, EndTyped DEF ExecutionFails, Ends
<1>3. CASE Preprocess
  <2>1. curated \in Epochs
    BY LoopConstants DEF WorldTyped, Epochs
  <2> QED BY <1>3, <2>1 DEF Preprocess
<1>4. ASSUME NEW p \in Candidates, DeployPackage(p) \/ DeployFails(p)
      PROVE  (ModelsTyped /\ HistoryTyped)'
  BY <1>4 DEF DeployPackage, DeployFails, Handled
<1>5. CASE /\ UNCHANGED <<champion, approvals, served, history>>
           /\ training' \in {training, Started}
  BY <1>5
<1>6. \/ Evaluated \/ ExecutionFails \/ Preprocess
      \/ \E p \in Candidates : DeployPackage(p) \/ DeployFails(p)
      \/ UNCHANGED <<champion, approvals, served, history>> /\ training' \in {training, Started}
  BY DEF LoopNext, loopVars, Drift, CurateData, Acknowledge, Evaluate, EvaluateFails,
         HandleViolation, HandleViolationFails, Cool
<1> QED BY <1>1, <1>2, <1>3, <1>4, <1>5, <1>6

LEMMA CountersTypeStep == CountersTyped /\ [LoopNext]_loopVars => CountersTyped'
<1> SUFFICES ASSUME CountersTyped, [LoopNext]_loopVars PROVE CountersTyped'
  OBVIOUS
<1>1. \/ sent' = sent
      \/ sent > 0 /\ sent' = sent - 1
      \/ sent < MaxViolations /\ sent' = sent + 1
      \/ sent + 2 <= MaxViolations /\ sent' = sent + 2
  BY DEF LoopNext, loopVars, Drift, CurateData, Acknowledge, Evaluate,
         EvaluateFails, HandleViolation, HandleViolationFails, Cool, Preprocess, Evaluated,
         ExecutionFails, DeployPackage, DeployFails, Handled
<1>2. troubles' = troubles \/ (troubles < MaxTroubles /\ troubles' = troubles + 1)
  BY DEF LoopNext, loopVars, Drift, CurateData, Acknowledge, Evaluate,
         EvaluateFails, HandleViolation, HandleViolationFails, Cool, Preprocess, Evaluated,
         ExecutionFails, DeployPackage, DeployFails, Handled, Trouble
<1> QED BY <1>1, <1>2, LoopConstants DEF CountersTyped

LEMMA SignalsTypeStep == SignalsTyped /\ [LoopNext]_loopVars => SignalsTyped'
<1> SUFFICES ASSUME SignalsTyped, [LoopNext]_loopVars PROVE SignalsTyped'
  OBVIOUS
<1>1. cooling' \in {cooling, TRUE, FALSE}
  BY DEF LoopNext, loopVars, Drift, CurateData, Acknowledge, Evaluate, EvaluateFails,
         HandleViolation, HandleViolationFails, Cool, Preprocess, Evaluated, ExecutionFails,
         DeployPackage, DeployFails, Handled
<1>2. told' = told \/ told' = {} \/ \E reason \in Reasons : told' = told \cup {reason}
  <2>1. /\ "handler error" \in Reasons /\ "pipeline failed" \in Reasons
        /\ "loop stalled" \in Reasons /\ "endpoint failed" \in Reasons
    BY DEF Reasons
  <2> QED BY <2>1
          DEF LoopNext, loopVars, Drift, CurateData, Acknowledge, Evaluate, EvaluateFails,
              HandleViolation, HandleViolationFails, Cool, Preprocess, Evaluated,
              ExecutionFails, DeployPackage, DeployFails, Handled, Tell, StallReported
<1> QED BY <1>1, <1>2 DEF SignalsTyped

LEMMA LoopTypeStep == LoopTypeOK /\ [LoopNext]_loopVars => LoopTypeOK'
<1>1. LoopTypeOK' <=>
          (WorldTyped /\ ModelsTyped /\ HistoryTyped /\ CountersTyped /\ SignalsTyped)'
  BY LoopTypeParts, PTL
<1> QED BY <1>1, LoopTypeParts, WorldTypeStep, ModelsTypeStep, CountersTypeStep, SignalsTypeStep

-----------------------------------------------------------------------------
(***************************************************************************)
(* The bus and the access.                                                 *)
(***************************************************************************)
LEMMA BusTypeStart == BusInit => BusTypeOK
BY DEF BusInit, BusTypeOK

LEMMA BusTypeStep == BusTypeOK /\ [BusNext]_busVars => BusTypeOK'
<1> SUFFICES ASSUME BusTypeOK, [BusNext]_busVars PROVE BusTypeOK'
  OBVIOUS
<1> USE DEF BusTypeOK
<1>1. CASE UNCHANGED busVars
  BY <1>1 DEF busVars
<1>2. ASSUME NEW e \in Stages, PutEvent(e) PROVE BusTypeOK'
  BY <1>2 DEF PutEvent
<1>3. ASSUME NEW e \in Stages, NEW n \in Numbers, Notify(e, n) PROVE BusTypeOK'
  <2>1. /\ events' = events /\ UNCHANGED <<active, executions>>
        /\ events[n] # Unused /\ pending' \subseteq pending
    BY <1>3 DEF Notify, Take, Unused
  <2> QED BY <1>3, <2>1 DEF Notify, Alert
<1>4. ASSUME NEW e \in Stages, NEW n \in Numbers, DeployModel(e, n) PROVE BusTypeOK'
  <2>1. /\ events' = events /\ UNCHANGED <<active, executions>>
        /\ events[n] # Unused /\ pending' \subseteq pending
    BY <1>4 DEF DeployModel, Take, Unused
  <2> QED BY <1>4, <2>1 DEF DeployModel, Alert
<1>5. ASSUME NEW e \in Stages, NEW n \in Numbers, Retrain(e, n) PROVE BusTypeOK'
  BY <1>5 DEF Retrain, Take, StartExecution
<1>7. ASSUME NEW e \in Stages, NEW n \in Numbers, RetrainAlarms(e, n) PROVE BusTypeOK'
  <2>1. /\ events' = events /\ pending' \subseteq pending
        /\ <<e, n>> \in pending /\ events[n].type = "drift"
    BY <1>7 DEF RetrainAlarms, Take
  <2>2. events[n].type \in Types /\ events[n].of \in Stages
    BY <2>1 DEF Unused
  <2>3. \/ UNCHANGED <<active, executions>>
        \/ /\ active' = [active EXCEPT ![e] = TRUE]
           /\ executions' = executions \cup {<<e, n>>}
    BY <1>7 DEF RetrainAlarms, StartExecution
  <2>4. active' \in [Stages -> BOOLEAN]
    BY <2>3
  <2>5. executions' \subseteq Stages \X Numbers
    BY <2>1, <2>3
  <2>6. alerted' \in [Stages -> SUBSET [type: Types, of: Stages]]
    BY <1>7, <2>1, <2>2 DEF RetrainAlarms, Alert
  <2> QED BY <2>1, <2>4, <2>5, <2>6
<1>6. ASSUME NEW e \in Stages, CoolDown(e) PROVE BusTypeOK'
  BY <1>6 DEF CoolDown
<1> QED BY <1>1, <1>2, <1>3, <1>4, <1>5, <1>6, <1>7 DEF BusNext

LEMMA ReadsComeFrom ==
    ASSUME NEW r \in Roles, NEW x, <<"GetObject", x>> \in Grants(r)
    PROVE  x \in Objects
<1>1. \/ <<"GetObject", x>> \in ValidateGrants \/ <<"GetObject", x>> \in PipelineGrants
      \/ <<"GetObject", x>> \in ModelGrants \/ <<"GetObject", x>> \in DeployGrants
      \/ <<"GetObject", x>> \in ProxyGrants \/ <<"GetObject", x>> \in DriftGrants
      \/ <<"GetObject", x>> \in RetrainGrants \/ <<"GetObject", x>> \in WebsiteGrants
  BY DEF Grants, Roles
<1> USE DEF Get, List, PutIn, Create, Describe, Calls, Objects, Steps, Curated
<1>2. <<"GetObject", x>> \in ValidateGrants => x \in Objects
  BY DEF ValidateGrants
<1>3. <<"GetObject", x>> \in PipelineGrants => x \in Objects
  BY DEF PipelineGrants
<1>4. <<"GetObject", x>> \in ModelGrants => x \in Objects
  BY DEF ModelGrants
<1>5. <<"GetObject", x>> \in DriftGrants => x \in Objects
  BY DEF DriftGrants
<1>6. <<"GetObject", x>> \in WebsiteGrants => x \in Objects
  BY DEF WebsiteGrants
<1>7. <<"GetObject", x>> \notin DeployGrants
  BY DEF DeployGrants
<1>8. <<"GetObject", x>> \notin ProxyGrants
  BY DEF ProxyGrants
<1>9. <<"GetObject", x>> \notin RetrainGrants
  BY DEF RetrainGrants
<1> QED BY <1>1, <1>2, <1>3, <1>4, <1>5, <1>6, <1>7, <1>8, <1>9

LEMMA AccessTypeStart == AccessInit => AccessTypeOK
BY DEF AccessInit, AccessTypeOK, Origins

LEMMA AccessTypeStep == AccessTypeOK /\ [AccessNext]_accessVars => AccessTypeOK'
<1> SUFFICES ASSUME AccessTypeOK, [AccessNext]_accessVars PROVE AccessTypeOK'
  OBVIOUS
<1> USE DEF AccessTypeOK
<1>1. CASE UNCHANGED accessVars
  BY <1>1 DEF accessVars
<1>2. ASSUME NEW r \in Roles, NEW call \in CodeCalls(r) \cup Grants(r), Call(r, call)
      PROVE  AccessTypeOK'
  <2>1. CASE call \in Grants(r)
    <3>1. denied' = denied /\ from' = Effect(r, call)
      BY <1>2, <2>1 DEF Call
    <3>2. CASE call[1] = "GetObject"
      <4>1. call[2] \in Objects
        BY <2>1, <3>2, GrantsArePairs, ReadsComeFrom
      <4> QED BY <3>1, <3>2, <4>1 DEF Effect
    <3>3. CASE call[1] = "PutObject"
      <4>1. from' = [from EXCEPT ![call[2]] = @ \cup from[r]]
        BY <3>1, <3>3 DEF Effect
      <4> QED BY <3>1, <4>1
    <3>4. CASE call[1] \notin {"GetObject", "PutObject"}
      BY <3>1, <3>4 DEF Effect
    <3> QED BY <3>2, <3>3, <3>4
  <2>2. CASE call \notin Grants(r)
    <3>1. from' = from /\ denied' = denied \cup {<<r, call>>} /\ call \in CodeCalls(r)
      BY <1>2, <2>2 DEF Call
    <3>2. \A d \in denied' : d \in denied \/ (d[1] = r /\ d[2] = call)
      BY <3>1
    <3> QED BY <3>1, <3>2
  <2> QED BY <2>1, <2>2
<1> QED BY <1>1, <1>2 DEF AccessNext

-----------------------------------------------------------------------------
(***************************************************************************)
(* The account.                                                            *)
(***************************************************************************)
Phases == {"idle", "deploying", "recording", "destroying", "rejected", "failed"}
Progressed == {"none", "put", "complete"}
Failures == FixedNames \cup {"export in use", "recorder limit"}

RestTyped ==
    /\ phase \in [Environments -> Phases]
    /\ blocked \in BOOLEAN /\ holders \subseteq Environments
    /\ recording \in [ConfigResources -> Progressed]
    /\ names \in [Environments -> SUBSET FixedNames]
    /\ failures \in [Environments -> SUBSET Failures]
    /\ edits \in 0..MaxEdits /\ teardowns \in 0..MaxTeardowns

LEMMA AccountTypeParts == AccountTypeOK <=> FilesTyped /\ RestTyped
BY DEF AccountTypeOK, FilesTyped, RestTyped, Phases, Progressed, Failures


LEMMA AccountTypeStart == AccountInit => FilesTyped /\ RestTyped
<1> SUFFICES ASSUME AccountInit PROVE FilesTyped /\ RestTyped
  OBVIOUS
<1>1. FilesTyped
  BY BlockInit DEF BlockInv
<1>2. RestTyped
  <2>1. "idle" \in Phases /\ "none" \in Progressed /\ 0 \in 0..MaxEdits /\ 0 \in 0..MaxTeardowns
    BY AccountConstants DEF Phases, Progressed
  <2> QED BY <2>1 DEF AccountInit, RestTyped
<1> QED BY <1>1, <1>2

LEMMA FilesTypeStep == FilesTyped /\ [AccountNext]_accountVars => FilesTyped'
<1> SUFFICES ASSUME FilesTyped, [AccountNext]_accountVars PROVE FilesTyped'
  OBVIOUS
<1> USE DEF FilesTyped
<1>1. CASE UNCHANGED <<flags, deployed>>
  BY <1>1
<1>2. ASSUME NEW e \in Environments, NEW f \in Flags, Edit(e, f) PROVE FilesTyped'
  BY <1>2 DEF Edit
<1>3. ASSUME NEW e \in Environments, NEW s \in Stacks, DeployStack(e, s) PROVE FilesTyped'
  BY <1>3 DEF DeployStack, Template
<1>4. ASSUME NEW e \in Environments, NEW s \in Stacks, DestroyStack(e, s) PROVE FilesTyped'
  <2>1. deployed' = deployed \/ deployed' = [deployed EXCEPT ![e][s] = Absent]
    BY <1>4 DEF DestroyStack
  <2>2. UNCHANGED flags
    BY <1>4 DEF DestroyStack
  <2>3. Absent \in SUBSET (Flags \cup Absent)
    OBVIOUS
  <2>4. [deployed[e] EXCEPT ![s] = Absent] \in [Stacks -> SUBSET (Flags \cup Absent)]
    BY <2>3
  <2> QED BY <2>1, <2>2, <2>4
<1>5. \/ UNCHANGED <<flags, deployed>>
      \/ \E e \in Environments, f \in Flags : Edit(e, f)
      \/ \E e \in Environments, s \in Stacks : DeployStack(e, s) \/ DestroyStack(e, s)
  BY DEF AccountNext, Progress, accountVars, Deploy, Destroy, CleanUp, FailStack, Record,
         Recorded, Finish, Destroyed
<1> QED BY <1>1, <1>2, <1>3, <1>4, <1>5

LEMMA RestTypeStep == RestTyped /\ [AccountNext]_accountVars => RestTyped'
<1> SUFFICES ASSUME RestTyped, [AccountNext]_accountVars PROVE RestTyped'
  OBVIOUS
<1> USE AccountConstants DEF RestTyped
<1>1. CASE UNCHANGED accountVars
  BY <1>1 DEF accountVars
<1>2. ASSUME NEW e \in Environments, NEW f \in Flags, Edit(e, f) PROVE RestTyped'
  BY <1>2 DEF Edit
<1>3. ASSUME NEW e \in Environments, Deploy(e) PROVE RestTyped'
  BY <1>3 DEF Deploy, Goes, Phases
<1>4. ASSUME NEW e \in Environments, Destroy(e) PROVE RestTyped'
  BY <1>4 DEF Destroy, Goes, Phases
<1>5. ASSUME NEW e \in Environments, CleanUp(e) PROVE RestTyped'
  BY <1>5 DEF CleanUp
<1>6. ASSUME NEW e \in Environments, NEW s \in Stacks, DeployStack(e, s) PROVE RestTyped'
  <2>1. phase' \in [Environments -> Phases]
    BY <1>6 DEF DeployStack, Goes, Phases
  <2>2. blocked' \in BOOLEAN /\ holders' \subseteq Environments
    BY <1>6 DEF DeployStack, Block, PutBlock, DeleteBlock
  <2>3. recording' \in [ConfigResources -> Progressed]
    BY <1>6 DEF DeployStack, NoRecording, Progressed
  <2> QED BY <1>6, <2>1, <2>2, <2>3 DEF DeployStack
<1>7. ASSUME NEW e \in Environments, NEW s \in Stacks, FailStack(e, s) PROVE RestTyped'
  <2>1. Hindrances(e, s) \subseteq Failures
    BY DEF Hindrances, Retains, Failures, FixedNames
  <2>2. blocked' \in BOOLEAN /\ holders' \subseteq Environments
    BY <1>7 DEF FailStack
  <2> QED BY <1>7, <2>1, <2>2 DEF FailStack, Goes, Phases
<1>8. ASSUME NEW e \in Environments, NEW s \in Stacks, DestroyStack(e, s) PROVE RestTyped'
  <2>1. Retains(s) \subseteq FixedNames /\ "export in use" \in Failures
    BY DEF Retains, FixedNames, Failures
  <2>2. phase' \in [Environments -> Phases] /\ failures' \in [Environments -> SUBSET Failures]
    <3>1. "failed" \in Phases
      BY DEF Phases
    <3>2. phase' = phase \/ phase' = [phase EXCEPT ![e] = "failed"]
      BY <1>8 DEF DestroyStack, Goes
    <3>3. failures' = failures \/ failures' = [failures EXCEPT ![e] = @ \cup {"export in use"}]
      BY <1>8 DEF DestroyStack
    <3> QED BY <2>1, <3>1, <3>2, <3>3
  <2>3. blocked' \in BOOLEAN /\ holders' \subseteq Environments
    BY <1>8 DEF DestroyStack, DeleteBlock
  <2>4. recording' \in [ConfigResources -> Progressed]
    BY <1>8 DEF DestroyStack, NoRecording, Progressed
  <2>5. names' \in [Environments -> SUBSET FixedNames]
    BY <1>8, <2>1 DEF DestroyStack
  <2> QED BY <1>8, <2>2, <2>3, <2>4, <2>5 DEF DestroyStack
<1>9. ASSUME NEW e \in Environments, Record(e) PROVE RestTyped'
  <2>1. recording' \in [ConfigResources -> Progressed]
    BY <1>9 DEF Record, Put, Complete, Progressed
  <2> QED BY <1>9, <2>1 DEF Record
<1>10. ASSUME NEW e \in Environments, Recorded(e) \/ Finish(e) \/ Destroyed(e) PROVE RestTyped'
  BY <1>10 DEF Recorded, Finish, Destroyed, Goes, Phases
<1> QED BY <1>1, <1>2, <1>3, <1>4, <1>5, <1>6, <1>7, <1>8, <1>9, <1>10
        DEF AccountNext, Progress

-----------------------------------------------------------------------------
(***************************************************************************)
(* Side by side: each step is one of one part, and leaves the others.      *)
(***************************************************************************)
PlatformInv ==
    /\ IInv /\ ResultsTypeOK /\ ListInv
    /\ LoopTypeOK /\ (FilesTyped /\ RestTyped) /\ BusTypeOK /\ AccessTypeOK

\* The variables of the website, the loop, the account, the bus and the access
\* keep their types, however the parts run, for every value of the constants.
THEOREM PlatformTypes == MCSpec => []PlatformTypeOK
<1>1. MCInit => PlatformInv
  BY InitInvariant, ResultsStart, ListStart, LoopTypeStart, AccountTypeStart, BusTypeStart,
     AccessTypeStart DEF MCInit, PlatformInv, ResultsInv
<1>2. MCNext => /\ [PredictNext]_predictVars /\ [ResultsNext]_resultsVars
                /\ [ListNext]_listVars /\ [LoopNext]_loopVars
                /\ [AccountNext]_accountVars /\ [BusNext]_busVars
                /\ [AccessNext]_accessVars
  BY DEF MCNext
<1>3. PlatformInv /\ [MCNext]_<<part, predictVars, resultsVars, listVars, loopVars,
                                 accountVars, busVars, accessVars>> => PlatformInv'
  BY <1>2, StepInvariant, ResultsTypeStep, ListStep, LoopTypeStep, FilesTypeStep, RestTypeStep,
     BusTypeStep, AccessTypeStep DEF PlatformInv
<1>4. PlatformInv => PlatformTypeOK
  BY AccountTypeParts DEF PlatformInv, PlatformTypeOK, IInv, ListInv
<1> QED BY <1>1, <1>3, <1>4, PTL DEF MCSpec

=============================================================================
