----------------------------- MODULE ClosedLoop -----------------------------
(***************************************************************************)
(* The whole loop, as infra/stacks/monitoring_stack.py and                 *)
(* serving_stack.py wire it: the drift handler scores what visitors send   *)
(* against the baseline of the served package, a violation starts a        *)
(* training execution, its gate registers a better package, the approval   *)
(* (automatic, as in infra/config/dev.yaml) deploys it, and alarms tell    *)
(* the operators when a part of this fails.                                *)
(*                                                                         *)
(* The world drifts: its epochs are told apart by the drift statistic, and *)
(* the curated data follow it or do not.  Retrain, Promotion, Deploy and   *)
(* DriftMonitor have the calls inside each of these steps; here a step is  *)
(* what comes of them, and every outcome they allow is possible.           *)
(***************************************************************************)
EXTENDS Integers, FiniteSets, Sequences

CONSTANTS
    MaxEpoch,        \* bound: how often the world changes
    MaxAuc,          \* AUCs are 1..MaxAuc
    NoProgressLimit, \* RETRAIN_NO_PROGRESS_LIMIT
    MaxViolations,   \* bound: violation events in flight
    MaxTroubles      \* bound: failures of any kind

ASSUME LoopConstants ==
    /\ MaxEpoch \in Nat /\ MaxAuc \in Nat \ {0} /\ NoProgressLimit \in Nat \ {0}
    /\ MaxViolations \in Nat \ {0} /\ MaxTroubles \in Nat

VARIABLES
    world,        \* what visitors send now
    curated,      \* what the curated data describe
    captured,     \* epochs of the captures in the window to score
    champion,     \* the newest approved package
    approvals,    \* approval events not handled yet, by their packages
    served,       \* the package behind the endpoint
    sent,         \* violation events not handled yet
    training,     \* the data of the active execution, Started or NoExecution
    history,      \* how the newest executions ended, newest first
    cooling,      \* an execution started less than RETRAIN_COOLDOWN_HOURS ago
    told,         \* what alarms and notifications told since the last look
    troubles

loopVars == <<world, curated, captured, champion, approvals, served, sent,
              training, history, cooling, told, troubles>>

Epochs == 0..MaxEpoch
Candidates == [data: Epochs, auc: 1..MaxAuc]
Started == -1        \* an execution that has not read its data yet
NoExecution == -2
Listed == 2 * NoProgressLimit + 1

LoopTypeOK ==
    /\ world \in Epochs /\ curated \in 0..world
    /\ captured \in (SUBSET (0..world)) \ {{}}
    /\ champion \in Candidates /\ approvals \subseteq Candidates /\ served \in Candidates
    /\ sent \in 0..MaxViolations
    /\ training \in Epochs \cup {Started, NoExecution}
    /\ history \in Seq({"productive", "unproductive", "failed"}) /\ Len(history) <= Listed
    /\ cooling \in BOOLEAN
    /\ told \subseteq {"handler error", "pipeline failed", "loop stalled", "endpoint failed"}
    /\ troubles \in 0..MaxTroubles

LoopInit ==
    /\ world = 0 /\ curated = 0 /\ captured = {0}
    /\ champion = [data |-> 0, auc |-> 1] /\ served = champion
    /\ approvals = {} /\ sent = 0
    /\ training = NoExecution /\ history = <<>> /\ cooling = FALSE
    /\ told = {} /\ troubles = 0

Trouble == troubles < MaxTroubles /\ troubles' = troubles + 1
Tell(reason) == told' = told \cup {reason}
Idle == training = NoExecution

-----------------------------------------------------------------------------
(***************************************************************************)
(* The world and the operators.                                            *)
(***************************************************************************)
Drift ==
    /\ world < MaxEpoch
    /\ world' = world + 1
    /\ captured' = captured \cup {world'}
    /\ UNCHANGED <<curated, champion, approvals, served, sent, training, history,
                   cooling, told, troubles>>

\* Uploads bring the curated data up to date, if anybody makes them.
CurateData ==
    /\ curated < world
    /\ curated' = world
    /\ UNCHANGED <<world, captured, champion, approvals, served, sent, training,
                   history, cooling, told, troubles>>

\* An operator reads the alerts, and does nothing about them.
Acknowledge ==
    /\ told # {}
    /\ told' = {}
    /\ UNCHANGED <<world, curated, captured, champion, approvals, served, sent,
                   training, history, cooling, troubles>>

-----------------------------------------------------------------------------
(***************************************************************************)
(* The hourly evaluation.                                                  *)
(***************************************************************************)

\* A window of other epochs than the baseline's has drifted; a mixed one may
\* have, and one of the same epoch has not.
MayDrift == captured # {served.data}
MustDrift == served.data \notin captured

NextWindow == captured' = {world}

\* The window is scored.  The retry of a run whose reply from put_events was
\* lost scores it again and emits a second event.
Evaluate ==
    /\ \/ ~MustDrift /\ UNCHANGED <<sent, troubles>>
       \/ MayDrift /\ sent < MaxViolations /\ sent' = sent + 1 /\ UNCHANGED troubles
       \/ MayDrift /\ sent + 2 <= MaxViolations /\ sent' = sent + 2 /\ Trouble
    /\ NextWindow
    /\ UNCHANGED <<world, curated, champion, approvals, served, training, history,
                   cooling, told>>

\* The run fails with all its retries; DriftErrors.
EvaluateFails ==
    /\ Trouble
    /\ Tell("handler error")
    /\ NextWindow
    /\ UNCHANGED <<world, curated, champion, approvals, served, sent, training,
                   history, cooling>>

-----------------------------------------------------------------------------
(***************************************************************************)
(* The retraining handler.                                                 *)
(***************************************************************************)

\* Completed executions since the last one that registered a package.
Unproductive ==
    LET ends == {k \in 1..Len(history) : history[k] = "productive"}
    IN  {k \in 1..Len(history) : history[k] = "unproductive" /\ \A e \in ends : k < e}

Stalled == Cardinality(Unproductive) >= NoProgressLimit

\* Mutant of StallReported: the metric filter names another event.
StallReportedNot == {}

\* RetrainLoopStalledFilter picks out the handler's "retrain_loop_stalled".
StallReported == {"loop stalled"}

Suppressed == ~Idle \/ cooling

HandleViolation ==
    /\ sent > 0
    /\ sent' = sent - 1
    /\ \/ /\ Suppressed
          /\ UNCHANGED <<training, cooling, told>>
       \/ /\ ~Suppressed /\ Stalled
          /\ told' = told \cup StallReported
          /\ UNCHANGED <<training, cooling>>
       \/ /\ ~Suppressed /\ ~Stalled
          /\ training' = Started
          /\ cooling' = TRUE
          /\ UNCHANGED told
    /\ UNCHANGED <<world, curated, captured, champion, approvals, served, history,
                   troubles>>

\* An attempt fails, and the event is retried or dropped; RetrainErrors.
HandleViolationFails ==
    /\ sent > 0
    /\ Trouble
    /\ Tell("handler error")
    /\ sent' \in {sent, sent - 1}
    /\ UNCHANGED <<world, curated, captured, champion, approvals, served, training,
                   history, cooling>>

Cool ==
    /\ cooling
    /\ cooling' = FALSE
    /\ UNCHANGED <<world, curated, captured, champion, approvals, served, sent,
                   training, history, told, troubles>>

-----------------------------------------------------------------------------
(***************************************************************************)
(* The training execution.                                                 *)
(***************************************************************************)
End(how) ==
    LET ends == <<how>> \o history
    IN  history' = SubSeq(ends, 1, IF Len(ends) < Listed THEN Len(ends) ELSE Listed)

Preprocess ==
    /\ training = Started
    /\ training' = curated
    /\ UNCHANGED <<world, curated, captured, champion, approvals, served, sent,
                   history, cooling, told, troubles>>

\* The gate asks for an improvement on the champion.
Passes(auc) == auc > champion.auc

Evaluated ==
    /\ training \in Epochs
    /\ training' = NoExecution
    /\ \E auc \in 1..MaxAuc :
          \/ /\ ~Passes(auc)
             /\ End("unproductive")
             /\ UNCHANGED <<champion, approvals>>
          \/ /\ Passes(auc)
             /\ End("productive")
             /\ champion' = [data |-> training, auc |-> auc]
             /\ approvals' = approvals \cup {champion'}
    /\ UNCHANGED <<world, curated, captured, served, sent, cooling, told, troubles>>

\* The execution fails or is stopped; PipelineFailureRule.
ExecutionFails ==
    /\ ~Idle
    /\ Trouble
    /\ Tell("pipeline failed")
    /\ training' = NoExecution
    /\ End("failed")
    /\ UNCHANGED <<world, curated, captured, champion, approvals, served, sent, cooling>>

-----------------------------------------------------------------------------
(***************************************************************************)
(* The deploy handler and the endpoint.                                    *)
(***************************************************************************)
Handled(p) ==
    /\ p \in approvals
    /\ approvals' = approvals \ {p}
    /\ UNCHANGED <<world, curated, captured, champion, sent, training, history, cooling>>

\* Events are handled in any order: an older package may come last.
DeployPackage(p) ==
    /\ Handled(p)
    /\ served' = p
    /\ UNCHANGED <<told, troubles>>

\* The handler raises, DeployErrors, or the endpoint rolls back,
\* EndpointFailureRule.
DeployFails(p) ==
    /\ Handled(p)
    /\ Trouble
    /\ Tell("handler error") \/ Tell("endpoint failed")
    /\ UNCHANGED served

LoopNext ==
    \/ Drift \/ CurateData \/ Acknowledge
    \/ Evaluate \/ EvaluateFails
    \/ HandleViolation \/ HandleViolationFails \/ Cool
    \/ Preprocess \/ Evaluated \/ ExecutionFails
    \/ \E p \in Candidates : DeployPackage(p) \/ DeployFails(p)

\* The schedule fires, events are delivered, executions end and time passes.
\* Nobody has to bring new data.
LoopFairness ==
    /\ WF_loopVars(Evaluate) /\ WF_loopVars(HandleViolation) /\ WF_loopVars(Cool)
    /\ WF_loopVars(Preprocess) /\ WF_loopVars(Evaluated)
    /\ \A p \in Candidates : WF_loopVars(DeployPackage(p))

LoopSpec == LoopInit /\ [][LoopNext]_loopVars /\ LoopFairness

-----------------------------------------------------------------------------
\* The endpoint serves a package trained on what visitors send.
Corrected == served.data = world

(***************************************************************************)
(* Drift that the platform sees is either corrected for good, or its       *)
(* operators are told again and again: no loss, retry, reordering, failed  *)
(* gate or exhausted loop leaves the endpoint behind the world in silence. *)
(***************************************************************************)
CorrectedOrTold == <>[]Corrected \/ []<>(told # {})

=============================================================================
