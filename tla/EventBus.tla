----------------------------- MODULE EventBus ------------------------------
(***************************************************************************)
(* The default event bus of the account, which dev and prod share          *)
(* (infra/config/prod.yaml, infra/stacks/monitoring_stack.py): what the    *)
(* rules of each environment match, and what comes of it.                  *)
(*                                                                         *)
(* An event is about one environment: its package group, its endpoint, its *)
(* pipeline or its drift evaluation.  Each rule that matches gets it at    *)
(* least once, in any order and at any time.                               *)
(***************************************************************************)
EXTENDS Integers, FiniteSets

CONSTANTS
    Stages,
    MaxEvents      \* bound: events put on the bus

ASSUME BusConstants == Stages # {} /\ MaxEvents \in Nat

VARIABLES
    events,      \* event -> its type, state and environment; 0 while unused
    pending,     \* deliveries to make: environment, rule and event
    alerted,     \* environment -> what the events were that its operators were alerted for
    active,      \* environment -> it has an active or recent training execution
    executions   \* training executions: the environment and the event

busVars == <<events, pending, alerted, active, executions>>

\* The states each type of event tells apart.
States(type) ==
    CASE type = "approval" -> {"Approved", "Rejected"}
      [] type = "endpoint" -> {"IN_SERVICE", "FAILED", "ROLLING_BACK", "UPDATE_ROLLBACK_FAILED"}
      [] type = "execution" -> {"Succeeded", "Failed", "Stopped"}
      [] type = "drift" -> {"DriftDetected"}

Types == {"approval", "endpoint", "execution", "drift"}

\* The states the rule for a type of event asks for.
Wanted(type) ==
    CASE type = "approval" -> {"Approved"}
      [] type = "endpoint" -> {"FAILED", "ROLLING_BACK", "UPDATE_ROLLBACK_FAILED"}
      [] type = "execution" -> {"Failed", "Stopped"}
      [] type = "drift" -> {"DriftDetected"}

\* Mutant of Named: PipelineFailureRule does not name the pipeline.
NamedPipelineNot == {"approval", "endpoint"}

\* The rules that name what is theirs: the package group, the endpoint, the
\* pipeline.  DriftViolationRule asks for the source and the status only.
Named == {"approval", "endpoint", "execution"}

\* One rule for each type of event and environment.
Matches(e, event) ==
    /\ event.state \in Wanted(event.type)
    /\ event.type \in Named => event.of = e

Unused == [type |-> "none", state |-> "unused", of |-> "nobody"]
Numbers == 1..MaxEvents

BusTypeOK ==
    /\ \A n \in Numbers :
          events[n] = Unused \/ /\ events[n].type \in Types /\ events[n].of \in Stages
                                /\ events[n].state \in States(events[n].type)
    /\ pending \subseteq Stages \X Numbers
    /\ alerted \in [Stages -> SUBSET [type: Types, of: Stages]]
    /\ active \in [Stages -> BOOLEAN]
    /\ executions \subseteq Stages \X Numbers

BusInit ==
    /\ events = [n \in Numbers |-> Unused]
    /\ pending = {} /\ executions = {}
    /\ alerted = [e \in Stages |-> {}]
    /\ active = [e \in Stages |-> FALSE]

\* SageMaker or a drift handler puts an event about environment e on the bus.
PutEvent(e) ==
    \E n \in Numbers, type \in Types : \E state \in States(type) :
        /\ events[n] = Unused /\ \A m \in 1..(n - 1) : events[m] # Unused
        /\ events' = [events EXCEPT ![n] = [type |-> type, state |-> state, of |-> e]]
        /\ pending' = pending \cup {<<d, n>> : d \in {d \in Stages : Matches(d, events'[n])}}
        /\ UNCHANGED <<alerted, active, executions>>

\* A delivery is over, or it is made once more.
Take(e, n, type) ==
    /\ <<e, n>> \in pending
    /\ events[n].type = type
    /\ pending' \in {pending, pending \ {<<e, n>>}}
    /\ UNCHANGED events

\* The ops topic of e gets a notification, or an alarm, that event n leads to.
Alert(e, n) ==
    alerted' = [alerted EXCEPT ![e] = @ \cup {[type |-> events[n].type, of |-> events[n].of]}]

\* The ops topic of e tells of the endpoint or of the execution.
Notify(e, n) ==
    /\ \E type \in {"endpoint", "execution"} : Take(e, n, type)
    /\ Alert(e, n)
    /\ UNCHANGED <<active, executions>>

\* The deploy handler may describe packages of its own group only: for any
\* other one it raises, and DeployErrors tells of it.
DeployModel(e, n) ==
    /\ Take(e, n, "approval")
    /\ IF events[n].of = e THEN UNCHANGED alerted ELSE Alert(e, n)
    /\ UNCHANGED <<active, executions>>

StartExecution(e, n) ==
    /\ ~active[e]
    /\ active' = [active EXCEPT ![e] = TRUE]
    /\ executions' = executions \cup {<<e, n>>}

\* The retrain handler starts an execution of its own pipeline, unless one is
\* active or recent, or has the same token; the event's endpoint is not read.
Retrain(e, n) ==
    /\ Take(e, n, "drift")
    /\ \/ active[e] /\ UNCHANGED <<active, executions>>
       \/ StartExecution(e, n)
    /\ UNCHANGED alerted

\* A call of the handler fails, the start itself or its reply included, and
\* RetrainErrors tells of it; or it finds its loop stalled, starts nothing and
\* logs that, and RetrainLoopStalled tells of it.
RetrainAlarms(e, n) ==
    /\ Take(e, n, "drift")
    /\ \/ UNCHANGED <<active, executions>>
       \/ StartExecution(e, n)
    /\ Alert(e, n)

CoolDown(e) ==
    /\ active[e]
    /\ active' = [active EXCEPT ![e] = FALSE]
    /\ UNCHANGED <<events, pending, alerted, executions>>

BusNext ==
    \E e \in Stages :
        \/ PutEvent(e)
        \/ \E n \in Numbers : Notify(e, n) \/ DeployModel(e, n) \/ Retrain(e, n) \/ RetrainAlarms(e, n)
        \/ CoolDown(e)

BusSpec == BusInit /\ [][BusNext]_busVars

-----------------------------------------------------------------------------
(***************************************************************************)
(* What happens to the packages, the endpoint or the executions of one     *)
(* environment alerts the operators of that environment only, though every *)
(* event of both is on the same bus and a handler that meets a foreign     *)
(* package would raise its alarm (serving_stack.py:173-207,                *)
(* monitoring_stack.py:223-254).  A drift violation does not keep to this: *)
(* its rule names nothing (monitoring_stack.py:214-221), so the other      *)
(* environment's retrain handler runs, and may fail or stall, too.         *)
(***************************************************************************)
OwnAlertsOnly ==
    \A e \in Stages : \A alert \in alerted[e] : alert.type # "drift" => alert.of = e

(***************************************************************************)
(* infra/stacks/monitoring_stack.py: "A violation starts one training      *)
(* pipeline execution."                                                    *)
(***************************************************************************)
OneExecutionPerViolation ==
    \A x, y \in executions : x[2] = y[2] => x = y

=============================================================================
