------------------------------ MODULE Retrain ------------------------------
(***************************************************************************)
(* src/src/monitoring/retrain_handler.py: the Lambda that starts one       *)
(* training pipeline execution for a drift violation, unless a run is      *)
(* active, one started recently, or the last runs produced no package.     *)
(*                                                                         *)
(* All its state is elsewhere: it reads the execution list, reads it       *)
(* again together with the package list, and then starts an execution, so  *)
(* what it checked may be out of date when it acts.  The rule that         *)
(* triggers it passes only violation events (monitoring_stack.py), so the  *)
(* handler's filter on the event's status always passes.                   *)
(*                                                                         *)
(* Executions and packages carry creation times, all different, of a clock *)
(* that ticks on its own; the execution list is in creation order.         *)
(***************************************************************************)
EXTENDS Integers, FiniteSets, Sequences

CONSTANTS
    Invocations,      \* Lambda invocations that may run at a time
    Cooldown,         \* RETRAIN_COOLDOWN_HOURS, in clock ticks
    Limit,            \* RETRAIN_NO_PROGRESS_LIMIT
    MaxAttempts,      \* deliveries of one event to Lambda
    Serial,           \* TRUE when no two invocations run at the same time
    Manual,           \* TRUE when operators start executions too
    MaxTime, MaxEvents, MaxExecutions, MaxFaults   \* bounds

ASSUME ConstantsOK ==
    /\ Cooldown \in Nat
    /\ Limit \in Nat \ {0}
    /\ MaxAttempts \in Nat \ {0}
    /\ Serial \in BOOLEAN /\ Manual \in BOOLEAN
    /\ MaxTime \in Nat /\ MaxEvents \in Nat /\ MaxExecutions \in Nat /\ MaxFaults \in Nat

VARIABLES
    now,          \* the clock
    executions,   \* pipeline executions in creation order
    packages,     \* creation times of the model packages, in creation order
    produced,     \* indexes of executions that registered a package (history)
    events,       \* drift violations published so far: 1..events
    pc, event, attempts,   \* invocation -> next call, its event, its deliveries
    listed,       \* invocation -> the execution list it read for the count
    faults        \* failed calls and lost replies so far

vars == <<now, executions, packages, produced, events, pc, event, attempts, listed, faults>>
callVars == <<pc, event, attempts, listed, faults>>
pipelineVars == <<now, executions, packages, produced>>

Active == {"Executing", "Stopping"}
Execution == [kind: {"drift", "manual"}, status: Active \cup {"Succeeded", "Failed", "Stopped"},
              start: 0..MaxTime, event: 0..MaxEvents, token: 0..MaxEvents]
Running == {"blocking", "list_executions", "list_packages", "start"}

TypeOK ==
    /\ now \in 0..MaxTime
    /\ executions \in Seq(Execution) /\ Len(executions) <= MaxExecutions
    /\ packages \in Seq(0..MaxTime)
    /\ produced \subseteq 1..Len(executions)
    /\ events \in 0..MaxEvents
    /\ pc \in [Invocations -> {"idle", "raised"} \cup Running]
    /\ event \in [Invocations -> 0..MaxEvents]
    /\ attempts \in [Invocations -> 0..MaxAttempts]
    /\ listed \in [Invocations -> Seq(Execution)]
    /\ faults \in 0..MaxFaults

Init ==
    /\ now = 0
    /\ executions = <<>>
    /\ packages = <<>>
    /\ produced = {}
    /\ events = 0
    /\ pc = [i \in Invocations |-> "idle"]
    /\ event = [i \in Invocations |-> 0]
    /\ attempts = [i \in Invocations |-> 0]
    /\ listed = [i \in Invocations |-> <<>>]
    /\ faults = 0

\* No execution or package was created at this instant yet.
FreshInstant ==
    /\ \A x \in 1..Len(executions) : executions[x].start # now
    /\ \A k \in 1..Len(packages) : packages[k] # now

Newest(k, s) == SubSeq(s, IF Len(s) > k THEN Len(s) - k + 1 ELSE 1, Len(s))

-----------------------------------------------------------------------------
(***************************************************************************)
(* SageMaker Pipelines, the operators and the clock.                       *)
(***************************************************************************)
Tick ==
    /\ now < MaxTime
    /\ now' = now + 1
    /\ UNCHANGED <<executions, packages, produced, events, callVars>>

SetStatus(x, status) ==
    /\ executions' = [executions EXCEPT ![x].status = status]
    /\ UNCHANGED <<now, events, callVars>>

\* The execution's conditional registration step creates a package.
Register(x) ==
    /\ executions[x].status = "Executing"
    /\ x \notin produced
    /\ FreshInstant
    /\ packages' = Append(packages, now)
    /\ produced' = produced \cup {x}
    /\ UNCHANGED <<now, executions, events, callVars>>

Finish(x) ==
    /\ executions[x].status = "Executing"
    /\ \E status \in {"Succeeded", "Failed", "Stopping"} : SetStatus(x, status)
    /\ UNCHANGED <<packages, produced>>

Stopped(x) ==
    /\ executions[x].status = "Stopping"
    /\ SetStatus(x, "Stopped")
    /\ UNCHANGED <<packages, produced>>

\* StartPipelineExecution.
NewExecution(kind, e, token) ==
    /\ Len(executions) < MaxExecutions
    /\ FreshInstant
    /\ executions' = Append(executions,
           [kind |-> kind, status |-> "Executing", start |-> now, event |-> e, token |-> token])
    /\ UNCHANGED <<now, packages, produced, events>>

StartManually ==
    /\ Manual
    /\ NewExecution("manual", 0, 0)
    /\ UNCHANGED callVars

-----------------------------------------------------------------------------
(***************************************************************************)
(* Delivery: a new violation, or an old one delivered again.               *)
(***************************************************************************)
MayRun == Serial => \A j \in Invocations : pc[j] \notin Running

Deliver(i, e) ==
    /\ pc[i] = "idle"
    /\ MayRun
    /\ pc' = [pc EXCEPT ![i] = "blocking"]
    /\ event' = [event EXCEPT ![i] = e]
    /\ attempts' = [attempts EXCEPT ![i] = 1]
    /\ UNCHANGED <<pipelineVars, listed, faults>>

Violation(i) ==
    /\ events < MaxEvents
    /\ events' = events + 1
    /\ Deliver(i, events')

Redeliver(i) ==
    /\ \E e \in 1..events : Deliver(i, e)
    /\ UNCHANGED events

-----------------------------------------------------------------------------
(***************************************************************************)
(* The handler.  An invocation that ends goes back to "idle".              *)
(***************************************************************************)
Goto(i, step) == pc' = [pc EXCEPT ![i] = step]

\* Mutants of Blocks: forget the cooldown; forget that a long run is still active.
BlocksWhenActive(x) == x.status \in Active
BlocksWhenRecent(x) == now - x.start < Cooldown

\* blocking_execution of the latest execution.
Blocks(x) == x.status \in Active \/ now - x.start < Cooldown

\* list_pipeline_executions, the newest one: suppress or go on.
CheckBlocking(i) ==
    /\ pc[i] = "blocking"
    /\ Goto(i, IF executions # <<>> /\ Blocks(executions[Len(executions)])
               THEN "idle" ELSE "list_executions")
    /\ UNCHANGED <<pipelineVars, events, event, attempts, listed, faults>>

RecentLimit == 2 * Limit + 1

\* list_pipeline_executions, the newest 2 * Limit + 1 of them.
ListExecutions(i) ==
    /\ pc[i] = "list_executions"
    /\ listed' = [listed EXCEPT ![i] = Newest(RecentLimit, executions)]
    /\ Goto(i, "list_packages")
    /\ UNCHANGED <<pipelineVars, events, event, attempts, faults>>

\* _execution_has_model_package: a package between this start and the next.
HasPackage(xs, x, times) ==
    \E k \in 1..Len(times) :
        /\ times[k] > xs[x].start
        /\ x < Len(xs) => times[k] <= xs[x + 1].start

\* Mutant of UnproductiveCount: look at the newest Limit executions only.
UnproductiveCountShort(xs, times) ==
    Cardinality({x \in 1..Len(xs) : x > Len(xs) - Limit /\
        /\ \A y \in x..Len(xs) :
              /\ xs[y].kind = "drift"
              /\ xs[y].status = "Succeeded" => ~HasPackage(xs, y, times)
        /\ xs[x].status = "Succeeded"})

\* _unproductive_retrain_count: succeeded drift runs without a package, newest
\* first, until another kind of run or a productive one.
UnproductiveCount(xs, times) ==
    Cardinality({x \in 1..Len(xs) :
        /\ \A y \in x..Len(xs) :
              /\ xs[y].kind = "drift"
              /\ xs[y].status = "Succeeded" => ~HasPackage(xs, y, times)
        /\ xs[x].status = "Succeeded"})

\* list_model_packages and the count: a stalled loop ends here.
CountUnproductive(i) ==
    /\ pc[i] = "list_packages"
    /\ Goto(i, IF UnproductiveCount(listed[i], Newest(RecentLimit, packages)) >= Limit
               THEN "idle" ELSE "start")
    /\ listed' = [listed EXCEPT ![i] = <<>>]
    /\ UNCHANGED <<pipelineVars, events, event, attempts, faults>>

\* Mutant of Token: a token for each delivery instead of one for each event.
TokenPerAttempt(i) == event[i] + attempts[i] - 1

\* _client_request_token: deterministic in the event, whatever the delivery.
Token(i) == event[i]

Fault == faults < MaxFaults /\ faults' = faults + 1

\* get_champion and start_pipeline_execution, idempotent for one token.
StartExecution(i) ==
    /\ pc[i] = "start"
    /\ IF \E x \in 1..Len(executions) : executions[x].token = Token(i)
       THEN UNCHANGED <<pipelineVars, events>>
       ELSE NewExecution("drift", event[i], Token(i))
    /\ \/ Goto(i, "idle") /\ UNCHANGED faults
       \/ Goto(i, "raised") /\ Fault          \* the reply is lost
    /\ UNCHANGED <<event, attempts, listed>>

\* Any call may fail, and the invocation may time out between calls.
CallFails(i) ==
    /\ pc[i] \in Running
    /\ Fault
    /\ Goto(i, "raised")
    /\ listed' = [listed EXCEPT ![i] = <<>>]
    /\ UNCHANGED <<pipelineVars, events, event, attempts>>

\* Lambda retries a failed asynchronous invocation, then drops the event.
Retry(i) ==
    /\ pc[i] = "raised"
    /\ attempts[i] < MaxAttempts
    /\ MayRun
    /\ Goto(i, "blocking")
    /\ attempts' = [attempts EXCEPT ![i] = @ + 1]
    /\ UNCHANGED <<pipelineVars, events, event, listed, faults>>

Drop(i) ==
    /\ pc[i] = "raised"
    /\ attempts[i] = MaxAttempts
    /\ Goto(i, "idle")
    /\ UNCHANGED <<pipelineVars, events, event, attempts, listed, faults>>

PipelineStep ==
    \/ \E x \in 1..Len(executions) : Register(x) \/ Finish(x) \/ Stopped(x)
    \/ StartManually
    \/ Tick

HandlerStep(i) ==
    \/ CheckBlocking(i)
    \/ ListExecutions(i)
    \/ CountUnproductive(i)
    \/ StartExecution(i)
    \/ CallFails(i)
    \/ Retry(i)
    \/ Drop(i)

Next ==
    \/ PipelineStep
    \/ \E i \in Invocations : Violation(i) \/ Redeliver(i) \/ HandlerStep(i)

Spec == Init /\ [][Next]_vars

-----------------------------------------------------------------------------
DriftRuns == {x \in 1..Len(executions) : executions[x].kind = "drift"}

\* One violation, however often delivered and retried, starts at most one run:
\* the token is derived from the event alone (retrain_handler.py:125-132).
OneRunPerEvent ==
    \A x, y \in DriftRuns : executions[x].event = executions[y].event => x = y

\* "Two runs against one pipeline duplicate the cost and race each other."
NoConcurrentRuns ==
    \A x, y \in DriftRuns :
        executions[x].status \in Active /\ executions[y].status \in Active => x = y

\* Persistent drift does not retrain every hour: drift runs start at least a
\* cooldown apart, also after lost replies and retries.
CooldownKept ==
    \A x, y \in DriftRuns : x < y => executions[y].start - executions[x].start >= Cooldown

\* The runs that in truth ended well without registering anything, newest first
\* before run n, among those the handler can see.
TrulyUnproductive(n) ==
    {x \in 1..(n - 1) :
        /\ x >= n - RecentLimit
        /\ \A y \in x..(n - 1) :
              /\ executions[y].kind = "drift"
              /\ executions[y].status = "Succeeded" => y \notin produced
        /\ executions[x].status = "Succeeded"}

\* The loop pauses itself: no drift run starts after Limit successful runs in a
\* row that registered nothing, although the handler sees only timestamps.
StalledLoopStops ==
    \A n \in DriftRuns : Cardinality(TrulyUnproductive(n)) < Limit

-----------------------------------------------------------------------------
(***************************************************************************)
(* The inductive invariant behind the safety properties (Retrain_proofs).  *)
(***************************************************************************)
Checked == {"list_executions", "list_packages", "start"}

\* Executions are listed in the order they started, none in the future.
Chronological ==
    /\ \A x \in 1..Len(executions) : executions[x].start <= now
    /\ \A x, y \in 1..Len(executions) : x < y => executions[x].start < executions[y].start

TokenNamesEvent == \A x \in DriftRuns : executions[x].token = executions[x].event

OneAtATime ==
    Serial => \A i, j \in Invocations : pc[i] \in Running /\ pc[j] \in Running => i = j

\* What an invocation concluded from the newest execution holds of all of them.
CheckStillHolds ==
    Serial =>
        \A i \in Invocations : pc[i] \in Checked =>
            /\ \A x \in DriftRuns : now - executions[x].start >= Cooldown
            /\ ~Manual => \A x \in 1..Len(executions) : executions[x].status \notin Active

\* With nobody else starting runs, only the newest one can be active.
OnlyNewestActive ==
    Serial /\ ~Manual =>
        \A x \in 1..Len(executions) : executions[x].status \in Active => x = Len(executions)

IInv ==
    /\ TypeOK
    /\ Chronological
    /\ TokenNamesEvent
    /\ OneRunPerEvent
    /\ OneAtATime
    /\ CheckStillHolds
    /\ OnlyNewestActive
    /\ Serial => CooldownKept

-----------------------------------------------------------------------------
(***************************************************************************)
(* What the invariant needs besides for StalledLoopStops: the timestamps   *)
(* in the two lists tell the truth, and what an invocation read is current *)
(* until it acts.                                                          *)
(***************************************************************************)
\* Package k was created after execution x started and before the next one did.
Between(x, k) ==
    /\ executions[x].start < packages[k]
    /\ x < Len(executions) => packages[k] <= executions[x + 1].start

TimesTellProduced ==
    /\ \A k \in 1..Len(packages) : packages[k] <= now
    /\ \A x \in 1..Len(executions) :
          x \in produced <=> \E k \in 1..Len(packages) : Between(x, k)

\* After the package of execution x come at most as many as executions came
\* after x, so the newest RecentLimit packages leave none out that counts.
NoneCrowdedOut ==
    \A x \in 1..Len(executions), k \in 1..Len(packages) :
        Between(x, k) =>
            Len(packages) - k + (IF Len(executions) \in produced THEN 0 ELSE 1)
                <= Len(executions) - x

ListIsCurrent ==
    \A i \in Invocations :
        pc[i] = "list_packages" => listed[i] = Newest(RecentLimit, executions)

CountStillHolds ==
    \A i \in Invocations :
        pc[i] = "start" => Cardinality(TrulyUnproductive(Len(executions) + 1)) < Limit

StallInv ==
    Serial /\ ~Manual =>
        /\ TimesTellProduced
        /\ NoneCrowdedOut
        /\ ListIsCurrent
        /\ CountStillHolds
        /\ StalledLoopStops

=============================================================================
