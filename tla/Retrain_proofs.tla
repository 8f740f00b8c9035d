--------------------------- MODULE Retrain_proofs ---------------------------
(***************************************************************************)
(* Proofs about Retrain for every number of invocations, every cooldown,   *)
(* limit and number of retries, and every bound on time, events and runs.  *)
(***************************************************************************)
EXTENDS Retrain, SequenceTheorems, FunctionTheorems, FiniteSetTheorems, TLAPS

USE ConstantsOK

-----------------------------------------------------------------------------
\* The newest k elements of a list are elements of the list.
LEMMA NewestType ==
    ASSUME NEW S, NEW s \in Seq(S), NEW k \in Nat
    PROVE  Newest(k, s) \in Seq(S)
<1> DEFINE m == IF Len(s) > k THEN Len(s) - k + 1 ELSE 1
<1>1. m \in Int /\ Len(s) \in Int /\ \A j \in m..Len(s) : s[j] \in S
  OBVIOUS
<1>2. SubSeq(s, m, Len(s)) \in Seq(S)
  BY <1>1, SubSeqProperties
<1> QED BY <1>2 DEF Newest

\* Setting the status of one execution changes nothing else in the list.
LEMMA StatusUpdate ==
    ASSUME TypeOK, NEW x \in 1..Len(executions), NEW status \in Active \cup {"Succeeded", "Failed", "Stopped"},
           executions' = [executions EXCEPT ![x].status = status]
    PROVE  /\ executions' \in Seq(Execution)
           /\ Len(executions') = Len(executions)
           /\ \A y \in 1..Len(executions) :
                 /\ executions'[y].kind = executions[y].kind
                 /\ executions'[y].start = executions[y].start
                 /\ executions'[y].event = executions[y].event
                 /\ executions'[y].token = executions[y].token
                 /\ executions'[y].status = IF y = x THEN status ELSE executions[y].status
<1> DEFINE e == [executions[x] EXCEPT !.status = status]
<1>1. executions \in Seq(Execution)
  BY DEF TypeOK
<1>2. e \in Execution /\ e.kind = executions[x].kind /\ e.start = executions[x].start
      /\ e.event = executions[x].event /\ e.token = executions[x].token /\ e.status = status
  <2>1. executions[x] \in Execution
    BY <1>1
  <2> QED BY <2>1 DEF Execution
<1>3. executions' = [executions EXCEPT ![x] = e]
  BY <1>1
<1> HIDE DEF e
<1>4. /\ executions' \in Seq(Execution)
      /\ Len(executions') = Len(executions)
      /\ \A y \in 1..Len(executions) : executions'[y] = IF y = x THEN e ELSE executions[y]
  BY <1>1, <1>2, <1>3, ExceptSeq
<1> QED BY <1>2, <1>4

\* A new execution is appended; the ones before it stay as they are.
LEMMA NewExecutionAppends ==
    ASSUME TypeOK, NEW kind \in {"drift", "manual"}, NEW e \in 0..MaxEvents,
           NEW token \in 0..MaxEvents, NewExecution(kind, e, token)
    PROVE  /\ executions' \in Seq(Execution)
           /\ Len(executions') = Len(executions) + 1
           /\ Len(executions') <= MaxExecutions
           /\ \A y \in 1..Len(executions) : executions'[y] = executions[y]
           /\ executions'[Len(executions')] =
                 [kind |-> kind, status |-> "Executing", start |-> now, event |-> e, token |-> token]
<1>1. [kind |-> kind, status |-> "Executing", start |-> now, event |-> e, token |-> token]
         \in Execution
  BY DEF TypeOK, Execution, Active
<1>2. executions \in Seq(Execution)
  BY DEF TypeOK
<1> QED BY <1>1, <1>2 DEF NewExecution, TypeOK

-----------------------------------------------------------------------------
LEMMA InitTypeOK == Init => TypeOK
BY DEF Init, TypeOK, Running

\* A new execution leaves a well typed list.
LEMMA NewExecutionTypeOK ==
    ASSUME TypeOK, NEW kind \in {"drift", "manual"}, NEW e \in 0..MaxEvents,
           NEW token \in 0..MaxEvents, NewExecution(kind, e, token)
    PROVE  /\ executions' \in Seq(Execution) /\ Len(executions') <= MaxExecutions
           /\ produced' \subseteq 1..Len(executions')
<1>1. /\ executions' \in Seq(Execution) /\ Len(executions') <= MaxExecutions
      /\ Len(executions') = Len(executions) + 1
  BY NewExecutionAppends
<1>2. produced' \subseteq 1..Len(executions) /\ Len(executions) \in Nat
  BY DEF NewExecution, TypeOK
<1> QED BY <1>1, <1>2

LEMMA PipelineTypeOK ==
    ASSUME TypeOK, PipelineStep
    PROVE  TypeOK'
<1>1. ASSUME NEW x \in 1..Len(executions), Register(x) PROVE TypeOK'
  BY <1>1 DEF Register, TypeOK, callVars
<1>2. ASSUME NEW x \in 1..Len(executions), Finish(x) PROVE TypeOK'
  BY <1>2, StatusUpdate DEF Finish, SetStatus, Active, TypeOK, callVars
<1>3. ASSUME NEW x \in 1..Len(executions), Stopped(x) PROVE TypeOK'
  BY <1>3, StatusUpdate DEF Stopped, SetStatus, TypeOK, callVars
<1>4. CASE StartManually
  <2>1. NewExecution("manual", 0, 0) /\ 0 \in 0..MaxEvents
    BY <1>4 DEF StartManually
  <2>2. /\ executions' \in Seq(Execution) /\ Len(executions') <= MaxExecutions
        /\ produced' \subseteq 1..Len(executions')
    BY <2>1, NewExecutionTypeOK
  <2> QED BY <1>4, <2>1, <2>2 DEF StartManually, NewExecution, TypeOK, callVars
<1>5. CASE Tick
  BY <1>5 DEF Tick, TypeOK, callVars
<1> QED BY <1>1, <1>2, <1>3, <1>4, <1>5 DEF PipelineStep

LEMMA HandlerTypeOK ==
    ASSUME TypeOK, NEW i \in Invocations, HandlerStep(i)
    PROVE  TypeOK'
<1>1. CASE CheckBlocking(i)
  BY <1>1 DEF CheckBlocking, TypeOK, pipelineVars, Goto, Running
<1>2. CASE ListExecutions(i)
  <2>1. Newest(RecentLimit, executions) \in Seq(Execution)
    BY NewestType DEF RecentLimit, TypeOK
  <2> QED BY <1>2, <2>1 DEF ListExecutions, TypeOK, pipelineVars, Goto, Running
<1>3. CASE CountUnproductive(i)
  BY <1>3 DEF CountUnproductive, TypeOK, pipelineVars, Goto, Running
<1>4. CASE StartExecution(i)
  <2>1. /\ pc' \in [Invocations -> {"idle", "raised"} \cup Running]
        /\ faults' \in 0..MaxFaults
    <3>1. CASE Goto(i, "idle") /\ UNCHANGED faults
      BY <3>1 DEF TypeOK, Goto
    <3>2. CASE Goto(i, "raised") /\ Fault
      BY <3>2 DEF TypeOK, Goto, Fault
    <3> QED BY <1>4, <3>1, <3>2 DEF StartExecution
  <2>2. /\ executions' \in Seq(Execution) /\ Len(executions') <= MaxExecutions
        /\ produced' \subseteq 1..Len(executions')
        /\ UNCHANGED <<now, packages, events>>
    <3>1. CASE UNCHANGED <<pipelineVars, events>>
      BY <3>1 DEF TypeOK, pipelineVars
    <3>2. CASE NewExecution("drift", event[i], Token(i))
      <4>1. event[i] \in 0..MaxEvents /\ Token(i) \in 0..MaxEvents
        BY DEF TypeOK, Token
      <4> QED BY <3>2, <4>1, NewExecutionTypeOK DEF NewExecution
    <3> QED BY <1>4, <3>1, <3>2 DEF StartExecution
  <2>3. UNCHANGED <<event, attempts, listed>>
    BY <1>4 DEF StartExecution
  <2> QED BY <2>1, <2>2, <2>3 DEF TypeOK
<1>5. CASE CallFails(i)
  BY <1>5 DEF CallFails, TypeOK, pipelineVars, Goto, Fault
<1>6. CASE Retry(i)
  BY <1>6 DEF Retry, TypeOK, pipelineVars, Goto, Running
<1>7. CASE Drop(i)
  BY <1>7 DEF Drop, TypeOK, pipelineVars, Goto
<1> QED BY <1>1, <1>2, <1>3, <1>4, <1>5, <1>6, <1>7 DEF HandlerStep

LEMMA NextTypeOK == TypeOK /\ [Next]_vars => TypeOK'
<1> SUFFICES ASSUME TypeOK, [Next]_vars PROVE TypeOK'
  OBVIOUS
<1>1. CASE PipelineStep
  BY <1>1, PipelineTypeOK
<1>2. ASSUME NEW i \in Invocations, NEW e \in 0..MaxEvents, events' \in 0..MaxEvents,
             Deliver(i, e)
      PROVE  TypeOK'
  BY <1>2 DEF TypeOK, Deliver, pipelineVars, Running
<1>3. ASSUME NEW i \in Invocations, Violation(i) \/ Redeliver(i) PROVE TypeOK'
  <2>1. CASE Violation(i)
    <3>1. events' \in 0..MaxEvents /\ Deliver(i, events')
      BY <2>1 DEF Violation, TypeOK
    <3> QED BY <3>1, <1>2
  <2>2. CASE Redeliver(i)
    <3>1. PICK e \in 1..events : Deliver(i, e)
      BY <2>2 DEF Redeliver
    <3>2. events' \in 0..MaxEvents /\ e \in 0..MaxEvents
      BY <2>2 DEF Redeliver, TypeOK
    <3> QED BY <3>1, <3>2, <1>2
  <2> QED BY <1>3, <2>1, <2>2
<1>4. ASSUME NEW i \in Invocations, HandlerStep(i) PROVE TypeOK'
  BY <1>4, HandlerTypeOK
<1>5. CASE UNCHANGED vars
  BY <1>5 DEF TypeOK, vars
<1> QED BY <1>1, <1>3, <1>4, <1>5 DEF Next

\* Every variable keeps its type; the tokens are those of published events and
\* no more executions are listed than the handler asks for
\* (retrain_handler.py:44-69, 125-132).
THEOREM TypeCorrect == Spec => []TypeOK
<1> QED BY InitTypeOK, NextTypeOK, PTL DEF Spec

-----------------------------------------------------------------------------
(***************************************************************************)
(* What one step can do to the execution list, for the lemmas below.       *)
(***************************************************************************)
ListKept == executions' = executions /\ now' \in Int /\ now' >= now

StatusOnly ==
    /\ now' = now
    /\ Len(executions') = Len(executions)
    /\ \A y \in 1..Len(executions) :
          /\ executions'[y].kind = executions[y].kind
          /\ executions'[y].start = executions[y].start
          /\ executions'[y].event = executions[y].event
          /\ executions'[y].token = executions[y].token
          /\ executions'[y].status \in Active => executions[y].status \in Active
    /\ UNCHANGED callVars

DriftStart(i) ==
    /\ pc[i] = "start"
    /\ \A x \in 1..Len(executions) : executions[x].token # Token(i)
    /\ NewExecution("drift", event[i], Token(i))
    /\ pc' \in {[pc EXCEPT ![i] = "idle"], [pc EXCEPT ![i] = "raised"]}

ManualStart ==
    /\ Manual
    /\ NewExecution("manual", 0, 0)
    /\ UNCHANGED callVars

\* The types the arithmetic below needs.
LEMMA ListTypes ==
    ASSUME TypeOK
    PROVE  /\ executions \in Seq(Execution) /\ now \in Int /\ Len(executions) \in Nat
           /\ \A x \in 1..Len(executions) : executions[x].start \in Int
<1>1. executions \in Seq(Execution) /\ now \in Int /\ Len(executions) \in Nat
  BY DEF TypeOK
<1>2. \A x \in 1..Len(executions) : executions[x] \in Execution
  BY <1>1
<1>3. \A x \in 1..Len(executions) : executions[x].start \in Int
  BY <1>2 DEF Execution
<1> QED BY <1>1, <1>3

LEMMA ManualStartAppends ==
    ASSUME TypeOK, ManualStart
    PROVE  /\ Len(executions') = Len(executions) + 1
           /\ \A y \in 1..Len(executions) : executions'[y] = executions[y]
           /\ executions'[Len(executions')].start = now
           /\ executions'[Len(executions')].kind = "manual"
<1>1. NewExecution("manual", 0, 0) /\ 0 \in 0..MaxEvents /\ "manual" \in {"drift", "manual"}
  BY DEF ManualStart
<1>2. /\ Len(executions') = Len(executions) + 1
      /\ \A y \in 1..Len(executions) : executions'[y] = executions[y]
      /\ executions'[Len(executions')] =
            [kind |-> "manual", status |-> "Executing", start |-> now, event |-> 0, token |-> 0]
  BY <1>1, NewExecutionAppends
<1> QED BY <1>2

LEMMA StepKind ==
    ASSUME TypeOK, [Next]_vars
    PROVE  ListKept \/ StatusOnly \/ ManualStart \/ \E i \in Invocations : DriftStart(i)
<1>0. now \in Int
  BY DEF TypeOK
<1>1. ASSUME NEW x \in 1..Len(executions), Register(x) PROVE ListKept
  BY <1>0, <1>1 DEF Register, ListKept
<1>2. ASSUME NEW x \in 1..Len(executions), Finish(x) PROVE StatusOnly
  BY <1>2, StatusUpdate DEF Finish, SetStatus, Active, StatusOnly
<1>3. ASSUME NEW x \in 1..Len(executions), Stopped(x) PROVE StatusOnly
  BY <1>3, StatusUpdate DEF Stopped, SetStatus, Active, StatusOnly
<1>4. CASE StartManually
  BY <1>4 DEF StartManually, ManualStart
<1>5. CASE Tick
  BY <1>0, <1>5 DEF Tick, ListKept
<1>6. ASSUME NEW i \in Invocations, Violation(i) \/ Redeliver(i) PROVE ListKept
  BY <1>0, <1>6 DEF Violation, Redeliver, Deliver, pipelineVars, ListKept
<1>7. ASSUME NEW i \in Invocations, StartExecution(i) PROVE ListKept \/ DriftStart(i)
  <2>1. CASE \E x \in 1..Len(executions) : executions[x].token = Token(i)
    BY <1>0, <1>7, <2>1 DEF StartExecution, pipelineVars, ListKept
  <2>2. CASE \A x \in 1..Len(executions) : executions[x].token # Token(i)
    BY <1>7, <2>2 DEF StartExecution, DriftStart, Goto
  <2> QED BY <2>1, <2>2
<1>8. ASSUME NEW i \in Invocations,
             \/ CheckBlocking(i) \/ ListExecutions(i) \/ CountUnproductive(i)
             \/ CallFails(i) \/ Retry(i) \/ Drop(i)
      PROVE  ListKept
  BY <1>0, <1>8 DEF CheckBlocking, ListExecutions, CountUnproductive, CallFails, Retry, Drop,
                    pipelineVars, ListKept
<1>9. CASE UNCHANGED vars
  BY <1>0, <1>9 DEF vars, ListKept
<1> QED
  BY <1>1, <1>2, <1>3, <1>4, <1>5, <1>6, <1>7, <1>8, <1>9 DEF Next, PipelineStep, HandlerStep

\* Only one invocation moves in a step, and an invocation starts running only
\* when it may.
LEMMA OneMoves ==
    ASSUME TypeOK, [Next]_vars
    PROVE  \/ pc' = pc
           \/ \E i \in Invocations :
                 /\ \A j \in Invocations : j # i => pc'[j] = pc[j]
                 /\ pc'[i] \in Running => pc[i] \in Running \/ MayRun
                 /\ pc'[i] \in Checked => pc[i] \in Checked \/ CheckBlocking(i)
<1>1. ASSUME NEW i \in Invocations, Violation(i) \/ Redeliver(i) \/ HandlerStep(i)
      PROVE  /\ \A j \in Invocations : j # i => pc'[j] = pc[j]
             /\ pc'[i] \in Running => pc[i] \in Running \/ MayRun
             /\ pc'[i] \in Checked => pc[i] \in Checked \/ CheckBlocking(i)
  <2>1. pc \in [Invocations -> {"idle", "raised"} \cup Running]
    BY DEF TypeOK
  <2>2. CASE Violation(i) \/ Redeliver(i)
    BY <2>1, <2>2 DEF Violation, Redeliver, Deliver, Checked
  <2>3. CASE HandlerStep(i)
    BY <2>1, <2>3 DEF HandlerStep, CheckBlocking, ListExecutions, CountUnproductive,
          StartExecution, CallFails, Retry, Drop, Goto, Running, Checked
  <2> QED BY <1>1, <2>2, <2>3
<1>2. CASE PipelineStep
  BY <1>2 DEF PipelineStep, Register, Finish, Stopped, SetStatus, StartManually, Tick, callVars
<1>3. CASE UNCHANGED vars
  BY <1>3 DEF vars
<1> QED BY <1>1, <1>2, <1>3 DEF Next

-----------------------------------------------------------------------------
LEMMA NextOneAtATime == TypeOK /\ OneAtATime /\ [Next]_vars => OneAtATime'
<1> SUFFICES ASSUME TypeOK, OneAtATime, [Next]_vars, Serial,
                    NEW i \in Invocations, NEW j \in Invocations,
                    pc'[i] \in Running, pc'[j] \in Running
             PROVE  i = j
  BY DEF OneAtATime
<1>1. CASE pc' = pc
  BY <1>1 DEF OneAtATime
<1>2. CASE \E k \in Invocations :
              /\ \A l \in Invocations : l # k => pc'[l] = pc[l]
              /\ pc'[k] \in Running => pc[k] \in Running \/ MayRun
  BY <1>2 DEF OneAtATime, MayRun
<1> QED BY <1>1, <1>2, OneMoves

LEMMA NextList ==
    ASSUME IInv, TypeOK', [Next]_vars
    PROVE  /\ Chronological' /\ TokenNamesEvent' /\ OneRunPerEvent'
           /\ OnlyNewestActive' /\ (Serial => CooldownKept)'
<1> USE DEF IInv
<1>0. /\ executions \in Seq(Execution) /\ now \in Int /\ Len(executions) \in Nat
      /\ \A x \in 1..Len(executions) : executions[x].start \in Int
  BY ListTypes
<1>1. CASE ListKept
  BY <1>0, <1>1 DEF ListKept, Chronological, TokenNamesEvent, OneRunPerEvent, OnlyNewestActive,
                    CooldownKept, DriftRuns
<1>2. CASE StatusOnly
  <2>1. DriftRuns' = DriftRuns
    BY <1>2 DEF StatusOnly, DriftRuns
  <2>2. DriftRuns \subseteq 1..Len(executions)
    BY DEF DriftRuns
  <2>3. Chronological'
    BY <1>2 DEF StatusOnly, Chronological
  <2>4. TokenNamesEvent' /\ OneRunPerEvent' /\ (Serial => CooldownKept)'
    BY <1>2, <2>1, <2>2 DEF StatusOnly, TokenNamesEvent, OneRunPerEvent, CooldownKept
  <2>5. OnlyNewestActive'
    BY <1>2 DEF StatusOnly, OnlyNewestActive
  <2> QED BY <2>3, <2>4, <2>5
<1>3. CASE ManualStart
  <2>1. /\ Len(executions') = Len(executions) + 1
        /\ \A y \in 1..Len(executions) : executions'[y] = executions[y]
        /\ executions'[Len(executions')].start = now
        /\ executions'[Len(executions')].kind = "manual"
    BY <1>3, ManualStartAppends
  <2>2. DriftRuns' = DriftRuns
    BY <1>0, <2>1 DEF DriftRuns
  <2>3. now' = now /\ Manual /\ \A x \in 1..Len(executions) : executions[x].start # now
    BY <1>3 DEF ManualStart, NewExecution, FreshInstant
  <2>4. Chronological'
    BY <1>0, <2>1, <2>3 DEF Chronological
  <2>5. TokenNamesEvent' /\ OneRunPerEvent' /\ (Serial => CooldownKept)'
    BY <1>0, <2>1, <2>2 DEF TokenNamesEvent, OneRunPerEvent, CooldownKept, DriftRuns
  <2>6. OnlyNewestActive'
    BY <2>3 DEF OnlyNewestActive
  <2> QED BY <2>4, <2>5, <2>6
<1>4. ASSUME NEW i \in Invocations, DriftStart(i)
      PROVE  /\ Chronological' /\ TokenNamesEvent' /\ OneRunPerEvent'
             /\ OnlyNewestActive' /\ (Serial => CooldownKept)'
  <2>0. event[i] \in 0..MaxEvents /\ Token(i) = event[i]
    BY DEF TypeOK, Token
  <2>1. /\ Len(executions') = Len(executions) + 1
        /\ \A y \in 1..Len(executions) : executions'[y] = executions[y]
        /\ executions'[Len(executions')] =
             [kind |-> "drift", status |-> "Executing", start |-> now,
              event |-> event[i], token |-> event[i]]
    BY <1>4, <2>0, NewExecutionAppends DEF DriftStart
  <2>2. DriftRuns' = DriftRuns \cup {Len(executions')}
    BY <1>0, <2>1 DEF DriftRuns
  <2>3. now' = now /\ \A x \in 1..Len(executions) :
                         executions[x].start # now /\ executions[x].token # event[i]
    BY <1>4, <2>0 DEF DriftStart, NewExecution, FreshInstant
  <2>4. Chronological'
    BY <1>0, <2>1, <2>3 DEF Chronological
  <2>5. TokenNamesEvent' /\ OneRunPerEvent'
    BY <1>0, <2>1, <2>2, <2>3 DEF TokenNamesEvent, OneRunPerEvent, DriftRuns
  <2>6. pc[i] \in Checked
    BY <1>4 DEF DriftStart, Checked
  <2>7. (Serial => CooldownKept)'
    BY <1>0, <2>1, <2>2, <2>6 DEF CooldownKept, CheckStillHolds, DriftRuns
  <2>8. OnlyNewestActive'
    BY <1>0, <2>1, <2>6 DEF OnlyNewestActive, CheckStillHolds
  <2> QED BY <2>4, <2>5, <2>7, <2>8
<1> QED BY <1>1, <1>2, <1>3, <1>4, StepKind

LEMMA NextCheckStillHolds ==
    ASSUME IInv, TypeOK', [Next]_vars
    PROVE  CheckStillHolds'
<1> USE DEF IInv
<1> SUFFICES ASSUME Serial, NEW j \in Invocations, pc'[j] \in Checked
             PROVE  /\ \A x \in DriftRuns' : now' - executions'[x].start >= Cooldown
                    /\ ~Manual => \A x \in 1..Len(executions') : executions'[x].status \notin Active
  BY DEF CheckStillHolds
<1>0. /\ executions \in Seq(Execution) /\ now \in Int /\ Len(executions) \in Nat
      /\ \A x \in 1..Len(executions) : executions[x].start \in Int
  BY ListTypes
<1>1. pc[j] \in Checked \/ CheckBlocking(j)
  BY OneMoves
<1>2. CASE CheckBlocking(j) /\ pc[j] \notin Checked
  <2>1. executions' = executions /\ now' = now
    BY <1>2 DEF CheckBlocking, pipelineVars
  <2>2. executions = <<>> \/ ~Blocks(executions[Len(executions)])
    BY <1>2 DEF CheckBlocking, Goto, Checked, TypeOK
  <2>3. CASE executions = <<>>
    BY <2>1, <2>3 DEF DriftRuns
  <2>4. CASE executions # <<>> /\ ~Blocks(executions[Len(executions)])
    <3>1. Len(executions) \in 1..Len(executions)
      BY <1>0, <2>4
    <3>2. now - executions[Len(executions)].start >= Cooldown
          /\ executions[Len(executions)].status \notin Active
      BY <1>0, <2>4, <3>1 DEF Blocks
    <3>3. \A x \in 1..Len(executions) : executions[x].start <= executions[Len(executions)].start
      BY <1>0, <3>1 DEF Chronological
    <3>4. \A x \in 1..Len(executions) : now - executions[x].start >= Cooldown
      BY <1>0, <3>1, <3>2, <3>3
    <3> QED BY <2>1, <3>2, <3>4 DEF DriftRuns, OnlyNewestActive
  <2> QED BY <2>2, <2>3, <2>4
<1>3. CASE pc[j] \in Checked
  <2>0. /\ \A x \in DriftRuns : now - executions[x].start >= Cooldown
        /\ ~Manual => \A x \in 1..Len(executions) : executions[x].status \notin Active
    BY <1>3 DEF CheckStillHolds
  <2>1. CASE ListKept
    BY <1>0, <2>0, <2>1 DEF ListKept, DriftRuns
  <2>2. CASE StatusOnly
    BY <1>0, <2>0, <2>2 DEF StatusOnly, DriftRuns
  <2>3. CASE ManualStart
    <3>1. /\ Len(executions') = Len(executions) + 1
          /\ \A y \in 1..Len(executions) : executions'[y] = executions[y]
          /\ executions'[Len(executions')].kind = "manual"
      BY <2>3, ManualStartAppends
    <3>2. now' = now /\ Manual
      BY <2>3 DEF ManualStart, NewExecution
    <3> QED BY <1>0, <2>0, <3>1, <3>2 DEF DriftRuns
  <2>4. ASSUME NEW i \in Invocations, DriftStart(i) PROVE FALSE
    <3>1. i = j
      BY <1>3, <2>4 DEF DriftStart, OneAtATime, Running, Checked
    <3> QED BY <2>4, <3>1 DEF DriftStart, Checked, TypeOK
  <2> QED BY <2>1, <2>2, <2>3, <2>4, StepKind
<1> QED BY <1>1, <1>2, <1>3

LEMMA InitIInv == Init => IInv
<1> SUFFICES ASSUME Init PROVE IInv
  OBVIOUS
<1>1. executions = <<>> /\ Len(executions) = 0 /\ DriftRuns = {}
  BY DEF Init, DriftRuns
<1>2. \A i \in Invocations : pc[i] = "idle"
  BY DEF Init
<1> QED BY <1>1, <1>2, InitTypeOK DEF IInv, Chronological, TokenNamesEvent, OneRunPerEvent,
      OneAtATime, CheckStillHolds, OnlyNewestActive, CooldownKept, Running, Checked

LEMMA NextIInv == IInv /\ [Next]_vars => IInv'
<1> SUFFICES ASSUME IInv, [Next]_vars PROVE IInv'
  OBVIOUS
<1>1. TypeOK'
  BY NextTypeOK DEF IInv
<1>2. OneAtATime'
  BY NextOneAtATime DEF IInv
<1>3. CheckStillHolds'
  BY <1>1, NextCheckStillHolds
<1> QED BY <1>1, <1>2, <1>3, NextList DEF IInv

\* The strengthened invariant is inductive: what an invocation concluded from
\* the newest execution alone stays true of all of them until it acts.
THEOREM Invariance == Spec => []IInv
<1> QED BY InitIInv, NextIInv, PTL DEF Spec

\* One violation starts at most one run however often it is delivered and
\* retried, overlapping invocations and lost replies included: the token is a
\* function of the event alone (retrain_handler.py:125-132).
THEOREM OneRunEach == Spec => []OneRunPerEvent
<1>1. IInv => OneRunPerEvent
  BY DEF IInv
<1> QED BY <1>1, Invariance, PTL

\* As long as invocations do not overlap, drift runs start a cooldown apart,
\* whatever operators start in between (retrain_handler.py:135-153).
THEOREM CooldownIsKept == Serial => (Spec => []CooldownKept)
<1> SUFFICES ASSUME Serial PROVE Spec => []CooldownKept
  OBVIOUS
<1>1. IInv => CooldownKept
  BY DEF IInv
<1> QED BY <1>1, Invariance, PTL

\* As long as invocations do not overlap and nobody else starts runs, there is
\* never more than one active drift run, whatever the length of the cooldown:
\* looking at the newest execution only is then enough (retrain_handler.py:144).
THEOREM RunsDoNotOverlap == Serial /\ ~Manual => (Spec => []NoConcurrentRuns)
<1> SUFFICES ASSUME Serial, ~Manual PROVE Spec => []NoConcurrentRuns
  OBVIOUS
<1>1. IInv => NoConcurrentRuns
  BY DEF IInv, OnlyNewestActive, NoConcurrentRuns, DriftRuns
<1> QED BY <1>1, Invariance, PTL

-----------------------------------------------------------------------------
(***************************************************************************)
(* The loop that pauses itself.  First the helpers that read the lists.    *)
(***************************************************************************)
\* The newest k elements of a list are its last ones, in order.
LEMMA NewestElements ==
    ASSUME NEW S, NEW s \in Seq(S), NEW k \in Nat \ {0}
    PROVE  /\ Len(Newest(k, s)) = IF Len(s) > k THEN k ELSE Len(s)
           /\ \A j \in 1..Len(Newest(k, s)) :
                 Newest(k, s)[j] = s[Len(s) - Len(Newest(k, s)) + j]
<1> DEFINE m == IF Len(s) > k THEN Len(s) - k + 1 ELSE 1
<1>1. /\ m \in 1..(Len(s) + 1) /\ Len(s) \in Nat
      /\ Len(s) - m + 1 = IF Len(s) > k THEN k ELSE Len(s)
  OBVIOUS
<1>2. Newest(k, s) = SubSeq(s, m, Len(s))
  BY DEF Newest
<1> HIDE DEF m
<1>3. \A j \in m..Len(s) : s[j] \in S
  BY <1>1
<1>4. /\ Len(SubSeq(s, m, Len(s))) = IF m <= Len(s) THEN Len(s) - m + 1 ELSE 0
      /\ \A j \in 1..(Len(s) - m + 1) : SubSeq(s, m, Len(s))[j] = s[m + j - 1]
  BY <1>1, <1>3, SubSeqProperties
<1>5. Len(Newest(k, s)) = Len(s) - m + 1
  BY <1>1, <1>2, <1>4
<1>6. ASSUME NEW j \in 1..Len(Newest(k, s))
      PROVE  m + j - 1 = Len(s) - Len(Newest(k, s)) + j
  BY <1>1, <1>5
<1> QED BY <1>1, <1>2, <1>4, <1>5, <1>6

\* Only what happened before run n decides how many runs were unproductive.
LEMMA SamePast ==
    ASSUME NEW n \in Int,
           \A y \in 1..(n - 1) : /\ executions'[y].kind = executions[y].kind
                                 /\ executions'[y].status = executions[y].status
                                 /\ y \in produced' <=> y \in produced
    PROVE  TrulyUnproductive(n)' = TrulyUnproductive(n)
BY DEF TrulyUnproductive

\* The package list shows of an execution in the handler's list whether it
\* produced a package, although both lists are cut off.
LEMMA ShownWhenProduced ==
    ASSUME TypeOK, TimesTellProduced, NoneCrowdedOut,
           NEW x \in 1..Len(Newest(RecentLimit, executions))
    PROVE  HasPackage(Newest(RecentLimit, executions), x, Newest(RecentLimit, packages))
              <=> Len(executions) - Len(Newest(RecentLimit, executions)) + x \in produced
<1> DEFINE xs == Newest(RecentLimit, executions)
           ts == Newest(RecentLimit, packages)
           o == Len(executions) - Len(xs)
           q == Len(packages) - Len(ts)
<1>0. RecentLimit \in Nat \ {0}
  BY DEF RecentLimit
<1>1. executions \in Seq(Execution) /\ packages \in Seq(0..MaxTime)
  BY DEF TypeOK
<1>n. Len(executions) \in Nat /\ Len(packages) \in Nat
  BY <1>1
<1>2. /\ Len(xs) = IF Len(executions) > RecentLimit THEN RecentLimit ELSE Len(executions)
      /\ \A j \in 1..Len(xs) : xs[j] = executions[o + j]
  BY <1>0, <1>1, NewestElements
<1>3. /\ Len(ts) = IF Len(packages) > RecentLimit THEN RecentLimit ELSE Len(packages)
      /\ \A j \in 1..Len(ts) : ts[j] = packages[q + j]
  BY <1>0, <1>1, NewestElements
<1> HIDE DEF xs, ts
<1>l. /\ Len(xs) = IF Len(executions) > RecentLimit THEN RecentLimit ELSE Len(executions)
      /\ Len(ts) = IF Len(packages) > RecentLimit THEN RecentLimit ELSE Len(packages)
  BY <1>2, <1>3
<1>4. Len(xs) \in Nat /\ Len(ts) \in Nat /\ o \in Nat /\ q \in Nat
  BY <1>0, <1>n, <1>l
<1>a. o + Len(xs) = Len(executions) /\ q + Len(ts) = Len(packages)
  BY <1>n, <1>4
<1>x. x \in 1..Len(xs)
  BY DEF xs
<1> HIDE DEF o, q
<1>5. /\ o + x \in 1..Len(executions)
      /\ xs[x] = executions[o + x]
      /\ (x < Len(xs)) <=> (o + x < Len(executions))
      /\ x < Len(xs) => xs[x + 1] = executions[o + x + 1]
  <2>1. x < Len(xs) => x + 1 \in 1..Len(xs) /\ o + (x + 1) = o + x + 1
    BY <1>4, <1>x
  <2>2. o + x \in 1..Len(executions) /\ ((x < Len(xs)) <=> (o + x < Len(executions)))
    BY <1>n, <1>4, <1>x, <1>a
  <2> QED BY <1>2, <1>x, <2>1, <2>2
<1>6. ASSUME NEW k \in 1..Len(ts)
      PROVE  q + k \in 1..Len(packages) /\
             ((/\ ts[k] > xs[x].start
               /\ x < Len(xs) => ts[k] <= xs[x + 1].start) <=> Between(o + x, q + k))
  <2>1. q + k \in 1..Len(packages)
    BY <1>n, <1>4, <1>a
  <2>2. ts[k] = packages[q + k]
    BY <1>3
  <2>3. packages[q + k] \in Int
    <3>1. \A l \in 1..Len(packages) : packages[l] \in 0..MaxTime
      BY <1>1, ElementOfSeq
    <3> QED BY <2>1, <3>1
  <2>4. executions[o + x].start \in Int
    BY <1>5, ListTypes
  <2>5. packages[q + k] > executions[o + x].start <=> executions[o + x].start < packages[q + k]
    BY <2>3, <2>4
  <2> QED BY <1>5, <2>1, <2>2, <2>5 DEF Between
<1>7. ASSUME NEW k \in 1..Len(packages), Between(o + x, k)
      PROVE  \E j \in 1..Len(ts) : q + j = k
  <2>1. Len(packages) - k <= Len(executions) - (o + x)
    <3>1. Len(packages) - k + (IF Len(executions) \in produced THEN 0 ELSE 1)
            <= Len(executions) - (o + x)
      BY <1>5, <1>7 DEF NoneCrowdedOut
    <3>2. CASE Len(executions) \in produced
      BY <1>n, <1>4, <1>x, <3>1, <3>2
    <3>3. CASE Len(executions) \notin produced
      BY <1>n, <1>4, <1>x, <3>1, <3>3
    <3> QED BY <3>2, <3>3
  <2>2. Len(packages) - k < Len(xs)
    BY <1>n, <1>4, <1>a, <1>x, <2>1
  <2>3. Len(packages) - k < Len(ts)
    <3>1. CASE Len(packages) > RecentLimit
      BY <1>0, <1>n, <1>l, <1>4, <2>2, <3>1
    <3>2. CASE ~(Len(packages) > RecentLimit)
      BY <1>0, <1>n, <1>l, <1>4, <3>2
    <3> QED BY <3>1, <3>2
  <2>4. k - q \in 1..Len(ts) /\ q + (k - q) = k
    BY <1>n, <1>4, <1>a, <2>3
  <2> QED BY <2>4
<1>8. HasPackage(xs, x, ts) <=> \E k \in 1..Len(packages) : Between(o + x, k)
  BY <1>6, <1>7 DEF HasPackage
<1>9. HasPackage(xs, x, ts) <=> o + x \in produced
  BY <1>5, <1>8 DEF TimesTellProduced
<1> QED BY <1>9 DEF xs, ts, o

\* The runs in question before the next one are among those there are.
LEMMA PastOfNext ==
    ASSUME TypeOK
    PROVE  TrulyUnproductive(Len(executions) + 1) =
             {x \in 1..Len(executions) :
                /\ x >= (Len(executions) + 1) - RecentLimit
                /\ \A y \in x..Len(executions) :
                      /\ executions[y].kind = "drift"
                      /\ executions[y].status = "Succeeded" => y \notin produced
                /\ executions[x].status = "Succeeded"}
<1>1. (Len(executions) + 1) - 1 = Len(executions)
  BY DEF TypeOK
<1> QED BY <1>1 DEF TrulyUnproductive

LEMMA CountIsNatural ==
    ASSUME TypeOK
    PROVE  Cardinality(TrulyUnproductive(Len(executions) + 1)) \in Nat
<1>1. TrulyUnproductive(Len(executions) + 1) \subseteq 1..Len(executions)
  BY PastOfNext
<1>2. IsFiniteSet(1..Len(executions))
  BY FS_Interval DEF TypeOK
<1> QED BY <1>1, <1>2, FS_Subset, FS_CardinalityType

\* What the handler counts from its two lists is what there is to count.
LEMMA CountIsTrue ==
    ASSUME TypeOK, TimesTellProduced, NoneCrowdedOut
    PROVE  UnproductiveCount(Newest(RecentLimit, executions), Newest(RecentLimit, packages))
             = Cardinality(TrulyUnproductive(Len(executions) + 1))
<1> DEFINE xs == Newest(RecentLimit, executions)
           ts == Newest(RecentLimit, packages)
           o == Len(executions) - Len(xs)
           A == {x \in 1..Len(xs) :
                   /\ \A y \in x..Len(xs) :
                         /\ xs[y].kind = "drift"
                         /\ xs[y].status = "Succeeded" => ~HasPackage(xs, y, ts)
                   /\ xs[x].status = "Succeeded"}
           B == TrulyUnproductive(Len(executions) + 1)
<1>0. RecentLimit \in Nat \ {0}
  BY DEF RecentLimit
<1>1. executions \in Seq(Execution) /\ Len(executions) \in Nat
  BY DEF TypeOK
<1>2. /\ Len(xs) = IF Len(executions) > RecentLimit THEN RecentLimit ELSE Len(executions)
      /\ \A j \in 1..Len(xs) : xs[j] = executions[o + j]
  BY <1>0, <1>1, NewestElements
<1>3. \A y \in 1..Len(xs) : HasPackage(xs, y, ts) <=> o + y \in produced
  BY ShownWhenProduced
<1> HIDE DEF xs, ts
<1>4. Len(xs) \in Nat /\ o \in Nat /\ o + Len(xs) = Len(executions)
  BY <1>0, <1>1, <1>2
<1>5. \A y \in 1..Len(xs) :
         (/\ xs[y].kind = "drift"
          /\ xs[y].status = "Succeeded" => ~HasPackage(xs, y, ts))
         <=> (/\ executions[o + y].kind = "drift"
              /\ executions[o + y].status = "Succeeded" => o + y \notin produced)
  BY <1>2, <1>3
<1>6. ASSUME NEW x \in 1..Len(xs)
      PROVE  x \in A <=> o + x \in B
  <2>1. o + x \in 1..Len(executions) /\ o + x >= (Len(executions) + 1) - RecentLimit
    BY <1>0, <1>1, <1>2, <1>4
  <2>2. ASSUME NEW y \in x..Len(xs) PROVE y \in 1..Len(xs) /\ o + y \in (o + x)..Len(executions)
    BY <1>4
  <2>3. ASSUME NEW z \in (o + x)..Len(executions) PROVE z - o \in x..Len(xs) /\ o + (z - o) = z
    BY <1>1, <1>4
  <2>4. (\A y \in x..Len(xs) :
            /\ xs[y].kind = "drift"
            /\ xs[y].status = "Succeeded" => ~HasPackage(xs, y, ts))
        <=> (\A z \in (o + x)..Len(executions) :
               /\ executions[z].kind = "drift"
               /\ executions[z].status = "Succeeded" => z \notin produced)
    BY <1>5, <2>2, <2>3
  <2>5. o + x \in B <=>
          /\ \A z \in (o + x)..Len(executions) :
               /\ executions[z].kind = "drift"
               /\ executions[z].status = "Succeeded" => z \notin produced
          /\ executions[o + x].status = "Succeeded"
    BY <2>1, PastOfNext
  <2> QED BY <1>2, <2>4, <2>5
<1>7. ASSUME NEW z \in B PROVE z - o \in 1..Len(xs) /\ o + (z - o) = z
  <2>1. z \in 1..Len(executions) /\ z >= (Len(executions) + 1) - RecentLimit
    BY PastOfNext
  <2> QED BY <1>0, <1>1, <1>2, <1>4, <2>1
<1>8. A \subseteq 1..Len(xs) /\ IsFiniteSet(A)
  <2>1. A \subseteq 1..Len(xs)
    OBVIOUS
  <2>2. IsFiniteSet(1..Len(xs))
    BY <1>4, FS_Interval
  <2> QED BY <2>1, <2>2, FS_Subset
<1> HIDE DEF A, B
<1>9. [x \in A |-> o + x] \in Bijection(A, B)
  <2> DEFINE f == [x \in A |-> o + x]
  <2>1. f \in [A -> B]
    BY <1>6, <1>8
  <2>2. \A x, y \in A : f[x] = f[y] => x = y
    BY <1>4, <1>8
  <2>3. \A z \in B : \E x \in A : f[x] = z
    BY <1>6, <1>7
  <2> QED BY <2>1, <2>2, <2>3, Fun_IsBij
<1>10. Cardinality(B) = Cardinality(A)
  BY <1>8, <1>9, FS_Bijection DEF ExistsBijection
<1> QED BY <1>10 DEF UnproductiveCount, A, B, xs, ts

-----------------------------------------------------------------------------
\* The steps again, with what they do to the packages.
ListsKept == ListKept /\ UNCHANGED <<packages, produced>>

Ends(x) ==
    /\ executions[x].status \in Active
    /\ StatusOnly
    /\ \A y \in 1..Len(executions) : y # x => executions'[y].status = executions[y].status
    /\ UNCHANGED <<packages, produced>>

LEMMA LoopStep ==
    ASSUME TypeOK, ~Manual, [Next]_vars
    PROVE  \/ ListsKept
           \/ \E x \in 1..Len(executions) : Register(x) \/ Ends(x)
           \/ \E i \in Invocations : DriftStart(i)
<1>0. now \in Int
  BY DEF TypeOK
<1>1. ASSUME NEW x \in 1..Len(executions), Finish(x) PROVE Ends(x)
  BY <1>1, StatusUpdate DEF Finish, SetStatus, Active, StatusOnly, Ends
<1>2. ASSUME NEW x \in 1..Len(executions), Stopped(x) PROVE Ends(x)
  BY <1>2, StatusUpdate DEF Stopped, SetStatus, Active, StatusOnly, Ends
<1>3. ~StartManually
  BY DEF StartManually
<1>4. CASE Tick
  BY <1>0, <1>4 DEF Tick, ListKept, ListsKept
<1>5. ASSUME NEW i \in Invocations, Violation(i) \/ Redeliver(i) PROVE ListsKept
  BY <1>0, <1>5 DEF Violation, Redeliver, Deliver, pipelineVars, ListKept, ListsKept
<1>6. ASSUME NEW i \in Invocations, StartExecution(i) PROVE ListsKept \/ DriftStart(i)
  <2>1. CASE \E x \in 1..Len(executions) : executions[x].token = Token(i)
    BY <1>0, <1>6, <2>1 DEF StartExecution, pipelineVars, ListKept, ListsKept
  <2>2. CASE \A x \in 1..Len(executions) : executions[x].token # Token(i)
    BY <1>6, <2>2 DEF StartExecution, DriftStart, Goto
  <2> QED BY <2>1, <2>2
<1>7. ASSUME NEW i \in Invocations,
             \/ CheckBlocking(i) \/ ListExecutions(i) \/ CountUnproductive(i)
             \/ CallFails(i) \/ Retry(i) \/ Drop(i)
      PROVE  ListsKept
  BY <1>0, <1>7 DEF CheckBlocking, ListExecutions, CountUnproductive, CallFails, Retry, Drop,
                    pipelineVars, ListKept, ListsKept
<1>8. CASE UNCHANGED vars
  BY <1>0, <1>8 DEF vars, ListKept, ListsKept
<1> QED BY <1>1, <1>2, <1>3, <1>4, <1>5, <1>6, <1>7, <1>8 DEF Next, PipelineStep, HandlerStep

\* A drift start appends the newest execution, at a time of its own.
LEMMA DriftStartAppends ==
    ASSUME TypeOK, NEW i \in Invocations, DriftStart(i)
    PROVE  /\ Len(executions') = Len(executions) + 1
           /\ \A y \in 1..Len(executions) : executions'[y] = executions[y]
           /\ executions'[Len(executions) + 1].start = now
           /\ UNCHANGED <<now, packages, produced>>
<1>0. event[i] \in 0..MaxEvents /\ Token(i) = event[i]
  BY DEF TypeOK, Token
<1>1. NewExecution("drift", event[i], event[i])
  BY <1>0 DEF DriftStart
<1>2. /\ Len(executions') = Len(executions) + 1
      /\ \A y \in 1..Len(executions) : executions'[y] = executions[y]
      /\ executions'[Len(executions')] =
           [kind |-> "drift", status |-> "Executing", start |-> now,
            event |-> event[i], token |-> event[i]]
  BY <1>0, <1>1, NewExecutionAppends
<1>3. executions'[Len(executions) + 1].start = now
  BY <1>2
<1> QED BY <1>1, <1>2, <1>3 DEF NewExecution

\* Registering a package appends the newest package; with one run at a time it
\* is the newest execution's, and it is newer than everything listed.
LEMMA RegisterAppends ==
    ASSUME IInv, Serial, ~Manual, NEW x \in 1..Len(executions), Register(x)
    PROVE  /\ x = Len(executions) /\ x \notin produced
           /\ produced' = produced \cup {x} /\ UNCHANGED <<executions, now>>
           /\ \A y \in 1..Len(executions) : executions[y].start < now
           /\ Len(packages') = Len(packages) + 1
           /\ packages'[Len(packages) + 1] = now
           /\ \A k \in 1..Len(packages) : packages'[k] = packages[k]
<1>1. x = Len(executions)
  BY DEF Register, IInv, OnlyNewestActive, Active
<1>2. \A y \in 1..Len(executions) : executions[y].start < now
  BY ListTypes DEF Register, FreshInstant, IInv, Chronological
<1>3. packages \in Seq(0..MaxTime) /\ now \in 0..MaxTime /\ packages' = Append(packages, now)
  BY DEF IInv, TypeOK, Register
<1>4. /\ Len(packages') = Len(packages) + 1
      /\ packages'[Len(packages) + 1] = now
      /\ \A k \in 1..Len(packages) : packages'[k] = packages[k]
  BY <1>3
<1> QED BY <1>1, <1>2, <1>4 DEF Register

LEMMA LoopTypes ==
    ASSUME TypeOK
    PROVE  /\ now \in Int /\ Len(executions) \in Nat /\ Len(packages) \in Nat
           /\ produced \subseteq 1..Len(executions)
           /\ \A x \in 1..Len(executions) : executions[x].start \in Int
           /\ \A k \in 1..Len(packages) : packages[k] \in Int
<1>1. packages \in Seq(0..MaxTime) /\ Len(packages) \in Nat /\ produced \subseteq 1..Len(executions)
  BY DEF TypeOK
<1>2. \A k \in 1..Len(packages) : packages[k] \in Int
  BY <1>1, ElementOfSeq
<1> QED BY <1>1, <1>2, ListTypes

LEMMA NextTimes ==
    ASSUME IInv, Serial, ~Manual, TimesTellProduced, [Next]_vars
    PROVE  TimesTellProduced'
<1>0. /\ TypeOK /\ now \in Int /\ Len(executions) \in Nat /\ Len(packages) \in Nat
      /\ produced \subseteq 1..Len(executions)
      /\ \A x \in 1..Len(executions) : executions[x].start \in Int
      /\ \A k \in 1..Len(packages) : packages[k] \in Int
  BY LoopTypes DEF IInv
<1>1. CASE ListsKept
  BY <1>0, <1>1 DEF ListsKept, ListKept, TimesTellProduced, Between
<1>2. ASSUME NEW x \in 1..Len(executions), Ends(x) PROVE TimesTellProduced'
  <2>1. \A y \in 1..Len(executions), k \in 1..Len(packages) : Between(y, k)' <=> Between(y, k)
    BY <1>0, <1>2 DEF Ends, StatusOnly, Between
  <2> QED BY <1>0, <1>2, <2>1 DEF Ends, StatusOnly, TimesTellProduced
<1>3. ASSUME NEW x \in 1..Len(executions), Register(x) PROVE TimesTellProduced'
  <2>1. /\ x = Len(executions) /\ x \notin produced
        /\ produced' = produced \cup {x} /\ UNCHANGED <<executions, now>>
        /\ \A y \in 1..Len(executions) : executions[y].start < now
        /\ Len(packages') = Len(packages) + 1
        /\ packages'[Len(packages) + 1] = now
        /\ \A k \in 1..Len(packages) : packages'[k] = packages[k]
    BY <1>3, RegisterAppends
  <2>2. \A y \in 1..Len(executions), k \in 1..Len(packages) : Between(y, k)' <=> Between(y, k)
    BY <2>1 DEF Between
  <2>3. \A y \in 1..Len(executions), k \in 1..Len(packages') :
           k = Len(packages) + 1 => (Between(y, k)' <=> y = x)
    BY <1>0, <2>1 DEF Between
  <2>4. \A k \in 1..Len(packages') : packages'[k] <= now'
    BY <1>0, <2>1 DEF TimesTellProduced
  <2>5. 1..Len(packages') = 1..Len(packages) \cup {Len(packages) + 1}
    BY <1>0, <2>1
  <2> QED BY <1>0, <2>1, <2>2, <2>3, <2>4, <2>5 DEF TimesTellProduced
<1>4. ASSUME NEW i \in Invocations, DriftStart(i) PROVE TimesTellProduced'
  <2>1. /\ Len(executions') = Len(executions) + 1
        /\ \A y \in 1..Len(executions) : executions'[y] = executions[y]
        /\ executions'[Len(executions) + 1].start = now
        /\ UNCHANGED <<now, packages, produced>>
    BY <1>0, <1>4, DriftStartAppends
  <2>2. \A y \in 1..Len(executions), k \in 1..Len(packages) : Between(y, k)' <=> Between(y, k)
    <3>1. ASSUME NEW y \in 1..Len(executions), NEW k \in 1..Len(packages)
          PROVE  Between(y, k)' <=> Between(y, k)
      <4>1. executions'[y] = executions[y] /\ packages[k] <= now
        BY <2>1 DEF TimesTellProduced
      <4>2. CASE y < Len(executions)
        <5>1. y + 1 \in 1..Len(executions)
          BY <1>0, <4>2
        <5> QED BY <1>0, <2>1, <4>1, <4>2, <5>1 DEF Between
      <4>3. CASE y = Len(executions)
        <5>1. executions'[y + 1].start = now
          BY <2>1, <4>3
        <5> QED BY <1>0, <2>1, <4>1, <4>3, <5>1 DEF Between
      <4> QED BY <1>0, <4>2, <4>3
    <3> QED BY <3>1
  <2>3. \A y \in 1..Len(executions'), k \in 1..Len(packages) :
           y = Len(executions) + 1 => ~Between(y, k)'
    BY <1>0, <2>1 DEF Between, TimesTellProduced
  <2>4. Len(executions) + 1 \notin produced
    BY <1>0
  <2>5. 1..Len(executions') = 1..Len(executions) \cup {Len(executions) + 1}
    BY <1>0, <2>1
  <2> QED BY <1>0, <2>1, <2>2, <2>3, <2>4, <2>5 DEF TimesTellProduced
<1> QED BY <1>0, <1>1, <1>2, <1>3, <1>4, LoopStep

LEMMA NextCrowded ==
    ASSUME IInv, Serial, ~Manual, TimesTellProduced, NoneCrowdedOut, [Next]_vars
    PROVE  NoneCrowdedOut'
<1>0. /\ TypeOK /\ now \in Int /\ Len(executions) \in Nat /\ Len(packages) \in Nat
      /\ produced \subseteq 1..Len(executions)
      /\ \A x \in 1..Len(executions) : executions[x].start \in Int
      /\ \A k \in 1..Len(packages) : packages[k] \in Int
  BY LoopTypes DEF IInv
<1>1. CASE ListsKept
  BY <1>1 DEF ListsKept, ListKept, NoneCrowdedOut, Between
<1>2. ASSUME NEW x \in 1..Len(executions), Ends(x) PROVE NoneCrowdedOut'
  <2>1. \A y \in 1..Len(executions), k \in 1..Len(packages) : Between(y, k)' <=> Between(y, k)
    BY <1>0, <1>2 DEF Ends, StatusOnly, Between
  <2> QED BY <1>0, <1>2, <2>1 DEF Ends, StatusOnly, NoneCrowdedOut
<1>3. ASSUME NEW x \in 1..Len(executions), Register(x) PROVE NoneCrowdedOut'
  <2>1. /\ x = Len(executions) /\ x \notin produced
        /\ produced' = produced \cup {x} /\ UNCHANGED <<executions, now>>
        /\ \A y \in 1..Len(executions) : executions[y].start < now
        /\ Len(packages') = Len(packages) + 1
        /\ packages'[Len(packages) + 1] = now
        /\ \A k \in 1..Len(packages) : packages'[k] = packages[k]
    BY <1>3, RegisterAppends
  <2> SUFFICES ASSUME NEW y \in 1..Len(executions), NEW k \in 1..Len(packages'), Between(y, k)'
               PROVE  Len(packages') - k <= Len(executions) - y
    BY <1>0, <2>1 DEF NoneCrowdedOut
  <2>2. CASE k \in 1..Len(packages)
    <3>1. Between(y, k)
      BY <2>1, <2>2 DEF Between
    <3>2. Len(packages) - k + 1 <= Len(executions) - y
      BY <2>1, <2>2, <3>1 DEF NoneCrowdedOut
    <3> QED BY <1>0, <2>1, <2>2, <3>2
  <2>3. CASE k = Len(packages) + 1
    BY <1>0, <2>1, <2>3
  <2> QED BY <1>0, <2>1, <2>2, <2>3
<1>4. ASSUME NEW i \in Invocations, DriftStart(i) PROVE NoneCrowdedOut'
  <2>1. /\ Len(executions') = Len(executions) + 1
        /\ \A y \in 1..Len(executions) : executions'[y] = executions[y]
        /\ executions'[Len(executions) + 1].start = now
        /\ UNCHANGED <<now, packages, produced>>
    BY <1>0, <1>4, DriftStartAppends
  <2>2. Len(executions) + 1 \notin produced
    BY <1>0
  <2> SUFFICES ASSUME NEW y \in 1..(Len(executions) + 1), NEW k \in 1..Len(packages), Between(y, k)'
               PROVE  Len(packages) - k + 1 <= Len(executions) + 1 - y
    BY <2>1, <2>2 DEF NoneCrowdedOut
  <2>3. y # Len(executions) + 1
    BY <1>0, <2>1 DEF Between, TimesTellProduced
  <2>4. y \in 1..Len(executions)
    BY <1>0, <2>3
  <2>5. Between(y, k)
    <3>1. executions'[y] = executions[y]
      BY <2>1, <2>4
    <3>2. CASE y < Len(executions)
      <4>1. y + 1 \in 1..Len(executions)
        BY <1>0, <2>4, <3>2
      <4> QED BY <1>0, <2>1, <3>1, <3>2, <4>1 DEF Between
    <3>3. CASE y = Len(executions)
      BY <1>0, <2>1, <3>1, <3>3 DEF Between
    <3> QED BY <1>0, <2>4, <3>2, <3>3
  <2>6. Len(packages) - k + (IF Len(executions) \in produced THEN 0 ELSE 1) <= Len(executions) - y
    BY <2>4, <2>5 DEF NoneCrowdedOut
  <2>7. Len(packages) - k <= Len(executions) - y
    <3>1. CASE Len(executions) \in produced
      BY <1>0, <2>4, <2>6, <3>1
    <3>2. CASE Len(executions) \notin produced
      BY <1>0, <2>4, <2>6, <3>2
    <3> QED BY <3>1, <3>2
  <2> QED BY <1>0, <2>4, <2>7
<1> QED BY <1>0, <1>1, <1>2, <1>3, <1>4, LoopStep

\* While an invocation is past its first check nothing else moves the lists.
LEMMA QuietWhenChecked ==
    ASSUME IInv, Serial, ~Manual, [Next]_vars,
           NEW i \in Invocations, pc[i] \in Checked, pc'[i] \in Checked
    PROVE  UNCHANGED <<executions, packages, produced>>
<1>1. \A x \in 1..Len(executions) : executions[x].status \notin Active
  BY DEF IInv, CheckStillHolds
<1>2. ASSUME NEW x \in 1..Len(executions), Register(x) \/ Ends(x) PROVE FALSE
  BY <1>1, <1>2 DEF Register, Ends, Active
<1>3. ASSUME NEW j \in Invocations, DriftStart(j) PROVE FALSE
  <2>1. i = j
    BY <1>3 DEF DriftStart, IInv, OneAtATime, Running, Checked
  <2> QED BY <1>3, <2>1 DEF DriftStart, Checked, IInv, TypeOK
<1>4. ListsKept
  BY <1>2, <1>3, LoopStep DEF IInv
<1> QED BY <1>4 DEF ListsKept, ListKept

\* Where the two readings of an invocation come from.
LEMMA ReadAndCounted ==
    ASSUME TypeOK, [Next]_vars, NEW i \in Invocations
    PROVE  /\ pc'[i] = "list_packages" =>
                \/ ListExecutions(i)
                \/ pc[i] = "list_packages" /\ listed'[i] = listed[i]
           /\ pc'[i] = "start" => CountUnproductive(i) \/ pc[i] = "start"
<1>1. ASSUME NEW j \in Invocations, Violation(j) \/ Redeliver(j)
      PROVE  /\ pc'[i] \notin {"list_packages", "start"} \/ pc'[i] = pc[i]
             /\ listed' = listed
  BY <1>1 DEF Violation, Redeliver, Deliver, TypeOK
<1>2. ASSUME NEW j \in Invocations, ListExecutions(j), j # i
      PROVE  pc'[i] = pc[i] /\ listed'[i] = listed[i]
  BY <1>2 DEF ListExecutions, Goto, TypeOK
<1>3. ASSUME NEW j \in Invocations, CountUnproductive(j)
      PROVE  IF j = i THEN pc'[i] # "list_packages" ELSE pc'[i] = pc[i] /\ listed'[i] = listed[i]
  BY <1>3 DEF CountUnproductive, Goto, TypeOK
<1>4. ASSUME NEW j \in Invocations, CheckBlocking(j) \/ StartExecution(j) \/ Retry(j) \/ Drop(j)
      PROVE  /\ pc'[i] \notin {"list_packages", "start"} \/ pc'[i] = pc[i]
             /\ listed' = listed
  BY <1>4 DEF CheckBlocking, StartExecution, Retry, Drop, Goto, TypeOK
<1>5. ASSUME NEW j \in Invocations, CallFails(j)
      PROVE  IF j = i THEN pc'[i] = "raised" ELSE pc'[i] = pc[i] /\ listed'[i] = listed[i]
  BY <1>5 DEF CallFails, Goto, TypeOK
<1>6. CASE PipelineStep \/ UNCHANGED vars
  BY <1>6 DEF PipelineStep, Register, Finish, Stopped, SetStatus, StartManually, Tick, callVars, vars
<1>7. ASSUME ListExecutions(i)
      PROVE  pc'[i] = "list_packages"
  BY <1>7 DEF ListExecutions, Goto, TypeOK
<1> QED BY <1>1, <1>2, <1>3, <1>4, <1>5, <1>6, <1>7 DEF Next, HandlerStep

LEMMA NextReadings ==
    ASSUME IInv, Serial, ~Manual, [Next]_vars,
           TimesTellProduced, NoneCrowdedOut, ListIsCurrent, CountStillHolds
    PROVE  ListIsCurrent' /\ CountStillHolds'
<1>0. TypeOK
  BY DEF IInv
<1>1. ASSUME NEW i \in Invocations, pc'[i] = "list_packages"
      PROVE  listed'[i] = Newest(RecentLimit, executions')
  <2>1. CASE ListExecutions(i)
    BY <1>0, <2>1 DEF ListExecutions, pipelineVars, TypeOK
  <2>2. CASE pc[i] = "list_packages" /\ listed'[i] = listed[i]
    <3>1. executions' = executions
      BY <1>1, <2>2, QuietWhenChecked DEF Checked
    <3> QED BY <2>2, <3>1 DEF ListIsCurrent
  <2> QED BY <1>0, <1>1, <2>1, <2>2, ReadAndCounted
<1>2. ASSUME NEW i \in Invocations, pc'[i] = "start"
      PROVE  Cardinality(TrulyUnproductive(Len(executions) + 1))' < Limit
  <2>1. CASE CountUnproductive(i)
    <3>1. /\ pc[i] = "list_packages" /\ UNCHANGED <<executions, produced>>
          /\ ~(UnproductiveCount(listed[i], Newest(RecentLimit, packages)) >= Limit)
      BY <1>0, <1>2, <2>1 DEF CountUnproductive, Goto, pipelineVars, TypeOK
    <3>2. UnproductiveCount(listed[i], Newest(RecentLimit, packages))
            = Cardinality(TrulyUnproductive(Len(executions) + 1))
      BY <1>0, <3>1, CountIsTrue DEF ListIsCurrent
    <3>3. Cardinality(TrulyUnproductive(Len(executions) + 1)) \in Nat
      BY <1>0, CountIsNatural
    <3>4. Cardinality(TrulyUnproductive(Len(executions) + 1)) < Limit
      BY <3>1, <3>2, <3>3
    <3> QED BY <3>1, <3>4 DEF TrulyUnproductive
  <2>2. CASE pc[i] = "start"
    <3>1. UNCHANGED <<executions, produced>>
      BY <1>2, <2>2, QuietWhenChecked DEF Checked
    <3> QED BY <2>2, <3>1 DEF CountStillHolds, TrulyUnproductive
  <2> QED BY <1>0, <1>2, <2>1, <2>2, ReadAndCounted
<1> QED BY <1>1, <1>2 DEF ListIsCurrent, CountStillHolds

\* What lies before the newest execution is over and does not change.
LEMMA PastIsFixed ==
    ASSUME IInv, Serial, ~Manual, [Next]_vars, NEW y \in 1..(Len(executions) - 1)
    PROVE  /\ executions'[y].kind = executions[y].kind
           /\ executions'[y].status = executions[y].status
           /\ y \in produced' <=> y \in produced
<1>0. TypeOK /\ Len(executions) \in Nat /\ y \in 1..Len(executions) /\ y # Len(executions)
  BY LoopTypes DEF IInv
<1>1. CASE ListsKept
  BY <1>1 DEF ListsKept, ListKept
<1>2. ASSUME NEW x \in 1..Len(executions), Register(x)
      PROVE  produced' = produced \cup {Len(executions)} /\ executions' = executions
  BY <1>2, RegisterAppends
<1>3. ASSUME NEW x \in 1..Len(executions), Ends(x)
      PROVE  /\ executions'[y].kind = executions[y].kind
             /\ executions'[y].status = executions[y].status
             /\ produced' = produced
  <2>1. x = Len(executions)
    BY <1>3 DEF Ends, IInv, OnlyNewestActive
  <2> QED BY <1>0, <1>3, <2>1 DEF Ends, StatusOnly
<1>4. ASSUME NEW i \in Invocations, DriftStart(i)
      PROVE  executions'[y] = executions[y] /\ produced' = produced
  BY <1>0, <1>4, DriftStartAppends
<1> QED BY <1>0, <1>1, <1>2, <1>3, <1>4, LoopStep

LEMMA NextStalled ==
    ASSUME IInv, Serial, ~Manual, [Next]_vars, CountStillHolds, StalledLoopStops
    PROVE  StalledLoopStops'
<1>0. TypeOK /\ Len(executions) \in Nat
  BY LoopTypes DEF IInv
<1> SUFFICES ASSUME NEW n \in DriftRuns'
             PROVE  Cardinality(TrulyUnproductive(n))' < Limit
  BY DEF StalledLoopStops
<1>1. CASE n \in DriftRuns
  <2>1. n \in 1..Len(executions)
    BY <1>1 DEF DriftRuns
  <2>2. \A y \in 1..(n - 1) : y \in 1..(Len(executions) - 1)
    BY <1>0, <2>1
  <2>3. TrulyUnproductive(n)' = TrulyUnproductive(n)
    BY <2>1, <2>2, PastIsFixed, SamePast
  <2> QED BY <1>1, <2>3 DEF StalledLoopStops
<1>2. CASE n \notin DriftRuns
  <2>1. ASSUME NEW i \in Invocations, DriftStart(i) PROVE Cardinality(TrulyUnproductive(n))' < Limit
    <3>1. /\ Len(executions') = Len(executions) + 1
          /\ \A y \in 1..Len(executions) : executions'[y] = executions[y]
          /\ produced' = produced
      BY <1>0, <2>1, DriftStartAppends
    <3>2. n = Len(executions) + 1
      BY <1>0, <1>2, <3>1 DEF DriftRuns
    <3>3. n - 1 = Len(executions) /\ n \in Int
      BY <1>0, <3>2
    <3>4. TrulyUnproductive(n)' = TrulyUnproductive(n)
      BY <3>1, <3>3, SamePast
    <3>5. Cardinality(TrulyUnproductive(n)) < Limit
      BY <2>1, <3>2 DEF CountStillHolds, DriftStart
    <3> QED BY <3>4, <3>5
  <2>2. ASSUME NEW x \in 1..Len(executions), Register(x) \/ Ends(x) PROVE FALSE
    BY <1>2, <2>2 DEF Register, Ends, StatusOnly, DriftRuns
  <2>3. ~ListsKept
    BY <1>2 DEF ListsKept, ListKept, DriftRuns
  <2> QED BY <1>0, <2>1, <2>2, <2>3, LoopStep
<1> QED BY <1>1, <1>2

LEMMA InitStallInv == Init => StallInv
<1> SUFFICES ASSUME Init PROVE StallInv
  OBVIOUS
<1>1. /\ executions = <<>> /\ Len(executions) = 0 /\ packages = <<>> /\ Len(packages) = 0
      /\ \A i \in Invocations : pc[i] = "idle"
  BY DEF Init
<1> QED BY <1>1 DEF StallInv, TimesTellProduced, NoneCrowdedOut, ListIsCurrent, CountStillHolds,
                    StalledLoopStops, DriftRuns

LEMMA NextStallInv == IInv /\ StallInv /\ [Next]_vars => StallInv'
<1> SUFFICES ASSUME IInv, StallInv, [Next]_vars, Serial, ~Manual PROVE StallInv'
  BY DEF StallInv
<1>1. TimesTellProduced' /\ NoneCrowdedOut'
  BY NextTimes, NextCrowded DEF StallInv
<1>2. ListIsCurrent' /\ CountStillHolds'
  BY NextReadings DEF StallInv
<1>3. StalledLoopStops'
  BY NextStalled DEF StallInv
<1> QED BY <1>1, <1>2, <1>3 DEF StallInv

\* As long as invocations do not overlap and nobody else starts runs, a loop
\* that registers nothing pauses itself: no drift run starts after Limit
\* successful runs in a row without a package.  The handler decides it from the
\* creation times in two lists that are cut off, read one after the other
\* (retrain_handler.py:44-118).
THEOREM StalledLoopIsStopped == Serial /\ ~Manual => (Spec => []StalledLoopStops)
<1> SUFFICES ASSUME Serial, ~Manual PROVE Spec => []StalledLoopStops
  OBVIOUS
<1>1. Init => IInv /\ StallInv
  BY InitIInv, InitStallInv
<1>2. IInv /\ StallInv /\ [Next]_vars => (IInv /\ StallInv)'
  BY NextIInv, NextStallInv
<1>3. IInv /\ StallInv => StalledLoopStops
  BY DEF StallInv
<1> QED BY <1>1, <1>2, <1>3, PTL DEF Spec

=============================================================================
