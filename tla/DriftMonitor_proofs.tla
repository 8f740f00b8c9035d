------------------------ MODULE DriftMonitor_proofs ------------------------
(***************************************************************************)
(* Proofs about DriftMonitor for every set of requests, packages and       *)
(* invocations, every window length and every sample-size threshold.       *)
(***************************************************************************)
EXTENDS DriftMonitor, TLAPS

USE MonitorConstants

LEMMA MonitorInit == Init => IInv
BY DEF Init, Endpoint!Init, IInv, TypeOK, ClockOrder, WindowIsWhole, HasRead, Calls,
       ScoredInWindow, LiveAfterTracked, AfterVerdict, BlamesServingModel

\* What a step of the endpoint leaves alone, and that it stays well-typed.
LEMMA RedeployTypes ==
    ASSUME TypeOK, Redeploy
    PROVE  /\ approved' \subseteq Packages
           /\ live' \in Packages \cup {None, Other}
           /\ target' \in Packages \cup {None}
<1>1. Endpoint!Next
  BY DEF Redeploy
<1>2. /\ approved \subseteq Packages
      /\ live \in Packages \cup {None, Other}
      /\ target \in Packages \cup {None}
  BY DEF TypeOK
<1>3. CASE \E p \in Packages : Endpoint!Approve(p) \/ Endpoint!Start(p)
  BY <1>2, <1>3 DEF Endpoint!Approve, Endpoint!Start
<1>4. CASE Endpoint!Complete \/ Endpoint!Abandon \/ Endpoint!TakeDown
  BY <1>2, <1>4 DEF Endpoint!Complete, Endpoint!Abandon, Endpoint!TakeDown
<1> QED BY <1>1, <1>3, <1>4 DEF Endpoint!Next

LEMMA MonitorStepType ==
    ASSUME TypeOK, LiveAfterTracked, [Next]_vars
    PROVE  TypeOK'
<1> USE DEF TypeOK
<1>1. CASE Tick
  BY <1>1 DEF Tick, releaseVars, captureVars, runVars
<1>2. CASE Redeploy
  <2>1. liveAfter' \in [Invocations -> SUBSET (Packages \cup {None, Other})]
    BY <1>2, RedeployTypes DEF Redeploy
  <2> QED BY <1>2, <2>1, RedeployTypes DEF Redeploy, captureVars
<1>3. ASSUME NEW r \in Requests, Serve(r)
      PROVE  TypeOK'
  BY <1>3 DEF Serve, releaseVars, runVars
<1>4. ASSUME NEW r \in Requests, NEW h \in 0..MaxHour, Store(r, h) \/ LoseCapture(r, h)
      PROVE  TypeOK'
  BY <1>4 DEF Store, LoseCapture, Fault, Objects, releaseVars, runVars
<1>5. ASSUME NEW i \in Invocations, HandlerStep(i)
      PROVE  TypeOK'
  <2> USE DEF Goto, Frame, Calls, releaseVars, captureVars
  <2>1. CASE Begin(i)
    BY <2>1 DEF Begin
  <2>2. CASE ReadWindow(i)
    BY <2>2 DEF ReadWindow
  <2>3. CASE Snapshot(i)
    BY <2>3 DEF Snapshot
  <2>4. CASE Resolve(i)
    BY <2>4 DEF Resolve
  <2>5. CASE Verdict(i)
    BY <2>5 DEF Verdict
  <2>6. CASE Recheck(i)
    BY <2>6 DEF Recheck
  <2>7. CASE Emit(i)
    <3>1. resolved[i] \in Packages
      BY <2>7 DEF Emit, LiveAfterTracked
    <3> QED BY <2>7, <3>1 DEF Emit, Fault
  <2>8. CASE CallFails(i)
    BY <2>8 DEF CallFails, Fault
  <2> QED BY <1>5, <2>1, <2>2, <2>3, <2>4, <2>5, <2>6, <2>7, <2>8 DEF HandlerStep
<1>6. CASE UNCHANGED vars
  BY <1>6 DEF vars, releaseVars, captureVars, runVars
<1> QED BY <1>1, <1>2, <1>3, <1>4, <1>5, <1>6 DEF Next

-----------------------------------------------------------------------------
\* The window a run scores, and nothing stored too late to be in it.
LEMMA StepWindow ==
    ASSUME TypeOK, ClockOrder, WindowIsWhole, ScoredInWindow, [Next]_vars
    PROVE  ClockOrder' /\ WindowIsWhole' /\ ScoredInWindow'
<1> USE DEF ClockOrder, WindowIsWhole, ScoredInWindow, HasRead, Due, Readable, Calls
<1>t. /\ now \in Nat
      /\ \A o \in objects : o.hour \in Nat /\ o.stored \in Nat
      /\ \A i \in Invocations : began[i] \in Nat
      /\ pc \in [Invocations -> {"idle", "raised", "done"} \cup Calls]
      /\ began \in [Invocations -> 0..MaxHour]
      /\ scored \in [Invocations -> SUBSET Objects]
  BY DEF TypeOK, Objects
<1>1. CASE Tick
  BY <1>1, <1>t DEF Tick, releaseVars, captureVars, runVars
<1>2. CASE Redeploy
  BY <1>2 DEF Redeploy, captureVars
<1>3. ASSUME NEW r \in Requests, Serve(r)
      PROVE  ClockOrder' /\ WindowIsWhole' /\ ScoredInWindow'
  BY <1>3 DEF Serve, releaseVars, runVars
<1>4. ASSUME NEW r \in Requests, NEW h \in 0..MaxHour, Store(r, h)
      PROVE  ClockOrder' /\ WindowIsWhole' /\ ScoredInWindow'
  <2> DEFINE new == [request |-> r, hour |-> h, stored |-> now]
  <2>1. /\ objects' = objects \cup {new}
        /\ new.hour = h /\ new.stored = now /\ h \in Nat
        /\ UNCHANGED <<now, content, pc, began, scored>>
    BY <1>4 DEF Store, runVars
  <2>2. ClockOrder' /\ ScoredInWindow'
    BY <2>1, <1>t
  <2>3. \A i \in Invocations : Due(i)' \subseteq Due(i)
    BY <2>1, <1>t
  <2> QED BY <2>1, <2>2, <2>3
<1>5. ASSUME NEW r \in Requests, NEW h \in 0..MaxHour, LoseCapture(r, h)
      PROVE  ClockOrder' /\ WindowIsWhole' /\ ScoredInWindow'
  BY <1>5 DEF LoseCapture, releaseVars, runVars
<1>6. ASSUME NEW i \in Invocations, HandlerStep(i)
      PROVE  ClockOrder' /\ WindowIsWhole' /\ ScoredInWindow'
  <2> USE DEF Goto, Frame, releaseVars, captureVars
  <2>1. CASE Begin(i)
    BY <2>1, <1>t DEF Begin
  <2>2. CASE ReadWindow(i)
    <3> DEFINE read == {o \in objects : o.hour \in Window(began[i]) /\ Readable(o)}
    <3>1. /\ scored' = [scored EXCEPT ![i] = read]
          /\ \A j \in Invocations : j # i => pc'[j] = pc[j]
          /\ UNCHANGED <<now, content, objects, began>>
      BY <2>2, <1>t DEF ReadWindow
    <3>2. \A o \in objects : o.hour \in Window(began[i]) <=>
              o.hour < began[i] /\ began[i] <= o.hour + WindowHours
      BY <1>t DEF Window, TypeOK, Objects
    <3>3. Due(i) \subseteq read
      BY <3>2
    <3>4. \A o \in read : o.hour < began[i] /\ began[i] <= o.hour + WindowHours
      BY <3>2
    <3> HIDE DEF read
    <3>5. scored'[i] = read /\ \A j \in Invocations : j # i => scored'[j] = scored[j]
      BY <3>1, <1>t
    <3> QED BY <3>1, <3>3, <3>4, <3>5
  <2>3. CASE Snapshot(i) \/ Resolve(i) \/ Verdict(i) \/ Recheck(i) \/ Emit(i) \/ CallFails(i)
    <3>1. /\ UNCHANGED <<now, content, objects, began, scored>>
          /\ \A j \in Invocations : HasRead(j)' => HasRead(j)
      BY <2>3, <1>t DEF Snapshot, Resolve, Verdict, Recheck, Emit, CallFails
    <3> QED BY <3>1
  <2> QED BY <1>6, <2>1, <2>2, <2>3 DEF HandlerStep
<1>7. CASE UNCHANGED vars
  BY <1>7 DEF vars, releaseVars, captureVars, runVars
<1> QED BY <1>1, <1>2, <1>3, <1>4, <1>5, <1>6, <1>7 DEF Next

\* What a run knows of the models that served since its verdict.
LEMMA StepBlame ==
    ASSUME TypeOK, LiveAfterTracked, BlamesServingModel, [Next]_vars
    PROVE  LiveAfterTracked' /\ BlamesServingModel'
<1> USE DEF LiveAfterTracked, BlamesServingModel, AfterVerdict, Calls
<1>t. /\ pc \in [Invocations -> {"idle", "raised", "done"} \cup Calls]
      /\ resolved \in [Invocations -> Packages \cup {None, Other}]
      /\ liveAfter \in [Invocations -> SUBSET (Packages \cup {None, Other})]
  BY DEF TypeOK
<1>1. CASE Tick \/ (\E r \in Requests : Serve(r)) \/ UNCHANGED vars
           \/ (\E r \in Requests, h \in 0..MaxHour : Store(r, h) \/ LoseCapture(r, h))
  BY <1>1 DEF Tick, Serve, Store, LoseCapture, releaseVars, captureVars, runVars, vars
<1>2. CASE Redeploy
  <2>1. /\ UNCHANGED <<pc, resolved, violations>>
        /\ \A i \in Invocations : liveAfter'[i] =
               IF pc[i] \in AfterVerdict THEN liveAfter[i] \cup {live'} ELSE liveAfter[i]
    BY <1>2 DEF Redeploy
  <2> QED BY <2>1
<1>3. ASSUME NEW i \in Invocations, HandlerStep(i)
      PROVE  LiveAfterTracked' /\ BlamesServingModel'
  <2> USE DEF Goto, Frame, releaseVars, captureVars
  <2>1. CASE Begin(i)
    BY <2>1, <1>t DEF Begin
  <2>2. CASE ReadWindow(i)
    BY <2>2, <1>t DEF ReadWindow
  <2>3. CASE Snapshot(i)
    BY <2>3, <1>t DEF Snapshot
  <2>4. CASE Resolve(i)
    BY <2>4, <1>t DEF Resolve
  <2>5. CASE Verdict(i)
    BY <2>5, <1>t DEF Verdict
  <2>6. CASE Recheck(i)
    BY <2>6, <1>t DEF Recheck, StillServing
  <2>7. CASE Emit(i)
    BY <2>7, <1>t DEF Emit
  <2>8. CASE CallFails(i)
    BY <2>8, <1>t DEF CallFails
  <2> QED BY <1>3, <2>1, <2>2, <2>3, <2>4, <2>5, <2>6, <2>7, <2>8 DEF HandlerStep
<1> QED BY <1>1, <1>2, <1>3 DEF Next

-----------------------------------------------------------------------------
\* Every variable keeps its type: captures, runs and events are well-formed,
\* and no delivery is retried more often than Lambda does.
THEOREM MonitorTypes == Spec => []TypeOK
<1>1. Init => IInv
  BY MonitorInit
<1>2. IInv /\ [Next]_vars => IInv'
  BY MonitorStepType, StepWindow, StepBlame DEF IInv
<1>3. IInv => TypeOK
  BY DEF IInv
<1> QED BY <1>1, <1>2, <1>3, PTL DEF Spec

\* The inductive invariant holds in every reachable state.
THEOREM MonitorInvariance == Spec => []IInv
<1>1. Init => IInv
  BY MonitorInit
<1>2. IInv /\ [Next]_vars => IInv'
  BY MonitorStepType, StepWindow, StepBlame DEF IInv
<1> QED BY <1>1, <1>2, PTL DEF Spec

\* The run that scores an hour misses no capture stored during that hour: only
\* a put that outlives its hour escapes the monitor (drift_handler.py:53-79).
THEOREM WindowsAreWhole == Spec => []WindowIsWhole
<1>1. IInv => WindowIsWhole
  BY DEF IInv
<1> QED BY <1>1, MonitorInvariance, PTL

\* No capture is scored by two runs that began at least a window apart.
THEOREM WindowsAreDisjoint == Spec => []WindowsDisjoint
<1>1. ASSUME IInv
      PROVE  WindowsDisjoint
  <2>1. SUFFICES ASSUME NEW i \in Invocations, NEW j \in Invocations,
                        began[i] + WindowHours <= began[j],
                        NEW o \in scored[i] \cap scored[j]
                 PROVE  FALSE
    BY DEF WindowsDisjoint
  <2>2. /\ o.hour \in Nat /\ began[i] \in Nat /\ began[j] \in Nat
        /\ o.hour < began[i] /\ began[j] <= o.hour + WindowHours
    BY <1>1, <2>1 DEF IInv, TypeOK, Objects, ScoredInWindow
  <2> QED BY <2>1, <2>2
<1> QED BY <1>1, MonitorInvariance, PTL

\* A violation never blames a model that had stopped serving before the scoring
\* ended, however often the endpoint changes during the run.
THEOREM BlameIsCurrent == Spec => []BlamesServingModel
<1>1. IInv => BlamesServingModel
  BY DEF IInv
<1> QED BY <1>1, MonitorInvariance, PTL

=============================================================================
