---------------------------- MODULE DriftMonitor ----------------------------
(***************************************************************************)
(* src/src/serving/proxy_handler.py and src/src/monitoring/drift_handler.py:*)
(* the proxy stores every served prediction under the hour it was served   *)
(* in, and the drift handler, invoked every hour, scores the hour before   *)
(* against the baseline of the package behind the endpoint.                *)
(*                                                                         *)
(* The endpoint moves under both of them.  It moves as Release allows,     *)
(* which is what the deploy handler is shown to implement (Deploy), so     *)
(* Release is the environment here: a package doubles as the name of its   *)
(* endpoint configuration, and the endpoint is in service when something   *)
(* is live and nothing is being deployed.                                  *)
(*                                                                         *)
(* Whether a window has drifted is left open: no property here depends on  *)
(* the statistic itself.                                                   *)
(***************************************************************************)
EXTENDS FiniteSets, Naturals

CONSTANTS
    Packages, None, Other,
    Requests,       \* prediction requests, each with a valid record
    Records,        \* what a record can be, as far as distinctness goes
    Unreadable,     \* an object that holds no record
    Invocations,    \* deliveries of the hourly schedule, duplicates included
    WindowHours, MinRecords, MinDistinctRecords,
    MaxAttempts,    \* deliveries of one invocation: the first and Lambda's retries
    MaxHour, MaxFaults

ASSUME MonitorConstants ==
    /\ None \notin Packages /\ Other \notin Packages /\ None # Other
    /\ Unreadable \notin Records
    /\ WindowHours \in Nat \ {0} /\ MaxAttempts \in Nat \ {0}
    /\ MinRecords \in Nat /\ MinDistinctRecords \in Nat
    /\ MaxHour \in Nat /\ MaxFaults \in Nat

VARIABLES
    now,            \* the current hour
    approved, live, target,   \* the endpoint, as Release describes it
    content,        \* request -> the record its object would hold
    putting,        \* requests served but not stored yet, under their hour
    objects,        \* stored captures: request, hour of the key, hour of the put
    pc,             \* invocation -> its next call
    began,          \* invocation -> the hour the attempt read the clock
    scored,         \* invocation -> the captures it read
    resolved,       \* invocation -> the package whose baseline it uses
    liveAfter,      \* invocation -> what was live since its verdict (history)
    attempts,
    violations,     \* emitted events (history)
    faults

releaseVars == <<approved, live, target>>
captureVars == <<content, putting, objects>>
runVars == <<pc, began, scored, resolved, liveAfter, attempts>>
vars == <<now, releaseVars, captureVars, runVars, violations, faults>>

Endpoint == INSTANCE Release

InService == live # None /\ target = None
Answered == live # None
Missing == live = None /\ target = None   \* absent, or there but failed

Objects == [request: Requests, hour: 0..MaxHour, stored: 0..MaxHour]
Calls == {"read", "snapshot", "resolve", "verdict", "recheck", "emit"}
AfterVerdict == {"recheck", "emit"}

TypeOK ==
    /\ now \in 0..MaxHour
    /\ approved \subseteq Packages
    /\ live \in Packages \cup {None, Other}
    /\ target \in Packages \cup {None}
    /\ content \in [Requests -> Records \cup {Unreadable}]
    /\ putting \subseteq Requests \X (0..MaxHour)
    /\ objects \subseteq Objects
    /\ pc \in [Invocations -> {"idle", "raised", "done"} \cup Calls]
    /\ began \in [Invocations -> 0..MaxHour]
    /\ scored \in [Invocations -> SUBSET Objects]
    /\ resolved \in [Invocations -> Packages \cup {None, Other}]
    /\ liveAfter \in [Invocations -> SUBSET (Packages \cup {None, Other})]
    /\ attempts \in [Invocations -> 0..MaxAttempts]
    /\ violations \subseteq [package: Packages, liveAfter: SUBSET (Packages \cup {None, Other})]
    /\ faults \in 0..MaxFaults

Init ==
    /\ now = 0
    /\ Endpoint!Init
    /\ content \in [Requests -> Records \cup {Unreadable}]
    /\ putting = {}
    /\ objects = {}
    /\ pc = [i \in Invocations |-> "idle"]
    /\ began = [i \in Invocations |-> 0]
    /\ scored = [i \in Invocations |-> {}]
    /\ resolved = [i \in Invocations |-> None]
    /\ liveAfter = [i \in Invocations |-> {}]
    /\ attempts = [i \in Invocations |-> 0]
    /\ violations = {}
    /\ faults = 0

Fault == faults < MaxFaults /\ faults' = faults + 1

-----------------------------------------------------------------------------
(***************************************************************************)
(* Time, the endpoint and the proxy.                                       *)
(***************************************************************************)

\* A put ends within the proxy's timeout, so at most one hour is crossed.
Tick ==
    /\ now < MaxHour
    /\ \A put \in putting : put[2] = now
    /\ now' = now + 1
    /\ UNCHANGED <<releaseVars, captureVars, runVars, violations, faults>>

Redeploy ==
    /\ Endpoint!Next
    /\ liveAfter' = [i \in Invocations |->
           IF pc[i] \in AfterVerdict THEN liveAfter[i] \cup {live'} ELSE liveAfter[i]]
    /\ UNCHANGED <<now, captureVars, pc, began, scored, resolved, attempts, violations, faults>>

Captured(r) ==
    \/ \E h \in 0..MaxHour : <<r, h>> \in putting
    \/ \E o \in objects : o.request = r

\* The endpoint answers; capture then names the object by the current hour.
Serve(r) ==
    /\ Answered
    /\ ~Captured(r)
    /\ putting' = putting \cup {<<r, now>>}
    /\ UNCHANGED <<now, releaseVars, content, objects, runVars, violations, faults>>

\* put_object lands, possibly after the hour in its key has ended.
Store(r, h) ==
    /\ <<r, h>> \in putting
    /\ putting' = putting \ {<<r, h>>}
    /\ objects' = objects \cup {[request |-> r, hour |-> h, stored |-> now]}
    /\ UNCHANGED <<now, releaseVars, content, runVars, violations, faults>>

\* A failed put is logged and the response stands.
LoseCapture(r, h) ==
    /\ <<r, h>> \in putting
    /\ Fault
    /\ putting' = putting \ {<<r, h>>}
    /\ UNCHANGED <<now, releaseVars, content, objects, runVars, violations>>

-----------------------------------------------------------------------------
(***************************************************************************)
(* The drift handler.                                                      *)
(***************************************************************************)
Goto(i, step) == pc' = [pc EXCEPT ![i] = step]
Frame == UNCHANGED <<now, releaseVars, captureVars>>

\* The schedule fires and the handler reads the clock; a delivery may be late,
\* and the window follows the clock, not the hour it was sent in.
Begin(i) ==
    /\ pc[i] \in {"idle", "raised"}
    /\ attempts[i] < MaxAttempts
    /\ Goto(i, "read")
    /\ attempts' = [attempts EXCEPT ![i] = @ + 1]
    /\ began' = [began EXCEPT ![i] = now]
    /\ scored' = [scored EXCEPT ![i] = {}]
    /\ resolved' = [resolved EXCEPT ![i] = None]
    /\ liveAfter' = [liveAfter EXCEPT ![i] = {}]
    /\ UNCHANGED <<violations, faults>>
    /\ Frame

\* Mutants of Window: count from the current hour; one hour too many.
WindowFromNow(h) == {k \in 0..MaxHour : k <= h /\ h < k + WindowHours}
WindowTooLong(h) == {k \in 0..MaxHour : k < h /\ h <= k + WindowHours + 1}

\* window_prefixes: the hours before `h', WindowHours of them.
Window(h) == {k \in 0..MaxHour : k < h /\ h <= k + WindowHours}

Readable(o) == content[o.request] # Unreadable
Distinct(os) == {content[o.request] : o \in os}

\* Enough records, and enough different ones.
Enough(os) ==
    /\ Cardinality(os) >= MinRecords
    /\ Cardinality(Distinct(os)) >= MinDistinctRecords

\* read_captured and the two sample-size checks.
ReadWindow(i) ==
    /\ pc[i] = "read"
    /\ LET read == {o \in objects : o.hour \in Window(began[i]) /\ Readable(o)}
       IN  /\ scored' = [scored EXCEPT ![i] = read]
           /\ Goto(i, IF Enough(read) THEN "snapshot" ELSE "done")
    /\ UNCHANGED <<began, resolved, liveAfter, attempts, violations, faults>>
    /\ Frame

\* The first _endpoint_snapshot: an unstable endpoint skips, a missing one raises.
Snapshot(i) ==
    /\ pc[i] = "snapshot"
    /\ resolved' = [resolved EXCEPT ![i] = live]
    /\ \/ InService /\ Goto(i, "resolve")
       \/ ~InService /\ Goto(i, "done")
       \/ Missing /\ Goto(i, "raised")
    /\ UNCHANGED <<began, scored, liveAfter, attempts, violations, faults>>
    /\ Frame

\* resolve_serving_baseline: config, model, package, baseline.  A package
\* without versioned baseline metadata raises.
Resolve(i) ==
    /\ pc[i] = "resolve"
    /\ Goto(i, IF resolved[i] \in Packages THEN "verdict" ELSE "raised")
    /\ UNCHANGED <<began, scored, resolved, liveAfter, attempts, violations, faults>>
    /\ Frame

\* compare.
Verdict(i) ==
    /\ pc[i] = "verdict"
    /\ Goto(i, "recheck")
    /\ liveAfter' = [liveAfter EXCEPT ![i] = {live}]
    /\ UNCHANGED <<began, scored, resolved, attempts, violations, faults>>
    /\ Frame

\* Mutant of StillServing: the status is rechecked, the configuration is not.
StillHealthy(i) == InService

\* The second _endpoint_snapshot finds what the first one found.
StillServing(i) == InService /\ live = resolved[i]

\* The second snapshot, then the verdict: only drift of the model that still
\* serves goes on to an event.
Recheck(i) ==
    /\ pc[i] = "recheck"
    /\ \/ StillServing(i) /\ Goto(i, "emit")
       \/ Goto(i, "done")                      \* no drift, or nothing stable
       \/ Missing /\ Goto(i, "raised")
    /\ UNCHANGED <<began, scored, resolved, liveAfter, attempts, violations, faults>>
    /\ Frame

\* emit_violation: put_events, whose reply may be lost after the event is out.
Emit(i) ==
    /\ pc[i] = "emit"
    /\ violations' = violations \cup
           {[package |-> resolved[i], liveAfter |-> liveAfter[i]]}
    /\ \/ Goto(i, "done") /\ UNCHANGED faults
       \/ Goto(i, "raised") /\ Fault
    /\ UNCHANGED <<began, scored, resolved, liveAfter, attempts>>
    /\ Frame

\* Any call may fail, a rejected event included, and Lambda may time out.
CallFails(i) ==
    /\ pc[i] \in Calls
    /\ Fault
    /\ Goto(i, "raised")
    /\ UNCHANGED <<began, scored, resolved, liveAfter, attempts, violations>>
    /\ Frame

HandlerStep(i) ==
    \/ Begin(i)
    \/ ReadWindow(i)
    \/ Snapshot(i)
    \/ Resolve(i)
    \/ Verdict(i)
    \/ Recheck(i)
    \/ Emit(i)
    \/ CallFails(i)

Next ==
    \/ Tick
    \/ Redeploy
    \/ \E r \in Requests : Serve(r)
    \/ \E r \in Requests, h \in 0..MaxHour : Store(r, h) \/ LoseCapture(r, h)
    \/ \E i \in Invocations : HandlerStep(i)

Spec == Init /\ [][Next]_vars

-----------------------------------------------------------------------------
HasRead(i) == pc[i] \in (Calls \ {"read"}) \cup {"done"}

\* The captures an attempt is there to score: readable, of the hours before it
\* began, and stored before their own hour was over.
Due(i) ==
    {o \in objects : /\ Readable(o)
                     /\ o.stored = o.hour
                     /\ o.hour < began[i] /\ began[i] <= o.hour + WindowHours}

\* No capture stored in its own hour is missed by the run that scores the hour,
\* whatever is still being stored and however late the delivery.
WindowIsWhole == \A i \in Invocations : HasRead(i) => Due(i) \subseteq scored[i]

\* "No record is scored twice" (wiki/log.md:4117), as far as the window gives
\* it: by runs that began at least a window apart.
WindowsDisjoint ==
    \A i, j \in Invocations :
        began[i] + WindowHours <= began[j] => scored[i] \cap scored[j] = {}

\* A violation names a model that was still serving when the scoring had
\* ended: a deployment during the run never has its predecessor blamed, which
\* would retrain a model that is already gone.
BlamesServingModel == \A v \in violations : v.package \in v.liveAfter

-----------------------------------------------------------------------------
(***************************************************************************)
(* The inductive invariant behind them (DriftMonitor_proofs).              *)
(***************************************************************************)

\* Clocks only move forward: nothing was stored or begun in the future.
ClockOrder ==
    /\ \A o \in objects : o.stored <= now
    /\ \A i \in Invocations : began[i] <= now

\* What a run scored lies in the window of the hour it began in.
ScoredInWindow ==
    \A i \in Invocations : \A o \in scored[i] :
        o.hour < began[i] /\ began[i] <= o.hour + WindowHours

\* A run past its verdict knows of everything that served since, and one about
\* to emit found its own package there.
LiveAfterTracked ==
    \A i \in Invocations :
        /\ pc[i] \in {"verdict", "recheck", "emit"} => resolved[i] \in Packages
        /\ pc[i] \in AfterVerdict => live \in liveAfter[i]
        /\ pc[i] = "emit" => resolved[i] \in liveAfter[i]

IInv ==
    /\ TypeOK
    /\ ClockOrder
    /\ WindowIsWhole
    /\ ScoredInWindow
    /\ LiveAfterTracked
    /\ BlamesServingModel

=============================================================================
