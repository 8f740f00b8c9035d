# Specifications of the churn MLOps platform

This directory holds TLA+ specifications of the platform in `src/`: a closed loop
of small AWS Lambdas, a SageMaker training pipeline and a public website that
trains, approves, deploys, monitors and retrains one churn model. The Lambdas keep
almost no state of their own. What makes them hard is that each is a sequence of
calls to managed services which other invocations, other Lambdas and people change
between any two of its calls, and that the platform delivers their events more than
once, late, out of order and with retries. A unit test fixes one order of all that;
the models here do not.

Contents: [1 the system](#1-the-system-and-its-parts), [2 the modules](#2-the-modules),
[3 the runs](#3-what-the-runs-show), [4 the proofs](#4-what-is-proved),
[5 disagreements](#5-where-the-code-and-its-documents-disagree),
[6 limits](#6-what-is-not-covered).

## 1. The system and its parts

```
raw upload -> ingestion -> curated data -> pipeline: preprocess, train, evaluate, gate
                                               |  register
   retraining handler <- violation event       v
        ^                    ^            model registry -- approval event
        | starts             |                 |
        +--- pipeline    drift monitor         v
                             ^            deploy handler -> SageMaker endpoint
                             |                                   ^
                         captures in S3 <- prediction proxy -----+ <- API, website
```

| Part | Source (under `src/`) | State it touches | Operations | Hard because | Modelled |
|---|---|---|---|---|---|
| Deploy handler | `src/serving/deploy_handler.py` | SageMaker models, endpoint configs, the endpoint; approval status | approval event: recheck approval, snapshot the endpoint, ensure model and config, create or update | concurrent and retried events; create races; a stale snapshot; lost replies | `Deploy` |
| Retraining handler | `src/monitoring/retrain_handler.py` | pipeline executions, package list | violation event: blocking check, no-progress count, start | two reads before one write; attribution by timestamps; retries | `Retrain` |
| Training pipeline, registry | `src/pipeline/pipeline.py`, `evaluate.py`, `src/common/registry.py` | registry, approval, reports, baselines | execution: preprocess, train, resolve the champion, score, gate, register; approve, reject | overlapping executions; champion changes between comparison and registration | `Promotion` |
| Preprocessing | `src/pipeline/preprocess.py` | the splits of one run | sizes, contiguous split, class-preserving fallback | a loop that ends only if sizes add up; leakage between splits | `Splits` |
| Prediction proxy | `src/serving/proxy_handler.py` | capture objects by hour | invoke the endpoint, answer, capture | a put that crosses the hour in its key | `DriftMonitor` |
| Drift monitor | `src/monitoring/drift_handler.py` | captures, endpoint, event bus | hourly: read the window, snapshot, resolve the baseline, compare, snapshot again, emit | redeployment during the run; late deliveries | `DriftMonitor` |
| Drift statistic | `src/common/drift.py` | none | edges, buckets, baseline, validation, verdict | values on edges; empty and unknown buckets | `DriftStatistic` |
| Ingestion | `src/ingestion/validate_handler.py`, `infra/stacks/ingestion_stack.py` | raw, curated and quarantine objects; queue and its dead-letter queue | validate one upload; write or delete two objects | concurrent versions of one key, partial writes, redelivery | `Ingestion`, `Mirror` |
| Shared schema, encoding | `src/common/schema.py`, `features.py` | none | validate, encode text or typed values | two encodings of one record | `Records` |
| Website backend | `website/backend/` | hits per caller, cached report, mailing list | limit, predict, results, subscribe | window boundaries, stale cache, truncated listing, one blocking process | `Predictions`, `Results`, `MailingList` |
| Website frontend | `website/frontend/src/` | form and answer | load, edit, submit | late answers over newer input; a locked form | `Predictions` |
| Stacks: alarms, rules | `infra/stacks/monitoring_stack.py`, `serving_stack.py`, `shared.py` | the event bus | rules of two environments on one bus; the loop they close | one rule matches the other environment's events; silence | `EventBus`, `ClosedLoop` |
| Stacks: roles | `infra/stacks/` | what each role may do | grants against the calls of the code | prefixes spelt independently | `Access` |
| Stacks, security checks: account | `infra/app.py`, `security_checks.py`, `infra/stacks/` | deployed stacks, account-wide settings, retained names | synthesise, deploy, change a flag, destroy, clean up | flags written in two places; two environments in one account; mutual waits | `Account` |
| Signing, logging; scripts; workflows | `src/common/signing.py`, `events.py`, `scripts/`, `.github/` | none | one-shot | sequential | no |

What makes each part correct:

- **Deploy handler.** The endpoint only ever serves what was approved, through
  resources that really lead to it; a reported success is one; an approval withdrawn
  before the event is handled writes nothing; a delivered event ends; an approved
  package is served in the end.
- **Retraining handler.** One run for one event; drift runs neither overlap nor follow
  each other faster than the cooldown; a loop that registers nothing stops itself.
- **Pipeline and registry.** Each champion beats the one it replaces; no gate decides
  on a champion that was replaced before training ended; the drift baseline of a
  package describes the data it was trained on.
- **Preprocessing.** No row in two splits or in none; both classes everywhere; the
  fallback always works when it is tried on data that allows it.
- **Proxy and monitor.** Every capture stored in its hour is scored once; a violation
  never blames a model that is already gone.

- **Ingestion.** As long as no two validations of a key overlap, the curated and the
  quarantine object come to describe one upload, the newest, and older rows do not come
  back; a message is given up for a cause only.
- **Schema and statistic.** What is accepted can be encoded (with one exception, section
  5), and means the same when training as when serving; every value of a window is counted in exactly one bucket.
- **Website.** The limiter is exact to the tick; a page shows the answer to what it
  submitted last and always gets one; results are at most one time to live old; an
  address has one joining time.
- **Loop.** Drift is corrected in the end, or somebody is told about it again and again.
- **Stacks.** No deployment waits for itself; no flag combination is refused without
  reason; what only one environment has put into the account, the other does not take
  away; every alert may be published and encrypted, and alerts about packages, endpoints
  and executions are about one's own; no call is denied, and nothing visitors send reaches
  what models are made from.

`PROJECT.json` lists the hazards behind these at the lines where they bite, and the
properties that cover them.

## 2. The modules

| Module | Of | What it is |
|---|---|---|
| `SageMaker` | external | models, configs, the endpoint and its states, as the deploy handler's calls and checks assume them |
| `Release` | abstract | what the deploy handler promises: the endpoint moves only to approved packages, one deployment at a time |
| `Deploy` (extends `SageMaker`) | `deploy_handler.py` | one action per AWS call, run by concurrent invocations; implements `Release` |
| `Retrain` | `retrain_handler.py` | one action per AWS call; executions, registrations, operators and a clock around it |
| `Promotion` | `pipeline.py`, `evaluate.py`, `registry.py` | executions step by step, and people changing approvals |
| `DriftMonitor` (instantiates `Release`) | `proxy_handler.py`, `drift_handler.py` | captures and hourly runs against an endpoint that moves as `Release` allows |
| `Splits` | `preprocess.py` | `split_records`, the dealing loop one row or one full split at a time |
| `Mirror` | abstract | what an object derived from an upload promises: it only moves forward |
| `Ingestion` | `validate_handler.py`, its queue | messages, overlapping invocations, two writes each; both objects implement `Mirror` |
| `Records` | `schema.py`, `features.py` and their callers | one record on its ways to training, serving and monitoring |
| `DriftStatistic` | `drift.py` | edges, buckets, baselines and the verdict over small samples and windows |
| `Predictions` | `PredictForm.tsx`, `app.py`, `rate_limit.py` | pages, the requests on their way, the one process that limits and forwards them |
| `Results` | `services.py` | the cache over one page of the report listing |
| `MailingList` | `app.py`, `services.py` | signups of one address in several spellings |
| `ClosedLoop` | the handlers, as the stacks wire them | the composition: drift, violation, execution, gate, approval, endpoint, alarms |
| `EventBus` | `monitoring_stack.py`, `serving_stack.py` | two environments' rules on one bus |
| `Access` | `infra/stacks/` against `src/` | grants, calls, and what can flow from object to object |
| `Account` | `infra/app.py`, `security_checks.py`, `infra/stacks/` | synthesis, deployment, change and teardown in one account |
| `MCDeploy`, `MCRetrain`, `MCPromotion` | | instances for TLC of one module |
| `MCModels`, `MCData`, `MCPlatform` | | instances of several modules that share no variable |
| `Deploy_proofs`, `Retrain_proofs`, `DriftMonitor_proofs` | | theorems about the module of that name |
| `Lineage_proofs` | | theorems about `Ingestion` and `Promotion` |
| `Data_proofs` | | theorems about `Records`, `Splits` and `DriftStatistic`, and the types of `MCData` |
| `Website_proofs` | | theorems about `Predictions`, `Results` and `MailingList` |
| `Platform_proofs` | | theorems about `Account`, `EventBus` and `Access`, and the types of `MCPlatform` |
| `Least_proofs` | | lemmas on numbers and finite sets that several of these need |

The last three `MC` modules put modules side by side that share no state. A behaviour
exercises one of them, chosen in the initial state by `part`, and the others stay as they
start; the states to explore are the sum of theirs, not the product. What composes parts
that do interact is `Deploy` and `DriftMonitor` through `Release`, and `ClosedLoop`.

**How state and actions correspond to the code.** A Lambda's local variables become
functions of the invocation (`seen`, `listed`, `resolved`, `scored`); its program
counter `pc` names the next AWS call. One action is one call with the local decision its
answer leads to, so every other actor may act between any two calls, and nothing the
handler does between two calls is a step of its own. `raised` is an exception: Lambda
then retries (`Retry`, in `DriftMonitor` a further `Begin`) until `MaxAttempts` and drops
the event. `CallFails` covers a failing call, a crash and a timeout; a lost reply is the
call's effect together with `raised`. Variables marked (history) are read by properties
only.

`Deploy` and `DriftMonitor` meet in `Release`: the first is shown to implement it
(`ImplementsRelease`, with the served and the pending package as the refinement
mapping), and the second takes its endpoint to be anything that behaves so.

`ClosedLoop` has one step where the handlers' own modules have many, and every outcome
those allow: two events from one evaluation, a handler that raises with all its retries,
an event dropped, approvals handled in any order.

**Abstractions worth knowing.**
- A package stands for the stable resource names hashed from it (`Deploy`); `Other` is
  any resource content the handler does not accept.
- Creation times in `Retrain` come from a clock and are all different; `Serial` and
  `Manual` say which environment a statement needs: no two invocations at once, and
  operators starting executions of their own.
- A model in `Promotion` is the data version it was trained on (seed and
  hyperparameters are fixed), and `Auc[m][d]` is an arbitrary table of scores.
- Whether a window has drifted is an open choice in `DriftMonitor`. In `ClosedLoop` the
  world changes in epochs: a window of other epochs than the baseline's has drifted, one
  of the same has not, and a mixed one may have. It assumes the automatic approval of
  `infra/config/dev.yaml` and traffic enough for a window to be scored.
- In `DriftStatistic` the index of unequal shares is an open choice; equal shares have
  index zero.
- `Records` varies two columns of a plain record at a time; numbers are known by what the
  parsers tell apart (an integer, a fraction, blank, not a number, and an integer of more
  digits than a float holds, whose text `float()` reads as inf and whose `int` it refuses).
- In `DriftStatistic` the constant `Infinite` names the numbers that stand for inf: the
  training rows may hold them, and validation refuses them as edges. The window has none,
  since the prediction that would have been captured fails. In the run it is the largest.
- In `Ingestion` an upload is known by what becomes of its valid and its rejected rows.
- In `Access` an object is known by its prefix, and a role may use anything it is granted,
  not only what its code does.
- In `Account` a stack is known by the flags that its template depends on. Files may have
  any flag that they do not themselves forbid: `prod.yaml` rules out the account budget
  and the website and no service (lines 29, 40, 43). Stacks are destroyed in the reverse of
  the order of deployment.
- The shuffle in `Splits` is any order of labels. `Lossy` names the counts whose
  product with 0.7 is a little less than the integer (90, 170, ...), so that the sizes
  are those of the float arithmetic for every count.

## 3. What the runs show

Each cfg says what it bounds. Every property has a mutant, a definition with a
plausible bug (listed in `PROJECT.json`), under which TLC finds it violated in the same
run.

| Run | Bounds | Shows |
|---|---|---|
| `deploy_safety` | 2 packages, 2 invocations with one retry, 2 faults, foreign resources | `DeployedMatchesPackage`, `SuccessMeansAccepted`, `RevokedNeverDeployed`, `ImplementsRelease` |
| `deploy_live` | 1 package, 2 deliveries with one retry, 2 faults, fair | `EventsSettle`; `ApprovedIsServed` unless something failed or holds the package's names |
| `deploy_busy` | 2 packages, no fault | violation of `ApprovedIsAccepted`, see section 5 |
| `retrain_serial` | 2 invocations, cooldown 2, limit 2, 4 executions (the handler lists 5), 1 fault | `NoConcurrentRuns`, `CooldownKept`, `StalledLoopStops`, with invocations in turn and no operators |
| `retrain_open` | 2 overlapping invocations with one retry, operators, 2 events, 2 faults | `OneRunPerEvent` |
| `retrain_hidden` | 1 invocation, operators | violation of `NoConcurrentRuns`, see section 5 |
| `promotion_race` | 2 overlapping executions | violation of `NoSilentRegression`, see section 5 |
| `models` | 2 requests, hours 0..2, 2 runs with one retry, 2 packages, 1 fault; 3 overlapping executions, 2 data versions, AUCs 0..1, people approving | `WindowIsWhole`, `WindowsDisjoint`, `BlamesServingModel`; `BeatsRecentChampion`, `BaselineMatchesModel` |
| `data` | 2 uploads of four kinds, 3 messages with 2 receives, 2 faults; 2 columns varied; 5 to 17 records, up to 4 outside the majority class; samples of 4, windows of 3, 3 bins; 3 executions in turn, 2 data versions, AUCs 0..2, automatic approval | `SettledOnNewest`, `DeadForCause`, `ObjectsAreMirrors`; `AcceptedIsEncoded`, `TrainsAsServed`; `SoundSplits`; `SoundBaseline`; `DataPathEnds`; `ChampionImproves` |
| `platform` | 2 visitors, 3 submissions, limit 2, 1 restart; 3 reports on pages of 2; 2 signups of one address; 1 change of the world, 1 failure, 2 violations; 2 environments, 1 flag changed, 1 teardown; 2 events; all roles | `LimiterExact`, `ShowsLastSubmission`, `EverySubmissionAnswered`; `ServedIsFresh`; `OneJoiningTime`; `CorrectedOrTold`; `RejectedForCause`, `BlockLostToOther`, `AlertsArrive`, `DeploymentsEnd`; `OwnAlertsOnly`; `NothingDenied`, `ModelsFromUploads` |
| `bus` | 1 violation | violation of `OneExecutionPerViolation`, see section 5 |
| `rebuild` | the committed configuration, 1 teardown | violation of `OnlyTwoNamesBlock`, see section 5 |

Types are checked in `deploy_safety`, `data` (`DataTypeOK`) and `platform`
(`PlatformTypeOK`), and proved for every module.

**Why the bounds are enough to be interesting.** Every race in the handlers is between
two invocations, or one and the service: two of each give all of them. Two faults let a
lost reply be followed by a failing retry. Three executions let a champion be replaced
between another execution's start and its registration. The no-progress count with limit
two needs a window in which a failed run separates two unproductive ones; the fourth
execution is the one it must prevent. In `data` two uploads and three messages let a
message be redelivered after a newer upload, with a duplicate besides; two receives and
two faults make a dead letter. The validation and test sets exceed their two reserved rows
from fourteen records on, so seventeen deal to all three in turn, and eleven is the first
count whose proportional sizes need no correction. In `models` two windows follow each
other, a put may land in the hour after its own, and two deployments may lead away from a
package and back within one run. In `platform` the third submission is the one the limit
refuses or the window lets through; the third report is off the page; one change of the
world with a failure is enough for a retraining that registers nothing and stalls the loop.
Beyond that, the proofs hold for every value of the constants.

**Symmetry** is used in runs that check invariants and action properties only. Deadlock
checking is off: in every model the system may stop, when all events have been handled
and the bounds are used up.

**Fairness.** `Deploy!FairSpec` assumes that Lambda goes on running and retrying an
invocation it has accepted (its asynchronous invocation does that, up to two retries)
and that SageMaker ends what it started, one way or the other. It does not assume that
anybody approves anything, that an event is delivered twice, or that a failure happens or
does not. `Ingestion!Fairness`: the queue delivers what it holds and an invocation runs
until it ends, but nobody has to upload. `Splits!SplitsFairness` is that of a sequential
program nobody interrupts. `PredictFairness`: the event loop takes requests in the order
they come, so none is passed over for ever (strong fairness, because the process is busy
again and again), and every call of the API ends. `LoopFairness`: the schedule fires, events
are handled, executions end and the cooldown passes; it does not assume that anybody brings
new data, reads an alert or repairs anything. `AccountFairness`: CloudFormation goes on with
what it has begun. In the composed runs a part that is not exercised starts where none of
its fair actions is enabled, so that the fairness of one part says nothing about another.

## 4. What is proved

All theorems hold for every value of the constants, under the named assumptions in the
modules that declare them (`ConstantsDistinct`, `MaxAttemptsPositive`, `PromotionConstants`,
`MonitorConstants`, `SplitConstants`, `StatisticConstants`, `PredictionsConstants`,
`ResultsConstants`, `MailingListConstants`, `LoopConstants`, `AccountConstants`,
`BusConstants`, `CountsOfRecords`, and `ConstantsOK` of `Retrain` and of `Ingestion`):
sizes are natural numbers and sentinels are different from everything else. TLC evaluates
the same assumptions in the runs. Where a theorem has a hypothesis on the constants
besides, it is named below.

Every safety invariant and action property that a run finds to hold is stated by a
theorem. The larger inductive invariants are defined beside the properties they are for
(`IInv` of the handlers, `PromotionInv`, `StallInv`, `SplitInv`, `StatInv`) and were
checked by TLC before they were proved; the other proofs state theirs where they use them.

- **`Deploy_proofs`**: `TypeCorrect`, `Invariance`, `DeployedMatches`, `SuccessIsTrue`,
  `StaleEventsWriteNothing` (the action property `RevokedNeverDeployed`) and
  `Implementation`: `Deploy` refines `Release`, each step a `Release` step or a stutter,
  with `IInv` naming the package an endpoint hosts. `DeployedMatchesPackage` alone is not
  inductive: an invocation submits a configuration on the strength of descriptions it
  read earlier. `ResourcesEnsured` says what it holds by then, and `Sound` says the
  same of every snapshot of the endpoint, fresh or stale: whatever it names leads to
  its own package and was accepted. Since resources are never overwritten, both survive
  any interleaving. `PendingApproved` and `ApprovalRechecked` carry the approval through
  retries.
- **`Retrain_proofs`**: `OneRunEach` needs only that tokens name events.
  `CooldownIsKept` needs `Serial`; `RunsDoNotOverlap` and `StalledLoopIsStopped` need
  `Serial /\ ~Manual`. The invariant of the first two says that what an invocation
  concluded from the newest execution still holds of all of them when it starts its own
  (`CheckStillHolds`), which is true only while nobody else starts one. Section 5 shows
  that the assumptions cannot be dropped. `StalledLoopIsStopped` is for every limit, and
  has to show that five listed executions and the newest packages are enough to count by.
  `StallInv` relates the two lists: an execution produced something exactly when a package
  was created after its start and before the next one's (`TimesTellProduced`), there are
  never more packages than executions to make them (`NoneCrowdedOut`), so that a page of
  packages reaches back as far as the page of executions does, and what was counted is
  still true at the start (`ListIsCurrent`, `CountStillHolds`).
- **`Lineage_proofs`**, first `Ingestion`: `SettlesOnNewest`, `DeadLettersHaveCause` and
  `ObjectsImplementMirror`, the refinement of `Mirror` by either object. What is carried is
  where a version can be: an invocation that runs alone has read the newest upload of its
  time, and whatever is not yet in both objects has a message that is waiting, running or
  dead. A failure between the two writes leaves that message behind.
  Then `Promotion`: `NoRegression` needs
  `SerialRuns /\ AutoApprove /\ ~Operators`; `GateIsFresh` and `BaselinesMatch` need
  nothing. Induction over a sequence is avoided by carrying in the invariant that every
  non-empty set of packages has a newest member.
- **`DriftMonitor_proofs`**: `WindowsAreWhole`, `WindowsAreDisjoint`, `BlameIsCurrent`.
  The first rests on `ClockOrder`: an object stored now can only be due to a run that
  begins later. The last rests on `LiveAfterTracked`, which follows the endpoint through
  any number of redeployments during the run.
- **`Data_proofs`**. `AcceptedRecordsEncode` and `NoSkew` start from any record and label at
  all (`AnyRecord`), where the run varies two columns at a time: what validation accepts is
  a key of every table, no two values share a code, the text of a record and its typed
  values lead to the same codes, and the drift statistic reads them as the same values.
  Only a tenure beyond the float range breaks a prediction. `SplitsAreSound` is for every number and order of rows.
  `SplitInv` says of the dealing loop that the rows before the cursor, with those
  reserved, are exactly the ones dealt, each to one split and at one place, and that no
  split exceeds its size; at the end all rows are dealt, the sizes add up to their number,
  and so every split has its size. `BaselineIsSound` is for every vocabulary, number of
  bins, sample and window. `StatInv` says that the baseline scored against is the
  one of the sample, and that a window with the sample's shares value by value has its
  shares bucket by bucket, whatever edges the sample produced: the values that go into a
  bucket are a union of kinds, and each kind has the same share on both sides.
  It is accepted unless a row holds a number that reads as inf.
  `DataTypes` puts the invariants of the five parts of `MCData` side by side. Two parts of
  it take more than looking at the assignments: a record that was accepted has an integer
  for every column, whichever table encodes it, and every edge of a baseline is a number
  that the column can hold.
- **`Website_proofs`**: `LimiterIsExact` for every limit and window, and
  `LastSubmissionShown`. The limiter forgets; the invariant says that what it kept is the
  end of the sequence of all requests let through, in order of time, and that what it
  dropped is a window old. From that follows both that the limit holds in every window and
  that a refusal means a full one.
  `ServedReportIsFresh` follows a report from its listing to the answer: what was listed
  was the newest when the request came, and what is cached was the newest at `readAt`,
  though reports are stored in between. It needs `Ttl # 0`: a cache that
  keeps nothing answers with the newest report of the request's own tick, and within one
  tick the model does not order what was stored. Like the property it is about listings
  that fit in one page.
  `JoiningTimeIsKept`: an update keeps the joining time it finds, so whichever of several
  overlapping signups is written first, its time is what all the others are told.
- **`Platform_proofs`**: `BlockIsKept`, whose invariant remembers in `holders`
  who has put the account-wide block: every deployed stack with the flag belongs to a
  holder, and the block is off only if nobody has the flag or one of the holders has
  given it up. So an environment that is alone with the flag never loses the block, and
  two that share it can lose it to each other; `AlertsAreGranted`, which
  needs no invariant: in a finished deployment publishers and grants are functions of the
  same flags; `RejectionsHaveACause`, for every combination of flags; `AlertsStayHome`, for
  any number of environments on the bus, and for everything but drift violations, whose
  alarms do cross over; `CallsAreGranted`, and `OnlyUploadsTrain`, whose
  invariant names the roles that never hold anything of the visitors' and shows that no
  grant of theirs reads what the others write. `PlatformTypes` puts the types of the seven
  parts of `MCPlatform` side by side.
- **`Least_proofs`** stands in for the inductions that the other proofs would need and the
  provers cannot do. Least and greatest elements come from the library's theorem that
  finite subsets are well founded. `RankExists`: among finitely many numbers the rank
  of each differs from that of every other, so every rank is taken, and the k-th smallest
  exists: the edges of a histogram are such elements. Sums are counts: the total of some
  counters is the size of a disjoint union (`TotalOf` in `DriftStatistic`), and
  `KindsAddUp` adds the sizes of two sets kind by kind.

Only model-checked: liveness (`EventsSettle`, `ApprovedIsServed`, `DataPathEnds`,
`EverySubmissionAnswered`, `CorrectedOrTold`, `DeploymentsEnd`), which is out of the
prover's reach.

## 5. Where the code and its documents disagree

- **An approval that meets another deployment can be lost** (`deploy_busy`). The handler
  raises while another deployment is in flight (`deploy_handler.py:129-134`) and relies
  on two retries within minutes; a deployment that takes longer leaves the event dropped
  and the approved package is never submitted. README.md:105 says that approval triggers
  the deployment.
- **The retraining guard looks at the newest execution only** (`retrain_hidden`). An
  operator's run that started later and ended hides a drift run that is still active
  after the cooldown (`retrain_handler.py:140,144`). The same test-stated rule fails when
  two violations are handled at once: set `Serial = FALSE` in `MCRetrain_hidden.cfg` to
  see it.
- **Overlapping executions can replace a better champion** (`promotion_race`). The gate
  compares with the champion at evaluation time and registration does not look again. In
  the trace both executions beat 0.5; the one that registers last becomes champion though
  the package it replaces scores strictly better on its own held-out rows.
  With manual approval it needs no overlap: two packages compared with the same old
  champion may both be approved, and the later one wins (`AutoApprove = FALSE`,
  `Operators = TRUE`, `SerialRuns = TRUE`).
- **A violation starts an execution in both environments** (`bus`). Dev and prod share one
  account and its default bus. `DriftViolationRule` (`monitoring_stack.py:214-221`) matches
  source, detail type and status only, and the retraining handler does not read which
  endpoint the event is about, so a violation of the dev endpoint also retrains prod's
  model. The comment above the handler says that a violation starts one training pipeline
  execution (`monitoring_stack.py:157`). The rules for failures name their pipeline and
  endpoint (`OwnAlertsOnly` holds for
  what these rules are about). When the other environment's handler fails or finds its loop
  stalled on a violation that is not its own, its operators are alarmed for it too.
- **A third name blocks a rebuild** (`rebuild`). `wiki/pages/architecture/teardown-and-rebuild.md:61`
  says that a redeployment after `make destroy` fails on two fixed names, the key alias and
  the log group. The package group is retained as well, under the name the configuration
  gives it (`registry_stack.py:25-28`), and stops the registry stack after both have been
  removed.
- Not a run of its own: `pipeline.py:3` says the evaluation resolves the supplied
  champion package, but `evaluate.py:336-337` always looks the champion up again, and
  `Promotion!ResolveChampion` models that. It is the better behaviour: the mutant that
  takes the supplied package breaks `BeatsRecentChampion`.
- **A huge tenure** is not a run of its own, since no document speaks of it:
  `schema.py:37` bounds `tenure` only from below. A prediction for one of 310 digits is
  accepted, `float()` raises OverflowError on it (`features.py:92`), and the proxy does not
  catch that (`proxy_handler.py:107`). In an uploaded row the text of the same number reads
  as inf; if it becomes an edge of the drift baseline, the monitor refuses that baseline
  (`drift.py:157-161`) and the package is never monitored. `AcceptedIsEncoded` and
  `SoundBaseline` state both exceptions. What XGBoost makes of inf is not modelled.
- **Two environments with the account-wide block** can take it from each other: each has a
  custom resource whose deletion removes the block of the account
  (`security_monitoring_stack.py:225-230`). The wiki expects the contention
  (`wiki/pages/sources/aws-security-hardening-phase-3e-implementation-and-deployment-july-24-2026.md:98-100`),
  so it is no disagreement; `BlockLostToOther` says that nothing else removes it. A second
  Config recorder fails likewise, since a region has one ("recorder limit").
- `wiki/log.md:4116-4117` also says of the monitor that a partial hour is never
  scored and no record is scored twice. A put that outlives its hour escapes the first
  (`WindowIsWhole` is stated for captures stored in their hour), and a duplicated or
  late delivery the second (`WindowsDisjoint` is stated for runs a window apart).

## 6. What is not covered

Not modelled, and why:

- **Scripts** (`scripts/`): tools that read, print and exit. `verify_deployment.py` and
  `evaluate_api.py` compute a report from what they fetched; `wiki.py`,
  `check_public_release.py` and `prepare_cdk_diagrams.py` work on local files. Nothing runs
  beside them, and a unit test reaches what they do.
- **Workflows** (`.github/`) and the role they assume (`cicd_stack.py`): sequential jobs,
  one deployment per branch at a time.
- **Signing and logging** (`signing.py`, `events.py`): no state, nothing another part
  depends on but the name of one event (`StallReported`).
- **The value of the drift index**: a sum of floating-point logarithms. What goes into it,
  and what is decided from it, is in `DriftStatistic`.
- **Networking, dashboards, lifecycle rules, tags, single security detectors and the
  wording of policies** in the stacks: declared once, without behaviour. A service flag that
  is not implemented is known by its refusal at synthesis.

Abstracted in what is modelled:

- Contents of records beyond what the parsers and encoders tell apart, scores, reports and
  log lines; numbers of the charts.
- Time as a duration: time limits appear only as the order of steps they allow (a put
  crosses at most one hour) and as the number of retries.
- S3 and SageMaker are taken to be strongly consistent, as their documentation and the
  code assume.
- `ClosedLoop` has one environment with automatic approval. With manual approval the loop
  ends in an approval that nobody need give, and nothing follows from fairness.
- Raw keys: `Ingestion` has one. Keys that do not end in `.csv` are validated but never read
  by `preprocess.py:146`, and the mapping of a raw key to a derived one ignores leading
  slashes (`validate_handler.py:61-62`): neither is part of a model.
- A website that is disabled after it was deployed is left alone by the next deployment,
  which then fails on the export it uses (`Account`, "export in use"): this is modelled as
  a failure, and no document says otherwise.
