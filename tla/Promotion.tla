----------------------------- MODULE Promotion -----------------------------
(***************************************************************************)
(* src/src/pipeline and src/src/common/registry.py: executions of the      *)
(* training pipeline and the Model Registry that decides which package is  *)
(* the champion.                                                           *)
(*                                                                         *)
(* An execution reads the curated data once, trains, and evaluates its     *)
(* challenger against the champion of that moment on its own held-out      *)
(* rows; the gate then compares two numbers of a report, and a package is  *)
(* registered some time later.  Several executions may be under way, and   *)
(* operators may change approvals, between any two of these steps.         *)
(*                                                                         *)
(* A package is named by the number of the execution that registered it,   *)
(* 0 stands for no package.  Training is deterministic (fixed shuffle      *)
(* seed and hyperparameters), so a model is known by the version of the    *)
(* data it was trained on, and Auc[m][d] is the AUC of the model trained   *)
(* on version m over the rows version d holds out.                         *)
(***************************************************************************)
EXTENDS Integers, FiniteSets, Sequences

CONSTANTS
    Data,           \* versions of the curated data
    MaxAuc,         \* AUCs above the 0.5 baseline, ranked 1..MaxAuc; 0 is 0.5
    MaxRuns,        \* bound on executions
    AutoApprove,    \* the approval status is "Approved" (dev), not "Pending" (prod)
    Operators,      \* TRUE when people change approvals
    SerialRuns      \* TRUE when a run starts only after the last one ended

ASSUME PromotionConstants ==
    /\ Data # {}
    /\ MaxAuc \in Nat /\ MaxRuns \in Nat
    /\ AutoApprove \in BOOLEAN /\ Operators \in BOOLEAN /\ SerialRuns \in BOOLEAN

VARIABLES
    Auc,         \* model -> data -> AUC, fixed
    data,        \* the curated data now under the telco/ prefix
    started,     \* executions started: 1..started
    stage,       \* execution -> the step it is about to take
    supplied,    \* execution -> its champion parameters: package and AUC
    holdout,     \* execution -> the data version it split
    rival,       \* execution -> the champion its evaluation resolved
    report,      \* execution -> evaluation.json: challenger and champion AUC
    baselines,   \* baseline URI -> the data version the baseline describes
    registered,  \* packages in creation order
    approval,    \* package -> approval status
    inForce      \* execution -> champions there were since it trained (history)

trainingVars == <<supplied, holdout, rival, report, baselines>>
registryVars == <<registered, approval>>
promotionVars == <<Auc, data, started, stage, trainingVars, registryVars, inForce>>

Runs == 1..MaxRuns
PackageNumbers == 0..MaxRuns
Aucs == 0..MaxAuc
Stages == {"preprocess", "train", "resolve", "score", "gate", "register"}
NoReport == [challenger |-> 0, champion |-> 0]

PromotionTypeOK ==
    /\ Auc \in [Data -> [Data -> Aucs]]
    /\ data \in Data
    /\ started \in PackageNumbers
    /\ stage \in [Runs -> {"none", "done", "failed"} \cup Stages]
    /\ \A x \in Runs : stage[x] = "none" <=> x > started
    /\ supplied \in [Runs -> [package: PackageNumbers, auc: Aucs]]
    /\ holdout \in [Runs -> Data]
    /\ rival \in [Runs -> PackageNumbers]
    /\ report \in [Runs -> [challenger: Aucs, champion: Aucs]]
    /\ baselines \in [Runs -> Data]
    /\ registered \in Seq(Runs)
    /\ approval \in [Runs -> {"None", "PendingManualApproval", "Approved", "Rejected"}]
    /\ \A x \in Runs : approval[x] # "None" <=> \E k \in 1..Len(registered) : registered[k] = x
    /\ inForce \in [Runs -> SUBSET PackageNumbers]

PromotionInit ==
    /\ Auc \in [Data -> [Data -> Aucs]]
    /\ data \in Data
    /\ started = 0
    /\ stage = [x \in Runs |-> "none"]
    /\ supplied = [x \in Runs |-> [package |-> 0, auc |-> 0]]
    /\ holdout = [x \in Runs |-> data]
    /\ rival = [x \in Runs |-> 0]
    /\ report = [x \in Runs |-> NoReport]
    /\ baselines = [x \in Runs |-> data]
    /\ registered = <<>>
    /\ approval = [x \in Runs |-> "None"]
    /\ inForce = [x \in Runs |-> {}]

-----------------------------------------------------------------------------
(***************************************************************************)
(* The registry.                                                           *)
(***************************************************************************)
\* get_champion: the approved package created last, if any.
Champion(packages, status) ==
    LET approved == {k \in 1..Len(packages) : status[packages[k]] = "Approved"}
    IN  IF approved = {} THEN 0
        ELSE packages[CHOOSE k \in approved : \A l \in approved : l <= k]

CurrentChampion == Champion(registered, approval)

\* The AUC of a package on the rows version d holds out; without a package, 0.5.
Score(p, d) == IF p = 0 THEN 0 ELSE Auc[holdout[p]][d]

Underway(x) == stage[x] \in Stages

\* Every champion there is while an execution evaluates is remembered for it.
Remember ==
    inForce' = [x \in Runs |->
        IF stage'[x] \in {"resolve", "score", "gate", "register"}
        THEN inForce[x] \cup {Champion(registered', approval')} ELSE inForce[x]]

-----------------------------------------------------------------------------
(***************************************************************************)
(* An execution: one action per step of the pipeline definition.           *)
(***************************************************************************)
MoveOn(x, next) == stage' = [stage EXCEPT ![x] = next]
Only(x, at) == stage[x] = at /\ UNCHANGED <<Auc, data, started>>

\* _start_pipeline and the retrain handler: read the champion, then start.
Start(x) ==
    /\ x = started + 1
    /\ SerialRuns => \A y \in Runs : ~Underway(y)
    /\ started' = x
    /\ MoveOn(x, "preprocess")
    /\ supplied' = [supplied EXCEPT ![x] =
           [package |-> CurrentChampion,
            auc |-> IF CurrentChampion = 0 THEN 0 ELSE report[CurrentChampion].challenger]]
    /\ UNCHANGED <<Auc, data, holdout, rival, report, baselines, registryVars>>

\* Mutant of BaselineUri: one place for the baselines of all executions.
BaselineUriShared(x) == 1

\* baseline_destination: a place of its own for each execution's baseline.
BaselineUri(x) == x

Preprocess(x) ==
    /\ Only(x, "preprocess")
    /\ holdout' = [holdout EXCEPT ![x] = data]
    /\ baselines' = [baselines EXCEPT ![BaselineUri(x)] = data]
    /\ MoveOn(x, "train")
    /\ UNCHANGED <<supplied, rival, report, registryVars>>

Train(x) ==
    /\ Only(x, "train")
    /\ MoveOn(x, "resolve")
    /\ UNCHANGED <<trainingVars, registryVars>>

\* Mutant of ResolveChampion: take the supplied package.
ResolveSupplied(x) ==
    /\ Only(x, "resolve")
    /\ rival' = [rival EXCEPT ![x] = supplied[x].package]
    /\ MoveOn(x, "score")
    /\ UNCHANGED <<supplied, holdout, report, baselines, registryVars>>

\* evaluate.main re-reads the champion instead of taking the supplied one.
ResolveChampion(x) ==
    /\ Only(x, "resolve")
    /\ rival' = [rival EXCEPT ![x] = CurrentChampion]
    /\ MoveOn(x, "score")
    /\ UNCHANGED <<supplied, holdout, report, baselines, registryVars>>

\* Both models are scored on this execution's held-out rows.
ChampionAuc(x) == Score(rival[x], holdout[x])

WriteReport(x) ==
    /\ Only(x, "score")
    /\ report' = [report EXCEPT ![x] =
           [challenger |-> Auc[holdout[x]][holdout[x]], champion |-> ChampionAuc(x)]]
    /\ MoveOn(x, "gate")
    /\ UNCHANGED <<supplied, holdout, rival, baselines, registryVars>>

\* Mutant of Beats: a tie is enough.
BeatsOrTies(r) == r.challenger >= r.champion

\* ConditionGreaterThan on the two AUCs of the report.
Beats(r) == r.challenger > r.champion

Gate(x) ==
    /\ Only(x, "gate")
    /\ MoveOn(x, IF Beats(report[x]) THEN "register" ELSE "done")
    /\ UNCHANGED <<trainingVars, registryVars>>

\* RegisterChallenger: the package with its AUC and baseline URI as metadata.
RegisterChallenger(x) ==
    /\ Only(x, "register")
    /\ registered' = Append(registered, x)
    /\ approval' = [approval EXCEPT ![x] =
           IF AutoApprove THEN "Approved" ELSE "PendingManualApproval"]
    /\ MoveOn(x, "done")
    /\ UNCHANGED trainingVars

\* Any step may fail, which ends the execution.
Fail(x) ==
    /\ Underway(x)
    /\ MoveOn(x, "failed")
    /\ UNCHANGED <<Auc, data, started, trainingVars, registryVars>>

-----------------------------------------------------------------------------
(***************************************************************************)
(* Ingestion and the operators.                                            *)
(***************************************************************************)
NewData ==
    /\ data' \in Data \ {data}
    /\ UNCHANGED <<Auc, started, stage, trainingVars, registryVars>>

Decide(x, status) ==
    /\ Operators
    /\ approval[x] \notin {"None", status}
    /\ approval' = [approval EXCEPT ![x] = status]
    /\ UNCHANGED <<Auc, data, started, stage, trainingVars, registered>>

Step(x) ==
    \/ Preprocess(x)
    \/ Train(x)
    \/ ResolveChampion(x)
    \/ WriteReport(x)
    \/ Gate(x)
    \/ RegisterChallenger(x)

PromotionNext ==
    /\ \/ \E x \in Runs : Start(x) \/ Step(x) \/ Fail(x)
       \/ NewData
       \/ \E x \in Runs, status \in {"Approved", "Rejected"} : Decide(x, status)
    /\ Remember

PromotionSpec == PromotionInit /\ [][PromotionNext]_promotionVars

-----------------------------------------------------------------------------
\* "Challenger must beat champion; no silent regressions": whenever another
\* package becomes champion, it is better than the one it replaces on the very
\* rows it was evaluated on.
ChampionImproves ==
    [][CurrentChampion' # CurrentChampion /\ CurrentChampion' # 0
         => Score(CurrentChampion', holdout[CurrentChampion'])
            > Score(CurrentChampion, holdout[CurrentChampion'])]_promotionVars

\* README.md: "Challenger must beat champion; no silent regressions", in its
\* weakest reading: whatever overlaps, no champion makes way for a package that
\* scores worse than it does on that package's own held-out rows.
NoSilentRegression ==
    [][CurrentChampion' # CurrentChampion /\ CurrentChampion' # 0
         => Score(CurrentChampion', holdout[CurrentChampion'])
            >= Score(CurrentChampion, holdout[CurrentChampion'])]_promotionVars

\* However executions and approvals interleave, a package is registered only if
\* it beat, on its own rows, one that was champion after it had been trained:
\* the gate never decides on the champion the execution was started with.
BeatsRecentChampion ==
    \A k \in 1..Len(registered) :
        LET x == registered[k]
        IN  \E c \in inForce[x] : Score(x, holdout[x]) > Score(c, holdout[x])

\* The drift baseline a package points to describes the data that package was
\* trained on, however executions overlap.
BaselineMatchesModel ==
    \A k \in 1..Len(registered) : baselines[BaselineUri(registered[k])] = holdout[registered[k]]

-----------------------------------------------------------------------------
(***************************************************************************)
(* The inductive invariant behind these properties (Promotion_proofs).     *)
(***************************************************************************)
RegisteredAreDone == \A k \in 1..Len(registered) : stage[registered[k]] = "done"

\* Whatever packages are approved, one of them was created last.
NewestExists ==
    \A S \in SUBSET (1..Len(registered)) : S # {} => \E k \in S : \A l \in S : l <= k

\* A package that was champion has finished its execution, so its model is final.
Final(p) == p # 0 => stage[p] = "done"

Evaluating(x) == stage[x] \in {"score", "gate", "register"}

RivalsAreFinal ==
    /\ \A x \in Runs : \A p \in inForce[x] : Final(p)
    /\ \A x \in Runs : Evaluating(x) => rival[x] \in inForce[x]

ReportsAreTrue ==
    \A x \in Runs :
        /\ stage[x] \in {"gate", "register"} =>
              report[x] = [challenger |-> Score(x, holdout[x]), champion |-> ChampionAuc(x)]
        /\ stage[x] = "register" => Beats(report[x])

OneUnderway == SerialRuns => \A x, y \in Runs : Underway(x) /\ Underway(y) => x = y

\* With automatic approval and nobody interfering, the newest package is the
\* champion and stays it while an execution evaluates its own.
ChampionIsStable ==
    AutoApprove /\ ~Operators =>
        /\ \A k \in 1..Len(registered) : approval[registered[k]] = "Approved"
        /\ SerialRuns => \A x \in Runs : Evaluating(x) => rival[x] = CurrentChampion

PromotionInv ==
    /\ PromotionTypeOK
    /\ RegisteredAreDone
    /\ NewestExists
    /\ baselines = holdout
    /\ RivalsAreFinal
    /\ ReportsAreTrue
    /\ BeatsRecentChampion
    /\ OneUnderway
    /\ ChampionIsStable

=============================================================================
