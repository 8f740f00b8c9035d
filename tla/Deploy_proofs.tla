--------------------------- MODULE Deploy_proofs ---------------------------
(***************************************************************************)
(* Proofs about Deploy for every set of packages, legacy names and         *)
(* invocations, and every bound on attempts and failures.                  *)
(***************************************************************************)
EXTENDS Deploy, TLAPS

USE ConstantsDistinct, MaxAttemptsPositive

-----------------------------------------------------------------------------
\* The initial states are well typed.
LEMMA InitTypeOK == Init => TypeOK
BY DEF Init, SageMakerInit, TypeOK, SageMakerTypeOK, Endpoint, NoEndpoint, Healthy,
       Status, InFlight, Unhealthy, Names, Calls, Settled, Succeeded, Hosted

\* A step of the control plane keeps its own state well typed.
LEMMA SageMakerStepTypeOK ==
    ASSUME SageMakerTypeOK, SageMakerStep
    PROVE  SageMakerTypeOK'
<1> USE DEF SageMakerTypeOK, Endpoint, Status, InFlight, Unhealthy, Fault, Healthy, NoEndpoint
<1>1. CASE FinishDeployment  BY <1>1 DEF FinishDeployment
<1>2. CASE FailDeployment    BY <1>2 DEF FailDeployment
<1>3. CASE FinishRollback    BY <1>3 DEF FinishRollback
<1>4. CASE StartMaintenance  BY <1>4 DEF StartMaintenance
<1>5. CASE StartDelete       BY <1>5 DEF StartDelete
<1>6. CASE FinishDelete      BY <1>6 DEF FinishDelete
<1>7. CASE CreateForeign     BY <1>7 DEF CreateForeign, Names
<1> QED BY <1>1, <1>2, <1>3, <1>4, <1>5, <1>6, <1>7 DEF SageMakerStep

\* A step of one invocation keeps every variable well typed.
LEMMA HandlerStepTypeOK ==
    ASSUME TypeOK, NEW i \in Invocations, HandlerStep(i) \/ CallFails(i)
    PROVE  TypeOK'
<1> USE DEF TypeOK, SageMakerTypeOK, Goto, Frame, Local, smVars, registryVars, Fault,
            Calls, Settled, Succeeded
<1>1. CASE RecheckApproval(i)        BY <1>1 DEF RecheckApproval
<1>2. CASE DescribeEndpoint(i)       BY <1>2 DEF DescribeEndpoint
<1>3. CASE DescribeCurrentConfig(i)  BY <1>3 DEF DescribeCurrentConfig
<1>4. CASE DescribeCurrentModel(i)   BY <1>4 DEF DescribeCurrentModel
<1>5. CASE DescribeModel(i)          BY <1>5 DEF DescribeModel, Found
<1>6. CASE CreateModel(i)            BY <1>6 DEF CreateModel, NewModel, Names
<1>7. CASE ConfirmModel(i)           BY <1>7 DEF ConfirmModel, Found
<1>8. CASE DescribeConfig(i)         BY <1>8 DEF DescribeConfig, Found
<1>9. CASE CreateConfig(i)           BY <1>9 DEF CreateConfig, NewConfig, Names
<1>10. CASE ConfirmConfig(i)         BY <1>10 DEF ConfirmConfig, Found
<1>11. CASE ActOnSnapshot(i)         BY <1>11 DEF ActOnSnapshot, EndpointAction
<1>12. CASE CreateEndpoint(i)
  BY <1>12 DEF CreateEndpoint, NewEndpoint, Accept, Endpoint, Status, InFlight, Names
<1>13. CASE UpdateEndpoint(i)
  BY <1>13 DEF UpdateEndpoint, StartUpdate, Accept, Endpoint, Status, InFlight, Names
<1>14. CASE RecheckEndpoint(i)       BY <1>14 DEF RecheckEndpoint, EndpointAction
<1>15. CASE Retry(i)
  BY <1>15 DEF Retry, NoEndpoint, Endpoint, Status
<1>16. CASE Drop(i)                  BY <1>16 DEF Drop
<1>17. CASE CallFails(i)             BY <1>17 DEF CallFails
<1> QED
  BY <1>1, <1>2, <1>3, <1>4, <1>5, <1>6, <1>7, <1>8, <1>9, <1>10, <1>11, <1>12,
     <1>13, <1>14, <1>15, <1>16, <1>17 DEF HandlerStep

\* Every step keeps every variable well typed.
LEMMA NextTypeOK == TypeOK /\ [Next]_vars => TypeOK'
<1> SUFFICES ASSUME TypeOK, [Next]_vars PROVE TypeOK'
  OBVIOUS
<1>1. ASSUME NEW i \in Invocations, NEW p \in Packages, Approve(i, p) \/ Redeliver(i, p)
      PROVE  TypeOK'
  BY <1>1 DEF TypeOK, SageMakerTypeOK, Approve, Redeliver, Deliver, smVars, registryVars,
              Calls, Names
<1>2. ASSUME NEW p \in Packages, Revoke(p) PROVE TypeOK'
  BY <1>2 DEF TypeOK, SageMakerTypeOK, Revoke, Fault
<1>3. ASSUME NEW i \in Invocations, HandlerStep(i) \/ CallFails(i) PROVE TypeOK'
  BY <1>3, HandlerStepTypeOK
<1>4. CASE ServiceStep
  BY <1>4, SageMakerStepTypeOK DEF ServiceStep, TypeOK, registryVars
<1>5. CASE UNCHANGED vars
  BY <1>5 DEF TypeOK, SageMakerTypeOK, vars
<1> QED BY <1>1, <1>2, <1>3, <1>4, <1>5 DEF Next

\* Every variable keeps its type: the handler never returns an action, creates a
\* name or stores a status that the rest of the code does not know
\* (deploy_handler.py:198-293).
THEOREM TypeCorrect == Spec => []TypeOK
<1>1. QED BY InitTypeOK, NextTypeOK, PTL DEF Spec

-----------------------------------------------------------------------------
(***************************************************************************)
(* Models and configurations are immutable: what exists under a name stays *)
(* as it is, and only stable names get new contents.                       *)
(***************************************************************************)
ContentsKept ==
    \A n \in Names :
        /\ modelOf[n] # None \/ n \in Legacy => modelOf'[n] = modelOf[n]
        /\ configOf[n] # None \/ n \in Legacy => configOf'[n] = configOf[n]

LEMMA HandlerKeepsContents ==
    ASSUME TypeOK, NEW i \in Invocations, HandlerStep(i) \/ CallFails(i)
    PROVE  ContentsKept /\ accepted \subseteq accepted'
<1> USE DEF TypeOK, SageMakerTypeOK, ContentsKept, Names
<1>1. CASE CreateModel(i)
  BY <1>1 DEF CreateModel, NewModel
<1>2. CASE CreateConfig(i)
  BY <1>2 DEF CreateConfig, NewConfig
<1>3. CASE CreateEndpoint(i) \/ UpdateEndpoint(i)
  BY <1>3 DEF CreateEndpoint, UpdateEndpoint, NewEndpoint, StartUpdate, Accept, smVars
<1>4. CASE \/ RecheckApproval(i) \/ DescribeEndpoint(i) \/ DescribeCurrentConfig(i)
           \/ DescribeCurrentModel(i) \/ DescribeModel(i) \/ ConfirmModel(i)
           \/ DescribeConfig(i) \/ ConfirmConfig(i) \/ ActOnSnapshot(i)
           \/ RecheckEndpoint(i) \/ Drop(i) \/ Retry(i) \/ CallFails(i)
  BY <1>4 DEF RecheckApproval, DescribeEndpoint, DescribeCurrentConfig, DescribeCurrentModel,
              DescribeModel, ConfirmModel, DescribeConfig, ConfirmConfig, ActOnSnapshot,
              RecheckEndpoint, Drop, Retry, CallFails, Local, smVars
<1> QED BY <1>1, <1>2, <1>3, <1>4 DEF HandlerStep

LEMMA NextKeepsContents == TypeOK /\ [Next]_vars => ContentsKept /\ accepted \subseteq accepted'
<1> SUFFICES ASSUME TypeOK, [Next]_vars PROVE ContentsKept /\ accepted \subseteq accepted'
  OBVIOUS
<1>1. ASSUME NEW i \in Invocations, NEW p \in Packages, Approve(i, p) \/ Redeliver(i, p)
      PROVE  ContentsKept /\ accepted \subseteq accepted'
  BY <1>1 DEF Approve, Redeliver, smVars, ContentsKept
<1>2. ASSUME NEW p \in Packages, Revoke(p)
      PROVE  ContentsKept /\ accepted \subseteq accepted'
  BY <1>2 DEF Revoke, ContentsKept
<1>3. CASE ServiceStep
  BY <1>3 DEF ServiceStep, SageMakerStep, FinishDeployment, FailDeployment, FinishRollback,
              StartMaintenance, StartDelete, FinishDelete, CreateForeign, ContentsKept,
              TypeOK, SageMakerTypeOK, Names
<1>4. CASE UNCHANGED vars
  BY <1>4 DEF vars, ContentsKept
<1> QED BY <1>1, <1>2, <1>3, <1>4, HandlerKeepsContents DEF Next

-----------------------------------------------------------------------------
LegacyKept == \A c \in Legacy : configOf[c] \notin Packages
EventsApproved == \A i \in Invocations : pc[i] # "idle" => pkg[i] \in everApproved

\* What a sound configuration name hosts does not change any more.
LEMMA HostedKept ==
    ASSUME TypeOK, LegacyKept, ContentsKept,
           NEW c \in Names \cup {None},
           c \in Packages => configOf[c] = c /\ modelOf[c] = c
    PROVE  Hosted(c)' = Hosted(c)
<1> USE DEF TypeOK, SageMakerTypeOK, Names
<1>1. CASE c \in Packages
  BY <1>1 DEF ContentsKept, Hosted
<1>2. CASE c \in Legacy
  <2>1. configOf'[c] = configOf[c] /\ configOf[c] \notin Packages
    BY <1>2 DEF ContentsKept, LegacyKept
  <2>2. configOf[c] \in Names => modelOf'[configOf[c]] = modelOf[configOf[c]]
    BY <2>1 DEF ContentsKept
  <2> QED BY <2>1, <2>2 DEF Hosted
<1>3. CASE c = None
  BY <1>3 DEF Hosted
<1> QED BY <1>1, <1>2, <1>3

\* A description that stays as it is stays sound.
LEMMA SoundKept ==
    ASSUME TypeOK, LegacyKept, ContentsKept, accepted \subseteq accepted',
           NEW e \in Endpoint, Sound(e)
    PROVE  \A c \in {e.current, e.pending} :
              /\ c \in Packages => configOf'[c] = c /\ modelOf'[c] = c
              /\ Hosted(c)' \in Packages => Hosted(c)' \in accepted'
<1> TAKE c \in {e.current, e.pending}
<1>1. c \in Names \cup {None}
  BY DEF Endpoint
<1>2. c \in Packages => configOf[c] = c /\ modelOf[c] = c
  BY DEF Sound
<1>3. Hosted(c)' = Hosted(c)
  BY <1>1, <1>2, HostedKept
<1>4. c \in Packages => configOf'[c] = c /\ modelOf'[c] = c
  BY <1>2 DEF ContentsKept, Names
<1> QED BY <1>3, <1>4 DEF Sound

-----------------------------------------------------------------------------
\* An invocation moves only itself, and never touches the registry.
LEMMA OthersKept ==
    ASSUME TypeOK, NEW i \in Invocations, HandlerStep(i) \/ CallFails(i)
    PROVE  /\ UNCHANGED <<pkg, approval, everApproved>>
           /\ \A j \in Invocations \ {i} :
                 /\ pc'[j] = pc[j]
                 /\ seen'[j] = seen[j]
                 /\ j \in cleared => j \in cleared'
<1> USE DEF TypeOK, Goto, Frame, Local, registryVars
<1>1. CASE \/ RecheckApproval(i) \/ DescribeEndpoint(i) \/ DescribeCurrentConfig(i)
           \/ DescribeCurrentModel(i) \/ DescribeModel(i) \/ ConfirmModel(i)
           \/ DescribeConfig(i) \/ ConfirmConfig(i) \/ ActOnSnapshot(i)
           \/ RecheckEndpoint(i) \/ Drop(i) \/ CallFails(i)
  BY <1>1 DEF RecheckApproval, DescribeEndpoint, DescribeCurrentConfig, DescribeCurrentModel,
              DescribeModel, ConfirmModel, DescribeConfig, ConfirmConfig, ActOnSnapshot,
              RecheckEndpoint, Drop, CallFails
<1>2. CASE CreateModel(i) \/ CreateConfig(i)
  BY <1>2 DEF CreateModel, CreateConfig
<1>3. CASE CreateEndpoint(i) \/ UpdateEndpoint(i)
  BY <1>3 DEF CreateEndpoint, UpdateEndpoint, Accept
<1>4. CASE Retry(i)
  BY <1>4 DEF Retry
<1> QED BY <1>1, <1>2, <1>3, <1>4 DEF HandlerStep

\* _ensure_resource: past it, the model and the config match the package.
LEMMA HandlerEnsures ==
    ASSUME IInv, NEW i \in Invocations, HandlerStep(i) \/ CallFails(i)
    PROVE  ResourcesEnsured'
<1> DEFINE Ensured(j) ==
      /\ pc[j] \in {"describe_config", "create_config", "confirm_config", "submit", "recheck_endpoint"}
            => modelOf[pkg[j]] = pkg[j]
      /\ pc[j] \in {"submit", "recheck_endpoint"} => configOf[pkg[j]] = pkg[j]
<1>0. TypeOK /\ ContentsKept
  BY HandlerKeepsContents DEF IInv
<1>1. ASSUME NEW j \in Invocations \ {i} PROVE Ensured(j)'
  BY <1>0, <1>1, OthersKept DEF IInv, ResourcesEnsured, ContentsKept, TypeOK, SageMakerTypeOK,
     Calls, Names
<1>2. Ensured(i)'
  <2> USE <1>0 DEF IInv, ResourcesEnsured, TypeOK, SageMakerTypeOK, Goto, Frame, Local, smVars, Names
  <2>1. CASE DescribeModel(i)    BY <2>1 DEF DescribeModel, Found
  <2>2. CASE CreateModel(i)      BY <2>2 DEF CreateModel, NewModel
  <2>3. CASE ConfirmModel(i)     BY <2>3 DEF ConfirmModel, Found
  <2>4. CASE DescribeConfig(i)   BY <2>4 DEF DescribeConfig, Found
  <2>5. CASE CreateConfig(i)     BY <2>5 DEF CreateConfig, NewConfig
  <2>6. CASE ConfirmConfig(i)    BY <2>6 DEF ConfirmConfig, Found
  <2>7. CASE CreateEndpoint(i)   BY <2>7 DEF CreateEndpoint, NewEndpoint, Accept
  <2>8. CASE UpdateEndpoint(i)   BY <2>8 DEF UpdateEndpoint, StartUpdate, Accept
  <2>9. CASE \/ RecheckApproval(i) \/ DescribeEndpoint(i) \/ DescribeCurrentConfig(i)
             \/ DescribeCurrentModel(i) \/ Drop(i) \/ Retry(i) \/ CallFails(i)
    BY <2>9 DEF RecheckApproval, DescribeEndpoint, DescribeCurrentConfig, DescribeCurrentModel,
                Drop, Retry, CallFails
  <2>10. CASE ActOnSnapshot(i) \/ RecheckEndpoint(i)
    BY <2>10 DEF ActOnSnapshot, RecheckEndpoint, EndpointAction
  <2> QED
    BY <2>1, <2>2, <2>3, <2>4, <2>5, <2>6, <2>7, <2>8, <2>9, <2>10 DEF HandlerStep
<1> QED BY <1>1, <1>2 DEF ResourcesEnsured

\* The endpoint is pointed only at an ensured configuration, which is accepted.
LEMMA HandlerKeepsEndpointSound ==
    ASSUME IInv, NEW i \in Invocations, HandlerStep(i) \/ CallFails(i)
    PROVE  Sound(endpoint)'
<1>0. /\ TypeOK /\ LegacyKept /\ Sound(endpoint) /\ endpoint \in Endpoint
      /\ ContentsKept /\ accepted \subseteq accepted' /\ TypeOK'
  BY HandlerKeepsContents, HandlerStepTypeOK DEF IInv, LegacyKept, TypeOK, SageMakerTypeOK
<1>1. CASE endpoint' = endpoint
  BY <1>0, <1>1, SoundKept DEF Sound
<1>2. CASE endpoint' # endpoint
  <2>1. /\ endpoint'.pending = pkg[i]
        /\ endpoint'.current \in {pkg[i], endpoint.current}
        /\ pc[i] = "submit"
        /\ pkg[i] \in accepted'
        /\ UNCHANGED <<modelOf, configOf>>
    <3>1. CASE CreateEndpoint(i)
      BY <1>2, <3>1 DEF CreateEndpoint, NewEndpoint, Accept, smVars
    <3>2. CASE UpdateEndpoint(i)
      BY <1>2, <3>2 DEF UpdateEndpoint, StartUpdate, Accept, smVars
    <3>3. CASE \/ RecheckApproval(i) \/ DescribeEndpoint(i) \/ DescribeCurrentConfig(i)
               \/ DescribeCurrentModel(i) \/ DescribeModel(i) \/ ConfirmModel(i)
               \/ DescribeConfig(i) \/ ConfirmConfig(i) \/ ActOnSnapshot(i) \/ CreateModel(i)
               \/ CreateConfig(i) \/ RecheckEndpoint(i) \/ Drop(i) \/ Retry(i) \/ CallFails(i)
      BY <1>2, <3>3 DEF RecheckApproval, DescribeEndpoint, DescribeCurrentConfig,
         DescribeCurrentModel, DescribeModel, ConfirmModel, DescribeConfig, ConfirmConfig,
         ActOnSnapshot, RecheckEndpoint, Drop, Retry, CallFails, CreateModel, CreateConfig,
         NewModel, NewConfig, Local, smVars
    <3> QED BY <3>1, <3>2, <3>3 DEF HandlerStep
  <2>2. configOf[pkg[i]] = pkg[i] /\ modelOf[pkg[i]] = pkg[i] /\ pkg[i] \in Packages
    BY <2>1, <1>0 DEF IInv, ResourcesEnsured, TypeOK
  <2>3. Hosted(pkg[i]) = pkg[i]
    BY <2>2 DEF Hosted, Names
  <2>4. \A c \in {endpoint.current, pkg[i]} :
           /\ c \in Packages => configOf'[c] = c /\ modelOf'[c] = c
           /\ Hosted(c)' = Hosted(c)
           /\ Hosted(c) \in Packages => Hosted(c) \in accepted'
    BY <1>0, <2>1, <2>2, <2>3 DEF Sound, Hosted
  <2> QED BY <2>1, <2>4 DEF Sound
<1> QED BY <1>1, <1>2

\* A snapshot is a copy of the endpoint, and stays sound however stale it gets.
LEMMA HandlerKeepsSeenSound ==
    ASSUME IInv, NEW i \in Invocations, HandlerStep(i) \/ CallFails(i),
           NEW j \in Invocations
    PROVE  Sound(seen[j])'
<1>0. /\ TypeOK /\ LegacyKept /\ Sound(endpoint) /\ Sound(seen[j])
      /\ endpoint \in Endpoint /\ seen[j] \in Endpoint
      /\ ContentsKept /\ accepted \subseteq accepted'
  BY HandlerKeepsContents DEF IInv, LegacyKept, TypeOK, SageMakerTypeOK
<1>1. seen'[j] \in {seen[j], endpoint, NoEndpoint}
  <2>1. CASE DescribeEndpoint(i)
    BY <2>1 DEF DescribeEndpoint, TypeOK
  <2>2. CASE Retry(i)
    BY <2>2 DEF Retry, TypeOK
  <2>3. CASE \/ RecheckApproval(i) \/ DescribeCurrentConfig(i)
             \/ DescribeCurrentModel(i) \/ DescribeModel(i) \/ ConfirmModel(i)
             \/ DescribeConfig(i) \/ ConfirmConfig(i) \/ ActOnSnapshot(i) \/ CreateModel(i)
             \/ CreateConfig(i) \/ RecheckEndpoint(i) \/ Drop(i) \/ CallFails(i)
             \/ CreateEndpoint(i) \/ UpdateEndpoint(i)
    BY <2>3 DEF RecheckApproval, DescribeCurrentConfig, CreateEndpoint, UpdateEndpoint,
       DescribeCurrentModel, DescribeModel, ConfirmModel, DescribeConfig, ConfirmConfig,
       ActOnSnapshot, RecheckEndpoint, Drop, CallFails, CreateModel, CreateConfig
  <2> QED BY <2>1, <2>2, <2>3 DEF HandlerStep
<1>2. CASE seen'[j] = seen[j]
  BY <1>0, <1>2, SoundKept DEF Sound
<1>3. CASE seen'[j] = endpoint
  BY <1>0, <1>3, SoundKept DEF Sound
<1>4. CASE seen'[j] = NoEndpoint
  BY <1>4 DEF NoEndpoint, Sound, Hosted, Names
<1> QED BY <1>1, <1>2, <1>3, <1>4

\* Past its recheck, an invocation's package was approved in this attempt.
LEMMA HandlerRechecks ==
    ASSUME IInv, NEW i \in Invocations, HandlerStep(i) \/ CallFails(i)
    PROVE  ApprovalRechecked'
<1> DEFINE Rechecked(j) ==
      /\ pc[j] \in Calls \ {"recheck_approval"} => j \in cleared
      /\ pc[j] \in {"recheck_approval", "raised"} /\ approval[pkg[j]] = "Approved" => j \in cleared
<1>1. ASSUME NEW j \in Invocations \ {i} PROVE Rechecked(j)'
  BY <1>1, OthersKept DEF IInv, ApprovalRechecked
<1>2. Rechecked(i)'
  <2> USE DEF IInv, ApprovalRechecked, TypeOK, Goto, Frame, Local, Calls, registryVars
  <2>1. CASE RecheckApproval(i)
    BY <2>1 DEF RecheckApproval
  <2>2. CASE Retry(i)
    BY <2>2 DEF Retry
  <2>3. CASE CallFails(i)
    BY <2>3 DEF CallFails
  <2>4. CASE \/ DescribeEndpoint(i) \/ DescribeCurrentConfig(i)
             \/ DescribeCurrentModel(i) \/ DescribeModel(i) \/ ConfirmModel(i)
             \/ DescribeConfig(i) \/ ConfirmConfig(i) \/ CreateModel(i)
             \/ CreateConfig(i) \/ Drop(i) \/ CreateEndpoint(i) \/ UpdateEndpoint(i)
             \/ RecheckEndpoint(i) \/ ActOnSnapshot(i)
    <3>1. pc[i] \in Calls \ {"recheck_approval"} \/ pc'[i] = "dropped"
      BY <2>4 DEF DescribeEndpoint, DescribeCurrentConfig, CreateEndpoint, UpdateEndpoint,
       DescribeCurrentModel, DescribeModel, ConfirmModel, DescribeConfig, ConfirmConfig,
       ActOnSnapshot, RecheckEndpoint, Drop, CreateModel, CreateConfig
    <3>2. cleared' = cleared
      BY <2>4 DEF DescribeEndpoint, DescribeCurrentConfig, CreateEndpoint, UpdateEndpoint,
       DescribeCurrentModel, DescribeModel, ConfirmModel, DescribeConfig, ConfirmConfig,
       ActOnSnapshot, RecheckEndpoint, Drop, CreateModel, CreateConfig
    <3> QED BY <3>1, <3>2
  <2> QED BY <2>1, <2>2, <2>3, <2>4 DEF HandlerStep
<1> QED BY <1>1, <1>2 DEF ApprovalRechecked

\* A deployment result is returned only for a package SageMaker accepted.
LEMMA HandlerTellsTheTruth ==
    ASSUME IInv, NEW i \in Invocations, HandlerStep(i) \/ CallFails(i)
    PROVE  SuccessMeansAccepted'
<1>0. TypeOK /\ accepted \subseteq accepted'
  BY HandlerKeepsContents DEF IInv
<1>1. ASSUME NEW j \in Invocations \ {i}, pc'[j] \in Succeeded
      PROVE  pkg'[j] \in accepted'
  BY <1>0, <1>1, OthersKept DEF IInv, SuccessMeansAccepted
<1>2. ASSUME pc'[i] \in Succeeded
      PROVE  pkg'[i] \in accepted'
  <2>0. pkg' = pkg
    BY OthersKept, <1>0
  <2> USE <1>0, <2>0, <1>2 DEF TypeOK, Succeeded, Goto
  <2>1. CASE DescribeCurrentModel(i)
    <3>1. Hosted(seen[i].current) = pkg[i] /\ pkg[i] \in Packages
      BY <2>1 DEF DescribeCurrentModel
    <3> QED BY <3>1 DEF IInv, Sound
  <2>2. CASE ActOnSnapshot(i)
    <3>1. pkg[i] \in {seen[i].current, seen[i].pending} /\ pkg[i] \in Packages /\ pc[i] = "submit"
      BY <2>2 DEF ActOnSnapshot, EndpointAction
    <3>2. Hosted(pkg[i]) = pkg[i]
      BY <3>1 DEF IInv, ResourcesEnsured, Hosted, Names
    <3> QED BY <3>1, <3>2 DEF IInv, Sound
  <2>3. CASE RecheckEndpoint(i)
    <3>1. pkg[i] \in {endpoint.current, endpoint.pending} /\ pkg[i] \in Packages
          /\ pc[i] = "recheck_endpoint"
      BY <2>3 DEF RecheckEndpoint, EndpointAction
    <3>2. Hosted(pkg[i]) = pkg[i]
      BY <3>1 DEF IInv, ResourcesEnsured, Hosted, Names
    <3> QED BY <3>1, <3>2 DEF IInv, Sound
  <2>4. CASE CreateEndpoint(i) \/ UpdateEndpoint(i)
    BY <2>4 DEF CreateEndpoint, UpdateEndpoint, Accept
  <2>5. CASE \/ RecheckApproval(i) \/ DescribeEndpoint(i) \/ DescribeCurrentConfig(i)
             \/ DescribeModel(i) \/ ConfirmModel(i) \/ DescribeConfig(i) \/ ConfirmConfig(i)
             \/ CreateModel(i) \/ CreateConfig(i) \/ Drop(i) \/ Retry(i) \/ CallFails(i)
    BY <2>5 DEF RecheckApproval, DescribeEndpoint, DescribeCurrentConfig, DescribeModel,
       ConfirmModel, DescribeConfig, ConfirmConfig, CreateModel, CreateConfig, Drop, Retry,
       CallFails, Found
  <2> QED BY <2>1, <2>2, <2>3, <2>4, <2>5 DEF HandlerStep
<1> QED BY <1>1, <1>2 DEF SuccessMeansAccepted

\* Only an approved package becomes the pending deployment.
LEMMA HandlerKeepsPendingApproved ==
    ASSUME IInv, NEW i \in Invocations, HandlerStep(i) \/ CallFails(i)
    PROVE  PendingApproved'
<1>0. TypeOK /\ PendingApproved /\ everApproved' = everApproved
  BY OthersKept DEF IInv
<1>1. CASE endpoint' = endpoint
  BY <1>0, <1>1 DEF PendingApproved
<1>2. CASE CreateEndpoint(i)
  BY <1>0, <1>2 DEF CreateEndpoint, NewEndpoint, smVars, IInv, TypeOK, Names, PendingApproved
<1>3. CASE UpdateEndpoint(i)
  BY <1>0, <1>3 DEF UpdateEndpoint, StartUpdate, smVars, IInv, TypeOK, Names, PendingApproved
<1>4. CASE \/ RecheckApproval(i) \/ DescribeEndpoint(i) \/ DescribeCurrentConfig(i)
           \/ DescribeCurrentModel(i) \/ DescribeModel(i) \/ ConfirmModel(i)
           \/ DescribeConfig(i) \/ ConfirmConfig(i) \/ ActOnSnapshot(i) \/ CreateModel(i)
           \/ CreateConfig(i) \/ RecheckEndpoint(i) \/ Drop(i) \/ Retry(i) \/ CallFails(i)
  BY <1>1, <1>4 DEF RecheckApproval, DescribeEndpoint, DescribeCurrentConfig,
     DescribeCurrentModel, DescribeModel, ConfirmModel, DescribeConfig, ConfirmConfig,
     ActOnSnapshot, RecheckEndpoint, Drop, Retry, CallFails, CreateModel, CreateConfig,
     NewModel, NewConfig, Local, smVars
<1> QED BY <1>2, <1>3, <1>4 DEF HandlerStep

-----------------------------------------------------------------------------
LEMMA InitIInv == Init => IInv
<1> SUFFICES ASSUME Init PROVE IInv
  OBVIOUS
<1>1. TypeOK
  BY InitTypeOK
<1>2. (\A c \in Legacy : configOf[c] \notin Packages) /\ ResourcesEnsured /\ ApprovalRechecked
      /\ SuccessMeansAccepted /\ (\A i \in Invocations : pc[i] # "idle" => pkg[i] \in everApproved)
  BY DEF Init, SageMakerInit, Names, ResourcesEnsured, ApprovalRechecked, SuccessMeansAccepted,
         Calls, Succeeded
<1>3. \A i \in Invocations : Sound(seen[i])
  BY DEF Init, Sound, NoEndpoint, Hosted, Names
<1>4. Sound(endpoint)
  BY DEF Init, SageMakerInit, Sound, NoEndpoint, Healthy, Hosted, Names
<1>5. PendingApproved
  BY DEF Init, SageMakerInit, PendingApproved, NoEndpoint, Healthy
<1> QED BY <1>1, <1>2, <1>3, <1>4, <1>5 DEF IInv

\* The control plane only moves what the handlers already put in place.
LEMMA ServiceKeepsEndpointSound ==
    ASSUME IInv, ServiceStep
    PROVE  Sound(endpoint)'
<1>0. /\ TypeOK /\ LegacyKept /\ Sound(endpoint) /\ endpoint \in Endpoint
      /\ ContentsKept /\ accepted \subseteq accepted'
  BY NextKeepsContents DEF IInv, LegacyKept, TypeOK, SageMakerTypeOK, Next
<1>1. {endpoint'.current, endpoint'.pending} \subseteq {endpoint.current, endpoint.pending, None}
  <2> USE DEF TypeOK, SageMakerTypeOK, Endpoint
  <2>1. CASE FinishDeployment  BY <1>0, <2>1 DEF FinishDeployment, Healthy
  <2>2. CASE FailDeployment    BY <1>0, <2>2 DEF FailDeployment
  <2>3. CASE FinishRollback    BY <1>0, <2>3 DEF FinishRollback, Healthy
  <2>4. CASE StartMaintenance  BY <1>0, <2>4 DEF StartMaintenance
  <2>5. CASE StartDelete       BY <1>0, <2>5 DEF StartDelete
  <2>6. CASE FinishDelete      BY <1>0, <2>6 DEF FinishDelete, NoEndpoint
  <2>7. CASE CreateForeign     BY <1>0, <2>7 DEF CreateForeign
  <2> QED BY <2>1, <2>2, <2>3, <2>4, <2>5, <2>6, <2>7 DEF ServiceStep, SageMakerStep
<1>2. \A c \in {endpoint.current, endpoint.pending} :
              /\ c \in Packages => configOf'[c] = c /\ modelOf'[c] = c
              /\ Hosted(c)' \in Packages => Hosted(c)' \in accepted'
  BY <1>0, SoundKept
<1>3. None \notin Packages /\ Hosted(None)' \notin Packages
  BY DEF Hosted, Names
<1> QED BY <1>1, <1>2, <1>3 DEF Sound

\* The registry, the event bus and the control plane do not break it either.
LEMMA OthersKeepIInv ==
    ASSUME IInv,
           \/ \E i \in Invocations, p \in Packages : Approve(i, p) \/ Redeliver(i, p)
           \/ \E p \in Packages : Revoke(p)
           \/ ServiceStep
    PROVE  IInv'
<1>0. TypeOK /\ TypeOK' /\ ContentsKept /\ accepted \subseteq accepted' /\ LegacyKept
  BY NextTypeOK, NextKeepsContents DEF IInv, Next, LegacyKept
<1>1. UNCHANGED <<seen, accepted>>
  BY DEF Approve, Redeliver, Revoke, ServiceStep
<1>2. \A i \in Invocations : Sound(seen[i])'
  <2> TAKE i \in Invocations
  <2>1. seen[i] \in Endpoint /\ Sound(seen[i])
    BY <1>0 DEF IInv, TypeOK
  <2> QED BY <1>0, <1>1, <2>1, SoundKept DEF Sound
<1>3. Sound(endpoint)'
  <2>1. CASE ServiceStep
    BY <2>1, ServiceKeepsEndpointSound
  <2>2. CASE ~ServiceStep
    <3>1. endpoint' = endpoint /\ endpoint \in Endpoint /\ Sound(endpoint)
      BY <1>0, <2>2 DEF Approve, Redeliver, Revoke, smVars, IInv, TypeOK, SageMakerTypeOK
    <3> QED BY <1>0, <3>1, SoundKept DEF Sound
  <2> QED BY <2>1, <2>2
<1>4. LegacyKept'
  BY <1>0 DEF LegacyKept, ContentsKept, Names
<1>5. /\ EventsApproved'
      /\ ApprovalRechecked'
      /\ \A i \in Invocations : pc'[i] \in Succeeded => pc'[i] = pc[i] /\ pkg'[i] = pkg[i]
      /\ \A i \in Invocations : pc'[i] \in Calls \ {"recheck_approval"} => pc'[i] = pc[i] /\ pkg'[i] = pkg[i]
  <2> USE <1>0 DEF IInv, EventsApproved, ApprovalRechecked, TypeOK, Succeeded, Calls
  <2>1. ASSUME NEW i \in Invocations, NEW p \in Packages, Approve(i, p) \/ Redeliver(i, p)
        PROVE  <1>5!1 /\ <1>5!2 /\ <1>5!3 /\ <1>5!4
    BY <2>1 DEF Approve, Redeliver, Deliver, registryVars, Names
  <2>2. ASSUME NEW p \in Packages, Revoke(p)
        PROVE  <1>5!1 /\ <1>5!2 /\ <1>5!3 /\ <1>5!4
    BY <2>2 DEF Revoke
  <2>3. CASE ServiceStep
    BY <2>3 DEF ServiceStep, registryVars
  <2> QED BY <2>1, <2>2, <2>3
<1>6. ResourcesEnsured'
  BY <1>0, <1>5 DEF IInv, ResourcesEnsured, ContentsKept, TypeOK, SageMakerTypeOK, Calls, Names
<1>7. SuccessMeansAccepted'
  BY <1>1, <1>5 DEF IInv, SuccessMeansAccepted
<1>8. PendingApproved'
  <2>1. CASE ServiceStep
    BY <1>0, <2>1 DEF IInv, PendingApproved, ServiceStep, SageMakerStep, registryVars,
       FinishDeployment, FailDeployment, FinishRollback, StartMaintenance, StartDelete,
       FinishDelete, CreateForeign, Healthy, NoEndpoint, TypeOK, SageMakerTypeOK, Endpoint
  <2>2. CASE ~ServiceStep
    BY <2>2 DEF IInv, PendingApproved, Approve, Redeliver, Revoke, smVars, registryVars
  <2> QED BY <2>1, <2>2
<1> QED
  BY <1>0, <1>2, <1>3, <1>4, <1>5, <1>6, <1>7, <1>8 DEF IInv, LegacyKept, EventsApproved

LEMMA HandlerKeepsIInv ==
    ASSUME IInv, NEW i \in Invocations, HandlerStep(i) \/ CallFails(i)
    PROVE  IInv'
<1>0. TypeOK /\ TypeOK' /\ ContentsKept
  BY HandlerStepTypeOK, HandlerKeepsContents DEF IInv
<1>1. LegacyKept'
  BY <1>0 DEF IInv, LegacyKept, ContentsKept, Names
<1>2. EventsApproved'
  <2>1. ASSUME NEW j \in Invocations PROVE pc'[j] # "idle" => pc[j] # "idle"
    BY <1>0, <2>1, OthersKept DEF TypeOK
  <2> QED BY <1>0, <2>1, OthersKept DEF IInv, EventsApproved
<1> QED
  BY <1>0, <1>1, <1>2, HandlerEnsures, HandlerKeepsEndpointSound, HandlerKeepsSeenSound,
     HandlerKeepsPendingApproved, HandlerRechecks, HandlerTellsTheTruth DEF IInv, LegacyKept, EventsApproved

LEMMA NextIInv == IInv /\ [Next]_vars => IInv'
<1>1. ASSUME IInv, UNCHANGED vars PROVE IInv'
  BY <1>1 DEF vars, IInv, TypeOK, SageMakerTypeOK, ResourcesEnsured, Sound, Hosted,
              PendingApproved, ApprovalRechecked, SuccessMeansAccepted
<1> QED BY <1>1, HandlerKeepsIInv, OthersKeepIInv DEF Next

\* The invariant is inductive, so every reachable state satisfies it.
THEOREM Invariance == Spec => []IInv
<1>1. QED BY InitIInv, NextIInv, PTL DEF Spec

\* The endpoint only ever names configurations that lead to exactly the package
\* they were created for (_ensure_resource, deploy_handler.py:92-120).
THEOREM DeployedMatches == Spec => []DeployedMatchesPackage
<1>1. IInv => DeployedMatchesPackage
  BY DEF IInv, Sound, DeployedMatchesPackage, Hosted, Names
<1>2. QED BY <1>1, Invariance, PTL

\* A handler that reports success reports something SageMaker accepted
\* (deploy_handler.py:262-293), however stale the snapshot it decided on.
THEOREM SuccessIsTrue == Spec => []SuccessMeansAccepted
<1>1. IInv => SuccessMeansAccepted
  BY DEF IInv
<1>2. QED BY <1>1, Invariance, PTL

\* A stale approval event writes nothing: whichever invocation changes SageMaker
\* re-read an approval in its current attempt (deploy_handler.py:209-217).
THEOREM StaleEventsWriteNothing == Spec => RevokedNeverDeployed
<1> DEFINE resources == <<endpoint, modelOf, configOf>>
           A == \A i \in Invocations : pc'[i] # pc[i] /\ resources' # resources => i \in cleared
<1>1. IInv /\ [Next]_vars => [A]_vars
  <2> SUFFICES ASSUME IInv, Next PROVE A
    OBVIOUS
  <2>0. TypeOK
    BY DEF IInv
  <2>1. ASSUME NEW j \in Invocations, HandlerStep(j) \/ CallFails(j) PROVE A
    <3> SUFFICES ASSUME resources' # resources PROVE j \in cleared
      BY <2>0, <2>1, OthersKept
    <3>1. pc[j] \in {"create_model", "create_config", "submit"}
      <4>1. CASE CreateModel(j) \/ CreateConfig(j) \/ CreateEndpoint(j) \/ UpdateEndpoint(j)
        BY <4>1 DEF CreateModel, CreateConfig, CreateEndpoint, UpdateEndpoint
      <4>2. CASE \/ RecheckApproval(j) \/ DescribeEndpoint(j) \/ DescribeCurrentConfig(j)
                 \/ DescribeCurrentModel(j) \/ DescribeModel(j) \/ ConfirmModel(j)
                 \/ DescribeConfig(j) \/ ConfirmConfig(j) \/ ActOnSnapshot(j)
                 \/ RecheckEndpoint(j) \/ Drop(j) \/ Retry(j) \/ CallFails(j)
        BY <4>2 DEF RecheckApproval, DescribeEndpoint, DescribeCurrentConfig,
           DescribeCurrentModel, DescribeModel, ConfirmModel, DescribeConfig, ConfirmConfig,
           ActOnSnapshot, RecheckEndpoint, Drop, Retry, CallFails, Local, smVars
      <4> QED BY <2>1, <4>1, <4>2 DEF HandlerStep
    <3> QED BY <3>1 DEF IInv, ApprovalRechecked, Calls
  <2>2. ASSUME NEW i \in Invocations, NEW p \in Packages, Approve(i, p) \/ Redeliver(i, p) PROVE A
    BY <2>2 DEF Approve, Redeliver, smVars
  <2>3. ASSUME NEW p \in Packages, Revoke(p) PROVE A
    BY <2>3 DEF Revoke
  <2>4. CASE ServiceStep
    BY <2>4 DEF ServiceStep
  <2> QED BY <2>1, <2>2, <2>3, <2>4 DEF Next
<1>2. QED BY <1>1, Invariance, PTL DEF Spec, RevokedNeverDeployed

-----------------------------------------------------------------------------
(***************************************************************************)
(* Deploy implements Release.                                              *)
(***************************************************************************)
LEMMA InitImplements == Init => Promise!Init
BY DEF Init, SageMakerInit, Promise!Init, ServedPackage, PendingPackage, NoEndpoint, Healthy,
       Hosted, Names

\* What stands behind the endpoint's configurations does not change.
LEMMA EndpointHostsKept ==
    IInv /\ [Next]_vars =>
       \A c \in {endpoint.current, endpoint.pending} : Hosted(c)' = Hosted(c)
<1> SUFFICES ASSUME IInv, [Next]_vars, NEW c \in {endpoint.current, endpoint.pending}
             PROVE  Hosted(c)' = Hosted(c)
  OBVIOUS
<1>1. TypeOK /\ LegacyKept /\ ContentsKept
  BY NextKeepsContents DEF IInv, LegacyKept
<1>2. c \in Names \cup {None} /\ (c \in Packages => configOf[c] = c /\ modelOf[c] = c)
  BY <1>1 DEF IInv, Sound, TypeOK, SageMakerTypeOK, Endpoint
<1> QED BY <1>1, <1>2, HostedKept

\* A pending deployment is of the package its configuration is named for.
LEMMA PendingHosts ==
    IInv => \/ endpoint.pending = None /\ PendingPackage = None
            \/ /\ endpoint.pending \in everApproved
               /\ PendingPackage = endpoint.pending
               /\ Hosted(endpoint.pending) = endpoint.pending
<1> SUFFICES ASSUME IInv, endpoint.pending # None
             PROVE  /\ endpoint.pending \in everApproved
                    /\ PendingPackage = endpoint.pending
                    /\ Hosted(endpoint.pending) = endpoint.pending
  BY DEF IInv, PendingApproved, PendingPackage
<1>1. endpoint.pending \in everApproved /\ endpoint.pending \in Packages
  BY DEF IInv, PendingApproved, TypeOK
<1>2. Hosted(endpoint.pending) = endpoint.pending
  BY <1>1 DEF IInv, Sound, Hosted, Names
<1> QED BY <1>1, <1>2 DEF IInv, PendingApproved, PendingPackage

\* A control-plane step completes, abandons or takes down a deployment.
LEMMA ServiceImplements ==
    ASSUME IInv, ServiceStep
    PROVE  [Promise!Next]_(Promise!vars)
<1>0. /\ everApproved' = everApproved /\ endpoint \in Endpoint
      /\ \A c \in {endpoint.current, endpoint.pending} : Hosted(c)' = Hosted(c)
      /\ endpoint.pending # None <=> endpoint.status \in {"Creating", "Updating"}
  BY EndpointHostsKept DEF Next, ServiceStep, registryVars, IInv, TypeOK, SageMakerTypeOK,
     PendingApproved
<1> USE DEF ServedPackage, PendingPackage, Answering, Endpoint, Promise!vars
<1>1. CASE FinishDeployment
  <2>1. CASE endpoint.pending = None
    BY <1>0, <1>1, <2>1 DEF FinishDeployment, Healthy, InFlight, Hosted
  <2>2. CASE endpoint.pending # None
    <3>1. PendingPackage = endpoint.pending /\ Hosted(endpoint.pending) = endpoint.pending
      BY <2>2, PendingHosts
    <3>2. endpoint' = Healthy(endpoint.pending) /\ UNCHANGED <<modelOf, configOf>>
      BY <1>1, <2>2 DEF FinishDeployment
    <3>3. ServedPackage' = PendingPackage /\ PendingPackage' = None
      BY <3>1, <3>2 DEF Healthy, Hosted
    <3>4. PendingPackage # None
      BY <2>2, <3>1
    <3> QED BY <1>0, <3>3, <3>4 DEF Promise!Next, Promise!Complete
  <2> QED BY <2>1, <2>2
<1>2. CASE FailDeployment
  BY <1>0, <1>2 DEF FailDeployment, Hosted, Promise!Next, Promise!Abandon
<1>3. CASE FinishRollback
  BY <1>0, <1>3 DEF FinishRollback, Healthy, Hosted
<1>4. CASE StartMaintenance
  BY <1>0, <1>4 DEF StartMaintenance, Hosted
<1>5. CASE StartDelete
  BY <1>0, <1>5 DEF StartDelete, Hosted, Promise!Next, Promise!TakeDown
<1>6. CASE FinishDelete
  BY <1>0, <1>6 DEF FinishDelete, NoEndpoint
<1>7. CASE CreateForeign
  BY <1>0, <1>7 DEF CreateForeign
<1> QED BY <1>1, <1>2, <1>3, <1>4, <1>5, <1>6, <1>7 DEF ServiceStep, SageMakerStep

\* A handler starts at most one deployment, of a package that was approved.
LEMMA HandlerImplements ==
    ASSUME IInv, NEW i \in Invocations, HandlerStep(i) \/ CallFails(i)
    PROVE  [Promise!Next]_(Promise!vars)
<1>0. /\ everApproved' = everApproved /\ endpoint \in Endpoint
      /\ \A c \in {endpoint.current, endpoint.pending} : Hosted(c)' = Hosted(c)
      /\ endpoint.pending # None <=> endpoint.status \in {"Creating", "Updating"}
  BY EndpointHostsKept, OthersKept DEF Next, IInv, TypeOK, SageMakerTypeOK, PendingApproved
<1> USE DEF ServedPackage, PendingPackage, Answering, Endpoint, Promise!vars
<1>1. CASE endpoint' = endpoint
  BY <1>0, <1>1
<1>2. ASSUME NewEndpoint(pkg[i]) \/ StartUpdate(pkg[i]), pc[i] = "submit"
      PROVE  Promise!Next
  <2>1. pkg[i] \in everApproved /\ pkg[i] \in Packages /\ Hosted(pkg[i]) = pkg[i]
    BY <1>2 DEF IInv, TypeOK, ResourcesEnsured, Hosted, Names
  <2>2. PendingPackage' = pkg[i] /\ PendingPackage = None /\ ServedPackage' = ServedPackage
    BY <1>0, <1>2, <2>1 DEF NewEndpoint, StartUpdate, Hosted
  <2> QED BY <1>0, <2>1, <2>2 DEF Promise!Next, Promise!Start
<1>3. CASE CreateEndpoint(i)
  BY <1>1, <1>2, <1>3 DEF CreateEndpoint, smVars
<1>4. CASE UpdateEndpoint(i)
  BY <1>1, <1>2, <1>4 DEF UpdateEndpoint, smVars
<1>5. CASE \/ RecheckApproval(i) \/ DescribeEndpoint(i) \/ DescribeCurrentConfig(i)
           \/ DescribeCurrentModel(i) \/ DescribeModel(i) \/ ConfirmModel(i)
           \/ DescribeConfig(i) \/ ConfirmConfig(i) \/ ActOnSnapshot(i) \/ CreateModel(i)
           \/ CreateConfig(i) \/ RecheckEndpoint(i) \/ Drop(i) \/ Retry(i) \/ CallFails(i)
  BY <1>1, <1>5 DEF RecheckApproval, DescribeEndpoint, DescribeCurrentConfig,
     DescribeCurrentModel, DescribeModel, ConfirmModel, DescribeConfig, ConfirmConfig,
     ActOnSnapshot, RecheckEndpoint, Drop, Retry, CallFails, CreateModel, CreateConfig,
     NewModel, NewConfig, Local, smVars
<1> QED BY <1>3, <1>4, <1>5 DEF HandlerStep

\* Every step of every invocation, of SageMaker and of the registry is a step
\* of Release or invisible there: the endpoint moves only to approved packages,
\* one deployment at a time.
THEOREM Implementation == Spec => ImplementsRelease
<1>1. IInv /\ [Next]_vars => [Promise!Next]_(Promise!vars)
  <2> SUFFICES ASSUME IInv, [Next]_vars PROVE [Promise!Next]_(Promise!vars)
    OBVIOUS
  <2>1. ASSUME NEW i \in Invocations, NEW p \in Packages, Approve(i, p)
        PROVE  Promise!Next
    BY <2>1 DEF Approve, smVars, ServedPackage, PendingPackage, Hosted, Promise!Next, Promise!Approve
  <2>2. ASSUME \/ \E i \in Invocations, p \in Packages : Redeliver(i, p)
               \/ \E p \in Packages : Revoke(p)
               \/ UNCHANGED vars
        PROVE  UNCHANGED Promise!vars
    BY <2>2 DEF Redeliver, Revoke, vars, smVars, registryVars, ServedPackage, PendingPackage,
       Hosted, Promise!vars
  <2> QED BY <2>1, <2>2, ServiceImplements, HandlerImplements DEF Next
<1>2. QED BY <1>1, InitImplements, Invariance, PTL DEF Spec, Promise!Spec, ImplementsRelease

=============================================================================
