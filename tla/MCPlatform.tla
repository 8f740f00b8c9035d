----------------------------- MODULE MCPlatform -----------------------------
(***************************************************************************)
(* Small instances for TLC of the parts that surround the data and the     *)
(* models: the website, the closed loop, the account, its event bus and    *)
(* the access its roles have.  They share no state, so a behaviour         *)
(* exercises one of them and leaves the others as they start.              *)
(***************************************************************************)
EXTENDS Predictions, Results, MailingList, ClosedLoop, Account, EventBus, Access, TLC

CONSTANTS s1, s2

VARIABLE part

MCSpelling == s1 :> "Ann" @@ s2 :> "ann"
MCNormal == [typed \in {"Ann", "ann"} |-> "ann"]

MCInit ==
    /\ part \in {"predict", "results", "list", "loop", "account", "bus", "access"}
    /\ PredictInit /\ ResultsInit /\ ListInit
    /\ LoopInit /\ AccountInit /\ BusInit /\ AccessInit

MCNext ==
    /\ UNCHANGED part
    /\ \/ /\ part = "predict" /\ PredictNext
          /\ UNCHANGED <<resultsVars, listVars, loopVars, accountVars,
                         busVars, accessVars>>
       \/ /\ part = "results" /\ ResultsNext
          /\ UNCHANGED <<predictVars, listVars, loopVars, accountVars,
                         busVars, accessVars>>
       \/ /\ part = "list" /\ ListNext
          /\ UNCHANGED <<predictVars, resultsVars, loopVars, accountVars,
                         busVars, accessVars>>
       \/ /\ part = "loop" /\ LoopNext
          /\ UNCHANGED <<predictVars, resultsVars, listVars, accountVars,
                         busVars, accessVars>>
       \/ /\ part = "account" /\ AccountNext
          /\ UNCHANGED <<predictVars, resultsVars, listVars, loopVars,
                         busVars, accessVars>>
       \/ /\ part = "bus" /\ BusNext
          /\ UNCHANGED <<predictVars, resultsVars, listVars, loopVars,
                         accountVars, accessVars>>
       \/ /\ part = "access" /\ AccessNext
          /\ UNCHANGED <<predictVars, resultsVars, listVars, loopVars,
                         accountVars, busVars>>

MCSpec ==
    /\ MCInit
    /\ [][MCNext]_<<part, predictVars, resultsVars, listVars, loopVars, accountVars,
                    busVars, accessVars>>
    /\ PredictFairness
    /\ LoopFairness
    /\ AccountFairness

\* The variables of all parts keep their types.
PlatformTypeOK ==
    /\ PredictTypeOK /\ ResultsTypeOK /\ ListTypeOK
    /\ LoopTypeOK /\ AccountTypeOK /\ BusTypeOK /\ AccessTypeOK

=============================================================================
