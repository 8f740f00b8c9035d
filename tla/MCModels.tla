------------------------------ MODULE MCModels ------------------------------
(***************************************************************************)
(* Small instances for TLC of what becomes of models: DriftMonitor, which  *)
(* judges the one in service, and Promotion, which replaces the champion.  *)
(* They share no state, so a behaviour exercises one of them.              *)
(***************************************************************************)
EXTENDS DriftMonitor, Promotion, TLC

VARIABLE part

Symmetry == Permutations(Invocations) \cup Permutations(Requests) \cup Permutations(Packages)

\* A part that a behaviour does not exercise has one initial state.
MCInit ==
    /\ Init /\ PromotionInit
    /\ \/ part = "promotion" /\ content = [r \in Requests |-> Unreadable] /\ live = None
       \/ /\ part = "monitor"
          /\ data = CHOOSE d \in Data : TRUE
          /\ \A m, d \in Data : Auc[m][d] = 0

MCNext ==
    /\ UNCHANGED part
    /\ \/ part = "promotion" /\ PromotionNext /\ UNCHANGED vars
       \/ part = "monitor" /\ Next /\ UNCHANGED promotionVars

MCSpec == MCInit /\ [][MCNext]_<<part, vars, promotionVars>>

=============================================================================
