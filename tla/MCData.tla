------------------------------- MODULE MCData -------------------------------
(***************************************************************************)
(* Small instances of the data path for TLC, from an upload to a champion: *)
(* Ingestion, Records, Splits, DriftStatistic and Promotion.  They share   *)
(* no state, so a behaviour exercises one of them and leaves the others as *)
(* they start.                                                             *)
(***************************************************************************)
EXTENDS Ingestion, Records, Splits, DriftStatistic, Promotion

VARIABLE part

\* An upload that is written without error, one whose valid rows and one whose
\* rejected rows cannot be written, and one that does not parse.
MCUploads == {[valid |-> "rows", rejected |-> "none"],
              [valid |-> "ragged", rejected |-> "rows"],
              [valid |-> "rows", rejected |-> "ragged"],
              [valid |-> "none", rejected |-> "none"]}

CONSTANTS
    Counts,   \* the numbers of records split
    MaxOdd    \* bound on the rows that differ from the majority class

ASSUME CountsOfRecords == Counts \subseteq Nat

OtherClass(c) == CHOOSE d \in Classes : d # c

\* All rows of class c, but for row r of label b and the rows odd of the other
\* class.
Order(n, c, r, b, odd) ==
    [i \in 1..n |-> IF i = r THEN b ELSE IF i \in odd THEN OtherClass(c) ELSE c]

SplitInputs ==
    \E n \in Counts, c \in Classes, b \in Labels : \E r \in 1..n :
        \E k \in 0..MaxOdd : \E odd \in kSubset(k, 1..n) : shuffled = Order(n, c, r, b, odd)

\* A part that a behaviour does not exercise starts at rest.
NoRecord == record = Plain /\ label = Absent
NoSplit == SplitsStart("rejected") /\ shuffled = <<>>
NoSample == sample = <<>> /\ window = <<>>
NoScores == data = (CHOOSE d \in Data : TRUE) /\ \A m, d \in Data : Auc[m][d] = 0

MCInit ==
    /\ Init /\ RecordStart /\ StatStart /\ PromotionInit
    /\ \/ part = "ingest" /\ NoScores /\ NoRecord /\ NoSplit /\ NoSample
       \/ part = "record" /\ NoScores /\ RecordInputs /\ NoSplit /\ NoSample
       \/ part = "split" /\ NoScores /\ NoRecord /\ SplitsStart("slice") /\ SplitInputs /\ NoSample
       \/ part = "drift" /\ NoScores /\ NoRecord /\ NoSplit /\ StatInputs
       \/ part = "promotion" /\ NoRecord /\ NoSplit /\ NoSample

MCNext ==
    /\ UNCHANGED part
    /\ \/ /\ part = "ingest" /\ Next
          /\ UNCHANGED <<recordVars, splitsVars, statVars, promotionVars>>
       \/ /\ part = "record" /\ RecordNext
          /\ UNCHANGED <<vars, splitsVars, statVars, promotionVars>>
       \/ /\ part = "split" /\ SplitsNext
          /\ UNCHANGED <<vars, recordVars, statVars, promotionVars>>
       \/ /\ part = "drift" /\ StatNext
          /\ UNCHANGED <<vars, recordVars, splitsVars, promotionVars>>
       \/ /\ part = "promotion" /\ PromotionNext
          /\ UNCHANGED <<vars, recordVars, splitsVars, statVars>>

MCSpec ==
    /\ MCInit
    /\ [][MCNext]_<<part, vars, recordVars, splitsVars, statVars, promotionVars>>
    /\ Fairness
    /\ SplitsFairness

\* The variables of the five parts keep their types.
DataTypeOK == TypeOK /\ RecordTypeOK /\ SplitsTypeOK /\ StatTypeOK /\ PromotionTypeOK

\* Every message is settled and every run that splits its records ends.
DataPathEnds == EveryMessageEnds /\ Ends

=============================================================================
