------------------------------- MODULE Splits -------------------------------
(***************************************************************************)
(* src/src/pipeline/preprocess.py: how the shuffled records of a run are   *)
(* split into training, validation and held-out test rows.  A contiguous   *)
(* split is taken when it is usable; otherwise three rows of each class    *)
(* are reserved and the others dealt out in turn, passing over the splits  *)
(* that are full.                                                          *)
(*                                                                         *)
(* The shuffle has a fixed seed and may produce any order, so a run starts *)
(* from an arbitrary sequence of labels.  A row is its position in it.     *)
(***************************************************************************)
EXTENDS FiniteSetsExt, Integers, Sequences

CONSTANTS
    BadLabels,    \* labels other than No and Yes
    Lossy         \* counts whose float product with 0.7 is below the integer
                  \* it stands for, as 90, 170 and 180 have

Classes == {"No", "Yes"}
Labels == Classes \cup BadLabels

ASSUME SplitConstants ==
    /\ BadLabels \cap Classes = {}
    /\ \A n \in Lossy : n \in Nat /\ n % 10 = 0 /\ n > 10

VARIABLES
    shuffled,   \* the labels of the records, in shuffled order
    splits,     \* split -> the rows it got, in order
    reserved,   \* the rows set aside for a class
    cursor,     \* the row to deal next
    turn,       \* the split whose turn it is
    phase

splitsVars == <<shuffled, splits, reserved, cursor, turn, phase>>

SplitNames == 0..2   \* train, validation, test
TrainSplit == 0
MinSplitSize == 2

Count == Len(shuffled)
ShuffledRows == 1..Count
RowsOf(s) == {splits[s][k] : k \in 1..Len(splits[s])}

SplitsTypeOK ==
    /\ shuffled \in Seq(Labels)
    /\ splits \in [SplitNames -> Seq(ShuffledRows)]
    /\ reserved \subseteq ShuffledRows
    /\ cursor \in 1..(Count + 1)
    /\ turn \in SplitNames
    /\ phase \in {"slice", "reserve", "deal", "done", "rejected"}

NoSplits == [s \in SplitNames |-> <<>>]

SplitsStart(at) ==
    /\ splits = NoSplits
    /\ reserved = {}
    /\ cursor = 1
    /\ turn = TrainSplit
    /\ phase = at

SplitsInit == shuffled \in Seq(Labels) /\ SplitsStart("slice")

-----------------------------------------------------------------------------
\* int(n * 0.7), int(n * 0.85) less those, and the rest.
Proportional(n) ==
    LET train == (7 * n) \div 10 - (IF n \in Lossy THEN 1 ELSE 0)
        validation == (85 * n) \div 100 - train
    IN  <<train, validation, n - train - validation>>

AtLeastMin(k) == IF k < MinSplitSize THEN MinSplitSize ELSE k

TooSmall(sizes) == \E s \in 1..3 : sizes[s] < MinSplitSize

\* Mutant of SplitSizes: no rows are set aside for the small splits.
SplitSizesPlain(n) == Proportional(n)

\* _split_sizes, before its last check.
SplitSizes(n) ==
    LET p == Proportional(n)
        validation == AtLeastMin(p[2])
        test == AtLeastMin(p[3])
    IN  IF TooSmall(p) THEN <<n - validation - test, validation, test>> ELSE p

Size(s) == SplitSizes(Count)[s + 1]

\* _validate_splits: enough rows of both classes, and of nothing else.
Usable(parts) ==
    \A s \in SplitNames :
        /\ Len(parts[s]) >= MinSplitSize
        /\ {shuffled[parts[s][k]] : k \in 1..Len(parts[s])} = Classes

Contiguous ==
    LET first(s) == CASE s = 0 -> 0 [] s = 1 -> Size(0) [] s = 2 -> Size(0) + Size(1)
    IN  [s \in SplitNames |-> [k \in 1..Size(s) |-> first(s) + k]]

\* split_records: sizes, the contiguous split, and whether it can be used.
Slice ==
    /\ phase = "slice"
    /\ IF TooSmall(SplitSizes(Count))
       THEN phase' = "rejected" /\ UNCHANGED splits
       ELSE /\ phase' = IF Usable(Contiguous) THEN "done" ELSE "reserve"
            /\ splits' = IF Usable(Contiguous) THEN Contiguous ELSE splits
    /\ UNCHANGED <<shuffled, reserved, cursor, turn>>

RowsLabelled(l) == {i \in ShuffledRows : shuffled[i] = l}

\* The k-th row of a class, in shuffled order.
Nth(l, k) == CHOOSE i \in RowsLabelled(l) : Cardinality({j \in RowsLabelled(l) : j <= i}) = k

\* _class_preserving_splits, first loop: a row of each class for each split.
Reserve ==
    /\ phase = "reserve"
    /\ IF \/ \E i \in ShuffledRows : shuffled[i] \notin Classes
          \/ \E l \in Classes : Cardinality(RowsLabelled(l)) < 3
       THEN phase' = "rejected" /\ UNCHANGED <<splits, reserved>>
       ELSE /\ phase' = "deal"
            /\ splits' = [s \in SplitNames |-> <<Nth("No", s + 1), Nth("Yes", s + 1)>>]
            /\ reserved' = {Nth(l, k) : l \in Classes, k \in 1..3}
    /\ UNCHANGED <<shuffled, cursor, turn>>

\* Mutant of NextTurn: no turning round.
NextTurnPast(s) == s + 1

NextTurn(s) == (s + 1) % 3

Full(s) == Len(splits[s]) >= Size(s)

\* A row that already has its split.
Dealt(i) == i \in reserved

\* Second loop: pass over a reserved row, ...
SkipRow ==
    /\ phase = "deal" /\ cursor <= Count
    /\ Dealt(cursor)
    /\ cursor' = cursor + 1
    /\ UNCHANGED <<shuffled, splits, reserved, turn, phase>>

\* ... pass over a full split, ...
SkipSplit ==
    /\ phase = "deal" /\ cursor <= Count
    /\ ~Dealt(cursor)
    /\ Full(turn)
    /\ turn' = NextTurn(turn)
    /\ UNCHANGED <<shuffled, splits, reserved, cursor, phase>>

\* ... or deal the row to the split whose turn it is.
Deal ==
    /\ phase = "deal" /\ cursor <= Count
    /\ ~Dealt(cursor)
    /\ ~Full(turn)
    /\ splits' = [splits EXCEPT ![turn] = Append(@, cursor)]
    /\ turn' = NextTurn(turn)
    /\ cursor' = cursor + 1
    /\ UNCHANGED <<shuffled, reserved, phase>>

\* The second _validate_splits, which raises when the fallback is no better.
Validate ==
    /\ phase = "deal" /\ cursor > Count
    /\ phase' = IF Usable(splits) THEN "done" ELSE "rejected"
    /\ UNCHANGED <<shuffled, splits, reserved, cursor, turn>>

SplitsNext == Slice \/ Reserve \/ SkipRow \/ SkipSplit \/ Deal \/ Validate

SplitsSpec == SplitsInit /\ [][SplitsNext]_splitsVars

\* A sequential program that is not interrupted.
SplitsFairness == WF_splitsVars(SplitsNext)

-----------------------------------------------------------------------------
\* Every record is in exactly one split, once: nothing is lost, and no row the
\* model is trained on is held out for the gate that judges it.
SplitsPartitionRows ==
    phase = "done" =>
        /\ UNION {RowsOf(s) : s \in SplitNames} = ShuffledRows
        /\ \A s, t \in SplitNames : s # t => RowsOf(s) \cap RowsOf(t) = {}
        /\ \A s \in SplitNames : Cardinality(RowsOf(s)) = Len(splits[s])

\* Both ways of splitting give the sizes _split_sizes asked for.
SizesKept == phase = "done" => \A s \in SplitNames : Len(splits[s]) = Size(s)

\* A run is rejected only for its data: fewer than six records, a foreign
\* label, or a class with fewer rows than there are splits.  In particular the
\* fallback never fails the validation that follows it.
RejectsOnlyUnsplittable ==
    phase = "rejected" =>
        \/ Count < 6
        \/ \E i \in ShuffledRows : shuffled[i] \notin Classes
        \/ \E l \in Classes : Cardinality(RowsLabelled(l)) < 3

\* A run that can be split is split, into parts that share no row, leave none
\* out and have the sizes asked for.
SoundSplits == SplitsPartitionRows /\ SizesKept /\ RejectsOnlyUnsplittable

(***************************************************************************)
(* Why: what holds while the rows are dealt out.                           *)
(***************************************************************************)
SplitLabels(s) == {shuffled[splits[s][k]] : k \in 1..Len(splits[s])}

\* The rows that have a split are those set aside and those before the cursor.
NoneLost == UNION {RowsOf(s) : s \in SplitNames} = reserved \cup 1..(cursor - 1)

NoneTwice ==
    /\ \A s, t \in SplitNames : s # t => RowsOf(s) \cap RowsOf(t) = {}
    /\ \A s \in SplitNames : \A j, k \in 1..Len(splits[s]) :
          splits[s][j] = splits[s][k] => j = k

\* No split is above its size, and both classes are in it from the start.
WithinSizes ==
    \A s \in SplitNames :
        /\ Len(splits[s]) \in MinSplitSize..Size(s)
        /\ SplitLabels(s) = Classes

SplitInv ==
    /\ SplitsTypeOK
    /\ phase \in {"slice", "reserve"} => splits = NoSplits /\ cursor = 1
    /\ phase \in {"reserve", "deal"} => ~TooSmall(SplitSizes(Count))
    /\ phase = "deal" =>
          /\ \A i \in ShuffledRows : shuffled[i] \in Classes
          /\ NoneLost /\ NoneTwice /\ WithinSizes
    /\ SoundSplits

\* The dealing loop never goes round full splits for ever.
Ends == <>(phase \in {"done", "rejected"})

=============================================================================
