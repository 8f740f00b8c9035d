--------------------------- MODULE DriftStatistic ---------------------------
(***************************************************************************)
(* src/src/common/drift.py: the pipeline builds a baseline from the        *)
(* training rows (build_baseline), the drift handler validates what it     *)
(* read back and scores a window against it (compare).                     *)
(*                                                                         *)
(* One numeric and one categorical column stand for the nineteen.  The     *)
(* stability index of a column is zero when its buckets have the same      *)
(* shares in both, and otherwise left open: what matters of it is which of *)
(* the two thresholds it reaches.                                          *)
(***************************************************************************)
EXTENDS Integers, FiniteSets, Sequences

CONSTANTS
    Numbers,             \* values of the numeric column
    Infinite,            \* those of them that stand for the float inf
    Known, Unknown,      \* categories of the vocabulary, and others
    Bins,                \* NUMERIC_BINS
    MaxSample, MaxWindow \* bounds

ASSUME StatisticConstants ==
    /\ Numbers \subseteq Int
    /\ Infinite \subseteq Numbers
    /\ \A m \in Infinite, n \in Numbers : n <= m
    /\ Known \cap Unknown = {}
    /\ Bins \in Nat \ {0, 1}
    /\ MaxSample \in Nat /\ MaxWindow \in Nat

VARIABLES
    sample,      \* the rows of the training split
    window,      \* the captured rows
    baseline,    \* edges and counts, as stored
    index,       \* column -> its stability index
    drifted,     \* the verdict
    step

statVars == <<sample, window, baseline, index, drifted, step>>

Columns == {"number", "category"}
\* A record whose number reads as inf is never captured: its encoding raised
\* before the endpoint was asked.
AnyRow == [number: Numbers, category: Known \cup Unknown]
SampleRow == [number: Numbers, category: Known]
WindowRow == [number: Numbers \ Infinite, category: Known \cup Unknown]
UpTo(n, S) == UNION {[1..k -> S] : k \in 0..n}
NoBaseline == [edges |-> {}, counts |-> [c \in Columns |-> <<>>], total |-> 0]

StatInputs ==
    /\ sample \in UpTo(MaxSample, SampleRow)
    /\ window \in UpTo(MaxWindow, WindowRow)

StatStart ==
    /\ baseline = NoBaseline
    /\ index = [c \in Columns |-> "zero"]
    /\ drifted = FALSE
    /\ step = "build"

StatInit == StatInputs /\ StatStart

StatTypeOK ==
    /\ sample \in UpTo(MaxSample, SampleRow) /\ window \in UpTo(MaxWindow, WindowRow)
    /\ baseline.edges \subseteq Numbers /\ baseline.total \in 0..MaxSample
    /\ index \in [Columns -> {"none", "zero", "drift", "severe"}]
    /\ drifted \in BOOLEAN
    /\ step \in {"build", "validate", "score", "verdict", "done", "rejected"}

-----------------------------------------------------------------------------
HowMany(rows, P(_)) == Cardinality({i \in 1..Len(rows) : P(rows[i])})

\* The k-th smallest number of the rows, counted from zero.
Ordered(rows, k) ==
    CHOOSE n \in {rows[i].number : i \in 1..Len(rows)} :
        LET Below(r) == r.number < n
            UpToN(r) == r.number <= n
        IN  HowMany(rows, Below) <= k /\ k < HowMany(rows, UpToN)

\* numeric_edges: repeated quantiles collapse.
Edges(rows) ==
    IF rows = <<>> THEN {}
    ELSE {Ordered(rows, IF (Len(rows) * s) \div Bins < Len(rows) - 1
                        THEN (Len(rows) * s) \div Bins ELSE Len(rows) - 1) :
             s \in 1..(Bins - 1)}

\* Mutant of NumberBucket: bisect_right.
NumberBucketRight(n, edges) == Cardinality({e \in edges : e <= n})

\* bisect_left: a value equal to an edge is in the lower bucket.
NumberBucket(n, edges) == Cardinality({e \in edges : e < n})

\* bucket_of.
BucketOf(column, row, edges) ==
    IF column = "number" THEN NumberBucket(row.number, edges) ELSE row.category

\* bucket_counts, for one column.
BucketCounts(column, rows, edges) ==
    [b \in {BucketOf(column, rows[i], edges) : i \in 1..Len(rows)} |->
        LET InBucket(r) == BucketOf(column, r, edges) = b IN HowMany(rows, InBucket)]

BaselineOf(rows) ==
    LET edges == Edges(rows)
    IN  [edges |-> edges, total |-> Len(rows),
         counts |-> [c \in Columns |-> BucketCounts(c, rows, edges)]]

BuildBaseline ==
    /\ step = "build"
    /\ baseline' = BaselineOf(sample)
    /\ step' = "validate"
    /\ UNCHANGED <<sample, window, index, drifted>>

-----------------------------------------------------------------------------
\* sum(counts.values()): as many as there are rows in the buckets together.
TotalOf(counts) == Cardinality(UNION {{b} \X (1..counts[b]) : b \in DOMAIN counts})

ValidBuckets(edges) == 0..Cardinality(edges)

\* validate_baseline, as far as build_baseline could get it wrong.
Valid(b) ==
    /\ b.total > 0
    /\ \A c \in Columns : b.counts[c] # <<>> /\ TotalOf(b.counts[c]) = b.total
    /\ b.edges # {} /\ b.edges \cap Infinite = {}
    /\ DOMAIN b.counts["number"] \subseteq ValidBuckets(b.edges)
    /\ DOMAIN b.counts["category"] \subseteq Known

ValidateBaseline ==
    /\ step = "validate"
    /\ step' = IF Valid(baseline) THEN "score" ELSE "rejected"
    /\ UNCHANGED <<sample, window, baseline, index, drifted>>

SameShares(ref, cur) ==
    /\ DOMAIN ref = DOMAIN cur
    /\ \A b \in DOMAIN ref : ref[b] * TotalOf(cur) = cur[b] * TotalOf(ref)

\* population_stability_index, and None for a column that is not in the window.
Index(ref, cur) ==
    IF cur = <<>> THEN {"none"}
    ELSE IF SameShares(ref, cur) THEN {"zero"} ELSE {"zero", "drift", "severe"}

\* The first half of compare.
ScoreWindow ==
    /\ step = "score"
    /\ \E i \in [Columns -> {"none", "zero", "drift", "severe"}] :
          /\ \A c \in Columns :
                i[c] \in Index(baseline.counts[c], BucketCounts(c, window, baseline.edges))
          /\ index' = i
    /\ step' = "verdict"
    /\ UNCHANGED <<sample, window, baseline, drifted>>

\* DRIFTED_COLUMN_FRACTION of the columns, or one severe column.
GiveVerdict ==
    /\ step = "verdict"
    /\ LET shifted == {c \in Columns : index[c] \in {"drift", "severe"}}
       IN  drifted' = \/ 10 * Cardinality(shifted) >= 3 * Cardinality(Columns)
                      \/ \E c \in Columns : index[c] = "severe"
    /\ step' = "done"
    /\ UNCHANGED <<sample, window, baseline, index>>

StatNext == BuildBaseline \/ ValidateBaseline \/ ScoreWindow \/ GiveVerdict

StatSpec == StatInit /\ [][StatNext]_statVars

-----------------------------------------------------------------------------
(***************************************************************************)
(* What the pipeline writes the monitor can read: the baseline of a        *)
(* non-empty split of valid rows passes validation, however few or equal   *)
(* the rows are, unless a row holds a number that reads as inf (a tenure   *)
(* beyond the float range), which may become an edge.  A package whose     *)
(* baseline is refused is never monitored (drift.py:103-114 and 117-175).  *)
(***************************************************************************)
BaselineAccepted ==
    step = "rejected" => sample = <<>> \/ \E i \in 1..Len(sample) : sample[i].number \in Infinite

(***************************************************************************)
(* Every numeric bucket of a baseline has training rows in it, but for the *)
(* top one.  An empty bucket turns every value that falls into it into a   *)
(* severe shift, since its share is floored (EPSILON, drift.py:186); only  *)
(* values above all quantiles can meet one.                                *)
(***************************************************************************)
OnlyTopBucketEmpty ==
    step \notin {"build", "rejected"} =>
        ValidBuckets(baseline.edges) \ {Cardinality(baseline.edges)}
            \subseteq DOMAIN baseline.counts["number"]

SameShareOf(r) ==
    LET IsR(q) == q = r
    IN  HowMany(window, IsR) * Len(sample) = HowMany(sample, IsR) * Len(window)

(***************************************************************************)
(* Traffic that looks like the training rows is never called drift, at any *)
(* window size (drift.py:178-231).                                         *)
(***************************************************************************)
SameTrafficIsNoDrift ==
    (\A r \in AnyRow : SameShareOf(r)) => ~drifted

(***************************************************************************)
(* The baseline the pipeline builds is one the monitor can score with: it  *)
(* is accepted, has no gap below its top bucket, and finds no drift in     *)
(* traffic like its own rows.                                              *)
(***************************************************************************)
SoundBaseline == BaselineAccepted /\ OnlyTopBucketEmpty /\ SameTrafficIsNoDrift

(***************************************************************************)
(* Why: the baseline is the one built from the sample, an empty sample     *)
(* goes no further than its validation, and in traffic like the sample no  *)
(* column has moved.                                                       *)
(***************************************************************************)
StatInv ==
    /\ StatInputs
    /\ step # "build" => baseline = BaselineOf(sample)
    /\ step \in {"score", "verdict", "done"} => sample # <<>>
    /\ step # "done" => ~drifted
    /\ step \in {"verdict", "done"} /\ (\A r \in AnyRow : SameShareOf(r)) =>
          \A c \in Columns : index[c] \in {"none", "zero"}
    /\ SoundBaseline

=============================================================================
