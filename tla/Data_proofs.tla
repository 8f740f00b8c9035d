---------------------------- MODULE Data_proofs ----------------------------
(***************************************************************************)
(* Proofs about the data path: Records for every record, Splits for every  *)
(* number and order of records, DriftStatistic for every sample, window,   *)
(* vocabulary and number of bins.  At the end the types of everything      *)
(* MCData puts side by side.                                               *)
(***************************************************************************)
EXTENDS MCData, Lineage_proofs, Least_proofs, SequenceTheorems, TLAPS

-----------------------------------------------------------------------------
(***************************************************************************)
(* Records: first the tables of codes.                                     *)
(***************************************************************************)
Categories == {"gender", "InternetService", "Contract", "PaymentMethod"}

\* A list gives each of its values a code of its own.
LEMMA OrdinalsDiffer ==
    ASSUME NEW values, NEW v \in DOMAIN OrdinalMap(values), NEW w \in DOMAIN OrdinalMap(values),
           OrdinalMap(values)[v] = OrdinalMap(values)[w]
    PROVE  v = w
<1> DEFINE code(x) == CHOOSE k \in 1..Len(values) : values[k] = x
<1>1. DOMAIN OrdinalMap(values) = {values[k] : k \in 1..Len(values)}
  BY DEF OrdinalMap
<1>2. \A x \in DOMAIN OrdinalMap(values) :
         /\ code(x) \in 1..Len(values) /\ values[code(x)] = x
         /\ OrdinalMap(values)[x] = code(x) - 1
  BY <1>1 DEF OrdinalMap
<1> HIDE DEF code
<1>3. code(v) - 1 = code(w) - 1 /\ code(v) \in Int /\ code(w) \in Int
  BY <1>2
<1>4. code(v) = code(w)
  BY <1>3
<1> QED BY <1>2, <1>4

LEMMA TheColumns ==
    /\ FeatureColumns \ Numeric = Categories \cup {"Partner", "MultipleLines", "OnlineSecurity"}
    /\ DOMAIN CategoryMaps = Categories
    /\ \A c \in Categories : Table(c) = CategoryMaps[c] /\ Vocabulary(c) = DOMAIN Table(c)
    /\ \A c \in {"Partner", "MultipleLines", "OnlineSecurity"} :
          Table(c) = YesNoMap /\ Vocabulary(c) \subseteq DOMAIN Table(c)
<1>1. FeatureColumns \ Numeric = Categories \cup {"Partner", "MultipleLines", "OnlineSecurity"}
  BY DEF FeatureColumns, Numeric, Categories
<1>2. DOMAIN CategoryMaps = Categories
  BY DEF CategoryMaps, Categories
<1>3. \A c \in Categories : Table(c) = CategoryMaps[c]
  BY <1>2 DEF Table
<1>4. \A c \in Categories : Vocabulary(c) = DOMAIN CategoryMaps[c]
  BY DEF Vocabulary, Categories
<1>5. \A c \in {"Partner", "MultipleLines", "OnlineSecurity"} : Table(c) = YesNoMap
  BY <1>2 DEF Table, Categories
<1>6. DOMAIN YesNoMap = YesNo \cup {"No phone service", "No internet service"}
  BY DEF YesNoMap
<1>7. \A c \in {"Partner", "MultipleLines", "OnlineSecurity"} :
         Vocabulary(c) \subseteq YesNo \cup {"No phone service", "No internet service"}
  BY DEF Vocabulary, AddonVocabulary
<1> QED BY <1>1, <1>2, <1>3, <1>4, <1>5, <1>6, <1>7

Extra(c) == IF c = "MultipleLines" THEN {"No phone service"} ELSE {"No internet service"}

\* In no column do two values of the vocabulary get one code.
LEMMA CodesDiffer ==
    ASSUME NEW c \in FeatureColumns \ Numeric, NEW v \in Vocabulary(c), NEW w \in Vocabulary(c),
           Table(c)[v] = Table(c)[w]
    PROVE  v = w
<1>1. CASE c \in Categories
  <2>1. \E values : Table(c) = OrdinalMap(values)
    BY <1>1, TheColumns DEF CategoryMaps, Categories
  <2> QED BY <1>1, <2>1, OrdinalsDiffer, TheColumns
<1>2. CASE c \in {"Partner", "MultipleLines", "OnlineSecurity"}
  <2>1. Table(c) = YesNoMap
    BY <1>2, TheColumns
  <2>2. /\ YesNoMap["No"] = 0 /\ YesNoMap["Yes"] = 1
        /\ YesNoMap["No phone service"] = 2 /\ YesNoMap["No internet service"] = 2
    BY DEF YesNoMap, YesNo
  <2>3. /\ v = "No" \/ v = "Yes" \/ v \in Extra(c)
        /\ w = "No" \/ w = "Yes" \/ w \in Extra(c)
    BY <1>2 DEF Vocabulary, AddonVocabulary, YesNo, Extra
  <2>4. \A x, y \in Extra(c) : x = y
    BY DEF Extra
  <2>5. \A x \in Extra(c) : YesNoMap[x] = 2
    BY <2>2 DEF Extra
  <2>6. YesNoMap["No"] = 0 /\ YesNoMap["Yes"] = 1 /\ YesNoMap[v] = YesNoMap[w]
    BY <2>1, <2>2
  <2> QED BY <2>3, <2>4, <2>5, <2>6
<1> QED BY <1>1, <1>2, TheColumns

\* A tenure beyond the float range.
TooLong(c, text) == c = "tenure" /\ text = "huge"

LEMMA AcceptedNumbers ==
    ASSUME NEW c \in Numeric, NEW text, Accepts(c, text)
    PROVE  /\ Blank(text) \/ text \in Finite \/ TooLong(c, text)
           /\ ~Blank(text) => text \in DOMAIN Halves /\ Halves[text] \in -2..Infinity
<1>1. Halves["huge"] = Infinity
  BY DEF Halves
<1>2. ASSUME text = "huge" PROVE c = "tenure"
  BY <1>1, <1>2, SMTT(30) DEF Accepts, Numeric, Blank, Finite, Infinity
<1>3. Blank(text) \/ text \in Finite \/ text = "huge"
  BY DEF Accepts, Numeric, Whole, Finite
<1>4. \A t \in Finite : t \in DOMAIN Halves /\ Halves[t] \in -2..4
  BY DEF Finite, Halves
<1>5. "huge" \in DOMAIN Halves
  BY DEF Halves
<1> QED BY <1>1, <1>2, <1>3, <1>4, <1>5 DEF TooLong, Infinity

\* What validation accepts can be encoded from its text and, unless it is too
\* long a tenure, from its typed value; the drift statistic reads both alike.
LEMMA AcceptedEncodes ==
    ASSUME NEW c \in FeatureColumns, NEW text, Accepts(c, text)
    PROVE  /\ CanEncodeText(c, text)
           /\ c \notin Numeric => text \in Vocabulary(c) /\ text \in DOMAIN Table(c)
           /\ CanEncodeTyped(c, Typed(c, text)) <=> ~TooLong(c, text)
           /\ ~TooLong(c, text) => EncodeText(c, text) = EncodeTyped(c, Typed(c, text))
           /\ ReadText(c, text) = ReadTyped(c, Typed(c, text))
<1>1. CASE c \in Numeric
  <2>1. CASE Blank(text)
    <3>1. text # "huge"
      BY <2>1 DEF Blank
    <3> QED BY <1>1, <2>1, <3>1 DEF CanEncodeText, EncodeText, CanEncodeTyped, EncodeTyped,
                Typed, ReadText, ReadTyped, BeyondFloat, TooLong
  <2>2. CASE ~Blank(text)
    <3>1. text \in DOMAIN Halves /\ Halves[text] # BeyondFloat
      BY <1>1, <2>2, AcceptedNumbers DEF Infinity, BeyondFloat
    <3>2. TooLong(c, text) => Halves[text] = Infinity
      BY DEF Halves, TooLong
    <3> QED BY <1>1, <2>2, <3>1, <3>2 DEF CanEncodeText, EncodeText, CanEncodeTyped, EncodeTyped,
                Typed, ReadText, ReadTyped, TooLong
  <2> QED BY <2>1, <2>2
<1>2. CASE c \notin Numeric
  <2>1. text \in Vocabulary(c)
    BY <1>2 DEF Accepts, Numeric
  <2>2. Vocabulary(c) \subseteq DOMAIN Table(c)
    BY <1>2, TheColumns
  <2>3. c # "tenure"
    BY <1>2 DEF Numeric
  <2> QED BY <1>2, <2>1, <2>2, <2>3 DEF CanEncodeText, EncodeText, CanEncodeTyped, EncodeTyped,
              Typed, ReadText, ReadTyped, TooLong
<1> QED BY <1>1, <1>2

(***************************************************************************)
(* The inductive invariant: whatever was made of the record was made of a  *)
(* record that validates, and a prediction was encoded or failed as its    *)
(* tenure is within or beyond the float range.                             *)
(***************************************************************************)
RecordInv ==
    /\ failed \subseteq {"prediction"}
    /\ "prediction" \in failed => record["tenure"] = "huge"
    /\ curatedRow # Nothing => curatedRow = record /\ Validates(record)
    /\ asked # Nothing =>
          asked = [c \in FeatureColumns |-> Typed(c, record[c])] /\ Validates(record)
    /\ trained # Nothing =>
          /\ curatedRow # Nothing
          /\ trained = [c \in FeatureColumns |-> EncodeText(c, record[c])]
    /\ answered # Nothing =>
          /\ asked # Nothing
          /\ record["tenure"] # "huge"
          /\ answered = [c \in FeatureColumns |-> EncodeTyped(c, Typed(c, record[c]))]

LEMMA RecordStep == RecordInv /\ [RecordNext]_recordVars => RecordInv'
<1> SUFFICES ASSUME RecordInv, [RecordNext]_recordVars PROVE RecordInv'
  OBVIOUS
<1> USE DEF RecordInv
<1>1. CASE UNCHANGED recordVars
  BY <1>1 DEF recordVars, Validates
<1>2. CASE Curate
  BY <1>2 DEF Curate, Validates
<1>3. CASE Ask
  BY <1>3 DEF Ask, Validates
<1>4. CASE TrainOn
  <2>1. curatedRow = record /\ \A c \in FeatureColumns : CanEncodeText(c, record[c])
    BY <1>4, AcceptedEncodes DEF TrainOn, Validates
  <2> QED BY <1>4, <2>1 DEF TrainOn, Validates
<1>5. CASE Answer
  <2>1. \A c \in FeatureColumns : asked[c] = Typed(c, record[c]) /\ Accepts(c, record[c])
    BY <1>5 DEF Answer, Validates
  <2>2. \A c \in FeatureColumns : CanEncodeTyped(c, asked[c]) <=> ~TooLong(c, record[c])
    BY <2>1, AcceptedEncodes
  <2>3. "tenure" \in FeatureColumns
    BY DEF FeatureColumns
  <2>4. CASE record["tenure"] # "huge"
    <3>1. answered' = [c \in FeatureColumns |-> EncodeTyped(c, asked[c])] /\ UNCHANGED failed
      BY <1>5, <2>2, <2>4 DEF Answer, TooLong
    <3>2. answered' = [c \in FeatureColumns |-> EncodeTyped(c, Typed(c, record[c]))]
      BY <2>1, <3>1
    <3> QED BY <1>5, <2>4, <3>1, <3>2 DEF Answer, Validates
  <2>5. CASE record["tenure"] = "huge"
    <3>1. failed' = failed \cup {"prediction"} /\ UNCHANGED answered
      BY <1>5, <2>2, <2>3, <2>5 DEF Answer, TooLong
    <3> QED BY <1>5, <2>5, <3>1 DEF Answer, Validates
  <2> QED BY <2>4, <2>5
<1> QED BY <1>1, <1>2, <1>3, <1>4, <1>5 DEF RecordNext

\* A behaviour that starts with any record and label at all.
AnyRecord == RecordStart /\ [][RecordNext]_recordVars

LEMMA RecordInvariant == AnyRecord => []RecordInv
<1>1. RecordStart => RecordInv
  BY DEF RecordStart, RecordInv
<1> QED BY <1>1, RecordStep, PTL DEF AnyRecord

\* Whatever the record, once validation takes it training does not fail to
\* encode it, a prediction fails to only for a tenure beyond the float range,
\* and no two of a column's values get one code (schema.py:37 and 54-76 against
\* features.py:86-99).
THEOREM AcceptedRecordsEncode == AnyRecord => []AcceptedIsEncoded
<1>1. RecordInv => AcceptedIsEncoded
  <2>1. ASSUME RecordInv, curatedRow # Nothing, NEW c \in FeatureColumns \ Numeric,
               NEW v \in Vocabulary(c), Table(c)[v] = Table(c)[curatedRow[c]]
        PROVE  v = curatedRow[c]
    <3>1. curatedRow[c] \in Vocabulary(c)
      BY <2>1, AcceptedEncodes DEF RecordInv, Validates
    <3> QED BY <2>1, <3>1, CodesDiffer
  <2>2. RecordInv => "training" \notin failed /\ ("prediction" \in failed => record["tenure"] = "huge")
    BY DEF RecordInv
  <2> QED BY <2>1, <2>2 DEF AcceptedIsEncoded
<1> QED BY <1>1, RecordInvariant, PTL

\* Whatever the record, training on its text and answering from its typed
\* values encode it alike, and the drift statistic reads its text and what is
\* captured of it alike (preprocess.py, proxy_handler.py, features.py, drift.py).
THEOREM NoSkew == AnyRecord => []TrainsAsServed
<1>1. RecordInv => TrainsAsServed
  <2> SUFFICES ASSUME RecordInv, answered # Nothing, curatedRow # Nothing
               PROVE  /\ trained # Nothing => trained = answered
                      /\ \A c \in FeatureColumns : ReadText(c, curatedRow[c]) = ReadTyped(c, asked[c])
    BY DEF TrainsAsServed, RecordInv
  <2>1. \A c \in FeatureColumns :
           /\ EncodeText(c, record[c]) = EncodeTyped(c, Typed(c, record[c]))
           /\ ReadText(c, record[c]) = ReadTyped(c, Typed(c, record[c]))
    BY AcceptedEncodes DEF RecordInv, Validates, TooLong
  <2>2. trained # Nothing => trained = answered
    BY <2>1 DEF RecordInv
  <2>3. \A c \in FeatureColumns : curatedRow[c] = record[c] /\ asked[c] = Typed(c, record[c])
    BY DEF RecordInv
  <2> QED BY <2>1, <2>2, <2>3
<1> QED BY <1>1, RecordInvariant, PTL

-----------------------------------------------------------------------------
(***************************************************************************)
(* Splits: first the arithmetic of the sizes.                              *)
(***************************************************************************)
\* The parts add up to the records, and six records are enough for three parts.
LEMMA SizesAddUp ==
    ASSUME NEW n \in Nat
    PROVE  /\ \A s \in 1..3 : SplitSizes(n)[s] \in Int
           /\ SplitSizes(n)[1] + SplitSizes(n)[2] + SplitSizes(n)[3] = n
           /\ TooSmall(SplitSizes(n)) => n < 6
<1> DEFINE q == (7 * n) \div 10
           r == (85 * n) \div 100
           lost == IF n \in Lossy THEN 1 ELSE 0
           train == q - lost
           validation == r - train
           test == (n - train) - validation
           v == AtLeastMin(validation)
           t == AtLeastMin(test)
<1>1. q \in Int /\ 10 * q <= 7 * n /\ 7 * n < 10 * q + 10
  OBVIOUS
<1>2. r \in Int /\ 100 * r <= 85 * n /\ 85 * n < 100 * r + 100
  OBVIOUS
<1>3. lost \in {0, 1} /\ (lost = 1 => n > 10)
  BY SplitConstants
<1>4. Proportional(n) = <<train, validation, test>>
  BY DEF Proportional
<1> HIDE DEF q, r, lost
<1>5. /\ train \in Int /\ validation \in Int /\ test \in Int
      /\ (train + validation) + test = n
      /\ n >= 6 => train >= 4 /\ validation >= 0 /\ test >= 0
  BY <1>1, <1>2, <1>3
<1> HIDE DEF train, validation, test
<1>6. /\ v \in Int /\ v >= 2 /\ v >= validation /\ (validation >= 2 => v = validation)
      /\ validation < 2 => v = 2
  BY <1>5 DEF AtLeastMin, MinSplitSize
<1>7. /\ t \in Int /\ t >= 2 /\ t >= test /\ (test >= 2 => t = test)
      /\ test < 2 => t = 2
  BY <1>5 DEF AtLeastMin, MinSplitSize
<1> HIDE DEF v, t
<1>8. CASE TooSmall(<<train, validation, test>>)
  <2>1. SplitSizes(n) = <<(n - v) - t, v, t>>
    BY <1>4, <1>8 DEF SplitSizes, v, t
  <2>2. TooSmall(SplitSizes(n)) => (n - v) - t < 2
    BY <2>1, <1>6, <1>7 DEF TooSmall, MinSplitSize
  <2>3. n >= 6 => validation < 2 \/ test < 2
    BY <1>5, <1>8 DEF TooSmall, MinSplitSize
  <2>4. n >= 6 => (n - v) - t >= 2
    BY <2>3, <1>5, <1>6, <1>7
  <2> QED BY <2>1, <2>2, <2>4, <1>6, <1>7
<1>9. CASE ~TooSmall(<<train, validation, test>>)
  BY <1>4, <1>5, <1>9 DEF SplitSizes
<1> QED BY <1>8, <1>9

LEMMA SizesOfParts ==
    ASSUME SplitsTypeOK
    PROVE  /\ Count \in Nat /\ ShuffledRows = 1..Count
           /\ \A s \in SplitNames : Size(s) \in Int
           /\ (Size(0) + Size(1)) + Size(2) = Count
           /\ TooSmall(SplitSizes(Count)) => Count < 6
           /\ ~TooSmall(SplitSizes(Count)) => \A s \in SplitNames : Size(s) >= MinSplitSize
<1>1. Count \in Nat
  BY DEF SplitsTypeOK, Count
<1>2. \A s \in SplitNames : s + 1 \in 1..3
  BY DEF SplitNames
<1> QED BY <1>1, <1>2, SizesAddUp DEF SplitNames, Size, ShuffledRows, TooSmall, MinSplitSize

\* The contiguous parts: each an interval of its size, one after the other.
LEMMA ContiguousParts ==
    ASSUME SplitsTypeOK, ~TooSmall(SplitSizes(Count)), NEW s \in SplitNames
    PROVE  LET first == IF s = 0 THEN 0 ELSE IF s = 1 THEN Size(0) ELSE Size(0) + Size(1)
           IN  /\ Contiguous[s] \in Seq(ShuffledRows)
               /\ Len(Contiguous[s]) = Size(s)
               /\ {Contiguous[s][k] : k \in 1..Len(Contiguous[s])} = (first + 1)..(first + Size(s))
<1> DEFINE first == IF s = 0 THEN 0 ELSE IF s = 1 THEN Size(0) ELSE Size(0) + Size(1)
<1>1. /\ Count \in Nat /\ ShuffledRows = 1..Count
      /\ Size(0) \in Int /\ Size(1) \in Int /\ Size(2) \in Int
      /\ Size(0) >= 2 /\ Size(1) >= 2 /\ Size(2) >= 2 /\ (Size(0) + Size(1)) + Size(2) = Count
  BY SizesOfParts DEF SplitNames, MinSplitSize
<1>2. first \in Nat /\ Size(s) \in Nat /\ first + Size(s) <= Count
  BY <1>1 DEF SplitNames
<1>3. Contiguous[s] = [k \in 1..Size(s) |-> first + k]
  <2>1. CASE s = 0
    BY <2>1 DEF Contiguous, SplitNames
  <2>2. CASE s = 1
    BY <2>2 DEF Contiguous, SplitNames
  <2>3. CASE s = 2
    BY <2>3 DEF Contiguous, SplitNames
  <2> QED BY <2>1, <2>2, <2>3 DEF SplitNames
<1> HIDE DEF first
<1>4. Contiguous[s] \in Seq(ShuffledRows) /\ Len(Contiguous[s]) = Size(s)
  <2>1. \A k \in 1..Size(s) : first + k \in ShuffledRows
    BY <1>1, <1>2
  <2> QED BY <1>2, <1>3, <2>1
<1>5. {first + k : k \in 1..Size(s)} = (first + 1)..(first + Size(s))
  <2>1. \A k \in 1..Size(s) : first + k \in (first + 1)..(first + Size(s))
    BY <1>2
  <2>2. \A i \in (first + 1)..(first + Size(s)) : i - first \in 1..Size(s) /\ first + (i - first) = i
    BY <1>2
  <2> QED BY <2>1, <2>2
<1>6. {Contiguous[s][k] : k \in 1..Len(Contiguous[s])} = {first + k : k \in 1..Size(s)}
  <2>1. \A k \in 1..Size(s) : Contiguous[s][k] = first + k
    BY <1>3
  <2> QED BY <1>4, <2>1
<1> QED BY <1>4, <1>5, <1>6 DEF first

\* A contiguous split leaves no row out and puts none in two parts.
LEMMA ContiguousSound ==
    ASSUME SplitsTypeOK, ~TooSmall(SplitSizes(Count))
    PROVE  LET rows(s) == {Contiguous[s][k] : k \in 1..Len(Contiguous[s])}
           IN  /\ UNION {rows(s) : s \in SplitNames} = ShuffledRows
               /\ \A s, t \in SplitNames : s # t => rows(s) \cap rows(t) = {}
               /\ \A s \in SplitNames : Cardinality(rows(s)) = Len(Contiguous[s])
<1> DEFINE rows(s) == {Contiguous[s][k] : k \in 1..Len(Contiguous[s])}
<1>1. /\ Count \in Nat /\ ShuffledRows = 1..Count
      /\ Size(0) \in Nat /\ Size(1) \in Nat /\ Size(2) \in Nat
      /\ (Size(0) + Size(1)) + Size(2) = Count
  BY SizesOfParts DEF SplitNames, MinSplitSize
<1>2. /\ rows(0) = 1..Size(0) /\ rows(1) = (Size(0) + 1)..(Size(0) + Size(1))
      /\ rows(2) = ((Size(0) + Size(1)) + 1)..((Size(0) + Size(1)) + Size(2))
      /\ \A s \in SplitNames : Len(Contiguous[s]) = Size(s)
  <2>1. 0 \in SplitNames /\ 1 \in SplitNames /\ 2 \in SplitNames
    BY DEF SplitNames
  <2>2. 0 + 1 = 1 /\ 0 + Size(0) = Size(0)
    BY <1>1
  <2> QED BY <2>1, <2>2, ContiguousParts
<1> HIDE DEF rows
<1>3. \A s \in SplitNames : s = 0 \/ s = 1 \/ s = 2
  BY DEF SplitNames
<1>4. UNION {rows(s) : s \in SplitNames} = ShuffledRows
  <2>1. UNION {rows(s) : s \in SplitNames} = (rows(0) \cup rows(1)) \cup rows(2)
    BY <1>3 DEF SplitNames
  <2>2. \A i \in Int : i \in 1..Count <=> i \in rows(0) \/ i \in rows(1) \/ i \in rows(2)
    BY <1>1, <1>2
  <2>3. \A i \in (rows(0) \cup rows(1)) \cup rows(2) : i \in Int
    BY <1>1, <1>2
  <2> QED BY <2>1, <2>2, <2>3, <1>1
<1>5. \A s, t \in SplitNames : s # t => rows(s) \cap rows(t) = {}
  BY <1>1, <1>2, <1>3
<1>6. \A s \in SplitNames : Cardinality(rows(s)) = Len(Contiguous[s])
  <2>1. \A a, b \in Nat : Cardinality((a + 1)..(a + b)) = b
    <3> SUFFICES ASSUME NEW a \in Nat, NEW b \in Nat PROVE Cardinality((a + 1)..(a + b)) = b
      OBVIOUS
    <3>1. a + 1 \in Int /\ a + b \in Int /\ (IF a + 1 > a + b THEN 0 ELSE (a + b) - (a + 1) + 1) = b
      OBVIOUS
    <3> QED BY <3>1, FS_Interval
  <2>2. /\ rows(0) = (0 + 1)..(0 + Size(0)) /\ Size(0) + Size(1) \in Nat
    BY <1>1, <1>2
  <2>3. Cardinality(rows(0)) = Size(0)
    BY <2>1, <2>2, <1>1
  <2>4. Cardinality(rows(1)) = Size(1)
    BY <2>1, <1>1, <1>2
  <2>5. Cardinality(rows(2)) = Size(2)
    BY <2>1, <2>2, <1>1, <1>2
  <2> QED BY <2>3, <2>4, <2>5, <1>2, <1>3
<1> QED BY <1>4, <1>5, <1>6 DEF rows

\* The rows of a class with three or more: the k-th exists.
LEMMA NthRow ==
    ASSUME SplitsTypeOK, NEW l, ~(Cardinality(RowsLabelled(l)) < 3), NEW k \in 1..3
    PROVE  /\ Nth(l, k) \in RowsLabelled(l)
           /\ Cardinality({j \in RowsLabelled(l) : j <= Nth(l, k)}) = k
<1>1. Count \in Nat /\ RowsLabelled(l) \in SUBSET (1..Count)
  BY SizesOfParts DEF RowsLabelled
<1>2. IsFiniteSet(RowsLabelled(l)) /\ Cardinality(RowsLabelled(l)) \in Nat
  <2>1. IsFiniteSet(1..Count)
    BY <1>1, FS_Interval
  <2>2. IsFiniteSet(RowsLabelled(l))
    BY <1>1, <2>1, FS_Subset
  <2> QED BY <2>2, FS_CardinalityType
<1>3. k \in 1..Cardinality(RowsLabelled(l)) /\ RowsLabelled(l) \in SUBSET Int
  BY <1>1, <1>2
<1>4. \E i \in RowsLabelled(l) : Cardinality({j \in RowsLabelled(l) : j <= i}) = k
  BY <1>2, <1>3, RankExists
<1> QED BY <1>4 DEF Nth

\* The six rows set aside are six.
LEMMA NthDiffer ==
    ASSUME SplitsTypeOK, \A l \in Classes : ~(Cardinality(RowsLabelled(l)) < 3),
           NEW l \in Classes, NEW m \in Classes, NEW j \in 1..3, NEW k \in 1..3
    PROVE  /\ Nth(l, j) \in ShuffledRows /\ shuffled[Nth(l, j)] = l
           /\ Nth(l, j) = Nth(m, k) => l = m /\ j = k
<1>1. Nth(l, j) \in RowsLabelled(l) /\ Nth(m, k) \in RowsLabelled(m)
  BY NthRow
<1>2. /\ Cardinality({i \in RowsLabelled(l) : i <= Nth(l, j)}) = j
      /\ Cardinality({i \in RowsLabelled(m) : i <= Nth(m, k)}) = k
  BY NthRow
<1> QED BY <1>1, <1>2 DEF RowsLabelled

(***************************************************************************)
(* The steps.                                                              *)
(***************************************************************************)
LEMMA SplitStart == SplitsInit => SplitInv
<1> SUFFICES ASSUME SplitsInit PROVE SplitInv
  OBVIOUS
<1>1. Count \in Nat
  BY DEF SplitsInit, Count
<1>2. SplitsTypeOK
  BY <1>1 DEF SplitsInit, SplitsStart, SplitsTypeOK, NoSplits, ShuffledRows, SplitNames, TrainSplit
<1> QED BY <1>2 DEF SplitsInit, SplitsStart, SplitInv, SoundSplits, SplitsPartitionRows, SizesKept,
                    RejectsOnlyUnsplittable

LEMMA SliceStep == SplitInv /\ Slice => SplitInv'
<1> SUFFICES ASSUME SplitInv, Slice PROVE SplitInv'
  OBVIOUS
<1>1. /\ SplitsTypeOK /\ splits = NoSplits /\ cursor = 1
      /\ phase = "slice" /\ UNCHANGED <<shuffled, reserved, cursor, turn>>
  BY DEF SplitInv, Slice
<1>2. Count' = Count /\ ShuffledRows' = ShuffledRows /\ SplitSizes(Count)' = SplitSizes(Count)
  BY <1>1 DEF Count, ShuffledRows
<1>3. CASE TooSmall(SplitSizes(Count))
  <2>1. phase' = "rejected" /\ splits' = splits
    BY <1>3 DEF Slice
  <2>2. Count' < 6
    BY <1>1, <1>2, <1>3, SizesOfParts
  <2> QED BY <1>1, <1>2, <2>1, <2>2
          DEF SplitInv, SplitsTypeOK, SoundSplits, SplitsPartitionRows, SizesKept, RejectsOnlyUnsplittable
<1>4. CASE ~TooSmall(SplitSizes(Count)) /\ Usable(Contiguous)
  <2>1. phase' = "done" /\ splits' = Contiguous
    BY <1>4 DEF Slice
  <2>2. \A s \in SplitNames : Contiguous[s] \in Seq(ShuffledRows) /\ Len(Contiguous[s]) = Size(s)
    BY <1>1, <1>4, ContiguousParts
  <2>3. Contiguous \in [SplitNames -> Seq(ShuffledRows)]
    BY <2>2 DEF Contiguous
  <2>4. SplitsTypeOK'
    BY <1>1, <1>2, <2>1, <2>3 DEF SplitsTypeOK
  <2>5. SplitsPartitionRows'
    <3>1. \A s \in SplitNames : RowsOf(s)' = {Contiguous[s][k] : k \in 1..Len(Contiguous[s])}
      BY <2>1 DEF RowsOf
    <3>2. UNION {RowsOf(s)' : s \in SplitNames} = ShuffledRows
      BY <1>1, <1>4, <3>1, ContiguousSound
    <3>3. \A s, t \in SplitNames : s # t => RowsOf(s)' \cap RowsOf(t)' = {}
      BY <1>1, <1>4, <3>1, ContiguousSound
    <3>4. \A s \in SplitNames : Cardinality(RowsOf(s)') = Len(splits'[s])
      BY <1>1, <1>4, <2>1, <3>1, ContiguousSound
    <3> QED BY <1>2, <3>2, <3>3, <3>4 DEF SplitsPartitionRows
  <2>6. SizesKept'
    BY <1>2, <2>1, <2>2 DEF SizesKept, Size
  <2> QED BY <2>1, <2>4, <2>5, <2>6 DEF SplitInv, SoundSplits, RejectsOnlyUnsplittable
<1>5. CASE ~TooSmall(SplitSizes(Count)) /\ ~Usable(Contiguous)
  <2>1. phase' = "reserve" /\ splits' = splits
    BY <1>5 DEF Slice
  <2>2. SplitsTypeOK'
    BY <1>1, <1>2, <2>1 DEF SplitsTypeOK
  <2> QED BY <1>1, <1>2, <1>5, <2>1, <2>2
          DEF SplitInv, SoundSplits, SplitsPartitionRows, SizesKept, RejectsOnlyUnsplittable, NoSplits
<1> QED BY <1>3, <1>4, <1>5

LEMMA ReserveStep == SplitInv /\ Reserve => SplitInv'
<1> SUFFICES ASSUME SplitInv, Reserve PROVE SplitInv'
  OBVIOUS
<1> DEFINE bad == \/ \E i \in ShuffledRows : shuffled[i] \notin Classes
                  \/ \E l \in Classes : Cardinality(RowsLabelled(l)) < 3
<1>1. /\ SplitsTypeOK /\ splits = NoSplits /\ cursor = 1 /\ ~TooSmall(SplitSizes(Count))
      /\ phase = "reserve" /\ UNCHANGED <<shuffled, cursor, turn>>
  BY DEF SplitInv, Reserve
<1>2. /\ Count' = Count /\ ShuffledRows' = ShuffledRows /\ SplitSizes(Count)' = SplitSizes(Count)
      /\ \A l \in Classes : RowsLabelled(l)' = RowsLabelled(l)
  BY <1>1 DEF Count, ShuffledRows, RowsLabelled
<1>3. CASE bad
  <2>1. phase' = "rejected" /\ splits' = splits /\ reserved' = reserved
    BY <1>3 DEF Reserve
  <2>2. SplitsTypeOK'
    BY <1>1, <1>2, <2>1 DEF SplitsTypeOK
  <2>3. RejectsOnlyUnsplittable'
    BY <1>1, <1>2, <1>3 DEF RejectsOnlyUnsplittable
  <2> QED BY <2>1, <2>2, <2>3 DEF SplitInv, SoundSplits, SplitsPartitionRows, SizesKept
<1>4. CASE ~bad
  <2> DEFINE no(s) == Nth("No", s + 1)
             yes(s) == Nth("Yes", s + 1)
  <2>1. /\ phase' = "deal" /\ splits' = [s \in SplitNames |-> <<no(s), yes(s)>>]
        /\ reserved' = {Nth(l, k) : l \in Classes, k \in 1..3}
    BY <1>4 DEF Reserve
  <2>2. \A l \in Classes : ~(Cardinality(RowsLabelled(l)) < 3)
    BY <1>4
  <2>3. \A s \in SplitNames : s + 1 \in 1..3
    BY DEF SplitNames
  <2>4. \A s, t \in SplitNames : s + 1 = t + 1 => s = t
    BY DEF SplitNames
  <2>5. "No" \in Classes /\ "Yes" \in Classes /\ \A l \in Classes : l = "No" \/ l = "Yes"
    BY DEF Classes
  <2>6. \A s \in SplitNames :
           /\ no(s) \in ShuffledRows /\ yes(s) \in ShuffledRows
           /\ shuffled[no(s)] = "No" /\ shuffled[yes(s)] = "Yes"
    BY <1>1, <2>2, <2>3, <2>5, NthDiffer
  <2>7. \A s, t \in SplitNames :
           /\ no(s) = no(t) => s = t
           /\ yes(s) = yes(t) => s = t
           /\ no(s) # yes(t)
    BY <1>1, <2>2, <2>3, <2>4, <2>5, NthDiffer
  <2>8. \A k \in 1..3 : \E s \in SplitNames : s + 1 = k
    <3>1. \A k \in 1..3 : k - 1 \in SplitNames /\ (k - 1) + 1 = k
      BY DEF SplitNames
    <3> QED BY <3>1
  <2>9. reserved' = UNION {{no(s), yes(s)} : s \in SplitNames}
    BY <2>1, <2>3, <2>5, <2>8
  <2> HIDE DEF no, yes
  <2>10. \A s \in SplitNames :
           /\ splits'[s] = <<no(s), yes(s)>> /\ Len(splits'[s]) = 2
           /\ splits'[s][1] = no(s) /\ splits'[s][2] = yes(s)
           /\ splits'[s] \in Seq(ShuffledRows)
    BY <2>1, <2>6
  <2>11. \A s \in SplitNames :
           /\ RowsOf(s)' = {no(s), yes(s)}
           /\ SplitLabels(s)' = Classes
    <3> SUFFICES ASSUME NEW s \in SplitNames
                 PROVE  RowsOf(s)' = {no(s), yes(s)} /\ SplitLabels(s)' = Classes
      OBVIOUS
    <3>1. RowsOf(s)' = {splits'[s][k] : k \in 1..2}
      BY <2>10 DEF RowsOf
    <3>2. SplitLabels(s)' = {shuffled[splits'[s][k]] : k \in 1..2}
      BY <1>1, <2>10 DEF SplitLabels
    <3>3. 1..2 = {1, 2}
      OBVIOUS
    <3> QED BY <2>6, <2>10, <3>1, <3>2, <3>3 DEF Classes
  <2>12. SplitsTypeOK'
    <3>1. reserved' \subseteq ShuffledRows
      BY <2>6, <2>9
    <3>2. splits' \in [SplitNames -> Seq(ShuffledRows)]
      BY <2>1, <2>10
    <3> QED BY <1>1, <1>2, <2>1, <3>1, <3>2 DEF SplitsTypeOK
  <2>13. NoneLost'
    <3>1. 1..(1 - 1) = {}
      OBVIOUS
    <3>2. UNION {RowsOf(s)' : s \in SplitNames} = reserved'
      BY <2>9, <2>11
    <3> QED BY <1>1, <3>1, <3>2 DEF NoneLost
  <2>14. NoneTwice'
    <3>1. 1..2 = {1, 2}
      OBVIOUS
    <3>2. \A s \in SplitNames : \A j, k \in 1..Len(splits'[s]) :
             splits'[s][j] = splits'[s][k] => j = k
      BY <2>7, <2>10, <3>1
    <3>3. \A s, t \in SplitNames : s # t => RowsOf(s)' \cap RowsOf(t)' = {}
      BY <2>7, <2>11
    <3> QED BY <3>2, <3>3 DEF NoneTwice
  <2>15. WithinSizes'
    <3>1. \A s \in SplitNames : Size(s)' = Size(s) /\ Size(s) \in Int /\ Size(s) >= MinSplitSize
      BY <1>1, <1>2, SizesOfParts DEF Size
    <3>2. \A s \in SplitNames : Len(splits'[s]) \in MinSplitSize..Size(s)
      <4>1. \A s \in SplitNames : Len(splits'[s]) = 2 /\ Size(s) \in Int /\ Size(s) >= 2
        BY <2>10, <3>1 DEF MinSplitSize
      <4>2. \A z \in Int : z >= 2 => 2 \in 2..z
        OBVIOUS
      <4> QED BY <4>1, <4>2, Zenon DEF MinSplitSize
    <3> QED BY <2>11, <3>1, <3>2 DEF WithinSizes, MinSplitSize
  <2>16. \A i \in ShuffledRows' : shuffled'[i] \in Classes
    BY <1>1, <1>2, <1>4
  <2> QED BY <1>1, <1>2, <2>1, <2>12, <2>13, <2>14, <2>15, <2>16
          DEF SplitInv, SoundSplits, SplitsPartitionRows, SizesKept, RejectsOnlyUnsplittable
<1> QED BY <1>3, <1>4

LEMMA DealStep == SplitInv /\ Deal => SplitInv'
<1> SUFFICES ASSUME SplitInv, Deal PROVE SplitInv'
  OBVIOUS
<1>0. PICK c, d : c = cursor /\ d = turn
  OBVIOUS
<1>1. /\ SplitsTypeOK /\ phase = "deal" /\ ~TooSmall(SplitSizes(Count))
      /\ \A i \in ShuffledRows : shuffled[i] \in Classes
      /\ NoneLost /\ NoneTwice /\ WithinSizes
  BY DEF SplitInv, Deal
<1>2. /\ c <= Count /\ c \notin reserved /\ ~Full(d) /\ cursor' = c + 1
      /\ splits' = [splits EXCEPT ![d] = Append(@, c)] /\ turn' = NextTurn(d)
      /\ shuffled' = shuffled /\ reserved' = reserved /\ phase' = "deal"
  BY <1>0, <1>1 DEF Deal, Dealt
<1>3. /\ Count' = Count /\ ShuffledRows' = ShuffledRows /\ SplitSizes(Count)' = SplitSizes(Count)
      /\ \A s \in SplitNames : Size(s)' = Size(s) /\ Size(s) \in Int
      /\ Count \in Nat /\ ShuffledRows = 1..Count
  BY <1>1, <1>2, SizesOfParts DEF Count, ShuffledRows, Size
<1>4. c \in 1..(Count + 1) /\ c \in ShuffledRows /\ d \in SplitNames
  BY <1>0, <1>1, <1>2, <1>3 DEF SplitsTypeOK
<1>5. \A s \in SplitNames : splits[s] \in Seq(ShuffledRows)
  BY <1>1 DEF SplitsTypeOK
<1>6. /\ \A s \in SplitNames : s # d => splits'[s] = splits[s]
      /\ splits'[d] = Append(splits[d], c)
  BY <1>1, <1>2, <1>4 DEF SplitsTypeOK
<1>7. /\ Len(splits[d]) \in Nat /\ splits'[d] \in Seq(ShuffledRows)
      /\ Len(splits'[d]) = Len(splits[d]) + 1 /\ splits'[d][Len(splits[d]) + 1] = c
      /\ \A k \in 1..Len(splits[d]) : splits'[d][k] = splits[d][k]
  BY <1>4, <1>5, <1>6
<1>8. 1..Len(splits'[d]) = 1..Len(splits[d]) \cup {Len(splits[d]) + 1}
  BY <1>7
<1>9. /\ \A s \in SplitNames : s # d => RowsOf(s)' = RowsOf(s)
      /\ RowsOf(d)' = RowsOf(d) \cup {c}
  BY <1>6, <1>7, <1>8 DEF RowsOf
<1>10. \A s \in SplitNames : c \notin RowsOf(s)
  <2>1. c \notin 1..(c - 1)
    BY <1>4
  <2>2. UNION {RowsOf(s) : s \in SplitNames} = reserved \cup 1..(c - 1)
    BY <1>0, <1>1 DEF NoneLost
  <2> QED BY <1>2, <2>1, <2>2
<1>11. SplitsTypeOK'
  <2>1. cursor' \in 1..(Count + 1)
    BY <1>2, <1>3, <1>4
  <2>2. turn' \in SplitNames
    BY <1>2, <1>4 DEF NextTurn, SplitNames
  <2>3. splits' \in [SplitNames -> Seq(ShuffledRows)]
    <3>1. \A s \in SplitNames : splits'[s] \in Seq(ShuffledRows)
      BY <1>5, <1>6, <1>7
    <3> QED BY <1>1, <1>2, <3>1 DEF SplitsTypeOK
  <2> QED BY <1>1, <1>2, <1>3, <2>1, <2>2, <2>3 DEF SplitsTypeOK
<1>12. NoneLost'
  <2>1. UNION {RowsOf(s)' : s \in SplitNames} = (UNION {RowsOf(s) : s \in SplitNames}) \cup {c}
    BY <1>4, <1>9
  <2>2. 1..(cursor' - 1) = 1..(c - 1) \cup {c}
    BY <1>2, <1>4
  <2>3. UNION {RowsOf(s) : s \in SplitNames} = reserved \cup 1..(c - 1)
    BY <1>0, <1>1 DEF NoneLost
  <2> QED BY <1>2, <2>1, <2>2, <2>3 DEF NoneLost
<1>13. NoneTwice'
  <2>1. \A s, t \in SplitNames : s # t => RowsOf(s)' \cap RowsOf(t)' = {}
    BY <1>1, <1>9, <1>10 DEF NoneTwice
  <2>2. ASSUME NEW s \in SplitNames, NEW j \in 1..Len(splits'[s]), NEW k \in 1..Len(splits'[s]),
               splits'[s][j] = splits'[s][k]
        PROVE  j = k
    <3>1. CASE s # d
      BY <1>1, <1>6, <2>2, <3>1 DEF NoneTwice
    <3>2. CASE s = d
      <4>1. \A i \in 1..Len(splits[d]) : splits[d][i] # c
        BY <1>4, <1>10 DEF RowsOf
      <4> QED BY <1>1, <1>4, <1>7, <1>8, <2>2, <3>2, <4>1 DEF NoneTwice
    <3> QED BY <3>1, <3>2
  <2> QED BY <2>1, <2>2 DEF NoneTwice
<1>14. WithinSizes'
  <2>1. ASSUME NEW s \in SplitNames
        PROVE  Len(splits'[s]) \in MinSplitSize..Size(s) /\ SplitLabels(s)' = Classes
    <3>1. CASE s # d
      BY <1>1, <1>2, <1>6, <3>1 DEF WithinSizes, SplitLabels
    <3>2. CASE s = d
      <4>1. Len(splits[d]) \in MinSplitSize..Size(d) /\ ~(Len(splits[d]) >= Size(d)) /\ Size(d) \in Int
        BY <1>1, <1>2, <1>3, <1>4 DEF WithinSizes, Full
      <4>2. Len(splits'[d]) \in MinSplitSize..Size(d)
        BY <1>7, <4>1 DEF MinSplitSize
      <4>3. SplitLabels(d)' = SplitLabels(d) \cup {shuffled[c]}
        BY <1>2, <1>7, <1>8 DEF SplitLabels
      <4> QED BY <1>1, <1>4, <3>2, <4>2, <4>3 DEF WithinSizes
    <3> QED BY <3>1, <3>2
  <2> QED BY <1>3, <2>1 DEF WithinSizes
<1>15. \A i \in ShuffledRows' : shuffled'[i] \in Classes
  BY <1>1, <1>2, <1>3
<1> QED BY <1>1, <1>2, <1>3, <1>11, <1>12, <1>13, <1>14, <1>15
        DEF SplitInv, SoundSplits, SplitsPartitionRows, SizesKept, RejectsOnlyUnsplittable

LEMMA SkipSteps == SplitInv /\ (SkipRow \/ SkipSplit) => SplitInv'
<1> SUFFICES ASSUME SplitInv, SkipRow \/ SkipSplit PROVE SplitInv'
  OBVIOUS
<1>1. /\ SplitsTypeOK /\ phase = "deal" /\ ~TooSmall(SplitSizes(Count))
      /\ \A i \in ShuffledRows : shuffled[i] \in Classes
      /\ NoneLost /\ NoneTwice /\ WithinSizes
      /\ UNCHANGED <<shuffled, splits, reserved, phase>>
  BY DEF SplitInv, SkipRow, SkipSplit
<1>2. /\ Count' = Count /\ ShuffledRows' = ShuffledRows /\ SplitSizes(Count)' = SplitSizes(Count)
      /\ Count \in Nat /\ ShuffledRows = 1..Count
      /\ \A s \in SplitNames : RowsOf(s)' = RowsOf(s) /\ Size(s)' = Size(s) /\ SplitLabels(s)' = SplitLabels(s)
  BY <1>1, SizesOfParts DEF Count, ShuffledRows, Size, RowsOf, SplitLabels
<1>3. /\ cursor \in 1..(Count + 1) /\ turn \in SplitNames
      /\ cursor' \in 1..(Count + 1) /\ turn' \in SplitNames
      /\ reserved \cup 1..(cursor' - 1) = reserved \cup 1..(cursor - 1)
  <2>1. cursor \in 1..(Count + 1) /\ turn \in SplitNames
    BY <1>1 DEF SplitsTypeOK
  <2>2. CASE SkipRow
    <3>1. cursor <= Count /\ cursor \in reserved /\ cursor' = cursor + 1 /\ turn' = turn
      BY <2>2 DEF SkipRow, Dealt
    <3>2. 1..((cursor + 1) - 1) = 1..(cursor - 1) \cup {cursor}
      BY <2>1
    <3>3. cursor' \in 1..(Count + 1)
      BY <1>2, <2>1, <3>1
    <3> QED BY <2>1, <3>1, <3>2, <3>3
  <2>3. CASE SkipSplit
    BY <2>1, <2>3 DEF SkipSplit, NextTurn, SplitNames
  <2> QED BY <2>1, <2>2, <2>3
<1>4. SplitsTypeOK'
  BY <1>1, <1>2, <1>3 DEF SplitsTypeOK
<1>5. NoneLost' /\ NoneTwice' /\ WithinSizes'
  BY <1>1, <1>2, <1>3 DEF NoneLost, NoneTwice, WithinSizes
<1> QED BY <1>1, <1>2, <1>4, <1>5
        DEF SplitInv, SoundSplits, SplitsPartitionRows, SizesKept, RejectsOnlyUnsplittable

\* Splits that share no row and leave none out have as many entries as rows.
LEMMA LengthsAddUp ==
    ASSUME SplitsTypeOK, NoneTwice, UNION {RowsOf(s) : s \in SplitNames} = ShuffledRows
    PROVE  /\ \A s \in SplitNames : Len(splits[s]) \in Nat /\ Cardinality(RowsOf(s)) = Len(splits[s])
           /\ (Len(splits[0]) + Len(splits[1])) + Len(splits[2]) = Count
<1>1. Count \in Nat /\ ShuffledRows = 1..Count
  BY SizesOfParts
<1>2. ASSUME NEW s \in SplitNames
      PROVE  /\ Len(splits[s]) \in Nat /\ IsFiniteSet(RowsOf(s))
             /\ Cardinality(RowsOf(s)) = Len(splits[s])
  <2>1. Len(splits[s]) \in Nat
    BY DEF SplitsTypeOK
  <2>2. IsFiniteSet(1..Len(splits[s])) /\ Cardinality(1..Len(splits[s])) = Len(splits[s])
    <3>1. (IF 1 > Len(splits[s]) THEN 0 ELSE Len(splits[s]) - 1 + 1) = Len(splits[s])
      BY <2>1
    <3> QED BY <2>1, <3>1, FS_Interval
  <2>3. \A j, k \in 1..Len(splits[s]) : splits[s][j] = splits[s][k] => j = k
    BY DEF NoneTwice
  <2>4. RowsOf(s) = {splits[s][k] : k \in 1..Len(splits[s])}
    BY DEF RowsOf
  <2>5. /\ IsFiniteSet({splits[s][k] : k \in 1..Len(splits[s])})
        /\ Cardinality({splits[s][k] : k \in 1..Len(splits[s])}) = Cardinality(1..Len(splits[s]))
    BY <2>2, <2>3, InjectiveImage
  <2> QED BY <2>1, <2>2, <2>4, <2>5
<1>3. 0 \in SplitNames /\ 1 \in SplitNames /\ 2 \in SplitNames /\ 0 # 1 /\ 0 # 2 /\ 1 # 2
  BY DEF SplitNames
<1> DEFINE A == RowsOf(0)
           B == RowsOf(1)
           C == RowsOf(2)
<1>4. (A \cup B) \cup C = 1..Count
  <2>1. UNION {RowsOf(s) : s \in SplitNames} = (A \cup B) \cup C
    BY DEF SplitNames
  <2> QED BY <1>1, <2>1
<1>5. A \cap B = {} /\ (A \cup B) \cap C = {}
  BY <1>3 DEF NoneTwice
<1>6. IsFiniteSet(A) /\ IsFiniteSet(B) /\ IsFiniteSet(C)
  BY <1>2, <1>3
<1>7. Cardinality(A) = Len(splits[0]) /\ Cardinality(B) = Len(splits[1]) /\ Cardinality(C) = Len(splits[2])
  BY <1>2, <1>3
<1> HIDE DEF A, B, C
<1>8. /\ IsFiniteSet(A \cup B)
      /\ Cardinality(A \cup B) = Cardinality(A) + Cardinality(B) - Cardinality(A \cap B)
  BY <1>6, FS_Union
<1>9. Cardinality((A \cup B) \cup C)
          = Cardinality(A \cup B) + Cardinality(C) - Cardinality((A \cup B) \cap C)
  BY <1>6, <1>8, FS_Union
<1>10. Cardinality({}) = 0
  BY FS_EmptySet
<1>11. Cardinality(1..Count) = Count
  <2>1. (IF 1 > Count THEN 0 ELSE Count - 1 + 1) = Count
    BY <1>1
  <2> QED BY <1>1, <2>1, FS_Interval
<1>12. Len(splits[0]) \in Nat /\ Len(splits[1]) \in Nat /\ Len(splits[2]) \in Nat
  BY <1>2, <1>3
<1>13. (Len(splits[0]) + Len(splits[1])) + Len(splits[2]) = Count
  <2>0. Cardinality(A \cap B) = 0 /\ Cardinality((A \cup B) \cap C) = 0
    BY <1>5, <1>10
  <2>1. Cardinality(A \cup B) = Len(splits[0]) + Len(splits[1])
    BY <1>7, <1>8, <1>12, <2>0
  <2>2. Cardinality((A \cup B) \cup C) = Cardinality(A \cup B) + Len(splits[2])
    <3>1. Cardinality(C) - Cardinality((A \cup B) \cap C) = Len(splits[2])
      BY <1>7, <1>12, <2>0
    <3> QED BY <1>9, <3>1
  <2> QED BY <1>4, <1>11, <2>1, <2>2
<1> QED BY <1>2, <1>13

LEMMA ValidateStep == SplitInv /\ Validate => SplitInv'
<1> SUFFICES ASSUME SplitInv, Validate PROVE SplitInv'
  OBVIOUS
<1>1. /\ SplitsTypeOK /\ phase = "deal" /\ cursor > Count
      /\ NoneLost /\ NoneTwice /\ WithinSizes
      /\ UNCHANGED <<shuffled, splits, reserved, cursor, turn>>
  BY DEF SplitInv, Validate
<1>2. Count \in Nat /\ ShuffledRows = 1..Count /\ cursor = Count + 1 /\ reserved \subseteq 1..Count
  BY <1>1, SizesOfParts DEF SplitsTypeOK
<1>3. UNION {RowsOf(s) : s \in SplitNames} = ShuffledRows
  <2>1. (Count + 1) - 1 = Count
    BY <1>2
  <2> QED BY <1>1, <1>2, <2>1 DEF NoneLost
<1>4. /\ \A s \in SplitNames : Len(splits[s]) \in Nat /\ Cardinality(RowsOf(s)) = Len(splits[s])
      /\ (Len(splits[0]) + Len(splits[1])) + Len(splits[2]) = Count
  BY <1>1, <1>3, LengthsAddUp
<1>5. \A s \in SplitNames : Len(splits[s]) = Size(s)
  <2>1. /\ \A s \in SplitNames : Size(s) \in Int
        /\ (Size(0) + Size(1)) + Size(2) = Count
    BY <1>1, SizesOfParts
  <2>2. \A s \in SplitNames : Len(splits[s]) <= Size(s)
    BY <1>1, <2>1 DEF WithinSizes, MinSplitSize
  <2>3. 0 \in SplitNames /\ 1 \in SplitNames /\ 2 \in SplitNames
    BY DEF SplitNames
  <2>4. Len(splits[0]) = Size(0) /\ Len(splits[1]) = Size(1) /\ Len(splits[2]) = Size(2)
    <3>1. /\ Len(splits[0]) \in Nat /\ Len(splits[1]) \in Nat /\ Len(splits[2]) \in Nat
          /\ Size(0) \in Int /\ Size(1) \in Int /\ Size(2) \in Int
          /\ Len(splits[0]) <= Size(0) /\ Len(splits[1]) <= Size(1) /\ Len(splits[2]) <= Size(2)
      BY <1>4, <2>1, <2>2, <2>3
    <3>2. (Len(splits[0]) + Len(splits[1])) + Len(splits[2]) = (Size(0) + Size(1)) + Size(2)
      BY <1>4, <2>1
    <3>3. PICK a, b, c, x, y, z :
             /\ a = Len(splits[0]) /\ b = Len(splits[1]) /\ c = Len(splits[2])
             /\ x = Size(0) /\ y = Size(1) /\ z = Size(2)
      OBVIOUS
    <3>4. /\ a \in Nat /\ b \in Nat /\ c \in Nat /\ x \in Int /\ y \in Int /\ z \in Int
          /\ a <= x /\ b <= y /\ c <= z /\ (a + b) + c = (x + y) + z
      BY <3>1, <3>2, <3>3, Zenon
    <3>5. a = x /\ b = y /\ c = z
      BY <3>4
    <3> QED BY <3>3, <3>5
  <2> QED BY <2>4 DEF SplitNames
<1>6. Usable(splits)
  <2>1. \A s \in SplitNames : Len(splits[s]) >= MinSplitSize
    BY <1>1, <1>4, <1>5 DEF WithinSizes, MinSplitSize
  <2> QED BY <1>1, <2>1 DEF Usable, WithinSizes, SplitLabels
<1>7. phase' = "done"
  BY <1>6 DEF Validate
<1>8. Count' = Count /\ ShuffledRows' = ShuffledRows /\ \A s \in SplitNames : RowsOf(s)' = RowsOf(s) /\ Size(s)' = Size(s)
  BY <1>1 DEF Count, ShuffledRows, RowsOf, Size
<1>9. SplitsTypeOK'
  BY <1>1, <1>7, <1>8 DEF SplitsTypeOK
<1>10. SplitsPartitionRows' /\ SizesKept'
  BY <1>1, <1>3, <1>4, <1>5, <1>8 DEF SplitsPartitionRows, SizesKept, NoneTwice
<1> QED BY <1>7, <1>9, <1>10 DEF SplitInv, SoundSplits, RejectsOnlyUnsplittable

LEMMA SplitStutters == SplitInv /\ UNCHANGED splitsVars => SplitInv'
<1> SUFFICES ASSUME SplitInv, UNCHANGED splitsVars PROVE SplitInv'
  OBVIOUS
<1>1. UNCHANGED <<shuffled, splits, reserved, cursor, turn, phase>>
  BY DEF splitsVars
<1>2. /\ Count' = Count /\ ShuffledRows' = ShuffledRows
      /\ \A s : RowsOf(s)' = RowsOf(s) /\ Size(s)' = Size(s) /\ SplitLabels(s)' = SplitLabels(s)
      /\ \A l : RowsLabelled(l)' = RowsLabelled(l)
  BY <1>1 DEF Count, ShuffledRows, RowsOf, Size, SplitLabels, RowsLabelled
<1>3. SplitsTypeOK'
  BY <1>1, <1>2 DEF SplitInv, SplitsTypeOK
<1>4. SoundSplits'
  BY <1>1, <1>2 DEF SplitInv, SoundSplits, SplitsPartitionRows, SizesKept, RejectsOnlyUnsplittable
<1>5. phase = "deal" => NoneLost' /\ NoneTwice' /\ WithinSizes'
  BY <1>1, <1>2 DEF SplitInv, NoneLost, NoneTwice, WithinSizes
<1> QED BY <1>1, <1>2, <1>3, <1>4, <1>5 DEF SplitInv

LEMMA SplitInvariant == SplitsSpec => []SplitInv
<1>1. SplitInv /\ [SplitsNext]_splitsVars => SplitInv'
  BY SliceStep, ReserveStep, SkipSteps, DealStep, ValidateStep, SplitStutters DEF SplitsNext
<1> QED BY <1>1, SplitStart, PTL DEF SplitsSpec

\* However many records there are, in whatever order and with whatever labels,
\* the three splits share no row, lose none and have the sizes asked for; the
\* fallback always passes the validation after it, and only data that cannot be
\* split is rejected (preprocess.py:36-108).
THEOREM SplitsAreSound == SplitsSpec => []SoundSplits
<1>1. SplitInv => SoundSplits
  BY DEF SplitInv
<1> QED BY <1>1, SplitInvariant, PTL

-----------------------------------------------------------------------------
(***************************************************************************)
(* DriftStatistic: first the buckets, the edges and the sums of counts.    *)
(***************************************************************************)
\* Rows as a function on their positions.
LEMMA RowsHaveLength ==
    ASSUME NEW S, NEW max \in Nat, NEW rows \in UpTo(max, S)
    PROVE  /\ Len(rows) \in Nat
           /\ rows \in [1..Len(rows) -> S]
           /\ rows = <<>> <=> Len(rows) = 0
<1>1. PICK k \in 0..max : rows \in [1..k -> S]
  BY DEF UpTo
<1>2. k \in Nat
  OBVIOUS
<1>3. rows \in Seq(S)
  BY <1>1, <1>2, SeqDef
<1>4. Len(rows) = k
  BY <1>1, <1>2, <1>3, LenProperties
<1>5. rows = <<>> <=> Len(rows) = 0
  BY <1>3, EmptySeq
<1> QED BY <1>1, <1>2, <1>4, <1>5

\* The buckets that rows fall into, and the rows of one.
BucketsOf(column, rows, edges) == {BucketOf(column, rows[i], edges) : i \in 1..Len(rows)}
RowsIn(column, rows, edges, b) == {i \in 1..Len(rows) : BucketOf(column, rows[i], edges) = b}

LEMMA CountsAre ==
    \A column, rows, edges :
        BucketCounts(column, rows, edges)
            = [b \in BucketsOf(column, rows, edges) |-> Cardinality(RowsIn(column, rows, edges, b))]
BY DEF BucketCounts, HowMany, BucketsOf, RowsIn

\* The counts of the buckets add up to the rows.
LEMMA CountsAddUp ==
    ASSUME NEW column, NEW rows, NEW edges, Len(rows) \in Nat
    PROVE  TotalOf(BucketCounts(column, rows, edges)) = Len(rows)
<1>1. PICK counts : counts = BucketCounts(column, rows, edges)
  OBVIOUS
<1>2. PICK kind : kind = [i \in 1..Len(rows) |-> BucketOf(column, rows[i], edges)]
  OBVIOUS
<1>3. \A i \in 1..Len(rows) : kind[i] = BucketOf(column, rows[i], edges)
  BY <1>2
<1>4. /\ DOMAIN counts = BucketsOf(column, rows, edges)
      /\ \A b \in DOMAIN counts : counts[b] = Cardinality(RowsIn(column, rows, edges, b))
  BY <1>1, CountsAre
<1>5. DOMAIN counts = {kind[i] : i \in 1..Len(rows)}
  BY <1>3, <1>4 DEF BucketsOf
<1>6. ASSUME NEW b \in DOMAIN counts
      PROVE  counts[b] = Cardinality({i \in 1..Len(rows) : kind[i] = b})
  <2>1. {i \in 1..Len(rows) : kind[i] = b} = RowsIn(column, rows, edges, b)
    BY <1>3 DEF RowsIn
  <2> QED BY <1>4, <2>1
<1>7. Cardinality(UNION {{b} \X (1..counts[b]) : b \in DOMAIN counts}) = Len(rows)
  BY <1>5, <1>6, KindsAddUp
<1> QED BY <1>1, <1>7 DEF TotalOf

\* The numbers of rows, a finite set of integers.
NumbersOf(rows) == {rows[i].number : i \in 1..Len(rows)}

LEMMA NumbersAre ==
    ASSUME NEW rows, Len(rows) \in Nat, \A i \in 1..Len(rows) : rows[i].number \in Int
    PROVE  /\ NumbersOf(rows) \in SUBSET Int
           /\ IsFiniteSet(NumbersOf(rows))
           /\ IsFiniteSet(1..Len(rows)) /\ Cardinality(1..Len(rows)) = Len(rows)
<1>1. PICK f : f = [i \in 1..Len(rows) |-> rows[i].number]
  OBVIOUS
<1>2. NumbersOf(rows) = {f[i] : i \in 1..Len(rows)}
  BY <1>1 DEF NumbersOf
<1>3. IsFiniteSet(1..Len(rows)) /\ Cardinality(1..Len(rows)) = Len(rows)
  <2>1. (IF 1 > Len(rows) THEN 0 ELSE Len(rows) - 1 + 1) = Len(rows)
    OBVIOUS
  <2> QED BY <2>1, FS_Interval
<1>4. IsFiniteSet(NumbersOf(rows))
  BY <1>2, <1>3, ImageFinite
<1> QED BY <1>3, <1>4 DEF NumbersOf

\* There is a k-th smallest number, equal numbers counted apart.
LEMMA OrderedIsNumber ==
    ASSUME NEW rows, Len(rows) \in Nat, \A i \in 1..Len(rows) : rows[i].number \in Int,
           NEW k \in 0..(Len(rows) - 1)
    PROVE  Ordered(rows, k) \in NumbersOf(rows)
<1> DEFINE V == NumbersOf(rows)
           below(v) == {i \in 1..Len(rows) : rows[i].number < v}
           upTo(v) == {i \in 1..Len(rows) : rows[i].number <= v}
           T == {v \in V : k < Cardinality(upTo(v))}
<1>1. /\ V \in SUBSET Int /\ IsFiniteSet(V)
      /\ IsFiniteSet(1..Len(rows)) /\ Cardinality(1..Len(rows)) = Len(rows)
  BY NumbersAre
<1>2. \A i \in 1..Len(rows) : rows[i].number \in V
  BY DEF NumbersOf
<1>3. \A v : below(v) \in SUBSET (1..Len(rows)) /\ upTo(v) \in SUBSET (1..Len(rows))
  OBVIOUS
<1>4. ASSUME NEW v
      PROVE  IsFiniteSet(below(v)) /\ Cardinality(below(v)) \in Nat /\ Cardinality(upTo(v)) \in Nat
  <2>1. IsFiniteSet(below(v)) /\ IsFiniteSet(upTo(v))
    <3>1. IsFiniteSet(below(v))
      BY <1>1, <1>3, FS_Subset
    <3>2. IsFiniteSet(upTo(v))
      BY <1>1, <1>3, FS_Subset
    <3> QED BY <3>1, <3>2
  <2>2. Cardinality(below(v)) \in Nat
    BY <2>1, FS_CardinalityType
  <2>3. Cardinality(upTo(v)) \in Nat
    BY <2>1, FS_CardinalityType
  <2> QED BY <2>1, <2>2, <2>3
<1>5. T # {}
  <2>1. 1 \in 1..Len(rows)
    OBVIOUS
  <2>2. V # {}
    BY <1>2, <2>1
  <2>3. PICK g \in V : \A v \in V : v <= g
    BY <1>1, <2>2, LeastAndGreatest
  <2>4. upTo(g) = 1..Len(rows)
    BY <1>2, <2>3
  <2>5. k < Len(rows)
    OBVIOUS
  <2> QED BY <1>1, <2>3, <2>4, <2>5
<1>6. PICK v \in T : \A w \in T : v <= w
  <2>1. T \in SUBSET Int /\ T \in SUBSET V
    BY <1>1
  <2>2. IsFiniteSet(T)
    BY <1>1, <2>1, FS_Subset
  <2> HIDE DEF T
  <2> QED BY <1>5, <2>1, <2>2, LeastAndGreatest
<1>7. v \in V /\ v \in Int /\ k < Cardinality(upTo(v))
  BY <1>1
<1>8. Cardinality(below(v)) <= k
  <2> SUFFICES ASSUME ~(Cardinality(below(v)) <= k) PROVE FALSE
    OBVIOUS
  <2> DEFINE W == {w \in V : w < v}
  <2>1. below(v) # {}
    <3>1. Cardinality(below(v)) # 0
      BY <1>4
    <3> QED BY <3>1, FS_EmptySet
  <2>2. W # {} /\ W \in SUBSET V /\ W \in SUBSET Int
    BY <1>1, <1>2, <2>1
  <2>3. IsFiniteSet(W)
    BY <1>1, <2>2, FS_Subset
  <2> HIDE DEF W
  <2>4. PICK w \in W : \A x \in W : x <= w
    BY <2>2, <2>3, LeastAndGreatest
  <2> USE DEF W
  <2>5. w \in V /\ w < v /\ w \in Int
    BY <1>1, <2>4
  <2>6. \A i \in 1..Len(rows) : rows[i].number < v <=> rows[i].number <= w
    BY <1>1, <1>2, <1>7, <2>4, <2>5
  <2>7. below(v) = upTo(w)
    BY <2>6
  <2>8. w \in T
    <3>1. k < Cardinality(upTo(w))
      <4>1. Cardinality(upTo(w)) \in Nat /\ ~(Cardinality(upTo(w)) <= k)
        BY <1>4, <2>7
      <4>2. k \in Int
        OBVIOUS
      <4> HIDE DEF upTo
      <4> QED BY <4>1, <4>2
    <3> QED BY <2>5, <3>1
  <2>9. ~(v <= w)
    BY <1>7, <2>5
  <2> QED BY <1>6, <2>8, <2>9
<1>9. Ordered(rows, k) = CHOOSE x \in V : Cardinality(below(x)) <= k /\ k < Cardinality(upTo(x))
  BY DEF Ordered, HowMany, NumbersOf
<1> HIDE DEF V, below, upTo, T
<1>10. Ordered(rows, k) \in V
  BY <1>7, <1>8, <1>9
<1> QED BY <1>10 DEF V

\* The edges are numbers of the rows.
LEMMA EdgesAre ==
    ASSUME NEW rows, Len(rows) \in Nat, rows # <<>>, Len(rows) # 0,
           \A i \in 1..Len(rows) : rows[i].number \in Int
    PROVE  /\ Edges(rows) \in SUBSET NumbersOf(rows) /\ Edges(rows) # {}
           /\ Edges(rows) \in SUBSET Int
           /\ IsFiniteSet(Edges(rows)) /\ Cardinality(Edges(rows)) \in Nat
<1> DEFINE rank(s) == IF (Len(rows) * s) \div Bins < Len(rows) - 1
                    THEN (Len(rows) * s) \div Bins ELSE Len(rows) - 1
<1>1. \A s \in 1..(Bins - 1) : rank(s) \in 0..(Len(rows) - 1)
  <2> SUFFICES ASSUME NEW s \in 1..(Bins - 1) PROVE rank(s) \in 0..(Len(rows) - 1)
    OBVIOUS
  <2>1. Len(rows) * s \in Nat /\ Bins \in Nat \ {0}
    BY StatisticConstants
  <2>2. \A a \in Nat, b \in Nat \ {0} : a \div b \in Nat
    OBVIOUS
  <2>3. (Len(rows) * s) \div Bins \in Nat
    BY <2>1, <2>2
  <2> QED BY <2>3
<1>2. Edges(rows) = {Ordered(rows, rank(s)) : s \in 1..(Bins - 1)}
  BY DEF Edges
<1> HIDE DEF rank
<1>3. Edges(rows) \in SUBSET NumbersOf(rows)
  BY <1>1, <1>2, OrderedIsNumber
<1>4. Edges(rows) # {}
  <2>1. 1 \in 1..(Bins - 1)
    BY StatisticConstants
  <2> QED BY <1>2, <2>1
<1>5. NumbersOf(rows) \in SUBSET Int /\ IsFiniteSet(NumbersOf(rows))
  BY NumbersAre
<1>6. IsFiniteSet(Edges(rows))
  BY <1>3, <1>5, FS_Subset
<1>7. Cardinality(Edges(rows)) \in Nat
  BY <1>6, FS_CardinalityType
<1> QED BY <1>3, <1>4, <1>5, <1>6, <1>7

\* Below the highest edge there is a row in every bucket.
LEMMA NoGap ==
    ASSUME NEW rows, Len(rows) \in Nat, \A i \in 1..Len(rows) : rows[i].number \in Int,
           NEW edges \in SUBSET NumbersOf(rows), edges \in SUBSET Int, IsFiniteSet(edges),
           NEW b \in 0..(Cardinality(edges) - 1)
    PROVE  b \in BucketsOf("number", rows, edges)
<1>1. Cardinality(edges) \in Nat
  BY FS_CardinalityType
<1>2. b + 1 \in 1..Cardinality(edges) /\ b \in Nat
  BY <1>1
<1>3. PICK e \in edges : Cardinality({x \in edges : x <= e}) = b + 1
  BY <1>2, RankExists
<1> DEFINE U == {x \in edges : x <= e}
<1>4. IsFiniteSet(U)
  BY FS_Subset
<1>5. /\ {x \in edges : x < e} = U \ {e} /\ e \in U
  <2>1. \A x \in edges : x < e <=> (x <= e /\ x # e)
    OBVIOUS
  <2>2. e <= e
    OBVIOUS
  <2> QED BY <2>1, <2>2, Zenon
<1> HIDE DEF U
<1>6. Cardinality(U \ {e}) = Cardinality(U) - 1
  BY <1>4, <1>5, FS_RemoveElement
<1>7. Cardinality({x \in edges : x < e}) = b
  <2>1. Cardinality(U) = b + 1
    BY <1>3 DEF U
  <2>2. Cardinality(U \ {e}) = b
    BY <1>2, <1>6, <2>1
  <2> QED BY <1>5, <2>2
<1>8. PICK i \in 1..Len(rows) : rows[i].number = e
  BY DEF NumbersOf
<1>9. BucketOf("number", rows[i], edges) = b
  BY <1>7, <1>8 DEF BucketOf, NumberBucket
<1> QED BY <1>9 DEF BucketsOf

\* No number is above the top bucket.
LEMMA BucketsAreValid ==
    ASSUME NEW rows, NEW edges, IsFiniteSet(edges)
    PROVE  BucketsOf("number", rows, edges) \subseteq ValidBuckets(edges)
<1> SUFFICES ASSUME NEW i \in 1..Len(rows)
             PROVE  BucketOf("number", rows[i], edges) \in ValidBuckets(edges)
  BY DEF BucketsOf
<1> DEFINE L == {x \in edges : x < rows[i].number}
<1>1. IsFiniteSet(L) /\ Cardinality(L) <= Cardinality(edges)
  BY FS_Subset
<1>2. Cardinality(L) \in Nat /\ Cardinality(edges) \in Nat
  <2> HIDE DEF L
  <2>1. Cardinality(L) \in Nat
    BY <1>1, FS_CardinalityType
  <2>2. Cardinality(edges) \in Nat
    BY FS_CardinalityType
  <2> QED BY <2>1, <2>2
<1>3. BucketOf("number", rows[i], edges) = Cardinality(L)
  BY DEF BucketOf, NumberBucket
<1> HIDE DEF L
<1> QED BY <1>1, <1>2, <1>3 DEF ValidBuckets

\* The rows equal to r.
Alike(rows, r) == {i \in 1..Len(rows) : rows[i] = r}

LEMMA PartsAreFinite ==
    ASSUME NEW rows, Len(rows) \in Nat, NEW column, NEW edges, NEW x, NEW r
    PROVE  /\ IsFiniteSet(RowsIn(column, rows, edges, x))
           /\ Cardinality(RowsIn(column, rows, edges, x)) \in Nat
           /\ IsFiniteSet(Alike(rows, r)) /\ Cardinality(Alike(rows, r)) \in Nat
           /\ IsFiniteSet(1..Len(rows)) /\ Cardinality(1..Len(rows)) = Len(rows)
<1>1. RowsIn(column, rows, edges, x) \in SUBSET (1..Len(rows)) /\ Alike(rows, r) \in SUBSET (1..Len(rows))
  BY DEF RowsIn, Alike
<1>2. IsFiniteSet(1..Len(rows)) /\ Cardinality(1..Len(rows)) = Len(rows)
  <2>1. (IF 1 > Len(rows) THEN 0 ELSE Len(rows) - 1 + 1) = Len(rows)
    OBVIOUS
  <2> QED BY <2>1, FS_Interval
<1>3. IsFiniteSet(RowsIn(column, rows, edges, x))
  BY <1>1, <1>2, FS_Subset
<1>4. IsFiniteSet(Alike(rows, r))
  BY <1>1, <1>2, FS_Subset
<1>5. Cardinality(RowsIn(column, rows, edges, x)) \in Nat
  BY <1>3, FS_CardinalityType
<1>6. Cardinality(Alike(rows, r)) \in Nat
  BY <1>4, FS_CardinalityType
<1> QED BY <1>2, <1>3, <1>4, <1>5, <1>6

\* Where every row has the same share of two lists, so has every bucket.
LEMMA SharesAgree ==
    ASSUME NEW rowsA, NEW rowsB, Len(rowsA) \in Nat, Len(rowsB) \in Nat,
           \A r : Cardinality(Alike(rowsA, r)) * Len(rowsB) = Cardinality(Alike(rowsB, r)) * Len(rowsA),
           NEW column, NEW edges, NEW x
    PROVE  Cardinality(RowsIn(column, rowsA, edges, x)) * Len(rowsB)
              = Cardinality(RowsIn(column, rowsB, edges, x)) * Len(rowsA)
<1> DEFINE A == RowsIn(column, rowsA, edges, x) \X (1..Len(rowsB))
           B == RowsIn(column, rowsB, edges, x) \X (1..Len(rowsA))
           f == [p \in A |-> rowsA[p[1]]]
           g == [p \in B |-> rowsB[p[1]]]
<1>1. /\ IsFiniteSet(A)
      /\ Cardinality(A) = Cardinality(RowsIn(column, rowsA, edges, x)) * Len(rowsB)
  <2>1. /\ IsFiniteSet(RowsIn(column, rowsA, edges, x))
        /\ IsFiniteSet(1..Len(rowsB)) /\ Cardinality(1..Len(rowsB)) = Len(rowsB)
    BY PartsAreFinite
  <2> QED BY <2>1, FS_Product
<1>2. /\ IsFiniteSet(B)
      /\ Cardinality(B) = Cardinality(RowsIn(column, rowsB, edges, x)) * Len(rowsA)
  <2>1. /\ IsFiniteSet(RowsIn(column, rowsB, edges, x))
        /\ IsFiniteSet(1..Len(rowsA)) /\ Cardinality(1..Len(rowsA)) = Len(rowsA)
    BY PartsAreFinite
  <2> QED BY <2>1, FS_Product
<1>3. ASSUME NEW r
      PROVE  Cardinality(OfKind(f, A, r)) = Cardinality(OfKind(g, B, r))
  <2>1. CASE BucketOf(column, r, edges) = x
    <3>1. OfKind(f, A, r) = Alike(rowsA, r) \X (1..Len(rowsB))
      BY <2>1 DEF OfKind, Alike, RowsIn
    <3>2. OfKind(g, B, r) = Alike(rowsB, r) \X (1..Len(rowsA))
      BY <2>1 DEF OfKind, Alike, RowsIn
    <3>3. Cardinality(Alike(rowsA, r) \X (1..Len(rowsB))) = Cardinality(Alike(rowsA, r)) * Len(rowsB)
      <4>1. /\ IsFiniteSet(Alike(rowsA, r))
            /\ IsFiniteSet(1..Len(rowsB)) /\ Cardinality(1..Len(rowsB)) = Len(rowsB)
        BY PartsAreFinite
      <4> QED BY <4>1, FS_Product
    <3>4. Cardinality(Alike(rowsB, r) \X (1..Len(rowsA))) = Cardinality(Alike(rowsB, r)) * Len(rowsA)
      <4>1. /\ IsFiniteSet(Alike(rowsB, r))
            /\ IsFiniteSet(1..Len(rowsA)) /\ Cardinality(1..Len(rowsA)) = Len(rowsA)
        BY PartsAreFinite
      <4> QED BY <4>1, FS_Product
    <3> HIDE DEF f, g, A, B
    <3> QED BY <3>1, <3>2, <3>3, <3>4
  <2>2. CASE BucketOf(column, r, edges) # x
    <3>1. OfKind(f, A, r) = {} /\ OfKind(g, B, r) = {}
      BY <2>2 DEF OfKind, RowsIn
    <3> HIDE DEF f, g, A, B
    <3> QED BY <3>1
  <2> QED BY <2>1, <2>2
<1> HIDE DEF f, g, A, B
<1>4. SameKinds(f, A, g, B)
  BY <1>3 DEF SameKinds
<1>5. Cardinality(A) = Cardinality(B)
  BY <1>1, <1>2, <1>4, FibersAgree
<1> QED BY <1>1, <1>2, <1>5

\* A bucket has rows just when its count is not zero.
LEMMA CountedBuckets ==
    ASSUME NEW rows, Len(rows) \in Nat, NEW column, NEW edges, NEW x
    PROVE  x \in BucketsOf(column, rows, edges) <=> Cardinality(RowsIn(column, rows, edges, x)) # 0
<1>1. x \in BucketsOf(column, rows, edges) <=> RowsIn(column, rows, edges, x) # {}
  BY DEF BucketsOf, RowsIn
<1>2. IsFiniteSet(RowsIn(column, rows, edges, x))
  BY PartsAreFinite
<1>3. Cardinality(RowsIn(column, rows, edges, x)) = 0 <=> RowsIn(column, rows, edges, x) = {}
  BY <1>2, FS_EmptySet
<1> QED BY <1>1, <1>3

LEMMA EmptyFunction ==
    /\ DOMAIN <<>> = {}
    /\ \A f : f = [x \in {} |-> f[x]] => f = <<>>
<1>1. <<>> \in Seq({}) /\ Len(<<>>) = 0
  BY EmptySeq
<1>2. DOMAIN <<>> = 1..0
  BY <1>1, LenProperties
<1>3. <<>> \in [1..0 -> {}]
  BY <1>1, LenProperties
<1>4. 1..0 = {}
  OBVIOUS
<1>5. <<>> \in [{} -> {}]
  BY <1>3, <1>4
<1> QED BY <1>2, <1>4, <1>5

\* Traffic like the sample has the index of traffic that is the same.
LEMMA LikeTraffic ==
    ASSUME StatInputs, sample # <<>>, \A r \in AnyRow : SameShareOf(r),
           NEW c \in Columns, NEW edges
    PROVE  Index(BucketCounts(c, sample, edges), BucketCounts(c, window, edges)) \subseteq {"none", "zero"}
<1> DEFINE ref == BucketCounts(c, sample, edges)
           cur == BucketCounts(c, window, edges)
           inS(x) == Cardinality(RowsIn(c, sample, edges, x))
           inW(x) == Cardinality(RowsIn(c, window, edges, x))
<1>1. /\ Len(sample) \in Nat /\ sample \in [1..Len(sample) -> SampleRow] /\ Len(sample) # 0
      /\ Len(window) \in Nat /\ window \in [1..Len(window) -> WindowRow]
      /\ window = <<>> <=> Len(window) = 0
  BY RowsHaveLength, StatisticConstants DEF StatInputs
<1>2. SampleRow \subseteq AnyRow /\ WindowRow \subseteq AnyRow
  BY DEF SampleRow, WindowRow, AnyRow
<1>3. \A r : Cardinality(Alike(sample, r)) * Len(window) = Cardinality(Alike(window, r)) * Len(sample)
  <2> SUFFICES ASSUME NEW r
               PROVE  Cardinality(Alike(sample, r)) * Len(window) = Cardinality(Alike(window, r)) * Len(sample)
    OBVIOUS
  <2>1. CASE r \in AnyRow
    BY <2>1 DEF SameShareOf, HowMany, Alike
  <2>2. CASE r \notin AnyRow
    <3>1. Alike(sample, r) = {} /\ Alike(window, r) = {}
      BY <1>1, <1>2, <2>2 DEF Alike
    <3>2. Cardinality(Alike(sample, r)) = 0 /\ Cardinality(Alike(window, r)) = 0
      BY <3>1, FS_EmptySet
    <3>3. 0 * Len(window) = 0 /\ 0 * Len(sample) = 0
      BY <1>1
    <3> QED BY <3>2, <3>3
  <2> QED BY <2>1, <2>2
<1>4. \A x : inS(x) * Len(window) = inW(x) * Len(sample)
  BY <1>1, <1>3, SharesAgree
<1>5. TotalOf(ref) = Len(sample) /\ TotalOf(cur) = Len(window)
  BY <1>1, CountsAddUp
<1>6. /\ ref = [x \in BucketsOf(c, sample, edges) |-> inS(x)]
      /\ cur = [x \in BucketsOf(c, window, edges) |-> inW(x)]
  BY CountsAre
<1>7. CASE Len(window) = 0
  <2>1. BucketsOf(c, window, edges) = {}
    BY <1>7 DEF BucketsOf
  <2>2. cur = [x \in {} |-> cur[x]]
    BY <1>6, <2>1
  <2>3. cur = <<>>
    BY <2>2, EmptyFunction
  <2> QED BY <2>3 DEF Index
<1>8. CASE Len(window) # 0
  <2>1. \A x : inS(x) \in Nat /\ inW(x) \in Nat
    BY <1>1, PartsAreFinite
  <2>2. \A x : /\ x \in BucketsOf(c, sample, edges) <=> inS(x) # 0
               /\ x \in BucketsOf(c, window, edges) <=> inW(x) # 0
    BY <1>1, CountedBuckets
  <2> HIDE DEF inS, inW, ref, cur
  <2>3. \A x : inS(x) = 0 <=> inW(x) = 0
    <3> SUFFICES ASSUME NEW x PROVE inS(x) = 0 <=> inW(x) = 0
      OBVIOUS
    <3>1. \A a, b, m, n \in Nat : m # 0 /\ n # 0 /\ a * m = b * n => (a = 0 <=> b = 0)
      OBVIOUS
    <3> QED BY <1>1, <1>4, <1>8, <2>1, <3>1
  <2>4. BucketsOf(c, sample, edges) = BucketsOf(c, window, edges)
    BY <2>2, <2>3
  <2>5. DOMAIN ref = DOMAIN cur
    BY <1>6, <2>4
  <2>6. \A x \in DOMAIN ref : ref[x] = inS(x) /\ cur[x] = inW(x)
    BY <1>6, <2>4
  <2>7. SameShares(ref, cur)
    BY <1>4, <1>5, <2>5, <2>6 DEF SameShares
  <2> QED BY <2>7 DEF Index, ref, cur
<1> QED BY <1>7, <1>8

(***************************************************************************)
(* The steps.                                                              *)
(***************************************************************************)
\* The sample's rows have numbers, and categories of the vocabulary.
LEMMA SampleIs ==
    ASSUME StatInputs
    PROVE  /\ Len(sample) \in Nat
           /\ sample = <<>> <=> Len(sample) = 0
           /\ \A i \in 1..Len(sample) : sample[i].number \in Int /\ sample[i].category \in Known
<1>1. /\ Len(sample) \in Nat /\ sample \in [1..Len(sample) -> SampleRow]
      /\ sample = <<>> <=> Len(sample) = 0
  BY RowsHaveLength, StatisticConstants DEF StatInputs
<1>2. \A r \in SampleRow : r.number \in Int /\ r.category \in Known
  BY StatisticConstants DEF SampleRow
<1> QED BY <1>1, <1>2

\* The baseline of a sample that is not empty and reads as finite validates.
LEMMA BuiltIsValid ==
    ASSUME StatInputs, sample # <<>>, \A i \in 1..Len(sample) : sample[i].number \notin Infinite
    PROVE  Valid(BaselineOf(sample))
<1>1. /\ Len(sample) \in Nat /\ Len(sample) # 0
      /\ \A i \in 1..Len(sample) : sample[i].number \in Int /\ sample[i].category \in Known
  BY SampleIs
<1>2. PICK edges : edges = Edges(sample)
  OBVIOUS
<1>a. PICK base : base = BaselineOf(sample)
  OBVIOUS
<1>3. edges # {} /\ IsFiniteSet(edges)
  BY <1>1, <1>2, EdgesAre
<1>4. /\ base.edges = edges /\ base.total = Len(sample)
      /\ \A c \in Columns : base.counts[c] = BucketCounts(c, sample, edges)
  BY <1>2, <1>a DEF BaselineOf
<1>5. \A c \in Columns : DOMAIN base.counts[c] = BucketsOf(c, sample, edges)
  BY <1>4, CountsAre
<1>6. \A c \in Columns : base.counts[c] # <<>>
  <2>1. 1 \in 1..Len(sample)
    BY <1>1
  <2>2. \A c \in Columns : BucketsOf(c, sample, edges) # {}
    BY <2>1 DEF BucketsOf
  <2> QED BY <1>5, <2>2, EmptyFunction
<1>7. \A c \in Columns : TotalOf(base.counts[c]) = base.total
  BY <1>1, <1>4, CountsAddUp
<1>8. "number" \in Columns /\ "category" \in Columns
  BY DEF Columns
<1>9. DOMAIN base.counts["number"] \subseteq ValidBuckets(base.edges)
  BY <1>3, <1>4, <1>5, <1>8, BucketsAreValid
<1>10. DOMAIN base.counts["category"] \subseteq Known
  <2>1. BucketsOf("category", sample, edges) \subseteq Known
    BY <1>1 DEF BucketsOf, BucketOf
  <2> QED BY <1>5, <1>8, <2>1
<1>11. base.edges \cap Infinite = {}
  <2>1. edges \subseteq NumbersOf(sample)
    BY <1>1, <1>2, EdgesAre
  <2> QED BY <1>4, <2>1 DEF NumbersOf
<1> QED BY <1>a, <1>1, <1>3, <1>4, <1>6, <1>7, <1>9, <1>10, <1>11 DEF Valid

\* The baseline of any sample has no gap below its top bucket.
LEMMA BuiltHasNoGap ==
    ASSUME StatInputs
    PROVE  ValidBuckets(BaselineOf(sample).edges) \ {Cardinality(BaselineOf(sample).edges)}
               \subseteq DOMAIN BaselineOf(sample).counts["number"]
<1>1. PICK edges : edges = Edges(sample)
  OBVIOUS
<1>2. /\ BaselineOf(sample).edges = edges
      /\ BaselineOf(sample).counts["number"] = BucketCounts("number", sample, edges)
  BY <1>1 DEF BaselineOf, Columns
<1>3. CASE sample = <<>>
  <2>1. edges = {}
    BY <1>1, <1>3 DEF Edges
  <2>2. Cardinality(edges) = 0
    BY <2>1, FS_EmptySet
  <2>3. ValidBuckets(edges) = 0..0
    BY <2>2 DEF ValidBuckets
  <2>4. ValidBuckets(edges) \ {Cardinality(edges)} = {}
    BY <2>2, <2>3
  <2> QED BY <1>2, <2>4
<1>4. CASE sample # <<>>
  <2>1. /\ Len(sample) \in Nat /\ Len(sample) # 0
        /\ \A i \in 1..Len(sample) : sample[i].number \in Int
    BY <1>4, SampleIs
  <2>2. /\ edges \in SUBSET NumbersOf(sample) /\ edges \in SUBSET Int
        /\ IsFiniteSet(edges) /\ Cardinality(edges) \in Nat
    BY <1>1, <1>4, <2>1, EdgesAre
  <2>3. DOMAIN BaselineOf(sample).counts["number"] = BucketsOf("number", sample, edges)
    BY <1>2, CountsAre
  <2>4. \A b \in ValidBuckets(edges) \ {Cardinality(edges)} : b \in 0..(Cardinality(edges) - 1)
    BY <2>2 DEF ValidBuckets
  <2>5. \A b \in 0..(Cardinality(edges) - 1) : b \in BucketsOf("number", sample, edges)
    BY <2>1, <2>2, NoGap
  <2> QED BY <1>2, <2>3, <2>4, <2>5
<1> QED BY <1>3, <1>4

LEMMA StatBegins == StatInit => StatInv
BY DEF StatInit, StatStart, StatInv, SoundBaseline, BaselineAccepted, OnlyTopBucketEmpty,
       SameTrafficIsNoDrift

LEMMA StatStep == StatInv /\ [StatNext]_statVars => StatInv'
<1> SUFFICES ASSUME StatInv, [StatNext]_statVars PROVE StatInv'
  OBVIOUS
<1> DEFINE alike == \A r \in AnyRow : SameShareOf(r)
<1>0. /\ StatInputs /\ SoundBaseline
      /\ sample' = sample /\ window' = window /\ StatInputs' /\ (alike' <=> alike)
      /\ BaselineOf(sample)' = BaselineOf(sample)
  <2>1. sample' = sample /\ window' = window
    BY DEF StatNext, BuildBaseline, ValidateBaseline, ScoreWindow, GiveVerdict, statVars
  <2>2. BaselineOf(sample)' = BaselineOf(sample)
    BY <2>1
  <2> QED BY <2>1, <2>2 DEF StatInv, StatInputs, SameShareOf, HowMany
<1>1. CASE UNCHANGED statVars
  BY <1>0, <1>1 DEF statVars, StatInv, SoundBaseline, BaselineAccepted, OnlyTopBucketEmpty,
                    SameTrafficIsNoDrift
<1> HIDE DEF alike
<1>2. CASE BuildBaseline
  <2>1. step = "build" /\ step' = "validate" /\ drifted' = drifted /\ baseline' = BaselineOf(sample)
    BY <1>2 DEF BuildBaseline
  <2>2. ~drifted
    BY <2>1 DEF StatInv
  <2>3. OnlyTopBucketEmpty'
    BY <1>0, <2>1, BuiltHasNoGap DEF OnlyTopBucketEmpty
  <2> QED BY <1>0, <2>1, <2>2, <2>3 DEF StatInv, SoundBaseline, BaselineAccepted, SameTrafficIsNoDrift
<1>3. CASE ValidateBaseline
  <2>1. /\ step = "validate" /\ step' = IF Valid(baseline) THEN "score" ELSE "rejected"
        /\ drifted' = drifted /\ baseline' = baseline /\ baseline = BaselineOf(sample) /\ ~drifted
    BY <1>3 DEF ValidateBaseline, StatInv
  <2>2. BaselineAccepted'
    <3>1. ASSUME sample # <<>>, \A i \in 1..Len(sample) : sample[i].number \notin Infinite
          PROVE  step' = "score"
      BY <1>0, <2>1, <3>1, BuiltIsValid
    <3>2. step' = "rejected" =>
              sample = <<>> \/ \E i \in 1..Len(sample) : sample[i].number \in Infinite
      BY <3>1
    <3> QED BY <1>0, <3>2 DEF BaselineAccepted
  <2>3. step' = "score" => sample # <<>>
    <3>1. BaselineOf(sample).total = Len(sample)
      BY DEF BaselineOf
    <3>2. Valid(baseline) => Len(sample) > 0
      BY <2>1, <3>1 DEF Valid
    <3>3. sample = <<>> <=> Len(sample) = 0
      BY <1>0, SampleIs
    <3> QED BY <2>1, <3>2, <3>3
  <2>4. OnlyTopBucketEmpty'
    BY <1>0, <2>1, BuiltHasNoGap DEF OnlyTopBucketEmpty
  <2> QED BY <1>0, <2>1, <2>2, <2>3, <2>4 DEF StatInv, SoundBaseline, SameTrafficIsNoDrift
<1>4. CASE ScoreWindow
  <2>1. /\ step = "score" /\ step' = "verdict" /\ drifted' = drifted /\ baseline' = baseline
        /\ baseline = BaselineOf(sample) /\ ~drifted /\ sample # <<>>
    BY <1>4 DEF ScoreWindow, StatInv
  <2>2. PICK edges : edges = Edges(sample)
    OBVIOUS
  <2>3. \A c \in Columns : index'[c] \in Index(BucketCounts(c, sample, edges), BucketCounts(c, window, edges))
    BY <1>4, <2>1, <2>2 DEF ScoreWindow, BaselineOf
  <2>4. alike => \A c \in Columns : index'[c] \in {"none", "zero"}
    BY <1>0, <2>1, <2>3, LikeTraffic DEF alike
  <2>5. OnlyTopBucketEmpty'
    BY <1>0, <2>1, BuiltHasNoGap DEF OnlyTopBucketEmpty
  <2>6. alike' => \A c \in Columns : index'[c] \in {"none", "zero"}
    BY <1>0, <2>4
  <2> QED BY <1>0, <2>1, <2>5, <2>6
          DEF StatInv, SoundBaseline, BaselineAccepted, SameTrafficIsNoDrift, alike
<1>5. CASE GiveVerdict
  <2>1. /\ step = "verdict" /\ step' = "done" /\ baseline' = baseline /\ index' = index
        /\ baseline = BaselineOf(sample) /\ sample # <<>>
        /\ alike => \A c \in Columns : index[c] \in {"none", "zero"}
    BY <1>5 DEF GiveVerdict, StatInv, alike
  <2>2. alike => ~drifted'
    <3> SUFFICES ASSUME alike PROVE ~drifted'
      OBVIOUS
    <3> DEFINE shifted == {c \in Columns : index[c] \in {"drift", "severe"}}
    <3>1. \A c \in Columns : index[c] = "none" \/ index[c] = "zero"
      BY <2>1
    <3>2. shifted = {} /\ ~\E c \in Columns : index[c] = "severe"
      BY <3>1
    <3>3. Cardinality(shifted) = 0
      BY <3>2, FS_EmptySet
    <3>4. Cardinality(Columns) = 2
      <4>1. IsFiniteSet({"number"}) /\ Cardinality({"number"}) = 1
        BY FS_Singleton
      <4>2. Columns = {"number"} \cup {"category"} /\ "category" \notin {"number"}
        BY DEF Columns
      <4>3. Cardinality({"number"} \cup {"category"}) = Cardinality({"number"}) + 1
        BY <4>1, <4>2, FS_AddElement
      <4> QED BY <4>1, <4>2, <4>3
    <3>5. drifted' = (\/ 10 * Cardinality(shifted) >= 3 * Cardinality(Columns)
                      \/ \E c \in Columns : index[c] = "severe")
      BY <1>5 DEF GiveVerdict
    <3>6. ~(10 * 0 >= 3 * 2)
      OBVIOUS
    <3> HIDE DEF shifted
    <3> QED BY <3>2, <3>3, <3>4, <3>5, <3>6
  <2>3. OnlyTopBucketEmpty'
    BY <1>0, <2>1, BuiltHasNoGap DEF OnlyTopBucketEmpty
  <2>4. alike' => \A c \in Columns : index'[c] \in {"none", "zero"}
    BY <1>0, <2>1
  <2>5. alike' => ~drifted'
    BY <1>0, <2>2
  <2> QED BY <1>0, <2>1, <2>3, <2>4, <2>5
          DEF StatInv, SoundBaseline, BaselineAccepted, SameTrafficIsNoDrift, alike
<1> QED BY <1>1, <1>2, <1>3, <1>4, <1>5 DEF StatNext

\* Whatever the sample, the window, the vocabulary and the number of bins: the
\* baseline of a sample that is not empty is accepted unless a number of it
\* reads as inf, only its top bucket can be empty, and traffic in the same
\* proportions as the sample is not called drift (drift.py:56-231).
THEOREM BaselineIsSound == StatSpec => []SoundBaseline
<1>1. StatInv => SoundBaseline
  BY DEF StatInv
<1> QED BY <1>1, StatBegins, StatStep, PTL DEF StatSpec

-----------------------------------------------------------------------------
(***************************************************************************)
(* Types.  Every code is an integer.                                       *)
(***************************************************************************)
LEMMA CodesAreIntegers ==
    ASSUME NEW c \in FeatureColumns, NEW text, Accepts(c, text)
    PROVE  EncodeText(c, text) \in Int
<1>1. CASE c \in Numeric
  <2>1. ~Blank(text) => Halves[text] \in Int
    BY <1>1, AcceptedNumbers DEF Infinity
  <2> QED BY <1>1, <2>1 DEF EncodeText
<1>2. CASE c \in Categories
  <2>1. PICK values : Table(c) = OrdinalMap(values)
    BY <1>2, TheColumns DEF CategoryMaps, Categories
  <2>2. c \notin Numeric /\ text \in DOMAIN OrdinalMap(values)
    BY <1>2, <2>1, AcceptedEncodes DEF Categories, Numeric
  <2>3. PICK k \in 1..Len(values) : values[k] = text
    BY <2>2 DEF OrdinalMap
  <2> DEFINE j == CHOOSE n \in 1..Len(values) : values[n] = text
  <2>4. j \in 1..Len(values)
    BY <2>3
  <2>5. OrdinalMap(values)[text] = j - 1
    BY <2>2 DEF OrdinalMap
  <2> HIDE DEF j
  <2>6. j \in Int
    BY <2>4
  <2> QED BY <2>1, <2>2, <2>5, <2>6 DEF EncodeText
<1>3. CASE c \in {"Partner", "MultipleLines", "OnlineSecurity"}
  <2>1. c \notin Numeric /\ Table(c) = YesNoMap /\ text \in DOMAIN YesNoMap
    BY <1>3, TheColumns, AcceptedEncodes DEF Numeric
  <2>2. \A v \in DOMAIN YesNoMap :
           YesNoMap[v] = IF v = "No" THEN 0 ELSE IF v = "Yes" THEN 1 ELSE 2
    BY DEF YesNoMap
  <2>3. PICK code : code = YesNoMap[text]
    OBVIOUS
  <2>4. code \in {0, 1, 2}
    BY <2>1, <2>2, <2>3
  <2>5. YesNoMap[text] \in Int
    BY <2>3, <2>4
  <2> QED BY <2>1, <2>5 DEF EncodeText
<1> QED BY <1>1, <1>2, <1>3, TheColumns

RecordTexts == \A c \in FeatureColumns : record[c] \in Texts(c)

LEMMA RecordsTyped == RecordInv /\ RecordTexts => RecordTypeOK
<1> SUFFICES ASSUME RecordInv, RecordTexts PROVE RecordTypeOK
  OBVIOUS
<1>1. \A c \in FeatureColumns : Validates(record) => EncodeText(c, record[c]) \in Int
  BY CodesAreIntegers DEF Validates
<1>2. \A c \in FeatureColumns :
         Validates(record) /\ record["tenure"] # "huge" =>
             EncodeTyped(c, Typed(c, record[c])) = EncodeText(c, record[c])
  BY AcceptedEncodes DEF Validates, TooLong
<1>3. trained # Nothing => trained \in [FeatureColumns -> Int]
  BY <1>1 DEF RecordInv
<1>4. answered # Nothing => answered \in [FeatureColumns -> Int]
  BY <1>1, <1>2 DEF RecordInv
<1>5. ASSUME NEW code \in {trained, answered}, code # Nothing
      PROVE  code \in [FeatureColumns -> Int]
  <2>1. CASE code = trained
    BY <1>3, <1>5, <2>1, Zenon
  <2>2. CASE code = answered
    BY <1>4, <1>5, <2>2, Zenon
  <2> QED BY <1>5, <2>1, <2>2, Zenon
<1>6. curatedRow \in {Nothing, record}
  BY Zenon DEF RecordInv
<1>7. \A c \in FeatureColumns : record[c] \in Texts(c)
  BY Zenon DEF RecordTexts
<1>8. failed \subseteq {"training", "prediction"}
  BY DEF RecordInv
<1> QED BY <1>5, <1>6, <1>7, <1>8, Zenon DEF RecordTypeOK

LEMMA TextsStay == RecordTexts /\ [RecordNext]_recordVars => RecordTexts'
<1>1. [RecordNext]_recordVars => record' = record
  BY DEF RecordNext, recordVars, Curate, Ask, TrainOn, Answer
<1> QED BY <1>1 DEF RecordTexts

LEMMA PlainIsTyped == \A c \in FeatureColumns : Plain[c] \in Texts(c)
<1> SUFFICES ASSUME NEW c \in FeatureColumns PROVE Plain[c] \in Texts(c)
  OBVIOUS
<1>1. CASE c \in Numeric
  BY <1>1 DEF Plain, Texts, NumberTexts
<1>2. CASE c \notin Numeric
  <2>1. \E v : v \in Vocabulary(c)
    <3>1. CASE c \in Categories
      <4>1. Vocabulary(c) = DOMAIN CategoryMaps[c]
        BY <3>1, TheColumns
      <4>2. \E list : CategoryMaps[c] = OrdinalMap(list) /\ Len(list) \in {2, 3, 4}
        <5>1. CASE c = "gender"
          <6> DEFINE list == <<"Female", "Male">>
          <6>1. CategoryMaps[c] = OrdinalMap(list) /\ Len(list) = 2
            BY <5>1 DEF CategoryMaps
          <6> QED BY <6>1
        <5>2. CASE c = "InternetService"
          <6> DEFINE list == <<"No", "DSL", "Fiber optic">>
          <6>1. CategoryMaps[c] = OrdinalMap(list) /\ Len(list) = 3
            BY <5>2 DEF CategoryMaps
          <6> QED BY <6>1
        <5>3. CASE c = "Contract"
          <6> DEFINE list == <<"Month-to-month", "One year", "Two year">>
          <6>1. CategoryMaps[c] = OrdinalMap(list) /\ Len(list) = 3
            BY <5>3 DEF CategoryMaps
          <6> QED BY <6>1
        <5>4. CASE c = "PaymentMethod"
          <6> DEFINE list == <<"Electronic check", "Mailed check",
                               "Bank transfer (automatic)", "Credit card (automatic)">>
          <6>1. CategoryMaps[c] = OrdinalMap(list) /\ Len(list) = 4
            BY <5>4 DEF CategoryMaps
          <6> QED BY <6>1
        <5> QED BY <3>1, <5>1, <5>2, <5>3, <5>4 DEF Categories
      <4>3. PICK rest : CategoryMaps[c] = OrdinalMap(rest) /\ Len(rest) \in {2, 3, 4}
        BY <4>2
      <4>4. 1 \in 1..Len(rest)
        BY <4>3
      <4>5. rest[1] \in DOMAIN OrdinalMap(rest)
        BY <4>4 DEF OrdinalMap
      <4> QED BY <4>1, <4>3, <4>5
    <3>2. CASE c \in {"Partner", "MultipleLines", "OnlineSecurity"}
      BY <3>2 DEF Vocabulary, AddonVocabulary, YesNo
    <3> QED BY <1>2, <3>1, <3>2, TheColumns
  <2>2. Plain[c] \in Vocabulary(c)
    BY <1>2, <2>1 DEF Plain
  <2> QED BY <1>2, <2>2 DEF Texts
<1> QED BY <1>1, <1>2

LEMMA InputsAreTyped == RecordInputs \/ NoRecord => RecordTexts
<1>1. NoRecord => RecordTexts
  BY PlainIsTyped DEF NoRecord, RecordTexts
<1>2. ASSUME NEW c \in FeatureColumns, NEW d \in FeatureColumns,
             NEW v \in Texts(c), NEW w \in Texts(d),
             record = [Plain EXCEPT ![c] = v, ![d] = w]
      PROVE  RecordTexts
  <2>1. DOMAIN Plain = FeatureColumns
    BY DEF Plain
  <2>2. \A x \in FeatureColumns :
           record[x] = IF x = d THEN w ELSE IF x = c THEN v ELSE Plain[x]
    BY <1>2, <2>1
  <2> QED BY <2>2, PlainIsTyped DEF RecordTexts
<1> QED BY <1>1, <1>2 DEF RecordInputs

-----------------------------------------------------------------------------
(***************************************************************************)
(* The baseline and what is made of it.                                    *)
(***************************************************************************)
StatTyped ==
    /\ baseline \in {NoBaseline, BaselineOf(sample)}
    /\ index \in [Columns -> {"none", "zero", "drift", "severe"}]
    /\ drifted \in BOOLEAN
    /\ step \in {"build", "validate", "score", "verdict", "done", "rejected"}

LEMMA StatTypedStep == StatTyped /\ [StatNext]_statVars => StatTyped'
<1> SUFFICES ASSUME StatTyped, [StatNext]_statVars PROVE StatTyped'
  OBVIOUS
<1>0. sample' = sample /\ BaselineOf(sample)' = BaselineOf(sample)
  <2>1. sample' = sample
    BY DEF StatNext, statVars, BuildBaseline, ValidateBaseline, ScoreWindow, GiveVerdict
  <2> QED BY <2>1
<1> USE DEF StatTyped
<1>1. CASE UNCHANGED statVars
  BY <1>0, <1>1 DEF statVars
<1>2. CASE BuildBaseline
  BY <1>0, <1>2 DEF BuildBaseline
<1>3. CASE ValidateBaseline
  BY <1>0, <1>3 DEF ValidateBaseline
<1>4. CASE ScoreWindow
  BY <1>0, <1>4 DEF ScoreWindow
<1>5. CASE GiveVerdict
  BY <1>0, <1>5 DEF GiveVerdict
<1> QED BY <1>1, <1>2, <1>3, <1>4, <1>5 DEF StatNext

LEMMA BaselineTyped ==
    ASSUME StatInputs
    PROVE  BaselineOf(sample).edges \subseteq Numbers /\ BaselineOf(sample).total \in 0..MaxSample
<1>1. PICK k \in 0..MaxSample : sample \in [1..k -> SampleRow]
  BY DEF StatInputs, UpTo
<1>2. Len(sample) \in Nat /\ sample \in [1..Len(sample) -> SampleRow]
  BY RowsHaveLength, StatisticConstants DEF StatInputs
<1>3. Len(sample) = k
  BY <1>1, <1>2, StatisticConstants
<1>4. BaselineOf(sample).total = Len(sample) /\ BaselineOf(sample).edges = Edges(sample)
  BY DEF BaselineOf
<1>5. Edges(sample) \subseteq Numbers
  <2>1. CASE sample = <<>>
    BY <2>1 DEF Edges
  <2>2. CASE sample # <<>>
    <3>1. Edges(sample) \in SUBSET NumbersOf(sample)
      BY <2>2, SampleIs, EdgesAre
    <3>2. NumbersOf(sample) \subseteq Numbers
      BY <1>2 DEF NumbersOf, SampleRow
    <3> QED BY <3>1, <3>2
  <2> QED BY <2>1, <2>2
<1> QED BY <1>3, <1>4, <1>5

LEMMA StatIsTyped == StatInputs /\ StatTyped => StatTypeOK
<1> SUFFICES ASSUME StatInputs, StatTyped PROVE StatTypeOK
  OBVIOUS
<1>1. NoBaseline.edges \subseteq Numbers /\ NoBaseline.total \in 0..MaxSample
  BY StatisticConstants DEF NoBaseline
<1> QED BY <1>1, BaselineTyped DEF StatInputs, StatTyped, StatTypeOK

LEMMA InputsStay == StatInputs /\ [StatNext]_statVars => StatInputs'
<1>1. [StatNext]_statVars => sample' = sample /\ window' = window
  BY DEF StatNext, statVars, BuildBaseline, ValidateBaseline, ScoreWindow, GiveVerdict
<1> QED BY <1>1 DEF StatInputs

-----------------------------------------------------------------------------
(***************************************************************************)
(* All parts together.  A part keeps its own invariant, whichever part the *)
(* behaviour exercises: its other steps leave the part's state alone.      *)
(***************************************************************************)
LEMMA OrdersAreLabels == SplitInputs => shuffled \in Seq(Labels)
<1> SUFFICES ASSUME NEW n \in Counts, NEW c \in Classes, NEW b \in Labels, NEW r, NEW odd,
                    shuffled = Order(n, c, r, b, odd)
             PROVE  shuffled \in Seq(Labels)
  BY DEF SplitInputs
<1>1. n \in Nat
  BY CountsOfRecords
<1>2. OtherClass(c) \in Classes
  BY DEF OtherClass, Classes
<1>3. shuffled \in [1..n -> Labels]
  BY <1>2 DEF Order, Labels
<1> QED BY <1>1, <1>3, SeqDef

LEMMA SplitsMove == SplitInv /\ [SplitsNext]_splitsVars => SplitInv'
BY SliceStep, ReserveStep, SkipSteps, DealStep, ValidateStep, SplitStutters DEF SplitsNext

\* A part without records is rejected before it starts.
LEMMA NothingSplit == NoSplit => SplitInv
<1> SUFFICES ASSUME NoSplit PROVE SplitInv
  OBVIOUS
<1>1. Count = 0 /\ ShuffledRows = {}
  BY DEF NoSplit, Count, ShuffledRows
<1>2. shuffled \in Seq(Labels) /\ splits \in [SplitNames -> Seq(ShuffledRows)]
  BY DEF NoSplit, SplitsStart, NoSplits
<1>3. SplitsTypeOK
  BY <1>1, <1>2 DEF NoSplit, SplitsStart, SplitsTypeOK, SplitNames, TrainSplit
<1>4. phase = "rejected"
  BY DEF NoSplit, SplitsStart
<1>5. SoundSplits
  BY <1>1, <1>4 DEF SoundSplits, SplitsPartitionRows, SizesKept, RejectsOnlyUnsplittable
<1> QED BY <1>3, <1>4, <1>5 DEF SplitInv

LEMMA SplitsBegin == SplitsStart("slice") /\ SplitInputs => SplitInv
BY OrdersAreLabels, SplitStart DEF SplitsInit

LEMMA StatTypeStart == StatStart => StatTyped
BY DEF StatStart, StatTyped

LEMMA SamplesAreTyped == NoSample \/ StatInputs => StatInputs
<1>1. <<>> \in [1..0 -> SampleRow] /\ <<>> \in [1..0 -> WindowRow]
  OBVIOUS
<1>2. 0 \in 0..MaxSample /\ 0 \in 0..MaxWindow
  BY StatisticConstants
<1> QED BY <1>1, <1>2 DEF NoSample, StatInputs, UpTo

LEMMA RecordBegins == RecordStart => RecordInv
BY DEF RecordStart, RecordInv

DataInv ==
    /\ IInv
    /\ RecordInv /\ RecordTexts
    /\ SplitInv
    /\ StatInputs /\ StatTyped
    /\ PromotionInv

\* The variables of all parts of the data path keep their types, from an upload
\* to a champion, for every value of the constants.
THEOREM DataTypes == MCSpec => []DataTypeOK
<1>1. MCInit => DataInv
  BY InitInvariant, RecordBegins, InputsAreTyped, SplitsBegin, NothingSplit, SamplesAreTyped,
     StatTypeStart, InitIInv DEF MCInit, DataInv
<1>2. MCNext => /\ [Next]_vars /\ [RecordNext]_recordVars /\ [SplitsNext]_splitsVars
                /\ [StatNext]_statVars /\ [PromotionNext]_promotionVars
  BY DEF MCNext
<1>3. DataInv /\ [MCNext]_<<part, vars, recordVars, splitsVars, statVars, promotionVars>>
          => DataInv'
  BY <1>2, StepInvariant, RecordStep, TextsStay, SplitsMove, InputsStay, StatTypedStep, NextIInv
     DEF DataInv
<1>4. DataInv => DataTypeOK
  BY RecordsTyped, StatIsTyped DEF DataInv, DataTypeOK, IInv, SplitInv, PromotionInv
<1> QED BY <1>1, <1>3, <1>4, PTL DEF MCSpec

=============================================================================
