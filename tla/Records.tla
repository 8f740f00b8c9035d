------------------------------ MODULE Records ------------------------------
(***************************************************************************)
(* One customer record on both its ways through the platform: uploaded as  *)
(* a CSV row, validated, curated and encoded for training                  *)
(* (validate_handler.py, preprocess.py), and sent to the API, validated,   *)
(* encoded for the endpoint and captured (proxy_handler.py).  Both ways    *)
(* share src/src/common/schema.py and features.py, but validation yields   *)
(* typed values and only the API uses them: training and the drift         *)
(* baseline read the raw text of the row again.                            *)
(*                                                                         *)
(* A raw value is the text of a field.  Number texts stand for classes of  *)
(* texts: "1.5" has a fraction, "inf" is one of the words float() takes    *)
(* for a value that is not finite, "huge" is a whole number of more digits *)
(* than a float can hold, and "" and " " are blank.                        *)
(***************************************************************************)
EXTENDS Integers, Sequences, FiniteSets

\* Columns of one vocabulary are represented by one of them (OnlineSecurity for
\* six, Partner for four).
FeatureColumns == {"gender", "SeniorCitizen", "Partner", "tenure", "MultipleLines",
                   "OnlineSecurity", "InternetService", "Contract", "PaymentMethod",
                   "MonthlyCharges", "TotalCharges"}
Numeric == {"SeniorCitizen", "tenure", "MonthlyCharges", "TotalCharges"}

YesNo == {"Yes", "No"}

\* YES_NO_MAP and CATEGORY_MAPS; sequences list the codes 0, 1, ...
YesNoMap == [v \in YesNo \cup {"No phone service", "No internet service"} |->
                IF v = "No" THEN 0 ELSE IF v = "Yes" THEN 1 ELSE 2]
OrdinalMap(values) == [v \in {values[k] : k \in 1..Len(values)} |->
                          (CHOOSE k \in 1..Len(values) : values[k] = v) - 1]
CategoryMaps ==
    [gender |-> OrdinalMap(<<"Female", "Male">>),
     InternetService |-> OrdinalMap(<<"No", "DSL", "Fiber optic">>),
     Contract |-> OrdinalMap(<<"Month-to-month", "One year", "Two year">>),
     PaymentMethod |-> OrdinalMap(<<"Electronic check", "Mailed check",
                                    "Bank transfer (automatic)", "Credit card (automatic)">>)]

AddonVocabulary == YesNo \cup {"No internet service"}

\* FEATURE_VOCABULARY.
Vocabulary(c) ==
    CASE c = "Partner" -> YesNo
      [] c = "MultipleLines" -> YesNo \cup {"No phone service"}
      [] c = "OnlineSecurity" -> AddonVocabulary
      [] OTHER -> DOMAIN CategoryMaps[c]

VARIABLES
    record,      \* column -> its text, or Absent
    label,       \* the text of the label, or Absent
    curatedRow,  \* the row validation kept (Nothing before, or when rejected)
    trained,     \* its encoding for training
    asked,       \* typed values of the request (Nothing when rejected)
    answered,    \* its encoding for the endpoint
    failed       \* the ways on which an encoding raised

recordVars == <<record, label, curatedRow, trained, asked, answered, failed>>

Absent == "absent"
Nothing == <<>>

NumberTexts == {"0", "1", "2", "-1", "1.5", "inf", "huge", "", " ", "many"}
Texts(c) == {Absent, "other"} \cup
            IF c \in Numeric THEN NumberTexts
            ELSE Vocabulary(c) \cup {"No phone service", "No internet service"}

Plain == [c \in FeatureColumns |->
             IF c \in Numeric THEN "1" ELSE CHOOSE v \in Vocabulary(c) : TRUE]

\* Any record that differs from a plain one in at most two columns.
RecordInputs ==
    /\ \E c, d \in FeatureColumns : \E v \in Texts(c), w \in Texts(d) :
          record = [Plain EXCEPT ![c] = v, ![d] = w]
    /\ label \in {Absent, "", "Yes", "No", "Maybe"}

RecordStart ==
    /\ curatedRow = Nothing /\ trained = Nothing
    /\ asked = Nothing /\ answered = Nothing
    /\ failed = {}

RecordInit == RecordInputs /\ RecordStart

RecordTypeOK ==
    /\ \A c \in FeatureColumns : record[c] \in Texts(c)
    /\ curatedRow \in {Nothing, record}
    /\ \A code \in {trained, answered} :
          code # Nothing => code \in [FeatureColumns -> Int]
    /\ failed \subseteq {"training", "prediction"}

-----------------------------------------------------------------------------
Blank(text) == text \in {"", " "}

\* The float inf, and an int that float() cannot convert.
Infinity == 1000
BeyondFloat == 2000

\* float(), for the texts it accepts; halves, to keep 1.5 an integer.  The text
\* of a huge number gives inf.
Halves == [t \in {"0", "1", "2", "-1", "1.5", "inf", "huge"} |->
              CASE t = "0" -> 0 [] t = "1" -> 2 [] t = "2" -> 4
                [] t = "-1" -> -2 [] t = "1.5" -> 3 [] OTHER -> Infinity]
Finite == {"0", "1", "2", "-1", "1.5"}
Whole == {"0", "1", "2", "-1", "huge"}

\* CustomerRecord, field by field: types, ranges and _known_category.  An int
\* has any number of digits, and tenure no upper bound.
Accepts(c, text) ==
    CASE c = "SeniorCitizen" -> text \in Whole /\ Halves[text] \in 0..2
      [] c = "tenure" -> text \in Whole /\ Halves[text] >= 0
      [] c = "MonthlyCharges" -> text \in Finite /\ Halves[text] >= 0
      [] c = "TotalCharges" -> Blank(text) \/ (text \in Finite /\ Halves[text] >= 0)
      [] OTHER -> text \in Vocabulary(c)

Validates(r) == \A c \in FeatureColumns : Accepts(c, r[c])

\* Mutant of Typed: charges are whole numbers.
TypedWhole(c, text) ==
    IF c \notin Numeric THEN text ELSE IF Blank(text) THEN 0 ELSE 2 * (Halves[text] \div 2)

\* What validation makes of an accepted text; _blank_total.
Typed(c, text) ==
    IF c \notin Numeric THEN text
    ELSE IF Blank(text) THEN 0
    ELSE IF c = "tenure" /\ text = "huge" THEN BeyondFloat ELSE Halves[text]

\* validate_rows: the label is required and checked, the row is kept as it is.
Curate ==
    /\ curatedRow = Nothing
    /\ label \in YesNo
    /\ Validates(record)
    /\ curatedRow' = record
    /\ UNCHANGED <<record, label, trained, asked, answered, failed>>

\* CustomerRecord.model_validate of the request.
Ask ==
    /\ asked = Nothing
    /\ Validates(record)
    /\ asked' = [c \in FeatureColumns |-> Typed(c, record[c])]
    /\ UNCHANGED <<record, label, curatedRow, trained, answered, failed>>

-----------------------------------------------------------------------------
Table(c) == IF c \in DOMAIN CategoryMaps THEN CategoryMaps[c] ELSE YesNoMap

\* Mutant of CanEncodeText: float() of a blank text.
CanEncodeUnblanked(c, text) == IF c \in Numeric THEN text \in DOMAIN Halves
                                                ELSE text \in DOMAIN Table(c)

\* encode_features, of a raw text or of a typed value.
CanEncodeText(c, text) == IF c \in Numeric THEN Blank(text) \/ text \in DOMAIN Halves
                                           ELSE text \in DOMAIN Table(c)
EncodeText(c, text) == IF c \notin Numeric THEN Table(c)[text]
                       ELSE IF Blank(text) THEN 0 ELSE Halves[text]
CanEncodeTyped(c, v) == IF c \in Numeric THEN v # BeyondFloat ELSE v \in DOMAIN Table(c)
EncodeTyped(c, v) == IF c \in Numeric THEN v ELSE Table(c)[v]

\* encode_labeled_row.
TrainOn ==
    /\ curatedRow # Nothing /\ trained = Nothing /\ "training" \notin failed
    /\ IF \A c \in FeatureColumns : CanEncodeText(c, curatedRow[c])
       THEN /\ trained' = [c \in FeatureColumns |-> EncodeText(c, curatedRow[c])]
            /\ UNCHANGED failed
       ELSE failed' = failed \cup {"training"} /\ UNCHANGED trained
    /\ UNCHANGED <<record, label, curatedRow, asked, answered>>

\* The proxy encodes the typed values; nothing catches what that raises.
Answer ==
    /\ asked # Nothing /\ answered = Nothing /\ "prediction" \notin failed
    /\ IF \A c \in FeatureColumns : CanEncodeTyped(c, asked[c])
       THEN /\ answered' = [c \in FeatureColumns |-> EncodeTyped(c, asked[c])]
            /\ UNCHANGED failed
       ELSE failed' = failed \cup {"prediction"} /\ UNCHANGED answered
    /\ UNCHANGED <<record, label, curatedRow, trained, asked>>

RecordNext == Curate \/ Ask \/ TrainOn \/ Answer

-----------------------------------------------------------------------------
\* numeric_value, of a row of the training split and of a captured record:
\* float() of the text of either.  A category is its own bucket.
ReadText(c, text) ==
    IF c \notin Numeric THEN text ELSE IF Blank(text) THEN 0 ELSE Halves[text]
ReadTyped(c, v) == IF c \in Numeric /\ v = BeyondFloat THEN Infinity ELSE v

-----------------------------------------------------------------------------
(***************************************************************************)
(* What validation accepts can be encoded: no record the platform took     *)
(* makes encoding for training raise, and a prediction raises on one only  *)
(* for a tenure beyond the float range, which validation takes, float()    *)
(* raises on and the proxy does not catch (schema.py:37 and 54-76 against  *)
(* features.py:86-99, proxy_handler.py:107).  And what it keeps apart      *)
(* stays apart: in no column do two values of the vocabulary get one code, *)
(* though YES_NO_MAP gives 2 to two of its values.                         *)
(***************************************************************************)
AcceptedIsEncoded ==
    /\ "training" \notin failed
    /\ "prediction" \in failed => record["tenure"] = "huge"
    /\ curatedRow # Nothing =>
          \A c \in FeatureColumns \ Numeric : \A v \in Vocabulary(c) :
              Table(c)[v] = Table(c)[curatedRow[c]] => v = curatedRow[c]

(***************************************************************************)
(* No skew between training and serving.  A record that is trained on and  *)
(* answered has one encoding (features.py:86-99).  And the drift statistic *)
(* reads the raw text of the row, from which the baseline is built, and    *)
(* the typed values that are captured once the request is answered, as the *)
(* same value, so in the same bucket whatever the edges are                *)
(* (drift.py:48-53 and 72-81, proxy_handler.py:64-85).                     *)
(***************************************************************************)
TrainsAsServed ==
    /\ trained # Nothing /\ answered # Nothing => trained = answered
    /\ curatedRow # Nothing /\ answered # Nothing =>
          \A c \in FeatureColumns : ReadText(c, curatedRow[c]) = ReadTyped(c, asked[c])

=============================================================================
