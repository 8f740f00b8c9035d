-------------------------- MODULE Lineage_proofs ---------------------------
(***************************************************************************)
(* Proofs about the two ends of the data path: Ingestion, from uploads to  *)
(* curated objects, for every receive limit, set of uploads and bound on   *)
(* uploads, messages and failures; and Promotion, from data to a champion, *)
(* for every set of data versions, range of AUCs and number of executions. *)
(***************************************************************************)
EXTENDS Ingestion, Promotion, TLAPS

USE ConstantsOK DEF Messages

Past == {"write_valid", "write_rejected", "return"}

\* An upload that cannot be handled whatever the calls do.
BadUpload == \E v \in 1..Len(raw) : ~Parses(raw[v]) \/ ~Writable(raw[v])

(***************************************************************************)
(* Messages exist for uploads only, an invocation that writes has read a   *)
(* version, and a message that waits may still be received.                *)
(***************************************************************************)
Received ==
    /\ sent > 0 => Len(raw) > 0
    /\ \A m \in Messages :
          /\ at[m] = "unsent" => receives[m] = 0
          /\ at[m] = "queued" => receives[m] < ReceiveLimit
          /\ Running(m) => receives[m] > 0
          /\ at[m] = "dead" => receives[m] = ReceiveLimit
          /\ at[m] \in Past => read[m] > 0

\* Every failed receive of a message was a failed call, or an upload is bad.
Cause ==
    \/ BadUpload
    \/ \A m \in Messages :
          /\ at[m] \in {"queued", "dead"} => receives[m] <= faults
          /\ Running(m) => receives[m] <= faults + 1

\* Without overlap the only invocation writes nothing older than the objects.
Alone ==
    ~overlapped =>
        /\ \A m, n \in Messages : Running(m) /\ Running(n) => m = n
        /\ \A m \in Messages :
              /\ at[m] \in Past => curated <= read[m] /\ quarantine <= read[m]
              /\ at[m] \in {"write_rejected", "return"} => curated = read[m]
              /\ at[m] = "return" => quarantine = read[m]

\* Somebody still has the newest upload to write.
Pending(m) ==
    \/ at[m] \in {"queued", "get_object", "dead"}
    \/ at[m] \in Past /\ read[m] = Len(raw)

Covered ==
    ~overlapped =>
        \/ \E m \in Messages : Pending(m)
        \/ curated = Len(raw) /\ quarantine = Len(raw)

IInv == TypeOK /\ Received /\ Cause /\ Alone /\ Covered

LEMMA InitInvariant == Init => IInv
<1> SUFFICES ASSUME Init PROVE IInv
  OBVIOUS
<1>1. raw \in Seq(Uploads) /\ Len(raw) = 0
  BY DEF Init
<1>2. /\ 0 \in 0..MaxFaults /\ 0 \in 0..MaxMessages /\ 0 <= MaxUploads
      /\ 0 \in 0..ReceiveLimit
  OBVIOUS
<1>3. TypeOK
  <2>1. curated \in 0..Len(raw) /\ quarantine \in 0..Len(raw) /\ Len(raw) <= MaxUploads
    BY <1>1, <1>2 DEF Init
  <2>2. read \in [Messages -> 0..Len(raw)] /\ receives \in [Messages -> 0..ReceiveLimit]
    BY <1>1, <1>2 DEF Init
  <2>3. /\ at \in [Messages -> {"unsent", "queued", "done", "dead"} \cup InFlight]
        /\ \A m \in Messages : at[m] = "unsent" <=> m > sent
    BY DEF Init
  <2>4. sent \in 0..MaxMessages /\ faults \in 0..MaxFaults /\ overlapped \in BOOLEAN
    BY <1>2 DEF Init
  <2> QED BY <1>1, <2>1, <2>2, <2>3, <2>4 DEF TypeOK
<1> QED BY <1>1, <1>3 DEF Init, IInv, Received, Cause, Alone, Covered, Running, InFlight, Past

\* What a step does to the uploads: it leaves them alone or appends one.
LEMMA StepRaw ==
    ASSUME TypeOK, [Next]_vars
    PROVE  \/ raw' = raw
           \/ \E upload \in Uploads : raw' = Append(raw, upload)
BY DEF Next, vars, PutRawObject, Handle, Receive, GetObject, WriteValid, WriteRejected,
       Return, Fault

LEMMA RawGrows ==
    ASSUME TypeOK, NEW upload \in Uploads, raw' = Append(raw, upload)
    PROVE  /\ raw' \in Seq(Uploads) /\ Len(raw') = Len(raw) + 1
           /\ \A v \in 1..Len(raw) : raw'[v] = raw[v]
BY DEF TypeOK

LEMMA BadStays == ASSUME TypeOK, [Next]_vars, BadUpload PROVE BadUpload'
<1>1. CASE raw' = raw
  BY <1>1 DEF BadUpload, Parses, Writable
<1>2. ASSUME NEW upload \in Uploads, raw' = Append(raw, upload) PROVE BadUpload'
  <2>1. Len(raw) \in Nat
    BY DEF TypeOK
  <2>2. PICK v \in 1..Len(raw) : ~Parses(raw[v]) \/ ~Writable(raw[v])
    BY DEF BadUpload
  <2>3. v \in 1..Len(raw') /\ raw'[v] = raw[v]
    BY <1>2, <2>1, <2>2, RawGrows
  <2> QED BY <2>2, <2>3 DEF BadUpload, Parses, Writable
<1> QED BY <1>1, <1>2, StepRaw

\* A step of one message keeps at well-typed and nothing becomes unsent.
LEMMA AtStep ==
    ASSUME TypeOK, NEW m \in Messages, at[m] # "unsent", sent' = sent,
           NEW x \in {"queued", "done", "dead"} \cup InFlight, at' = [at EXCEPT ![m] = x]
    PROVE  /\ at' \in [Messages -> {"unsent", "queued", "done", "dead"} \cup InFlight]
           /\ \A n \in Messages : at'[n] = "unsent" <=> n > sent'
BY DEF TypeOK, InFlight

LEMMA RaiseStep ==
    ASSUME TypeOK, NEW m \in Messages, Running(m), Raise(m), sent' = sent
    PROVE  /\ at' \in [Messages -> {"unsent", "queued", "done", "dead"} \cup InFlight]
           /\ \A n \in Messages : at'[n] = "unsent" <=> n > sent'
BY AtStep DEF Raise, Running, InFlight

-----------------------------------------------------------------------------
LEMMA StepTypeOK == ASSUME IInv, [Next]_vars PROVE TypeOK'
<1> USE DEF IInv
<1>1. CASE UNCHANGED vars
  BY <1>1 DEF TypeOK, vars
<1>2. CASE PutRawObject
  <2>1. PICK upload \in Uploads : raw' = Append(raw, upload)
    BY <1>2 DEF PutRawObject
  <2>2. raw' \in Seq(Uploads) /\ Len(raw') = Len(raw) + 1
    BY <2>1, RawGrows
  <2> QED BY <1>2, <2>2, SMTT(30) DEF PutRawObject, TypeOK, InFlight
<1>3. ASSUME NEW m \in Messages, Receive(m) PROVE TypeOK'
  BY <1>3 DEF Receive, TypeOK, Received, Running, InFlight
<1>4. ASSUME NEW m \in Messages, GetObject(m) PROVE TypeOK'
  <2>1. Len(raw) \in 0..Len(raw)
    BY DEF TypeOK
  <2>2. CASE Raise(m) /\ UNCHANGED read
    BY <1>4, <2>2, RaiseStep DEF GetObject, TypeOK, Running, InFlight
  <2>3. CASE read' = [read EXCEPT ![m] = Len(raw)] /\ Proceed(m, "write_valid")
    BY <1>4, <2>1, <2>3, AtStep DEF GetObject, Proceed, TypeOK, InFlight
  <2> QED BY <1>4, <2>2, <2>3 DEF GetObject
<1>5. ASSUME NEW m \in Messages, WriteValid(m) PROVE TypeOK'
  <2>1. CASE Raise(m) /\ UNCHANGED curated
    BY <1>5, <2>1, RaiseStep DEF WriteValid, TypeOK, Running, InFlight
  <2>2. CASE curated' = read[m] /\ Proceed(m, "write_rejected")
    BY <1>5, <2>2, AtStep DEF WriteValid, Proceed, TypeOK, InFlight
  <2> QED BY <1>5, <2>1, <2>2 DEF WriteValid
<1>6. ASSUME NEW m \in Messages, WriteRejected(m) PROVE TypeOK'
  <2>1. CASE Raise(m) /\ UNCHANGED quarantine
    BY <1>6, <2>1, RaiseStep DEF WriteRejected, TypeOK, Running, InFlight
  <2>2. CASE quarantine' = read[m] /\ Proceed(m, "return")
    BY <1>6, <2>2, AtStep DEF WriteRejected, Proceed, TypeOK, InFlight
  <2> QED BY <1>6, <2>1, <2>2 DEF WriteRejected
<1>7. ASSUME NEW m \in Messages, Return(m) PROVE TypeOK'
  BY <1>7 DEF Return, Proceed, TypeOK, InFlight
<1>8. ASSUME NEW m \in Messages, Fault(m) PROVE TypeOK'
  BY <1>8, RaiseStep DEF Fault, TypeOK, Running
<1> QED BY <1>1, <1>2, <1>3, <1>4, <1>5, <1>6, <1>7, <1>8 DEF Next, Handle

LEMMA StepReceived == ASSUME IInv, [Next]_vars PROVE Received'
<1> USE DEF IInv, TypeOK, Received, Running, InFlight, Past
<1>1. CASE UNCHANGED vars
  BY <1>1 DEF vars
<1>2. CASE PutRawObject
  <2>1. PICK upload \in Uploads : raw' = Append(raw, upload)
    BY <1>2 DEF PutRawObject
  <2>2. Len(raw') = Len(raw) + 1
    BY <2>1, RawGrows
  <2> QED BY <1>2, <2>2 DEF PutRawObject
<1>3. ASSUME NEW m \in Messages, Receive(m) PROVE Received'
  BY <1>3 DEF Receive
<1>4. ASSUME NEW m \in Messages, GetObject(m) PROVE Received'
  <2>1. m <= sent /\ Len(raw) > 0
    BY <1>4 DEF GetObject
  <2>2. at[m] = "get_object" /\ receives[m] > 0 /\ UNCHANGED <<raw, sent, receives>>
    BY <1>4 DEF GetObject
  <2>3. CASE Parses(raw[Len(raw)])
    <3>1. read' = [read EXCEPT ![m] = Len(raw)] /\ at' = [at EXCEPT ![m] = "write_valid"]
      BY <1>4, <2>3 DEF GetObject, Proceed
    <3> QED BY <2>1, <2>2, <3>1
  <2>4. CASE ~Parses(raw[Len(raw)])
    <3>1. read' = read /\ Raise(m)
      BY <1>4, <2>4 DEF GetObject
    <3> QED BY <2>1, <2>2, <3>1 DEF Raise
  <2> QED BY <2>3, <2>4
<1>5. ASSUME NEW m \in Messages, WriteValid(m) PROVE Received'
  <2>1. /\ at[m] = "write_valid" /\ UNCHANGED <<raw, sent, receives, read>>
        /\ Raise(m) \/ Proceed(m, "write_rejected")
    BY <1>5 DEF WriteValid
  <2> QED BY <2>1, SMTT(30) DEF Raise, Proceed
<1>6. ASSUME NEW m \in Messages, WriteRejected(m) PROVE Received'
  <2>1. /\ at[m] = "write_rejected" /\ UNCHANGED <<raw, sent, receives, read>>
        /\ Raise(m) \/ Proceed(m, "return")
    BY <1>6 DEF WriteRejected
  <2> QED BY <2>1, SMTT(30) DEF Raise, Proceed
<1>7. ASSUME NEW m \in Messages, Return(m) PROVE Received'
  BY <1>7 DEF Return, Proceed
<1>8. ASSUME NEW m \in Messages, Fault(m) PROVE Received'
  BY <1>8 DEF Fault, Raise
<1> QED BY <1>1, <1>2, <1>3, <1>4, <1>5, <1>6, <1>7, <1>8 DEF Next, Handle

LEMMA StepCause == ASSUME IInv, [Next]_vars PROVE Cause'
<1>1. CASE BadUpload
  BY <1>1, BadStays DEF Cause, IInv
<1>2. CASE ~BadUpload
  <2> USE <1>2 DEF IInv, TypeOK, Cause, Received, Running, InFlight
  <2>1. CASE UNCHANGED vars
    BY <2>1 DEF vars
  <2>2. CASE PutRawObject
    BY <2>2 DEF PutRawObject
  <2>3. ASSUME NEW m \in Messages, Receive(m) PROVE Cause'
    BY <2>3 DEF Receive
  <2>4. ASSUME NEW m \in Messages, GetObject(m) PROVE Cause'
    <3>1. m <= sent /\ Len(raw) \in 1..Len(raw)
      BY <2>4 DEF GetObject
    <3>2. Parses(raw[Len(raw)])
      BY <3>1 DEF BadUpload
    <3> QED BY <2>4, <3>2 DEF GetObject, Proceed
  <2>5. ASSUME NEW m \in Messages, WriteValid(m) PROVE Cause'
    <3>1. read[m] \in 1..Len(raw)
      BY <2>5 DEF WriteValid, Past
    <3>2. raw[read[m]].valid # "ragged"
      BY <3>1 DEF BadUpload, Writable
    <3> QED BY <2>5, <3>2 DEF WriteValid, Proceed
  <2>6. ASSUME NEW m \in Messages, WriteRejected(m) PROVE Cause'
    <3>1. read[m] \in 1..Len(raw)
      BY <2>6 DEF WriteRejected, Past
    <3>2. raw[read[m]].rejected # "ragged"
      BY <3>1 DEF BadUpload, Writable
    <3> QED BY <2>6, <3>2 DEF WriteRejected, Proceed
  <2>7. ASSUME NEW m \in Messages, Return(m) PROVE Cause'
    BY <2>7 DEF Return, Proceed
  <2>8. ASSUME NEW m \in Messages, Fault(m) PROVE Cause'
    BY <2>8 DEF Fault, Raise
  <2> QED BY <2>1, <2>2, <2>3, <2>4, <2>5, <2>6, <2>7, <2>8 DEF Next, Handle
<1> QED BY <1>1, <1>2

LEMMA StepAlone == ASSUME IInv, [Next]_vars PROVE Alone'
<1> USE DEF IInv, TypeOK, Alone, Running, InFlight, Past
<1>1. CASE UNCHANGED vars
  BY <1>1 DEF vars
<1>2. CASE PutRawObject
  BY <1>2 DEF PutRawObject
<1>3. ASSUME NEW m \in Messages, Receive(m) PROVE Alone'
  BY <1>3 DEF Receive
<1>4. ASSUME NEW m \in Messages, GetObject(m) PROVE Alone'
  <2>1. CASE Raise(m) /\ UNCHANGED read
    BY <1>4, <2>1 DEF GetObject, Raise
  <2>2. CASE read' = [read EXCEPT ![m] = Len(raw)] /\ Proceed(m, "write_valid")
    <3>1. Len(raw) \in Nat /\ curated <= Len(raw) /\ quarantine <= Len(raw)
      OBVIOUS
    <3> QED BY <1>4, <2>2, <3>1 DEF GetObject, Proceed
  <2> QED BY <1>4, <2>1, <2>2 DEF GetObject
<1>5. ASSUME NEW m \in Messages, WriteValid(m) PROVE Alone'
  <2>1. CASE Raise(m) /\ UNCHANGED curated
    BY <1>5, <2>1 DEF WriteValid, Raise
  <2>2. CASE curated' = read[m] /\ Proceed(m, "write_rejected")
    <3>1. ~overlapped => \A n \in Messages : Running(n) => n = m
      BY <1>5 DEF WriteValid
    <3>2. ~overlapped => curated' <= read[m] /\ quarantine <= read[m]
      BY <1>5, <2>2 DEF WriteValid
    <3>3. \A n \in Messages : at'[n] = IF n = m THEN "write_rejected" ELSE at[n]
      BY <2>2 DEF Proceed
    <3> QED BY <1>5, <2>2, <3>1, <3>2, <3>3 DEF WriteValid
  <2> QED BY <1>5, <2>1, <2>2 DEF WriteValid
<1>6. ASSUME NEW m \in Messages, WriteRejected(m) PROVE Alone'
  BY <1>6 DEF WriteRejected, Raise, Proceed
<1>7. ASSUME NEW m \in Messages, Return(m) PROVE Alone'
  BY <1>7 DEF Return, Proceed
<1>8. ASSUME NEW m \in Messages, Fault(m) PROVE Alone'
  BY <1>8 DEF Fault, Raise
<1> QED BY <1>1, <1>2, <1>3, <1>4, <1>5, <1>6, <1>7, <1>8 DEF Next, Handle

\* A step that leaves m pending, and m was the witness, keeps Covered.
LEMMA StepCovered == ASSUME IInv, [Next]_vars PROVE Covered'
<1> USE DEF IInv, TypeOK, Covered, Pending, Past
<1>1. CASE UNCHANGED vars
  BY <1>1 DEF vars
<1>2. CASE PutRawObject
  <2>1. PICK copies \in 1..2 :
          /\ sent + copies <= MaxMessages
          /\ at' = [m \in Messages |->
                        IF m > sent /\ m <= sent + copies THEN "queued" ELSE at[m]]
    BY <1>2 DEF PutRawObject
  <2>2. sent + 1 \in Messages /\ at'[sent + 1] = "queued"
    BY <2>1
  <2> QED BY <2>2
<1>3. ASSUME NEW m \in Messages, Receive(m) PROVE Covered'
  <2>1. at'[m] = "get_object"
    BY <1>3 DEF Receive
  <2> QED BY <2>1
<1>4. ASSUME NEW m \in Messages, GetObject(m) PROVE Covered'
  <2>1. Pending(m)'
    BY <1>4 DEF GetObject, Raise, Proceed
  <2> QED BY <2>1
<1>5. ASSUME NEW m \in Messages, WriteValid(m) PROVE Covered'
  BY <1>5, SMTT(30) DEF WriteValid, Raise, Proceed, Alone
<1>6. ASSUME NEW m \in Messages, WriteRejected(m) PROVE Covered'
  BY <1>6 DEF WriteRejected, Raise, Proceed, Alone
<1>7. ASSUME NEW m \in Messages, Return(m) PROVE Covered'
  BY <1>7 DEF Return, Proceed, Alone
<1>8. ASSUME NEW m \in Messages, Fault(m) PROVE Covered'
  <2>1. Pending(m)'
    BY <1>8 DEF Fault, Raise
  <2> QED BY <2>1
<1> QED BY <1>1, <1>2, <1>3, <1>4, <1>5, <1>6, <1>7, <1>8 DEF Next, Handle

LEMMA StepInvariant == IInv /\ [Next]_vars => IInv'
BY StepTypeOK, StepReceived, StepCause, StepAlone, StepCovered DEF IInv

-----------------------------------------------------------------------------
\* Every variable keeps its type: no object ever holds a version that was not
\* uploaded and no message is received more than ReceiveLimit times.
THEOREM TypeCorrect == Spec => []TypeOK
<1>1. IInv => TypeOK
  BY DEF IInv
<1> QED BY <1>1, InitInvariant, StepInvariant, PTL DEF Spec

\* Without overlap, both objects hold the newest upload once nothing is left
\* to do and no dead letter waits (validate_handler.py:103-110).
THEOREM SettlesOnNewest == Spec => []SettledOnNewest
<1>1. IInv => SettledOnNewest
  BY DEF IInv, Covered, Pending, Past, SettledOnNewest, Idle, TypeOK, InFlight
<1> QED BY <1>1, InitInvariant, StepInvariant, PTL DEF Spec

\* A dead letter means ReceiveLimit failed calls or an unusable upload.
THEOREM DeadLettersHaveCause == Spec => []DeadForCause
<1>1. IInv => DeadForCause
  BY DEF IInv, Cause, Received, DeadForCause, BadUpload, TypeOK
<1> QED BY <1>1, InitInvariant, StepInvariant, PTL DEF Spec

-----------------------------------------------------------------------------
\* What a step does to either object and to the uploads.
LEMMA ObjectStep ==
    ASSUME IInv, Next
    PROVE  \/ UNCHANGED <<curated, quarantine>> /\ Len(raw') = Len(raw) + 1 /\ UNCHANGED overlapped
           \/ UNCHANGED <<curated, quarantine, raw>> /\ overlapped' \in {overlapped, TRUE}
           \/ /\ UNCHANGED <<quarantine, raw, overlapped>>
              /\ curated' \in 1..Len(raw) /\ (curated' >= curated \/ overlapped)
           \/ /\ UNCHANGED <<curated, raw, overlapped>>
              /\ quarantine' \in 1..Len(raw) /\ (quarantine' >= quarantine \/ overlapped)
<1> USE DEF IInv, TypeOK
<1>1. CASE PutRawObject
  <2>1. PICK upload \in Uploads : raw' = Append(raw, upload)
    BY <1>1 DEF PutRawObject
  <2>2. Len(raw') = Len(raw) + 1
    BY <2>1, RawGrows
  <2> QED BY <1>1, <2>2 DEF PutRawObject
<1>2. ASSUME NEW m \in Messages, Receive(m) \/ GetObject(m) \/ Return(m) \/ Fault(m)
      PROVE  UNCHANGED <<curated, quarantine, raw>> /\ overlapped' \in {overlapped, TRUE}
  BY <1>2 DEF Receive, GetObject, Return, Fault
<1>3. ASSUME NEW m \in Messages, WriteValid(m)
      PROVE  /\ UNCHANGED <<quarantine, raw, overlapped>>
             /\ \/ UNCHANGED curated
                \/ curated' \in 1..Len(raw) /\ (curated' >= curated \/ overlapped)
  <2>1. read[m] \in 1..Len(raw) /\ (read[m] >= curated \/ overlapped)
    BY <1>3 DEF WriteValid, Received, Alone, Past
  <2> QED BY <1>3, <2>1 DEF WriteValid
<1>4. ASSUME NEW m \in Messages, WriteRejected(m)
      PROVE  /\ UNCHANGED <<curated, raw, overlapped>>
             /\ \/ UNCHANGED quarantine
                \/ quarantine' \in 1..Len(raw) /\ (quarantine' >= quarantine \/ overlapped)
  <2>1. read[m] \in 1..Len(raw) /\ (read[m] >= quarantine \/ overlapped)
    BY <1>4 DEF WriteRejected, Received, Alone, Past
  <2> QED BY <1>4, <2>1 DEF WriteRejected
<1> QED BY <1>1, <1>2, <1>3, <1>4 DEF Next, Handle

\* The curated object implements Mirror: it never returns to an older upload
\* unless two invocations overlapped.
THEOREM CuratedImplementsMirror == Spec => CuratedIsMirror
<1>1. Init => CuratedMirror!Init
  BY DEF Init, CuratedMirror!Init
<1>2. IInv /\ [Next]_vars => [CuratedMirror!Next]_CuratedMirror!vars
  <2> SUFFICES ASSUME IInv, [Next]_vars PROVE [CuratedMirror!Next]_CuratedMirror!vars
    OBVIOUS
  <2> USE DEF CuratedMirror!Next, CuratedMirror!vars, CuratedMirror!PutUpload,
              CuratedMirror!Refresh, CuratedMirror!Overlap
  <2>1. CASE UNCHANGED vars
    BY <2>1 DEF vars
  <2>2. CASE Next
    BY <2>2, ObjectStep
  <2> QED BY <2>1, <2>2
<1> QED BY <1>1, <1>2, InitInvariant, StepInvariant, PTL DEF Spec, CuratedIsMirror, CuratedMirror!Spec

\* The quarantine object implements Mirror too.
THEOREM QuarantineImplementsMirror == Spec => QuarantineIsMirror
<1>1. Init => QuarantineMirror!Init
  BY DEF Init, QuarantineMirror!Init
<1>2. IInv /\ [Next]_vars => [QuarantineMirror!Next]_QuarantineMirror!vars
  <2> SUFFICES ASSUME IInv, [Next]_vars PROVE [QuarantineMirror!Next]_QuarantineMirror!vars
    OBVIOUS
  <2> USE DEF QuarantineMirror!Next, QuarantineMirror!vars, QuarantineMirror!PutUpload,
              QuarantineMirror!Refresh, QuarantineMirror!Overlap
  <2>1. CASE UNCHANGED vars
    BY <2>1 DEF vars
  <2>2. CASE Next
    BY <2>2, ObjectStep
  <2> QED BY <2>1, <2>2
<1> QED BY <1>1, <1>2, InitInvariant, StepInvariant, PTL DEF Spec, QuarantineIsMirror, QuarantineMirror!Spec

\* Both objects mirror the uploads of their raw object.
THEOREM ObjectsImplementMirror == Spec => ObjectsAreMirrors
<1> QED BY CuratedImplementsMirror, QuarantineImplementsMirror DEF ObjectsAreMirrors

HIDE ConstantsOK DEF Messages

-----------------------------------------------------------------------------
(***************************************************************************)
(* Promotion.                                                              *)
(***************************************************************************)
USE PromotionConstants

-----------------------------------------------------------------------------
\* What RegisterChallenger does to the list of packages.
LEMMA RegisterAppends ==
    ASSUME PromotionTypeOK, NEW x \in Runs, RegisterChallenger(x)
    PROVE  /\ registered' \in Seq(Runs)
           /\ Len(registered') = Len(registered) + 1
           /\ \A k \in 1..Len(registered) : registered'[k] = registered[k]
           /\ registered'[Len(registered')] = x
BY DEF RegisterChallenger, PromotionTypeOK

\* The champion is nothing or an approved package, the one created last.
LEMMA ChampionIs ==
    ASSUME NEW packages \in Seq(Runs), NEW status,
           \A S \in SUBSET (1..Len(packages)) : S # {} => \E k \in S : \A l \in S : l <= k
    PROVE  \/ Champion(packages, status) = 0
           \/ \E k \in 1..Len(packages) :
                 /\ Champion(packages, status) = packages[k]
                 /\ status[packages[k]] = "Approved"
                 /\ \A l \in 1..Len(packages) : status[packages[l]] = "Approved" => l <= k
<1> DEFINE A == {k \in 1..Len(packages) : status[packages[k]] = "Approved"}
<1>1. CASE A = {}
  BY <1>1 DEF Champion
<1>2. CASE A # {}
  <2>1. \E k \in A : \A l \in A : l <= k
    BY <1>2
  <2> DEFINE c == CHOOSE k \in A : \A l \in A : l <= k
  <2>2. c \in A /\ \A l \in A : l <= c
    BY <2>1
  <2>3. Champion(packages, status) = packages[c]
    BY <1>2 DEF Champion
  <2> HIDE DEF c
  <2> QED BY <2>2, <2>3
<1> QED BY <1>1, <1>2

LEMMA ChampionType ==
    ASSUME NEW packages \in Seq(Runs), NEW status,
           \A S \in SUBSET (1..Len(packages)) : S # {} => \E k \in S : \A l \in S : l <= k
    PROVE  Champion(packages, status) \in PackageNumbers
<1>1. \A k \in 1..Len(packages) : packages[k] \in PackageNumbers
  BY DEF PackageNumbers, Runs
<1>2. 0 \in PackageNumbers
  BY DEF PackageNumbers
<1>3. CASE Champion(packages, status) = 0
  BY <1>2, <1>3
<1>4. CASE \E k \in 1..Len(packages) : Champion(packages, status) = packages[k]
  BY <1>1, <1>4
<1> QED BY <1>3, <1>4, ChampionIs

\* When every package is approved, the champion is the last one.
LEMMA LastIsChampion ==
    ASSUME NEW packages \in Seq(Runs), packages # <<>>, NEW status,
           \A k \in 1..Len(packages) : status[packages[k]] = "Approved"
    PROVE  Champion(packages, status) = packages[Len(packages)]
<1> DEFINE A == {k \in 1..Len(packages) : status[packages[k]] = "Approved"}
<1>1. Len(packages) \in A /\ A # {} /\ \A l \in A : l <= Len(packages) /\ l \in Int
  OBVIOUS
<1>2. (CHOOSE k \in A : \A l \in A : l <= k) = Len(packages)
  BY <1>1
<1> QED BY <1>1, <1>2 DEF Champion

-----------------------------------------------------------------------------
LEMMA PromotionInitType == PromotionInit => PromotionTypeOK
BY DEF PromotionInit, PromotionTypeOK, Runs, PackageNumbers, Aucs, Stages, NoReport

LEMMA PromotionStepType ==
    ASSUME PromotionTypeOK, NewestExists, NEW x \in Runs,
           Start(x) \/ Step(x) \/ Fail(x)
    PROVE  (Auc \in [Data -> [Data -> Aucs]])' /\ (data \in Data)'
           /\ (started \in PackageNumbers)'
           /\ (stage \in [Runs -> {"none", "done", "failed"} \cup Stages])'
           /\ (\A y \in Runs : stage[y] = "none" <=> y > started)'
           /\ (supplied \in [Runs -> [package: PackageNumbers, auc: Aucs]])'
           /\ (holdout \in [Runs -> Data])'
           /\ (rival \in [Runs -> PackageNumbers])'
           /\ (report \in [Runs -> [challenger: Aucs, champion: Aucs]])'
           /\ (baselines \in [Runs -> Data])'
           /\ (registered \in Seq(Runs))'
           /\ (approval \in [Runs -> {"None", "PendingManualApproval", "Approved", "Rejected"}])'
           /\ (\A y \in Runs : approval[y] # "None"
                  <=> \E k \in 1..Len(registered) : registered[k] = y)'
<1> USE DEF MoveOn, Only, Underway, registryVars, trainingVars
<1>0. CurrentChampion \in PackageNumbers /\ 0 \in Aucs
  <2>1. registered \in Seq(Runs) /\ 0 \in Aucs
    BY DEF PromotionTypeOK, Aucs
  <2>2. \A S \in SUBSET (1..Len(registered)) : S # {} => \E k \in S : \A l \in S : l <= k
    BY DEF NewestExists
  <2> QED BY <2>1, <2>2, ChampionType DEF CurrentChampion
<1>1. CASE Start(x)
  <2>1. CurrentChampion # 0 => report[CurrentChampion].challenger \in Aucs
    BY <1>0 DEF PromotionTypeOK, PackageNumbers, Runs
  <2> QED BY <1>0, <1>1, <2>1, SMTT(30) DEF PromotionTypeOK, Start, Stages, PackageNumbers, Runs
<1>2. CASE Preprocess(x)
  BY <1>2 DEF PromotionTypeOK, Preprocess, BaselineUri, Stages
<1>3. CASE Train(x)
  BY <1>3 DEF PromotionTypeOK, Train, Stages
<1>4. CASE ResolveChampion(x)
  BY <1>0, <1>4 DEF PromotionTypeOK, ResolveChampion, Stages
<1>5. CASE WriteReport(x)
  <2>1. Auc[holdout[x]][holdout[x]] \in Aucs
    BY DEF PromotionTypeOK
  <2>2. ChampionAuc(x) \in Aucs
    BY <1>0 DEF PromotionTypeOK, ChampionAuc, Score, PackageNumbers, Runs
  <2> QED BY <1>5, <2>1, <2>2 DEF PromotionTypeOK, WriteReport, Stages
<1>6. CASE Gate(x)
  BY <1>6 DEF PromotionTypeOK, Gate, Stages
<1>7. CASE RegisterChallenger(x)
  <2>1. /\ registered' \in Seq(Runs) /\ Len(registered') = Len(registered) + 1
        /\ \A k \in 1..Len(registered) : registered'[k] = registered[k]
        /\ registered'[Len(registered')] = x
    BY <1>7, RegisterAppends
  <2>2. Len(registered) \in Nat
    BY DEF PromotionTypeOK
  <2>3. approval' \in [Runs -> {"None", "PendingManualApproval", "Approved", "Rejected"}]
        /\ approval'[x] # "None" /\ \A y \in Runs : y # x => approval'[y] = approval[y]
    BY <1>7 DEF PromotionTypeOK, RegisterChallenger
  <2>4. \A y \in Runs : approval'[y] # "None"
            <=> \E k \in 1..Len(registered') : registered'[k] = y
    <3>1. \A y \in Runs : approval[y] # "None"
             <=> \E k \in 1..Len(registered) : registered[k] = y
      BY DEF PromotionTypeOK
    <3>2. 1..Len(registered') = (1..Len(registered)) \cup {Len(registered')}
      BY <2>1, <2>2
    <3> QED BY <2>1, <2>3, <3>1, <3>2
  <2> QED BY <1>7, <2>1, <2>3, <2>4 DEF PromotionTypeOK, RegisterChallenger, Stages
<1>8. CASE Fail(x)
  BY <1>8 DEF PromotionTypeOK, Fail, Stages
<1> QED BY <1>1, <1>2, <1>3, <1>4, <1>5, <1>6, <1>7, <1>8 DEF Step

LEMMA NextTypeOK ==
    ASSUME PromotionTypeOK, NewestExists, NewestExists', [PromotionNext]_promotionVars
    PROVE  PromotionTypeOK'
<1>1. ASSUME NEW x \in Runs, Start(x) \/ Step(x) \/ Fail(x), Remember PROVE PromotionTypeOK'
  <2>1. Champion(registered', approval') \in PackageNumbers
    <3>1. registered' \in Seq(Runs)
      BY <1>1, PromotionStepType
    <3>2. \A S \in SUBSET (1..Len(registered')) : S # {} => \E k \in S : \A l \in S : l <= k
      BY DEF NewestExists
    <3> QED BY <3>1, <3>2, ChampionType
  <2>2. (inForce \in [Runs -> SUBSET PackageNumbers])'
    BY <1>1, <2>1 DEF PromotionTypeOK, Remember
  <2> QED BY <1>1, <2>2, PromotionStepType DEF PromotionTypeOK
<1>2. ASSUME NewData \/ \E x \in Runs, status \in {"Approved", "Rejected"} : Decide(x, status),
             Remember
      PROVE  PromotionTypeOK'
  <2>0. registered' = registered
    BY <1>2 DEF NewData, Decide, registryVars
  <2>1. Champion(registered', approval') \in PackageNumbers
    <3>1. registered' \in Seq(Runs)
      BY <2>0 DEF PromotionTypeOK
    <3>2. \A S \in SUBSET (1..Len(registered')) : S # {} => \E k \in S : \A l \in S : l <= k
      BY DEF NewestExists
    <3> QED BY <3>1, <3>2, ChampionType
  <2>2. (inForce \in [Runs -> SUBSET PackageNumbers])'
    BY <1>2, <2>1 DEF PromotionTypeOK, Remember
  <2>3. CASE NewData
    BY <2>2, <2>3 DEF PromotionTypeOK, NewData, trainingVars, registryVars
  <2>4. ASSUME NEW x \in Runs, NEW status \in {"Approved", "Rejected"}, Decide(x, status)
        PROVE  PromotionTypeOK'
    BY <2>2, <2>4 DEF PromotionTypeOK, Decide, trainingVars
  <2> QED BY <1>2, <2>3, <2>4
<1>3. CASE UNCHANGED promotionVars
  BY <1>3 DEF PromotionTypeOK, promotionVars, trainingVars, registryVars
<1> QED BY <1>1, <1>2, <1>3 DEF PromotionNext

\* One more package and there is still a newest one among any of them.
LEMMA NextNewestExists == PromotionTypeOK /\ NewestExists /\ [PromotionNext]_promotionVars => NewestExists'
<1> SUFFICES ASSUME PromotionTypeOK, NewestExists, [PromotionNext]_promotionVars PROVE NewestExists'
  OBVIOUS
<1>1. ASSUME NEW x \in Runs, RegisterChallenger(x) PROVE NewestExists'
  <2>1. Len(registered) \in Nat /\ Len(registered') = Len(registered) + 1
    BY <1>1, RegisterAppends DEF PromotionTypeOK
  <2> SUFFICES ASSUME NEW S \in SUBSET (1..Len(registered')), S # {}
               PROVE  \E k \in S : \A l \in S : l <= k
    BY DEF NewestExists
  <2>2. CASE Len(registered') \in S
    BY <2>1, <2>2
  <2>3. CASE Len(registered') \notin S
    <3>1. S \in SUBSET (1..Len(registered))
      BY <2>1, <2>3
    <3> QED BY <3>1 DEF NewestExists
  <2> QED BY <2>2, <2>3
<1>2. ASSUME NEW x \in Runs, Start(x) \/ Fail(x) \/ Preprocess(x) \/ Train(x)
             \/ ResolveChampion(x) \/ WriteReport(x) \/ Gate(x)
      PROVE  registered' = registered
  BY <1>2 DEF Start, Fail, Preprocess, Train, ResolveChampion, WriteReport, Gate, registryVars
<1>3. ASSUME NEW x \in Runs, NEW status, Decide(x, status) PROVE registered' = registered
  BY <1>3 DEF Decide
<1>4. CASE NewData
  BY <1>4 DEF NewData, registryVars, NewestExists
<1>5. CASE UNCHANGED promotionVars
  BY <1>5 DEF promotionVars, registryVars, NewestExists
<1> QED BY <1>1, <1>2, <1>3, <1>4, <1>5 DEF PromotionNext, Step, NewestExists

LEMMA InitNewestExists == PromotionInit => NewestExists
<1> SUFFICES ASSUME PromotionInit PROVE NewestExists
  OBVIOUS
<1>1. Len(registered) = 0
  BY DEF PromotionInit
<1>2. 1..0 = {}
  OBVIOUS
<1> QED BY <1>1, <1>2 DEF NewestExists

\* Every variable keeps its type, and the registry lists a package if and only
\* if it gave it an approval status (pipeline.py:215-242).
THEOREM PromotionTypes == PromotionSpec => []PromotionTypeOK
<1>1. PromotionTypeOK /\ NewestExists /\ [PromotionNext]_promotionVars => PromotionTypeOK' /\ NewestExists'
  BY NextTypeOK, NextNewestExists
<1> QED BY <1>1, PromotionInitType, InitNewestExists, PTL DEF PromotionSpec

-----------------------------------------------------------------------------
\* What the steps leave alone: models, finished executions and what they read.
LEMMA DoneStays ==
    ASSUME PromotionTypeOK, [PromotionNext]_promotionVars
    PROVE  /\ Auc' = Auc
           /\ \A y \in Runs : stage[y] = "done" => stage'[y] = "done"
           /\ \A y \in Runs : stage[y] # "preprocess" => holdout'[y] = holdout[y]
           /\ \A y \in Runs : inForce[y] \subseteq inForce'[y]
<1>1. \A y \in Runs : inForce[y] \subseteq inForce'[y]
  <2>1. CASE Remember
    BY <2>1 DEF Remember
  <2>2. CASE UNCHANGED promotionVars
    BY <2>2 DEF promotionVars
  <2> QED BY <2>1, <2>2 DEF PromotionNext
<1>2. ASSUME NEW x \in Runs, Start(x) \/ Step(x) \/ Fail(x)
      PROVE  /\ Auc' = Auc
             /\ \A y \in Runs : stage[y] = "done" => stage'[y] = "done"
             /\ \A y \in Runs : stage[y] # "preprocess" => holdout'[y] = holdout[y]
  <2> USE DEF MoveOn, Only, trainingVars
  <2>0. stage \in [Runs -> {"none", "done", "failed"} \cup Stages] /\ holdout \in [Runs -> Data]
        /\ (stage[x] = "none" <=> x > started)
    BY DEF PromotionTypeOK
  <2>1. CASE Start(x)
    BY <2>0, <2>1 DEF Start, PromotionTypeOK, PackageNumbers, Runs
  <2>2. CASE Preprocess(x)
    BY <2>0, <2>2 DEF Preprocess
  <2>3. CASE Train(x) \/ Gate(x) \/ RegisterChallenger(x)
    BY <2>0, <2>3 DEF Train, Gate, RegisterChallenger
  <2>4. CASE ResolveChampion(x) \/ WriteReport(x)
    BY <2>0, <2>4 DEF ResolveChampion, WriteReport
  <2>5. CASE Fail(x)
    BY <2>0, <2>5 DEF Fail, Underway, Stages
  <2> QED BY <1>2, <2>1, <2>2, <2>3, <2>4, <2>5 DEF Step
<1>3. ASSUME NewData \/ \E x \in Runs, status \in {"Approved", "Rejected"} : Decide(x, status)
      PROVE  Auc' = Auc /\ stage' = stage /\ holdout' = holdout
  BY <1>3 DEF NewData, Decide, trainingVars
<1>4. CASE UNCHANGED promotionVars
  BY <1>1, <1>4 DEF promotionVars, trainingVars
<1> QED BY <1>1, <1>2, <1>3, <1>4 DEF PromotionNext

\* The score of a model that is final does not change.
LEMMA ScoreStays ==
    ASSUME PromotionTypeOK, [PromotionNext]_promotionVars, NEW p \in PackageNumbers, Final(p), NEW d
    PROVE  Score(p, d)' = IF p = 0 THEN 0 ELSE Auc[holdout[p]][d]
<1>1. p # 0 => p \in Runs /\ stage[p] = "done"
  BY DEF Final, PackageNumbers, Runs
<1>2. Auc' = Auc /\ (p # 0 => holdout'[p] = holdout[p])
  BY <1>1, DoneStays
<1> QED BY <1>2 DEF Score

LEMMA NextBaselines == PromotionTypeOK /\ baselines = holdout /\ [PromotionNext]_promotionVars => baselines' = holdout'
<1> SUFFICES ASSUME PromotionTypeOK, baselines = holdout, [PromotionNext]_promotionVars PROVE baselines' = holdout'
  OBVIOUS
<1>1. ASSUME NEW x \in Runs, Start(x) \/ Step(x) \/ Fail(x) PROVE baselines' = holdout'
  BY <1>1 DEF Start, Step, Fail, Preprocess, Train, ResolveChampion, WriteReport,
              Gate, RegisterChallenger, BaselineUri, trainingVars
<1>2. CASE NewData
  BY <1>2 DEF NewData, trainingVars
<1>3. ASSUME NEW x, NEW status, Decide(x, status) PROVE baselines' = holdout'
  BY <1>3 DEF Decide, trainingVars
<1>4. CASE UNCHANGED promotionVars
  BY <1>4 DEF promotionVars, trainingVars
<1> QED BY <1>1, <1>2, <1>3, <1>4 DEF PromotionNext

\* The registry changes only by a registration or a decision of an operator.
LEMMA RegistryKept ==
    ASSUME [PromotionNext]_promotionVars
    PROVE  \/ UNCHANGED registryVars
           \/ \E x \in Runs : RegisterChallenger(x)
           \/ \E x \in Runs, status \in {"Approved", "Rejected"} : Decide(x, status)
BY DEF PromotionNext, Start, Step, Fail, Preprocess, Train, ResolveChampion, WriteReport, Gate,
       NewData, promotionVars, registryVars

LEMMA NextRegisteredAreDone ==
    ASSUME PromotionTypeOK, RegisteredAreDone, [PromotionNext]_promotionVars
    PROVE  RegisteredAreDone'
<1>0. \A k \in 1..Len(registered) : registered[k] \in Runs /\ stage[registered[k]] = "done"
  BY DEF PromotionTypeOK, RegisteredAreDone
<1>1. ASSUME NEW x \in Runs, RegisterChallenger(x) PROVE RegisteredAreDone'
  <2>1. /\ Len(registered') = Len(registered) + 1
        /\ \A k \in 1..Len(registered) : registered'[k] = registered[k]
        /\ registered'[Len(registered')] = x
    BY <1>1, RegisterAppends
  <2>2. stage'[x] = "done" /\ Len(registered) \in Nat
    BY <1>1 DEF RegisterChallenger, MoveOn, PromotionTypeOK
  <2>3. \A k \in 1..Len(registered) : stage'[registered[k]] = "done"
    BY <1>0, DoneStays
  <2> QED BY <2>1, <2>2, <2>3 DEF RegisteredAreDone
<1>2. CASE registered' = registered
  BY <1>0, <1>2, DoneStays DEF RegisteredAreDone
<1> QED BY <1>1, <1>2, RegistryKept DEF registryVars, Decide

-----------------------------------------------------------------------------
\* One step of an evaluation: an execution gets to "score" only by resolving
\* the champion there is, and to the later stages from the one before.
LEMMA EvaluationSteps ==
    ASSUME PromotionTypeOK, [PromotionNext]_promotionVars, NEW x \in Runs, Evaluating(x)'
    PROVE  \/ /\ ResolveChampion(x) /\ Remember
              /\ rival'[x] = CurrentChampion /\ UNCHANGED registryVars /\ stage'[x] = "score"
           \/ /\ WriteReport(x)
              /\ Evaluating(x) /\ rival'[x] = rival[x] /\ stage'[x] = "gate"
           \/ /\ Gate(x)
              /\ Evaluating(x) /\ UNCHANGED <<rival, report>> /\ stage'[x] = "register"
           \/ /\ Evaluating(x) /\ stage'[x] = stage[x]
              /\ rival'[x] = rival[x] /\ report'[x] = report[x]
<1> USE DEF MoveOn, Only, trainingVars, Evaluating
<1>0. /\ stage \in [Runs -> {"none", "done", "failed"} \cup Stages]
      /\ rival \in [Runs -> PackageNumbers]
      /\ report \in [Runs -> [challenger: Aucs, champion: Aucs]]
  BY DEF PromotionTypeOK
<1>1. ASSUME NEW y \in Runs, Start(y) \/ Preprocess(y) \/ Train(y) \/ RegisterChallenger(y) \/ Fail(y)
      PROVE  Evaluating(x) /\ stage'[x] = stage[x] /\ rival'[x] = rival[x] /\ report'[x] = report[x]
  BY <1>0, <1>1 DEF Start, Preprocess, Train, RegisterChallenger, Fail
<1>2. ASSUME NEW y \in Runs, y # x, ResolveChampion(y) \/ WriteReport(y) \/ Gate(y)
      PROVE  Evaluating(x) /\ stage'[x] = stage[x] /\ rival'[x] = rival[x] /\ report'[x] = report[x]
  BY <1>0, <1>2 DEF ResolveChampion, WriteReport, Gate
<1>3. CASE ResolveChampion(x) /\ Remember
  BY <1>0, <1>3 DEF ResolveChampion
<1>4. CASE WriteReport(x)
  BY <1>0, <1>4 DEF WriteReport
<1>5. CASE Gate(x)
  BY <1>0, <1>5 DEF Gate
<1>6. CASE NewData
  BY <1>6 DEF NewData
<1>7. ASSUME NEW y, NEW status, Decide(y, status) PROVE stage' = stage /\ UNCHANGED <<rival, report>>
  BY <1>7 DEF Decide
<1>8. CASE UNCHANGED promotionVars
  BY <1>8 DEF promotionVars
<1> QED BY <1>1, <1>2, <1>3, <1>4, <1>5, <1>6, <1>7, <1>8 DEF PromotionNext, Step

LEMMA NextRivalsAreFinal ==
    ASSUME PromotionInv, PromotionTypeOK', NewestExists', RegisteredAreDone', [PromotionNext]_promotionVars
    PROVE  RivalsAreFinal'
<1>1. ASSUME NEW x \in Runs, NEW p \in inForce'[x] PROVE Final(p)'
  <2>1. p \in inForce[x] \/ p = Champion(registered', approval')
    <3>1. CASE Remember
      BY <1>1, <3>1 DEF Remember
    <3>2. CASE UNCHANGED promotionVars
      BY <1>1, <3>2 DEF promotionVars
    <3> QED BY <3>1, <3>2 DEF PromotionNext
  <2>2. CASE p \in inForce[x]
    <3>1. p \in PackageNumbers /\ (p # 0 => p \in Runs /\ stage[p] = "done")
      BY <2>2 DEF PromotionInv, RivalsAreFinal, Final, PromotionTypeOK, PackageNumbers, Runs
    <3> QED BY <3>1, DoneStays DEF PromotionInv, Final
  <2>3. CASE p = Champion(registered', approval')
    <3>1. registered' \in Seq(Runs)
      BY DEF PromotionTypeOK
    <3>2. \A S \in SUBSET (1..Len(registered')) : S # {} => \E k \in S : \A l \in S : l <= k
      BY DEF NewestExists
    <3>3. p = 0 \/ \E k \in 1..Len(registered') : p = registered'[k]
      BY <2>3, <3>1, <3>2, ChampionIs
    <3> QED BY <3>3 DEF RegisteredAreDone, Final
  <2> QED BY <2>1, <2>2, <2>3
<1>2. ASSUME NEW x \in Runs, Evaluating(x)' PROVE rival'[x] \in inForce'[x]
  <2>1. CASE ResolveChampion(x) /\ Remember /\ rival'[x] = CurrentChampion
             /\ UNCHANGED registryVars /\ stage'[x] = "score"
    BY <2>1 DEF Remember, registryVars, CurrentChampion
  <2>2. CASE Evaluating(x) /\ rival'[x] = rival[x]
    BY <2>2, DoneStays DEF PromotionInv, RivalsAreFinal
  <2> QED BY <1>2, <2>1, <2>2, EvaluationSteps DEF PromotionInv
<1> QED BY <1>1, <1>2 DEF RivalsAreFinal

LEMMA NextReportsAreTrue ==
    ASSUME PromotionInv, [PromotionNext]_promotionVars
    PROVE  ReportsAreTrue'
<1> SUFFICES ASSUME NEW x \in Runs, Evaluating(x)', stage'[x] # "score"
             PROVE  /\ report'[x] = [challenger |-> Score(x, holdout[x])', champion |-> ChampionAuc(x)']
                    /\ stage'[x] = "register" => Beats(report'[x])
  BY DEF ReportsAreTrue, Evaluating
<1>1. Evaluating(x) /\ rival'[x] = rival[x]
  BY EvaluationSteps DEF PromotionInv
<1>2. Auc' = Auc /\ holdout'[x] = holdout[x]
  BY <1>1, DoneStays DEF PromotionInv, Evaluating
<1>3. rival[x] \in PackageNumbers /\ Final(rival[x])
  BY <1>1 DEF PromotionInv, PromotionTypeOK, RivalsAreFinal
<1>4. ChampionAuc(x)' = ChampionAuc(x)
  <2>1. Score(rival[x], holdout[x])' = Score(rival[x], holdout[x])
    <3>1. rival[x] # 0 => holdout'[rival[x]] = holdout[rival[x]]
      BY <1>3, DoneStays DEF PromotionInv, Final, PackageNumbers, Runs
    <3> QED BY <1>1, <1>2, <3>1 DEF Score
  <2> QED BY <1>1, <2>1 DEF ChampionAuc
<1>5. Score(x, holdout[x])' = Score(x, holdout[x])
  BY <1>2 DEF Score
<1>6. CASE WriteReport(x) /\ stage'[x] = "gate"
  <2>1. report'[x] = [challenger |-> Auc[holdout[x]][holdout[x]], champion |-> ChampionAuc(x)]
    BY <1>6 DEF WriteReport, PromotionInv, PromotionTypeOK
  <2>2. x # 0
    BY DEF Runs
  <2> QED BY <1>4, <1>5, <1>6, <2>1, <2>2 DEF Score
<1>7. CASE Gate(x) /\ UNCHANGED <<rival, report>> /\ stage'[x] = "register"
  <2>1. Beats(report[x]) /\ stage[x] = "gate"
    BY <1>7 DEF Gate, MoveOn, Only, PromotionInv, PromotionTypeOK
  <2> QED BY <1>4, <1>5, <1>7, <2>1 DEF PromotionInv, ReportsAreTrue
<1>8. CASE stage'[x] = stage[x] /\ report'[x] = report[x]
  BY <1>1, <1>4, <1>5, <1>8 DEF PromotionInv, ReportsAreTrue, Evaluating
<1> QED BY <1>6, <1>7, <1>8, EvaluationSteps DEF PromotionInv

\* Package x beats package c on the rows x was evaluated on; h are the holdouts.
Won(h, x, c) ==
    (IF x = 0 THEN 0 ELSE Auc[h[x]][h[x]]) > (IF c = 0 THEN 0 ELSE Auc[h[c]][h[x]])

LEMMA RegisterWon ==
    ASSUME PromotionInv, NEW x \in Runs, stage[x] = "register"
    PROVE  Won(holdout, x, rival[x])
<1>1. /\ report[x] = [challenger |-> Score(x, holdout[x]), champion |-> ChampionAuc(x)]
      /\ Beats(report[x])
  BY DEF PromotionInv, ReportsAreTrue
<1>2. Score(x, holdout[x]) > Score(rival[x], holdout[x])
  BY <1>1 DEF Beats, ChampionAuc
<1> QED BY <1>2 DEF Score, Won

\* A registered package beat a champion of its time, and neither score changes.
LEMMA NextBeatsRecentChampion ==
    ASSUME PromotionInv, PromotionTypeOK', [PromotionNext]_promotionVars
    PROVE  BeatsRecentChampion'
<1>0. Auc' = Auc
  BY DoneStays DEF PromotionInv
<1>1. ASSUME NEW x \in Runs, NEW c \in inForce[x], stage[x] \in {"register", "done"},
             Won(holdout, x, c)
      PROVE  \E d \in inForce'[x] : Won(holdout', x, d)
  <2>1. c \in inForce'[x] /\ holdout'[x] = holdout[x]
    BY <1>1, DoneStays DEF PromotionInv
  <2>2. c \in PackageNumbers /\ (c # 0 => stage[c] = "done")
    BY <1>1 DEF PromotionInv, RivalsAreFinal, Final, PromotionTypeOK
  <2>3. c # 0 => holdout'[c] = holdout[c]
    BY <2>2, DoneStays DEF PromotionInv, PackageNumbers, Runs
  <2> QED BY <1>1, <2>1, <2>3 DEF Won
<1>2. ASSUME NEW k \in 1..Len(registered)
      PROVE  \E d \in inForce'[registered[k]] : Won(holdout', registered[k], d)
  <2>1. registered[k] \in Runs /\ stage[registered[k]] = "done"
    BY DEF PromotionInv, PromotionTypeOK, RegisteredAreDone
  <2>2. \E c \in inForce[registered[k]] : Won(holdout, registered[k], c)
    BY DEF PromotionInv, BeatsRecentChampion, Won, Score
  <2> QED BY <1>1, <2>1, <2>2
<1>3. ASSUME \A k \in 1..Len(registered') :
                \E d \in inForce'[registered'[k]] : Won(holdout', registered'[k], d)
      PROVE  BeatsRecentChampion'
  BY <1>0, <1>3 DEF BeatsRecentChampion, Won, Score
<1>4. ASSUME NEW x \in Runs, RegisterChallenger(x) PROVE BeatsRecentChampion'
  <2>1. stage[x] = "register" /\ rival[x] \in inForce[x]
    BY <1>4 DEF RegisterChallenger, Only, PromotionInv, RivalsAreFinal, Evaluating
  <2>2. \E d \in inForce'[x] : Won(holdout', x, d)
    BY <1>1, <2>1, RegisterWon
  <2>3. /\ Len(registered') = Len(registered) + 1 /\ Len(registered) \in Nat
        /\ \A k \in 1..Len(registered) : registered'[k] = registered[k]
        /\ registered'[Len(registered')] = x
    BY <1>4, RegisterAppends DEF PromotionInv, PromotionTypeOK
  <2>4. ASSUME NEW k \in 1..Len(registered')
        PROVE  \E d \in inForce'[registered'[k]] : Won(holdout', registered'[k], d)
    <3>1. CASE k = Len(registered')
      BY <2>2, <2>3, <3>1
    <3>2. CASE k # Len(registered')
      <4>1. k \in 1..Len(registered)
        BY <2>3, <3>2
      <4> QED BY <1>2, <2>3, <4>1
    <3> QED BY <3>1, <3>2
  <2> QED BY <1>3, <2>4
<1>5. CASE registered' = registered
  BY <1>2, <1>3, <1>5
<1> QED BY <1>4, <1>5, RegistryKept DEF registryVars, Decide

LEMMA NextOneAtATime ==
    ASSUME PromotionTypeOK, OneUnderway, [PromotionNext]_promotionVars
    PROVE  OneUnderway'
<1> SUFFICES ASSUME SerialRuns, NEW x \in Runs, NEW y \in Runs, Underway(x)', Underway(y)'
             PROVE  x = y
  BY DEF OneUnderway
<1> USE DEF MoveOn, Only, Underway
<1>0. stage \in [Runs -> {"none", "done", "failed"} \cup Stages]
  BY DEF PromotionTypeOK
<1>1. ASSUME NEW z \in Runs, Start(z) PROVE x = y
  BY <1>0, <1>1 DEF Start
<1>2. ASSUME NEW z \in Runs, Step(z) \/ Fail(z) PROVE x = y
  <2>1. stage[z] \in Stages /\ \A w \in Runs : w # z => stage'[w] = stage[w]
    BY <1>0, <1>2 DEF Step, Fail, Preprocess, Train, ResolveChampion, WriteReport, Gate,
                      RegisterChallenger, Stages
  <2> QED BY <2>1 DEF OneUnderway
<1>3. CASE stage' = stage
  BY <1>3 DEF OneUnderway
<1> QED BY <1>1, <1>2, <1>3 DEF PromotionNext, NewData, Decide, promotionVars

LEMMA NextChampionIsStable ==
    ASSUME PromotionInv, [PromotionNext]_promotionVars
    PROVE  ChampionIsStable'
<1> SUFFICES ASSUME AutoApprove, ~Operators
             PROVE  /\ \A k \in 1..Len(registered') : approval'[registered'[k]] = "Approved"
                    /\ SerialRuns => \A x \in Runs : Evaluating(x)' => rival'[x] = CurrentChampion'
  BY DEF ChampionIsStable
<1>1. \/ UNCHANGED registryVars
      \/ \E x \in Runs : RegisterChallenger(x)
  BY RegistryKept DEF Decide
<1>2. \A k \in 1..Len(registered') : approval'[registered'[k]] = "Approved"
  <2>1. ASSUME NEW x \in Runs, RegisterChallenger(x) PROVE \A k \in 1..Len(registered') : approval'[registered'[k]] = "Approved"
    <3>1. /\ Len(registered') = Len(registered) + 1 /\ Len(registered) \in Nat
          /\ \A k \in 1..Len(registered) : registered'[k] = registered[k]
          /\ registered'[Len(registered')] = x
      BY <2>1, RegisterAppends DEF PromotionInv, PromotionTypeOK
    <3>2. approval'[x] = "Approved" /\ \A y \in Runs : y # x => approval'[y] = approval[y]
      BY <2>1 DEF RegisterChallenger, PromotionInv, PromotionTypeOK
    <3>3. \A k \in 1..Len(registered) : registered[k] \in Runs /\ approval[registered[k]] = "Approved"
      BY DEF PromotionInv, PromotionTypeOK, ChampionIsStable
    <3> QED BY <3>1, <3>2, <3>3
  <2>2. CASE UNCHANGED registryVars
    BY <2>2 DEF registryVars, PromotionInv, ChampionIsStable
  <2> QED BY <1>1, <2>1, <2>2
<1>3. ASSUME SerialRuns, NEW x \in Runs, Evaluating(x)' PROVE rival'[x] = CurrentChampion'
  <2>1. CASE UNCHANGED registryVars /\ rival'[x] = CurrentChampion
    BY <2>1 DEF registryVars, CurrentChampion
  <2>2. CASE Evaluating(x) /\ rival'[x] = rival[x]
    <3>1. rival[x] = CurrentChampion
      BY <1>3, <2>2 DEF PromotionInv, ChampionIsStable
    <3>2. ASSUME NEW y \in Runs, RegisterChallenger(y) PROVE FALSE
      <4>1. x = y
        BY <1>3, <2>2, <3>2 DEF PromotionInv, OneUnderway, Evaluating, Underway, Stages, RegisterChallenger, Only
      <4> QED BY <1>3, <3>2, <4>1 DEF RegisterChallenger, MoveOn, Evaluating, PromotionInv, PromotionTypeOK
    <3> QED BY <1>1, <2>2, <3>1, <3>2 DEF registryVars, CurrentChampion
  <2> QED BY <1>3, <2>1, <2>2, EvaluationSteps DEF PromotionInv
<1> QED BY <1>2, <1>3

-----------------------------------------------------------------------------
LEMMA InitIInv == PromotionInit => PromotionInv
<1> SUFFICES ASSUME PromotionInit PROVE PromotionInv
  OBVIOUS
<1>1. Len(registered) = 0 /\ 1..0 = {} /\ \A x \in Runs : stage[x] = "none" /\ inForce[x] = {}
  BY DEF PromotionInit
<1>2. PromotionTypeOK /\ NewestExists
  BY PromotionInitType, InitNewestExists
<1>3. baselines = holdout
  BY DEF PromotionInit
<1> QED BY <1>1, <1>2, <1>3 DEF PromotionInv, RegisteredAreDone, RivalsAreFinal, ReportsAreTrue,
      BeatsRecentChampion, OneUnderway, ChampionIsStable, Evaluating, Underway, Stages

LEMMA NextIInv == PromotionInv /\ [PromotionNext]_promotionVars => PromotionInv'
<1> SUFFICES ASSUME PromotionInv, [PromotionNext]_promotionVars PROVE PromotionInv'
  OBVIOUS
<1>1. NewestExists'
  BY NextNewestExists DEF PromotionInv
<1>2. PromotionTypeOK'
  BY <1>1, NextTypeOK DEF PromotionInv
<1>3. RegisteredAreDone' /\ OneUnderway' /\ baselines' = holdout'
  BY NextRegisteredAreDone, NextOneAtATime, NextBaselines DEF PromotionInv
<1>4. RivalsAreFinal'
  BY <1>1, <1>2, <1>3, NextRivalsAreFinal
<1>5. ReportsAreTrue' /\ ChampionIsStable'
  BY NextReportsAreTrue, NextChampionIsStable
<1>6. BeatsRecentChampion'
  BY <1>2, NextBeatsRecentChampion
<1> QED BY <1>1, <1>2, <1>3, <1>4, <1>5, <1>6 DEF PromotionInv

\* The strengthened invariant is inductive: reports stay true while executions
\* and decisions overlap, because the models they compare are final.
THEOREM PromotionInvariance == PromotionSpec => []PromotionInv
<1> QED BY InitIInv, NextIInv, PTL DEF PromotionSpec

\* The gate never promotes on stale data: whatever overlaps, a package that is
\* registered beat on its own rows one that was champion after it was trained
\* (evaluate.py:337-353, pipeline.py:244-256).
THEOREM GateIsFresh == PromotionSpec => []BeatsRecentChampion
<1>1. PromotionInv => BeatsRecentChampion
  BY DEF PromotionInv
<1> QED BY <1>1, PromotionInvariance, PTL

\* Overlapping executions never overwrite each other's drift baseline
\* (pipeline.py:70-78).
THEOREM BaselinesMatch == PromotionSpec => []BaselineMatchesModel
<1>1. PromotionInv => BaselineMatchesModel
  BY DEF PromotionInv, BaselineMatchesModel, BaselineUri
<1> QED BY <1>1, PromotionInvariance, PTL

\* With automatic approval, executions that do not overlap and nobody changing
\* approvals, every new champion beats the one it replaces on the rows it was
\* evaluated on, whatever happens to the data (README: no silent regressions).
THEOREM NoRegression == SerialRuns /\ AutoApprove /\ ~Operators => (PromotionSpec => ChampionImproves)
<1> SUFFICES ASSUME SerialRuns, AutoApprove, ~Operators PROVE PromotionSpec => ChampionImproves
  OBVIOUS
<1>1. ASSUME PromotionInv, [PromotionNext]_promotionVars, CurrentChampion' # CurrentChampion
      PROVE  Score(CurrentChampion', holdout[CurrentChampion'])
             > Score(CurrentChampion, holdout[CurrentChampion'])
  <2>1. PICK x \in Runs : RegisterChallenger(x)
    BY <1>1, RegistryKept DEF Decide, registryVars, CurrentChampion
  <2>2. CurrentChampion' = x
    <3>1. registered' \in Seq(Runs) /\ registered' # <<>> /\ registered'[Len(registered')] = x
      BY <1>1, <2>1, RegisterAppends DEF PromotionInv, PromotionTypeOK
    <3>2. \A k \in 1..Len(registered') : approval'[registered'[k]] = "Approved"
      BY <1>1, NextChampionIsStable DEF ChampionIsStable
    <3> QED BY <3>1, <3>2, LastIsChampion DEF CurrentChampion
  <2>3. stage[x] = "register" /\ rival[x] = CurrentChampion
    BY <1>1, <2>1 DEF RegisterChallenger, Only, PromotionInv, ChampionIsStable, Evaluating
  <2>4. Score(x, holdout[x]) > Score(rival[x], holdout[x])
    BY <1>1, <2>3, RegisterWon DEF Won, Score
  <2> QED BY <2>2, <2>3, <2>4
<1>2. PromotionInv /\ [PromotionNext]_promotionVars =>
         [CurrentChampion' # CurrentChampion /\ CurrentChampion' # 0
            => Score(CurrentChampion', holdout[CurrentChampion'])
               > Score(CurrentChampion, holdout[CurrentChampion'])]_promotionVars
  BY <1>1
<1> QED BY <1>2, PromotionInvariance, PTL DEF PromotionSpec, ChampionImproves

HIDE PromotionConstants

=============================================================================
