----------------------------- MODULE Ingestion -----------------------------
(***************************************************************************)
(* src/src/ingestion/validate_handler.py and the queue that feeds it       *)
(* (src/infra/stacks/ingestion_stack.py): every upload of a raw object     *)
(* puts a message on a queue, and an invocation for the message reads the  *)
(* object, writes its valid rows to the curated object and then its        *)
(* rejected rows to the quarantine object.  A message whose invocation     *)
(* fails is received again, and after ReceiveLimit receives it moves to    *)
(* the dead-letter queue.                                                  *)
(*                                                                         *)
(* One raw key.  raw holds every version of it, the last one the object a  *)
(* read returns.  curated and quarantine are the version whose rows the    *)
(* object holds; the object is deleted when that version has no such rows. *)
(* The queue's visibility timeout is longer than the function's timeout,   *)
(* so a message is not received while its own invocation still runs, but   *)
(* invocations for different messages overlap.                             *)
(***************************************************************************)
EXTENDS Integers, Sequences

CONSTANTS
    ReceiveLimit,               \* max_receive_count of the queue
    Uploads,                    \* what an upload may contain: see Upload
    MaxUploads, MaxMessages, MaxFaults   \* bounds

(***************************************************************************)
(* What validate_rows finds in an upload.  "ragged" rows are those whose   *)
(* first row has fewer fields than a later one, which DictWriter refuses.  *)
(* An upload with no row of either kind is the one that does not parse.    *)
(***************************************************************************)
Rows == {"none", "rows", "ragged"}
Upload == [valid: Rows, rejected: Rows]

ASSUME ConstantsOK ==
    /\ ReceiveLimit \in Nat \ {0}
    /\ Uploads \subseteq Upload
    /\ MaxUploads \in Nat /\ MaxMessages \in Nat /\ MaxFaults \in Nat

VARIABLES
    raw,          \* the versions of the raw object, in upload order
    curated,      \* the version last written to the curated key (0: none)
    quarantine,   \* the version last written to the quarantine key (0: none)
    sent,         \* the messages sent so far: 1..sent
    at,           \* message -> where it, or the invocation for it, is
    receives,     \* message -> its ApproximateReceiveCount
    read,         \* message -> the version its last invocation read
    faults,       \* failed calls and timeouts so far
    overlapped    \* two invocations have run at the same time (history)

vars == <<raw, curated, quarantine, sent, at, receives, read, faults, overlapped>>

Messages == 1..MaxMessages
InFlight == {"get_object", "write_valid", "write_rejected", "return"}
Running(m) == at[m] \in InFlight

TypeOK ==
    /\ raw \in Seq(Uploads) /\ Len(raw) <= MaxUploads
    /\ curated \in 0..Len(raw) /\ quarantine \in 0..Len(raw)
    /\ sent \in 0..MaxMessages
    /\ at \in [Messages -> {"unsent", "queued", "done", "dead"} \cup InFlight]
    /\ \A m \in Messages : at[m] = "unsent" <=> m > sent
    /\ receives \in [Messages -> 0..ReceiveLimit]
    /\ read \in [Messages -> 0..Len(raw)]
    /\ faults \in 0..MaxFaults
    /\ overlapped \in BOOLEAN

Init ==
    /\ raw = <<>>
    /\ curated = 0 /\ quarantine = 0
    /\ sent = 0
    /\ at = [m \in Messages |-> "unsent"]
    /\ receives = [m \in Messages |-> 0]
    /\ read = [m \in Messages |-> 0]
    /\ faults = 0
    /\ overlapped = FALSE

Parses(upload) == upload.valid # "none" \/ upload.rejected # "none"
Writable(upload) == upload.valid # "ragged" /\ upload.rejected # "ragged"

-----------------------------------------------------------------------------
\* Object Created passes the rule and reaches the queue at least once.
PutRawObject ==
    /\ Len(raw) < MaxUploads
    /\ \E upload \in Uploads : raw' = Append(raw, upload)
    /\ \E copies \in 1..2 :
           /\ sent + copies <= MaxMessages
           /\ sent' = sent + copies
           /\ at' = [m \in Messages |->
                         IF m > sent /\ m <= sent + copies THEN "queued" ELSE at[m]]
    /\ UNCHANGED <<curated, quarantine, receives, read, faults, overlapped>>

\* Mutant of Receive: a retry goes on with the rows of the failed attempt.
ReceiveKeepingRows(m) ==
    /\ at[m] = "queued"
    /\ at' = [at EXCEPT ![m] = IF read[m] = 0 THEN "get_object" ELSE "write_valid"]
    /\ receives' = [receives EXCEPT ![m] = @ + 1]
    /\ overlapped' = (overlapped \/ \E other \in Messages : Running(other))
    /\ UNCHANGED <<raw, curated, quarantine, sent, read, faults>>

Receive(m) ==
    /\ at[m] = "queued"
    /\ at' = [at EXCEPT ![m] = "get_object"]
    /\ receives' = [receives EXCEPT ![m] = @ + 1]
    /\ overlapped' = (overlapped \/ \E other \in Messages : Running(other))
    /\ UNCHANGED <<raw, curated, quarantine, sent, read, faults>>

\* Mutant of Raise: one receive too few.
RaiseEarly(m) ==
    at' = [at EXCEPT ![m] = IF receives[m] + 1 < ReceiveLimit THEN "queued" ELSE "dead"]

\* The invocation ends with an error: the message becomes visible again, or
\* has been received often enough to move to the dead-letter queue.
Raise(m) ==
    at' = [at EXCEPT ![m] = IF receives[m] < ReceiveLimit THEN "queued" ELSE "dead"]

Proceed(m, next) == at' = [at EXCEPT ![m] = next]

-----------------------------------------------------------------------------
(***************************************************************************)
(* The handler, one step per call of S3.                                   *)
(***************************************************************************)

\* Mutant of GetObject: waits for an object that parses.
GetObjectWaiting(m) ==
    /\ at[m] = "get_object"
    /\ Parses(raw[Len(raw)])
    /\ read' = [read EXCEPT ![m] = Len(raw)] /\ Proceed(m, "write_valid")
    /\ UNCHANGED <<raw, curated, quarantine, sent, receives, faults, overlapped>>

GetObject(m) ==
    /\ at[m] = "get_object"
    /\ IF Parses(raw[Len(raw)])
       THEN read' = [read EXCEPT ![m] = Len(raw)] /\ Proceed(m, "write_valid")
       ELSE Raise(m) /\ UNCHANGED read
    /\ UNCHANGED <<raw, curated, quarantine, sent, receives, faults, overlapped>>

\* Puts the valid rows, or deletes the object when there are none.
WriteValid(m) ==
    /\ at[m] = "write_valid"
    /\ IF raw[read[m]].valid = "ragged"
       THEN Raise(m) /\ UNCHANGED curated
       ELSE curated' = read[m] /\ Proceed(m, "write_rejected")
    /\ UNCHANGED <<raw, quarantine, sent, receives, read, faults, overlapped>>

\* Mutant of WriteRejected: nothing to write leaves the old object in place.
WriteRejectedNoDelete(m) ==
    /\ at[m] = "write_rejected"
    /\ CASE raw[read[m]].rejected = "ragged" -> Raise(m) /\ UNCHANGED quarantine
         [] raw[read[m]].rejected = "none" -> Proceed(m, "return") /\ UNCHANGED quarantine
         [] OTHER -> quarantine' = read[m] /\ Proceed(m, "return")
    /\ UNCHANGED <<raw, curated, sent, receives, read, faults, overlapped>>

WriteRejected(m) ==
    /\ at[m] = "write_rejected"
    /\ IF raw[read[m]].rejected = "ragged"
       THEN Raise(m) /\ UNCHANGED quarantine
       ELSE quarantine' = read[m] /\ Proceed(m, "return")
    /\ UNCHANGED <<raw, curated, sent, receives, read, faults, overlapped>>

\* The message is deleted once the function has answered.
Return(m) ==
    /\ at[m] = "return"
    /\ Proceed(m, "done")
    /\ UNCHANGED <<raw, curated, quarantine, sent, receives, read, faults, overlapped>>

\* A call fails or the function times out; a write may have been applied.
Fault(m) ==
    /\ Running(m)
    /\ faults < MaxFaults
    /\ faults' = faults + 1
    /\ Raise(m)
    /\ UNCHANGED <<raw, curated, quarantine, sent, receives, read, overlapped>>

Handle(m) ==
    \/ Receive(m)
    \/ GetObject(m) \/ WriteValid(m) \/ WriteRejected(m)
    \/ Return(m)

Next == PutRawObject \/ \E m \in Messages : Handle(m) \/ Fault(m)

Spec == Init /\ [][Next]_vars

\* The queue delivers what it holds and an invocation runs until it ends;
\* nothing makes anybody upload.
Fairness == \A m \in Messages : WF_vars(Handle(m))

FairSpec == Spec /\ Fairness

-----------------------------------------------------------------------------
Idle == \A m \in Messages : at[m] \in {"unsent", "done"}

(***************************************************************************)
(* What the alarm on the dead-letter queue promises: unless invocations    *)
(* overlapped, the curated and the quarantine object hold the rows of one  *)
(* and the same upload, the newest one, whenever no message is waiting,    *)
(* being handled or dead.  A failure between the two writes is repaired by *)
(* the redelivery or leaves a dead letter (validate_handler.py:103-110).   *)
(***************************************************************************)
SettledOnNewest ==
    ~overlapped /\ Idle => curated = Len(raw) /\ quarantine = Len(raw)

(***************************************************************************)
(* Fewer failures than receives lose nothing: a message dies only when     *)
(* ReceiveLimit calls failed or an upload could not be parsed or written.  *)
(***************************************************************************)
DeadForCause ==
    (\E m \in Messages : at[m] = "dead") =>
        \/ faults >= ReceiveLimit
        \/ \E v \in 1..Len(raw) : ~Parses(raw[v]) \/ ~Writable(raw[v])

(***************************************************************************)
(* Nothing stays in the queue for ever: every message is handled to the    *)
(* end or becomes a dead letter, however often it fails.                   *)
(***************************************************************************)
EveryMessageEnds ==
    \A m \in Messages : at[m] = "queued" ~> at[m] \in {"done", "dead"}

(***************************************************************************)
(* Each of the two objects is a mirror of the raw object: it only moves    *)
(* to a newer upload as long as invocations did not overlap.  A message    *)
(* redelivered after a newer upload must not bring the older rows back.    *)
(***************************************************************************)
CuratedMirror == INSTANCE Mirror WITH uploads <- Len(raw), mirror <- curated
QuarantineMirror == INSTANCE Mirror WITH uploads <- Len(raw), mirror <- quarantine
CuratedIsMirror == CuratedMirror!Spec
QuarantineIsMirror == QuarantineMirror!Spec
ObjectsAreMirrors == CuratedIsMirror /\ QuarantineIsMirror

=============================================================================
