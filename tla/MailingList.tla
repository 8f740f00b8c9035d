---------------------------- MODULE MailingList ----------------------------
(***************************************************************************)
(* The website's mailing list: the subscribe route and services.subscribe. *)
(* A signup takes the time, then updates one table item; the SDK sends the *)
(* update again when the answer is lost, and two processes serve signups   *)
(* while the instance is replaced.                                         *)
(***************************************************************************)
EXTENDS Integers

CONSTANTS
    Signups,                \* submissions of the form
    Spelling,               \* signup -> the address as it was typed
    Normal,                 \* typed address -> the address trimmed and lowered
    MaxSeconds              \* bound on the clock

ASSUME MailingListConstants ==
    /\ DOMAIN Spelling = Signups /\ \A s \in Signups : Spelling[s] \in DOMAIN Normal
    /\ MaxSeconds \in Nat

VARIABLES
    seconds,      \* the wall clock
    table,        \* address -> created_at and last_signup_at (-1: no item)
    signup        \* signup -> where it is, its time, the created_at it returned

listVars == <<seconds, table, signup>>

Addresses == {Normal[typed] : typed \in DOMAIN Normal}
Seconds == -1..MaxSeconds
NoItem == [created_at |-> -1, last_signup_at |-> -1]

ListTypeOK ==
    /\ seconds \in 0..MaxSeconds
    /\ table \in [Addresses \cup DOMAIN Normal -> [created_at: Seconds, last_signup_at: Seconds]]
    /\ signup \in [Signups -> [at: {"new", "updating", "failed", "subscribed"},
                               now: Seconds, created_at: Seconds]]

ListInit ==
    /\ seconds = 0
    /\ table = [a \in Addresses \cup DOMAIN Normal |-> NoItem]
    /\ signup = [s \in Signups |-> [at |-> "new", now |-> -1, created_at |-> -1]]

ListTick ==
    /\ seconds < MaxSeconds
    /\ seconds' = seconds + 1
    /\ UNCHANGED <<table, signup>>

\* Mutant of Key: the address as it was typed.
KeyAsTyped(s) == Spelling[s]

\* Subscription._normalize runs before the item's key is made.
Key(s) == Normal[Spelling[s]]

Subscribe(s) ==
    /\ signup[s].at = "new"
    /\ signup' = [signup EXCEPT ![s].at = "updating", ![s].now = seconds]
    /\ UNCHANGED <<seconds, table>>

\* SET created_at = if_not_exists(created_at, :now), last_signup_at = :now
Updated(item, now) ==
    [created_at |-> IF item = NoItem THEN now ELSE item.created_at, last_signup_at |-> now]

\* The update is applied; its answer arrives, or is lost.
UpdateItem(s) ==
    /\ signup[s].at = "updating"
    /\ LET item == Updated(table[Key(s)], signup[s].now)
       IN  /\ table' = [table EXCEPT ![Key(s)] = item]
           /\ \/ signup' = [signup EXCEPT ![s].at = "subscribed", ![s].created_at = item.created_at]
              \/ UNCHANGED signup
    /\ UNCHANGED seconds

\* The SDK gives up: ServiceError.
GiveUp(s) ==
    /\ signup[s].at = "updating"
    /\ signup' = [signup EXCEPT ![s].at = "failed"]
    /\ UNCHANGED <<seconds, table>>

ListNext == ListTick \/ \E s \in Signups : Subscribe(s) \/ UpdateItem(s) \/ GiveUp(s)

ListSpec == ListInit /\ [][ListNext]_listVars

-----------------------------------------------------------------------------
(***************************************************************************)
(* One subscriber, one joining time: all signups of an address, however it *)
(* was typed, retried or interleaved, are told the same created_at, and    *)
(* that is the one the table keeps (services.py:195-219, app.py:43-53).    *)
(***************************************************************************)
OneJoiningTime ==
    \A s \in Signups : signup[s].at = "subscribed" =>
        signup[s].created_at = table[Normal[Spelling[s]]].created_at

=============================================================================
