---------------------------- MODULE Predictions ----------------------------
(***************************************************************************)
(* The website's prediction path: the form of a visitor's page             *)
(* (PredictForm.tsx), the route that limits, validates and forwards its    *)
(* record (app.py, rate_limit.py, services.py), and the process they share.*)
(*                                                                         *)
(* The routes are coroutines whose calls block, so the process serves one  *)
(* request from its start to its end before it turns to the next, and a    *)
(* slow prediction keeps every other visitor waiting.  The limiter counts  *)
(* in that process only: a restart forgets what it counted.                *)
(***************************************************************************)
EXTENDS Integers, Sequences

CONSTANTS
    Visitors,               \* caller addresses, each with one page open
    Records, Invalid,       \* what a form may hold; what the schema refuses
    Limit, Window,          \* RATE_LIMIT_PER_MINUTE; window_seconds, in ticks
    Nothing,                \* no record
    MaxMoment, MaxSubmits, MaxRestarts   \* bounds

ASSUME PredictionsConstants ==
    /\ Invalid \subseteq Records /\ Nothing \notin Records
    /\ Limit \in Nat \ {0} /\ Window \in Nat \ {0}
    /\ MaxMoment \in Nat /\ MaxSubmits \in Nat /\ MaxRestarts \in Nat

VARIABLES
    moment,       \* the process's monotonic clock
    hits,         \* RateLimiter._hits: caller -> its counted requests
    accepted,     \* caller -> every request let through since the start (history)
    requests,     \* the requests on their way there or back
    record,       \* page -> what the form holds
    submitted,    \* page -> the record last submitted
    shown,        \* page -> the record whose result or error it displays
    submits, restarts   \* submissions and restarts so far

limiterVars == <<hits, accepted>>
pageVars == <<record, submitted, shown, submits>>
predictVars == <<moment, limiterVars, requests, pageVars, restarts>>

Statuses == {"200", "400", "429", "502", "unreachable"}
Times == 0..MaxMoment

\* A request waits for the process, then for the prediction API, or it has
\* been answered with a status, or the process dropped the connection.
Requests == [from: Visitors, of: Records, at: {"sent", "calling"} \cup Statuses]

PredictTypeOK ==
    /\ moment \in Times
    /\ hits \in [Visitors -> Seq(Times)]
    /\ accepted \in [Visitors -> Seq(Times)]
    /\ requests \subseteq Requests
    /\ record \in [Visitors -> Records]
    /\ submitted \in [Visitors -> Records \cup {Nothing}]
    /\ shown \in [Visitors -> Records \cup {Nothing}]
    /\ submits \in 0..MaxSubmits
    /\ restarts \in 0..MaxRestarts

PredictInit ==
    /\ moment = 0
    /\ hits = [v \in Visitors |-> <<>>]
    /\ accepted = [v \in Visitors |-> <<>>]
    /\ requests = {}
    /\ \E first \in Records : record = [v \in Visitors |-> first]
    /\ submitted = [v \in Visitors |-> Nothing]
    /\ shown = [v \in Visitors |-> Nothing]
    /\ submits = 0
    /\ restarts = 0

ClockTick ==
    /\ moment < MaxMoment
    /\ moment' = moment + 1
    /\ UNCHANGED <<limiterVars, requests, pageVars, restarts>>

-----------------------------------------------------------------------------
(***************************************************************************)
(* The form.  Its fields and example buttons do not wait for an answer.    *)
(***************************************************************************)

Update(v) ==
    /\ \E other \in Records : record' = [record EXCEPT ![v] = other]
    /\ UNCHANGED <<moment, limiterVars, requests, submitted, shown, submits, restarts>>

LoadExample(v) ==
    /\ \E other \in Records : record' = [record EXCEPT ![v] = other]
    /\ shown' = [shown EXCEPT ![v] = Nothing]
    /\ UNCHANGED <<moment, limiterVars, requests, submitted, submits, restarts>>

\* Mutant of Pending: the button stays usable while a request is on its way.
PendingIgnored(v) == FALSE

\* The button is disabled while the page waits for an answer.
Pending(v) == \E r \in requests : r.from = v

Submit(v) ==
    /\ ~Pending(v)
    /\ submits < MaxSubmits
    /\ submits' = submits + 1
    /\ requests' = requests \cup {[from |-> v, of |-> record[v], at |-> "sent"]}
    /\ submitted' = [submitted EXCEPT ![v] = record[v]]
    /\ shown' = [shown EXCEPT ![v] = Nothing]
    /\ UNCHANGED <<moment, limiterVars, record, restarts>>

-----------------------------------------------------------------------------
(***************************************************************************)
(* The route.                                                              *)
(***************************************************************************)
\* Mutant of Move: the answer loses the record it is about.
MoveBlank(r, at) == requests' = (requests \ {r}) \cup {[r EXCEPT !.at = at, !.of = Nothing]}

Move(r, at) == requests' = (requests \ {r}) \cup {[r EXCEPT !.at = at]}

ProcessIdle == \A r \in requests : r.at # "calling"

\* Mutant of Expired: a hit leaves the window a tick early.
ExpiredEarly(hit) == moment - hit >= Window - 1

Expired(hit) == moment - hit >= Window

\* RateLimiter.allow drops the k oldest hits that the window has left behind.
DropsExpired(h, k) ==
    /\ \A j \in 1..k : Expired(h[j])
    /\ k < Len(h) => ~Expired(h[k + 1])

\* predict: the limiter counts a request before the record is validated, and
\* does not count a refused one.
Predict(r) ==
    /\ r.at = "sent"
    /\ ProcessIdle
    /\ \E k \in 0..Len(hits[r.from]) :
          LET kept == SubSeq(hits[r.from], k + 1, Len(hits[r.from]))
          IN  /\ DropsExpired(hits[r.from], k)
              /\ IF Len(kept) >= Limit
                 THEN /\ hits' = [hits EXCEPT ![r.from] = kept]
                      /\ Move(r, "429")
                      /\ UNCHANGED accepted
                 ELSE /\ hits' = [hits EXCEPT ![r.from] = Append(kept, moment)]
                      /\ accepted' = [accepted EXCEPT ![r.from] = Append(@, moment)]
                      /\ Move(r, IF r.of \in Invalid THEN "400" ELSE "calling")
    /\ UNCHANGED <<moment, pageVars, restarts>>

\* services.predict returns the API's answer or raises ServiceError; a call
\* that gets no answer raises it after the request's timeout.
ApiAnswers(r) ==
    /\ r.at = "calling"
    /\ \E status \in {"200", "502"} : Move(r, status)
    /\ UNCHANGED <<moment, limiterVars, pageVars, restarts>>

\* Mutant of Deliver: an error leaves the page pending.
DeliverResult(r) ==
    /\ r.at = "200"
    /\ requests' = requests \ {r}
    /\ shown' = [shown EXCEPT ![r.from] = r.of]
    /\ UNCHANGED <<moment, limiterVars, record, submitted, submits, restarts>>

\* The page displays the result or the error.
Deliver(r) ==
    /\ r.at \in Statuses
    /\ requests' = requests \ {r}
    /\ shown' = [shown EXCEPT ![r.from] = r.of]
    /\ UNCHANGED <<moment, limiterVars, record, submitted, submits, restarts>>

\* The container restarts, or the instance is replaced.
Restart ==
    /\ restarts < MaxRestarts
    /\ restarts' = restarts + 1
    /\ hits' = [v \in Visitors |-> <<>>]
    /\ accepted' = [v \in Visitors |-> <<>>]
    /\ requests' = {[r EXCEPT !.at = IF @ \in {"sent", "calling"} THEN "unreachable" ELSE @] : r \in requests}
    /\ UNCHANGED <<moment, pageVars>>

Answer(r) == ApiAnswers(r) \/ Deliver(r)

PredictNext ==
    \/ ClockTick \/ Restart
    \/ \E v \in Visitors : Update(v) \/ LoadExample(v) \/ Submit(v)
    \/ \E r \in requests : Predict(r) \/ Answer(r)

PredictSpec == PredictInit /\ [][PredictNext]_predictVars

\* The event loop takes requests in the order they come, so none is passed
\* over for ever; every call of the API ends.
PredictFairness ==
    \A v \in Visitors :
        /\ SF_predictVars(\E r \in requests : r.from = v /\ Predict(r))
        /\ WF_predictVars(\E r \in requests : r.from = v /\ Answer(r))

-----------------------------------------------------------------------------
(***************************************************************************)
(* A process never lets more than Limit requests of a caller through in a  *)
(* window: the Limit-th request after any other is at least a window later *)
(* (rate_limit.py:21-30).                                                  *)
(***************************************************************************)
WindowKept ==
    \A v \in Visitors : \A i, j \in 1..Len(accepted[v]) :
        i + Limit <= j => accepted[v][j] - accepted[v][i] >= Window

(***************************************************************************)
(* Nobody is refused while there is room: at the moment of a 429 the       *)
(* caller has had Limit requests let through in the window that ends now.  *)
(***************************************************************************)
Refused(v) == \E r \in requests' \ requests : r.from = v /\ r.at = "429"
FullWhenRefused ==
    \A v \in Visitors : Refused(v) =>
        /\ Len(accepted[v]) >= Limit
        /\ moment - accepted[v][Len(accepted[v]) - Limit + 1] < Window

(***************************************************************************)
(* The limiter is exact to the tick, in both directions.                   *)
(***************************************************************************)
LimiterExact == [][WindowKept' /\ FullWhenRefused]_predictVars

(***************************************************************************)
(* A page displays an outcome of the record it submitted last, never one   *)
(* of an earlier submission that was answered late (PredictForm.tsx:73).   *)
(***************************************************************************)
ShowsLastSubmission == \A v \in Visitors : shown[v] \in {Nothing, submitted[v]}

(***************************************************************************)
(* Every submission is answered: no visitor's page stays at "Scoring", not *)
(* even when the process restarts under the request.                       *)
(***************************************************************************)
EverySubmissionAnswered == \A v \in Visitors : Pending(v) ~> ~Pending(v)

=============================================================================
