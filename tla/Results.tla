------------------------------ MODULE Results ------------------------------
(***************************************************************************)
(* The website's results section: latest_results and ResultsCache          *)
(* (website/backend/services.py).  A request is answered from the cache    *)
(* while the cached report is younger than Ttl; otherwise the route lists  *)
(* one page of report keys, takes the one modified last, and reads it.     *)
(* Reports may be stored between the two calls.                            *)
(*                                                                         *)
(* Reports are numbered in the order of their keys.  A page holds the      *)
(* first PageSize keys.  Nothing deletes a report.                         *)
(***************************************************************************)
EXTENDS Integers, FiniteSets

CONSTANTS
    Ttl,                    \* RESULTS_CACHE_SECONDS, in ticks
    PageSize,               \* keys in one answer of ListObjectsV2
    MaxReports, MaxClock    \* bounds

ASSUME ResultsConstants ==
    /\ Ttl \in Nat /\ PageSize \in Nat \ {0}
    /\ MaxReports \in Nat /\ MaxClock \in Nat

VARIABLES
    clock,
    stored,       \* report -> its LastModified, for the reports in the bucket
    cached,       \* ResultsCache: the report (0: none) and _read_at
    reading,      \* the request being served: when it came and what it listed
    answer        \* the last answer: the report (0: unavailable), its request's time

resultsVars == <<clock, stored, cached, reading, answer>>

Reports == 1..MaxReports
Unread == [asked |-> -1, listed |-> 0]

ResultsTypeOK ==
    /\ clock \in 0..MaxClock
    /\ DOMAIN stored \subseteq Reports /\ \A n \in DOMAIN stored : stored[n] \in 0..clock
    /\ cached \in [report: DOMAIN stored \cup {0}, readAt: 0..clock]
    /\ reading \in [asked: 0..clock, listed: DOMAIN stored] \cup {Unread}
    /\ answer \in [report: DOMAIN stored \cup {0}, asked: 0..clock]

ResultsInit ==
    /\ clock = 0
    /\ stored = <<>>
    /\ cached = [report |-> 0, readAt |-> 0]
    /\ reading = Unread
    /\ answer = [report |-> 0, asked |-> 0]

ResultsTick ==
    /\ clock < MaxClock
    /\ clock' = clock + 1
    /\ UNCHANGED <<stored, cached, reading, answer>>

\* An evaluation stores its report.
StoreReport ==
    /\ \E n \in Reports \ DOMAIN stored :
          stored' = [k \in DOMAIN stored \cup {n} |-> IF k = n THEN clock ELSE stored[k]]
    /\ UNCHANGED <<clock, cached, reading, answer>>

-----------------------------------------------------------------------------
Page == {n \in DOMAIN stored : Cardinality({k \in DOMAIN stored : k < n}) < PageSize}

\* The first one in the page's order among those modified last.
Newest(page) ==
    CHOOSE n \in page : \A k \in page :
        stored[k] < stored[n] \/ (stored[k] = stored[n] /\ n <= k)

\* Mutant of Hit: a report is served for one tick too many.
HitLate == cached.report # 0 /\ clock - cached.readAt <= Ttl

Hit == cached.report # 0 /\ clock - cached.readAt < Ttl

AnswerWith(report, asked) == answer' = [report |-> report, asked |-> asked]

AnswerFromCache ==
    /\ reading = Unread
    /\ Hit
    /\ AnswerWith(cached.report, clock)
    /\ UNCHANGED <<clock, stored, cached, reading>>

\* The listing fails, is empty, or names the report to read.
ListReports ==
    /\ reading = Unread
    /\ ~Hit
    /\ \/ AnswerWith(0, clock) /\ UNCHANGED reading
       \/ /\ Page # {}
          /\ reading' = [asked |-> clock, listed |-> Newest(Page)]
          /\ UNCHANGED answer
    /\ UNCHANGED <<clock, stored, cached>>

\* A failed or unreadable report is not cached, and what was cached is kept.
GetReport ==
    /\ reading # Unread
    /\ \/ AnswerWith(0, reading.asked) /\ UNCHANGED cached
       \/ /\ AnswerWith(reading.listed, reading.asked)
          /\ cached' = [report |-> reading.listed, readAt |-> reading.asked]
    /\ reading' = Unread
    /\ UNCHANGED <<clock, stored>>

ResultsNext ==
    \/ ResultsTick \/ StoreReport
    \/ AnswerFromCache \/ ListReports \/ GetReport

ResultsSpec == ResultsInit /\ [][ResultsNext]_resultsVars

-----------------------------------------------------------------------------
(***************************************************************************)
(* As long as one page lists every report, a visitor sees the newest       *)
(* report but for the last Ttl: no report stored Ttl before the request is *)
(* newer than the one served (services.py:134-165).  Past PageSize reports *)
(* the premise fails, and the report served stays the newest of the first  *)
(* PageSize keys.                                                          *)
(***************************************************************************)
ServedIsFresh ==
    answer.report # 0 /\ Cardinality(DOMAIN stored) <= PageSize =>
        \A n \in DOMAIN stored :
            stored[n] <= answer.asked - Ttl => stored[n] <= stored[answer.report]

=============================================================================
