--------------------------- MODULE Website_proofs ---------------------------
(***************************************************************************)
(* Proofs about the website's backend: MailingList for every set of        *)
(* signups and spellings, Results for every number of reports and length   *)
(* of page, and Predictions for every limit and window and every number of *)
(* visitors, records, submissions and restarts.                            *)
(***************************************************************************)
EXTENDS Predictions, Results, MailingList, Least_proofs, TLAPS

-----------------------------------------------------------------------------
(***************************************************************************)
(* The mailing list.  The inductive invariant: what a signup was told is   *)
(* what the table keeps, and it is a time.                                 *)
(***************************************************************************)
ListInv ==
    /\ ListTypeOK
    /\ \A s \in Signups :
          /\ signup[s].at = "updating" => signup[s].now # -1
          /\ signup[s].at = "subscribed" => table[Key(s)].created_at # -1
    /\ \A a \in Addresses : table[a] # NoItem => table[a].created_at # -1
    /\ OneJoiningTime

LEMMA KeysAreAddresses == \A s \in Signups : Key(s) \in Addresses
BY MailingListConstants DEF Key, Addresses

LEMMA ListStart == ListInit => ListInv
<1> SUFFICES ASSUME ListInit PROVE ListInv
  OBVIOUS
<1>1. 0 \in 0..MaxSeconds /\ -1 \in Seconds
  BY MailingListConstants DEF Seconds
<1>2. ListTypeOK
  BY <1>1 DEF ListInit, ListTypeOK, NoItem
<1> QED BY <1>2 DEF ListInit, ListInv, OneJoiningTime, NoItem

LEMMA ListStep == ListInv /\ [ListNext]_listVars => ListInv'
<1> SUFFICES ASSUME ListInv, [ListNext]_listVars PROVE ListInv'
  OBVIOUS
<1> USE DEF ListInv
<1>0. seconds \in 0..MaxSeconds /\ MaxSeconds \in Nat /\ seconds \in Seconds /\ seconds # -1
  BY MailingListConstants DEF ListTypeOK, Seconds
<1>1. CASE UNCHANGED listVars
  BY <1>1, KeysAreAddresses DEF listVars, ListTypeOK, OneJoiningTime, Key
<1>2. CASE ListTick
  <2>1. ListTypeOK'
    BY <1>0, <1>2 DEF ListTick, ListTypeOK
  <2> QED BY <1>2, <2>1 DEF ListTick, OneJoiningTime
<1>3. ASSUME NEW s \in Signups, Subscribe(s) PROVE ListInv'
  <2>1. ListTypeOK'
    BY <1>0, <1>3 DEF Subscribe, ListTypeOK
  <2>2. \A t \in Signups : t # s => signup'[t] = signup[t]
    BY <1>3 DEF Subscribe, ListTypeOK
  <2>3. signup'[s].at = "updating" /\ signup'[s].now # -1 /\ table' = table
    BY <1>0, <1>3 DEF Subscribe, ListTypeOK
  <2> QED BY <2>1, <2>2, <2>3 DEF OneJoiningTime
<1>4. ASSUME NEW s \in Signups, UpdateItem(s) PROVE ListInv'
  <2> DEFINE item == Updated(table[Key(s)], signup[s].now)
  <2>0. Key(s) \in Addresses /\ signup[s].now \in Seconds /\ signup[s].now # -1
    BY <1>4, KeysAreAddresses DEF UpdateItem, ListTypeOK
  <2>1. /\ item \in [created_at: Seconds, last_signup_at: Seconds]
        /\ item.created_at # -1
        /\ table[Key(s)] # NoItem => item.created_at = table[Key(s)].created_at
    BY <2>0 DEF Updated, ListTypeOK
  <2>2. /\ table' = [table EXCEPT ![Key(s)] = item] /\ seconds' = seconds
        /\ \/ signup' = [signup EXCEPT ![s].at = "subscribed", ![s].created_at = item.created_at]
           \/ UNCHANGED signup
    BY <1>4 DEF UpdateItem
  <2> HIDE DEF item
  <2>3. /\ table'[Key(s)] = item
        /\ \A a \in Addresses : a # Key(s) => table'[a] = table[a]
    BY <2>0, <2>2 DEF ListTypeOK
  <2>4. ListTypeOK'
    BY <2>0, <2>1, <2>2 DEF ListTypeOK
  <2>5. \A t \in Signups : t # s => signup'[t] = signup[t]
    BY <2>2 DEF ListTypeOK
  <2>6. \/ signup'[s] = signup[s]
        \/ signup'[s].at = "subscribed" /\ signup'[s].created_at = item.created_at
    BY <2>2 DEF ListTypeOK
  <2>7. signup[s].at = "updating"
    BY <1>4 DEF UpdateItem
  <2>8. ASSUME NEW t \in Signups, signup'[t].at = "subscribed"
        PROVE  /\ table'[Key(t)].created_at # -1
               /\ signup'[t].created_at = table'[Key(t)].created_at
    <3>1. CASE t = s
      BY <2>1, <2>3, <2>6, <2>7, <2>8, <3>1
    <3>2. CASE t # s
      <4>1. signup[t].at = "subscribed" /\ signup'[t] = signup[t] /\ Key(t) \in Addresses
        BY <2>5, <2>8, <3>2, KeysAreAddresses
      <4>2. signup[t].created_at = table[Key(t)].created_at /\ table[Key(t)].created_at # -1
        BY <4>1 DEF OneJoiningTime, Key
      <4>3. CASE Key(t) = Key(s)
        <5>1. table[Key(s)] # NoItem
          BY <4>2, <4>3 DEF NoItem
        <5> QED BY <2>1, <2>3, <4>1, <4>2, <4>3, <5>1
      <4>4. CASE Key(t) # Key(s)
        BY <2>3, <4>1, <4>2, <4>4
      <4> QED BY <4>3, <4>4
    <3> QED BY <3>1, <3>2
  <2>9. \A t \in Signups : signup'[t].at = "updating" => signup'[t].now # -1
    BY <2>5, <2>6, <2>7
  <2>10. \A a \in Addresses : table'[a] # NoItem => table'[a].created_at # -1
    BY <2>1, <2>3
  <2>11. OneJoiningTime'
    BY <2>8 DEF OneJoiningTime, Key
  <2> QED BY <2>4, <2>8, <2>9, <2>10, <2>11 DEF Key
<1>5. ASSUME NEW s \in Signups, GiveUp(s) PROVE ListInv'
  <2>1. ListTypeOK'
    BY <1>0, <1>5 DEF GiveUp, ListTypeOK
  <2>2. \A t \in Signups : t # s => signup'[t] = signup[t]
    BY <1>5 DEF GiveUp, ListTypeOK
  <2>3. signup'[s].at = "failed" /\ table' = table
    BY <1>5 DEF GiveUp, ListTypeOK
  <2> QED BY <2>1, <2>2, <2>3 DEF OneJoiningTime
<1> QED BY <1>1, <1>2, <1>3, <1>4, <1>5 DEF ListNext

\* All signups of an address, however it was typed, retried or interleaved, are
\* told one joining time, and the table keeps it (services.py:195-219).
THEOREM JoiningTimeIsKept == ListSpec => []OneJoiningTime
<1>1. ListInv => OneJoiningTime
  BY DEF ListInv
<1> QED BY <1>1, ListStart, ListStep, PTL DEF ListSpec

-----------------------------------------------------------------------------
(***************************************************************************)
(* The results section.                                                    *)
(***************************************************************************)
\* Among listed reports there is one modified last, first in the page's order.
LEMMA NewestOfPage ==
    ASSUME ResultsTypeOK, NEW P \in SUBSET DOMAIN stored, P # {}
    PROVE  Newest(P) \in P /\ \A k \in P : stored[k] <= stored[Newest(P)]
<1>0. clock \in Nat /\ \A k \in P : stored[k] \in 0..clock /\ k \in Nat
  BY ResultsConstants DEF ResultsTypeOK, Reports
<1>1. PICK a \in {clock - stored[k] : k \in P} : \A b \in {clock - stored[k] : k \in P} : a <= b
  <2>1. {clock - stored[k] : k \in P} \in SUBSET Nat /\ {clock - stored[k] : k \in P} # {}
    BY <1>0
  <2> QED BY <2>1, LeastNatural
<1>2. PICK m \in P : a = clock - stored[m]
  BY <1>1
<1>3. \A k \in P : stored[k] <= stored[m]
  <2> SUFFICES ASSUME NEW k \in P PROVE stored[k] <= stored[m]
    OBVIOUS
  <2>1. clock - stored[m] <= clock - stored[k]
    BY <1>1, <1>2
  <2> QED BY <1>0, <2>1
<1>4. PICK n \in {k \in P : stored[k] = stored[m]} :
         \A k \in {k \in P : stored[k] = stored[m]} : n <= k
  <2>1. {k \in P : stored[k] = stored[m]} \in SUBSET Nat /\ m \in {k \in P : stored[k] = stored[m]}
    BY <1>0
  <2> QED BY <2>1, LeastNatural
<1>5. n \in P /\ \A k \in P : stored[k] < stored[n] \/ (stored[k] = stored[n] /\ n <= k)
  BY <1>0, <1>3, <1>4
<1>6. Newest(P) \in P /\ \A k \in P :
         stored[k] < stored[Newest(P)] \/ (stored[k] = stored[Newest(P)] /\ Newest(P) <= k)
  BY <1>5 DEF Newest
<1> QED BY <1>0, <1>6

\* One page holds every report as long as there are no more than fit on it.
LEMMA PageIsWhole ==
    ASSUME ResultsTypeOK, Cardinality(DOMAIN stored) <= PageSize
    PROVE  Page = DOMAIN stored
<1>1. IsFiniteSet(DOMAIN stored) /\ Cardinality(DOMAIN stored) \in Nat /\ DOMAIN stored \subseteq Nat
  <2>1. IsFiniteSet(1..MaxReports)
    BY ResultsConstants, FS_Interval
  <2>2. DOMAIN stored \in SUBSET (1..MaxReports)
    BY DEF ResultsTypeOK, Reports
  <2>3. IsFiniteSet(DOMAIN stored)
    BY <2>1, <2>2, FS_Subset
  <2>4. Cardinality(DOMAIN stored) \in Nat
    BY <2>3, FS_CardinalityType
  <2> QED BY <2>2, <2>3, <2>4
<1>2. ASSUME NEW n \in DOMAIN stored
      PROVE  Cardinality({k \in DOMAIN stored : k < n}) < PageSize
  <2> DEFINE A == {k \in DOMAIN stored : k < n}
  <2>1. A \subseteq DOMAIN stored /\ n \notin A
    BY <1>1
  <2>2. IsFiniteSet(A) /\ Cardinality(A) \in Nat /\ Cardinality(A) <= Cardinality(DOMAIN stored)
        /\ (Cardinality(A) = Cardinality(DOMAIN stored) => A = DOMAIN stored)
    BY <1>1, <2>1, FS_Subset, FS_CardinalityType
  <2> QED BY <1>1, <1>2, <2>1, <2>2, ResultsConstants
<1> QED BY <1>2 DEF Page

(***************************************************************************)
(* The inductive invariant: what is cached, and what is about to be, was   *)
(* the newest report when the listing it comes from was asked for.         *)
(***************************************************************************)
NewestAt(report, time) ==
    report # 0 /\ Cardinality(DOMAIN stored) <= PageSize =>
        \A n \in DOMAIN stored : stored[n] < time => stored[n] <= stored[report]

ResultsInv ==
    /\ ResultsTypeOK
    /\ NewestAt(cached.report, cached.readAt)
    /\ reading # Unread => NewestAt(reading.listed, reading.asked)
    /\ ServedIsFresh

LEMMA ResultsStart == ResultsInit => ResultsInv
<1> SUFFICES ASSUME ResultsInit PROVE ResultsInv
  OBVIOUS
<1>1. DOMAIN stored = {} /\ 0 \in 0..MaxClock /\ clock = 0
  BY ResultsConstants DEF ResultsInit
<1> QED BY <1>1 DEF ResultsInit, ResultsInv, ResultsTypeOK, NewestAt, ServedIsFresh, Unread

LEMMA ResultsTypeStep == ResultsTypeOK /\ [ResultsNext]_resultsVars => ResultsTypeOK'
<1> SUFFICES ASSUME ResultsTypeOK, [ResultsNext]_resultsVars PROVE ResultsTypeOK'
  OBVIOUS
<1>0. clock \in 0..MaxClock /\ MaxClock \in Nat
  BY ResultsConstants DEF ResultsTypeOK
<1>1. CASE UNCHANGED resultsVars
  BY <1>1 DEF resultsVars, ResultsTypeOK
<1>2. CASE ResultsTick
  BY <1>0, <1>2 DEF ResultsTick, ResultsTypeOK
<1>3. CASE StoreReport
  <2>1. PICK n \in Reports \ DOMAIN stored :
           stored' = [k \in DOMAIN stored \cup {n} |-> IF k = n THEN clock ELSE stored[k]]
    BY <1>3 DEF StoreReport
  <2>2. DOMAIN stored' = DOMAIN stored \cup {n} /\ \A k \in DOMAIN stored' : stored'[k] \in 0..clock
    BY <1>0, <2>1 DEF ResultsTypeOK
  <2> QED BY <1>3, <2>2 DEF StoreReport, ResultsTypeOK
<1>4. CASE AnswerFromCache
  BY <1>0, <1>4 DEF AnswerFromCache, AnswerWith, ResultsTypeOK
<1>5. CASE ListReports
  <2>1. CASE AnswerWith(0, clock) /\ UNCHANGED reading
    BY <1>0, <1>5, <2>1 DEF ListReports, AnswerWith, ResultsTypeOK
  <2>2. CASE Page # {} /\ reading' = [asked |-> clock, listed |-> Newest(Page)] /\ UNCHANGED answer
    <3>1. Newest(Page) \in DOMAIN stored
      BY <2>2, NewestOfPage DEF Page
    <3> QED BY <1>0, <1>5, <2>2, <3>1 DEF ListReports, ResultsTypeOK
  <2> QED BY <1>5, <2>1, <2>2 DEF ListReports
<1>6. CASE GetReport
  <2>1. reading \in [asked: 0..clock, listed: DOMAIN stored]
    BY <1>6 DEF GetReport, ResultsTypeOK
  <2> QED BY <1>0, <1>6, <2>1 DEF GetReport, AnswerWith, ResultsTypeOK
<1> QED BY <1>1, <1>2, <1>3, <1>4, <1>5, <1>6 DEF ResultsNext

\* A report stored now is no reason to call an older listing stale.
LEMMA StoringKeeps ==
    ASSUME ResultsTypeOK, StoreReport, NEW report \in DOMAIN stored \cup {0},
           NEW time \in 0..clock, NewestAt(report, time)
    PROVE  NewestAt(report, time)'
<1>1. PICK n \in Reports \ DOMAIN stored :
         stored' = [k \in DOMAIN stored \cup {n} |-> IF k = n THEN clock ELSE stored[k]]
  BY DEF StoreReport
<1>2. clock \in Nat
  BY ResultsConstants DEF ResultsTypeOK
<1>3. /\ DOMAIN stored' = DOMAIN stored \cup {n} /\ stored'[n] = clock
      /\ \A k \in DOMAIN stored : stored'[k] = stored[k]
  BY <1>1
<1>4. Cardinality(DOMAIN stored) <= Cardinality(DOMAIN stored')
      /\ Cardinality(DOMAIN stored) \in Nat /\ Cardinality(DOMAIN stored') \in Nat
  <2>1. IsFiniteSet(1..MaxReports)
    BY ResultsConstants, FS_Interval
  <2>2. DOMAIN stored' \in SUBSET (1..MaxReports) /\ DOMAIN stored \in SUBSET (DOMAIN stored')
    BY <1>3 DEF ResultsTypeOK, Reports
  <2>3. IsFiniteSet(DOMAIN stored')
    BY <2>1, <2>2, FS_Subset
  <2>4. IsFiniteSet(DOMAIN stored) /\ Cardinality(DOMAIN stored) <= Cardinality(DOMAIN stored')
    BY <2>2, <2>3, FS_Subset
  <2> QED BY <2>3, <2>4, FS_CardinalityType
<1> SUFFICES ASSUME report # 0, Cardinality(DOMAIN stored') <= PageSize,
                    NEW k \in DOMAIN stored', stored'[k] < time
             PROVE  stored'[k] <= stored'[report]
  BY DEF NewestAt
<1>5. k \in DOMAIN stored
  BY <1>2, <1>3
<1>6. Cardinality(DOMAIN stored) <= PageSize
  BY <1>4, ResultsConstants
<1> QED BY <1>3, <1>5, <1>6 DEF NewestAt

LEMMA ResultsStep == Ttl # 0 /\ ResultsInv /\ [ResultsNext]_resultsVars => ResultsInv'
<1> SUFFICES ASSUME Ttl # 0, ResultsInv, [ResultsNext]_resultsVars PROVE ResultsInv'
  OBVIOUS
<1> USE DEF ResultsInv
<1>0. /\ ResultsTypeOK' /\ clock \in Nat /\ Ttl \in Nat \ {0}
      /\ \A n \in DOMAIN stored : stored[n] \in 0..clock
      /\ cached.report \in DOMAIN stored \cup {0} /\ cached.readAt \in 0..clock
      /\ answer.report \in DOMAIN stored \cup {0} /\ answer.asked \in 0..clock
      /\ reading # Unread => reading.listed \in DOMAIN stored /\ reading.asked \in 0..clock
  <2>1. ResultsTypeOK' /\ clock \in Nat /\ Ttl \in Nat \ {0}
    BY ResultsTypeStep, ResultsConstants DEF ResultsTypeOK
  <2> QED BY <2>1 DEF ResultsTypeOK
<1>1. CASE UNCHANGED resultsVars
  BY <1>0, <1>1 DEF resultsVars, NewestAt, ServedIsFresh
<1>2. CASE ResultsTick
  BY <1>0, <1>2 DEF ResultsTick, NewestAt, ServedIsFresh
<1>3. CASE StoreReport
  <2>1. UNCHANGED <<clock, cached, reading, answer>>
    BY <1>3 DEF StoreReport
  <2>2. NewestAt(cached.report, cached.readAt)'
    BY <1>0, <1>3, <2>1, StoringKeeps DEF NewestAt
  <2>3. reading # Unread => NewestAt(reading.listed, reading.asked)'
    BY <1>0, <1>3, <2>1, StoringKeeps DEF NewestAt
  <2>4. ServedIsFresh'
    <3>1. CASE answer.asked < Ttl
      <4>1. \A n \in DOMAIN stored' : stored'[n] \in 0..clock
        BY <1>0, <2>1 DEF ResultsTypeOK
      <4>2. \A n \in DOMAIN stored' : ~(stored'[n] <= answer.asked - Ttl)
        BY <1>0, <3>1, <4>1
      <4> QED BY <2>1, <4>2 DEF ServedIsFresh
    <3>2. CASE ~(answer.asked < Ttl)
      <4>1. answer.asked - Ttl + 1 \in 0..clock
        BY <1>0, <3>2
      <4>2. NewestAt(answer.report, answer.asked - Ttl + 1)
        BY <1>0, <4>1 DEF NewestAt, ServedIsFresh
      <4>3. NewestAt(answer.report, answer.asked - Ttl + 1)'
        BY <1>0, <1>3, <2>1, <4>1, <4>2, StoringKeeps DEF NewestAt
      <4>4. \A n \in DOMAIN stored' : stored'[n] \in 0..clock
        BY <1>0, <2>1 DEF ResultsTypeOK
      <4> QED BY <1>0, <2>1, <4>1, <4>3, <4>4 DEF NewestAt, ServedIsFresh
    <3> QED BY <3>1, <3>2
  <2> QED BY <1>0, <2>1, <2>2, <2>3, <2>4
<1>4. CASE AnswerFromCache
  <2>1. /\ UNCHANGED <<clock, stored, cached, reading>> /\ cached.report # 0
        /\ clock - cached.readAt < Ttl
        /\ answer' = [report |-> cached.report, asked |-> clock]
    BY <1>4 DEF AnswerFromCache, AnswerWith, Hit
  <2>2. answer'.report = cached.report /\ answer'.asked = clock
    BY <2>1
  <2>3. ASSUME NEW n \in DOMAIN stored, stored[n] <= clock - Ttl PROVE stored[n] < cached.readAt
    BY <1>0, <2>1, <2>3
  <2>4. ServedIsFresh'
    BY <2>1, <2>2, <2>3 DEF NewestAt, ServedIsFresh
  <2> QED BY <1>0, <2>1, <2>4 DEF NewestAt
<1>5. CASE ListReports
  <2>1. UNCHANGED <<clock, stored, cached>>
    BY <1>5 DEF ListReports
  <2>2. CASE AnswerWith(0, clock) /\ UNCHANGED reading
    <3>1. answer'.report = 0
      BY <2>2 DEF AnswerWith
    <3> QED BY <1>0, <2>1, <2>2, <3>1 DEF NewestAt, ServedIsFresh
  <2>3. CASE Page # {} /\ reading' = [asked |-> clock, listed |-> Newest(Page)] /\ UNCHANGED answer
    <3>1. Cardinality(DOMAIN stored) <= PageSize =>
             \A n \in DOMAIN stored : stored[n] <= stored[Newest(Page)]
      BY <2>3, PageIsWhole, NewestOfPage
    <3>2. reading'.listed = Newest(Page)
      BY <2>3
    <3> QED BY <1>0, <2>1, <2>3, <3>1, <3>2 DEF NewestAt, ServedIsFresh
  <2> QED BY <1>5, <2>2, <2>3 DEF ListReports
<1>6. CASE GetReport
  <2>1. UNCHANGED <<clock, stored>> /\ reading # Unread /\ reading' = Unread
    BY <1>6 DEF GetReport
  <2>2. CASE AnswerWith(0, reading.asked) /\ UNCHANGED cached
    <3>1. answer'.report = 0
      BY <2>2 DEF AnswerWith
    <3> QED BY <1>0, <2>1, <2>2, <3>1 DEF NewestAt, ServedIsFresh
  <2>3. CASE /\ AnswerWith(reading.listed, reading.asked)
             /\ cached' = [report |-> reading.listed, readAt |-> reading.asked]
    <3>1. /\ answer'.report = reading.listed /\ answer'.asked = reading.asked
          /\ cached'.report = reading.listed /\ cached'.readAt = reading.asked
      BY <2>3 DEF AnswerWith
    <3>2. NewestAt(reading.listed, reading.asked)
      BY <2>1
    <3>3. ASSUME NEW n \in DOMAIN stored, stored[n] <= reading.asked - Ttl
          PROVE  stored[n] < reading.asked
      BY <1>0, <2>1, <3>3
    <3>4. ServedIsFresh'
      BY <2>1, <3>1, <3>2, <3>3 DEF NewestAt, ServedIsFresh
    <3> QED BY <1>0, <2>1, <3>1, <3>2, <3>4 DEF NewestAt
  <2> QED BY <1>6, <2>2, <2>3 DEF GetReport
<1> QED BY <1>1, <1>2, <1>3, <1>4, <1>5, <1>6 DEF ResultsNext

\* As long as one page lists every report, no visitor is served a report that
\* was outdated Ttl before the request, whatever is stored between the listing
\* and the reading, and whichever calls fail (services.py:134-165).  A cache
\* that keeps nothing (Ttl = 0) is as old as a tick of the clock.
THEOREM ServedReportIsFresh == Ttl # 0 => (ResultsSpec => []ServedIsFresh)
<1> SUFFICES ASSUME Ttl # 0 PROVE ResultsSpec => []ServedIsFresh
  OBVIOUS
<1>1. ResultsInv /\ [ResultsNext]_resultsVars => ResultsInv'
  BY ResultsStep
<1>2. ResultsInv => ServedIsFresh
  BY DEF ResultsInv
<1> QED BY <1>1, <1>2, ResultsStart, PTL DEF ResultsSpec

-----------------------------------------------------------------------------
(***************************************************************************)
(* Predictions.                                                            *)
(***************************************************************************)
USE PredictionsConstants DEF Times

(***************************************************************************)
(* The counted requests h are what is left of the accepted ones a, in the  *)
(* order of time, and what was dropped has left the window.                *)
(***************************************************************************)
Counted(h, a, now) ==
    /\ \A i, j \in 1..Len(a) : i <= j => a[i] <= a[j]
    /\ \A i \in 1..Len(a) : a[i] <= now
    /\ \E d \in 0..Len(a) :
          /\ Len(h) = Len(a) - d
          /\ \A i \in 1..Len(h) : h[i] = a[d + i]
          /\ \A i \in 1..d : now - a[i] >= Window
    /\ Len(h) <= Limit

Spaced(a) == \A i, j \in 1..Len(a) : i + Limit <= j => a[j] - a[i] >= Window

OneRequest ==
    /\ \A q, r \in requests : q.from = r.from => q = r
    /\ \A r \in requests : r.of = submitted[r.from]

IInv ==
    /\ PredictTypeOK
    /\ \A v \in Visitors : Counted(hits[v], accepted[v], moment) /\ Spaced(accepted[v])
    /\ OneRequest /\ ShowsLastSubmission

\* A process that has counted nothing yet.
LEMMA EmptyCounted ==
    ASSUME NEW h, NEW a, Len(h) = 0, Len(a) = 0, NEW now
    PROVE  Counted(h, a, now) /\ Spaced(a)
<1>1. \E d \in 0..Len(a) :
          /\ Len(h) = Len(a) - d
          /\ \A i \in 1..Len(h) : h[i] = a[d + i]
          /\ \A i \in 1..d : now - a[i] >= Window
  <2>1. 0 \in 0..Len(a) /\ Len(h) = Len(a) - 0
    OBVIOUS
  <2>2. \A i \in 1..Len(h) : FALSE
    OBVIOUS
  <2>3. \A i \in 1..0 : FALSE
    OBVIOUS
  <2> QED BY <2>1, <2>2, <2>3
<1>2. \A i \in 1..Len(a) : FALSE
  OBVIOUS
<1>3. Len(h) <= Limit
  OBVIOUS
<1> QED BY <1>1, <1>2, <1>3 DEF Counted, Spaced

LEMMA InitInvariant == PredictInit => IInv
<1> SUFFICES ASSUME PredictInit PROVE IInv
  OBVIOUS
<1>1. 0 \in 0..MaxMoment /\ 0 \in 0..MaxSubmits /\ 0 \in 0..MaxRestarts
  OBVIOUS
<1>2. PredictTypeOK
  BY <1>1 DEF PredictInit, PredictTypeOK
<1>3. OneRequest /\ ShowsLastSubmission
  BY DEF PredictInit, OneRequest, ShowsLastSubmission
<1>4. ASSUME NEW v \in Visitors
      PROVE  Counted(hits[v], accepted[v], moment) /\ Spaced(accepted[v])
  <2>1. Len(hits[v]) = 0 /\ Len(accepted[v]) = 0
    BY DEF PredictInit
  <2> QED BY <2>1, EmptyCounted
<1> QED BY <1>2, <1>3, <1>4 DEF IInv

-----------------------------------------------------------------------------
\* Dropping what has expired leaves the rest of the accepted requests.
LEMMA DropKeeps ==
    ASSUME NEW h \in Seq(Times), NEW a \in Seq(Times), NEW now \in Times, moment = now,
           Counted(h, a, now), NEW k \in 0..Len(h), DropsExpired(h, k)
    PROVE  /\ SubSeq(h, k + 1, Len(h)) \in Seq(Times)
           /\ Counted(SubSeq(h, k + 1, Len(h)), a, now)
           /\ SubSeq(h, k + 1, Len(h)) # <<>> =>
                 now - SubSeq(h, k + 1, Len(h))[1] < Window
<1> DEFINE kept == SubSeq(h, k + 1, Len(h))
<1>1. /\ kept \in Seq(Times) /\ Len(kept) = Len(h) - k
      /\ \A i \in 1..Len(kept) : kept[i] = h[k + i]
  OBVIOUS
<1>2. PICK d \in 0..Len(a) :
          /\ Len(h) = Len(a) - d
          /\ \A i \in 1..Len(h) : h[i] = a[d + i]
          /\ \A i \in 1..d : now - a[i] >= Window
  BY DEF Counted
<1>3. \A i \in 1..k : now - h[i] >= Window
  BY DEF DropsExpired, Expired
<1> HIDE DEF kept
<1>4. Len(kept) = Len(a) - (d + k) /\ d + k \in 0..Len(a)
  BY <1>1, <1>2
<1>5. ASSUME NEW i \in 1..Len(kept) PROVE kept[i] = a[d + k + i]
  <2>1. k + i \in 1..Len(h) /\ d + (k + i) = d + k + i
    BY <1>1
  <2>2. kept[i] = h[k + i] /\ h[k + i] = a[d + (k + i)]
    BY <1>1, <1>2, <2>1
  <2> QED BY <2>1, <2>2
<1>6. ASSUME NEW i \in 1..(d + k) PROVE now - a[i] >= Window
  <2>1. CASE i <= d
    BY <1>2, <2>1
  <2>2. CASE i > d
    <3>1. i - d \in 1..k /\ i - d \in 1..Len(h) /\ d + (i - d) = i
      BY <1>2, <2>2
    <3> QED BY <1>2, <1>3, <3>1
  <2> QED BY <2>1, <2>2
<1>7. Counted(kept, a, now)
  <2>1. \E e \in 0..Len(a) :
          /\ Len(kept) = Len(a) - e
          /\ \A i \in 1..Len(kept) : kept[i] = a[e + i]
          /\ \A i \in 1..e : now - a[i] >= Window
    BY <1>4, <1>5, <1>6
  <2>2. Len(kept) <= Limit
    BY <1>1 DEF Counted
  <2> QED BY <2>1, <2>2 DEF Counted
<1>8. ASSUME kept # <<>> PROVE now - kept[1] < Window
  <2>1. Len(kept) \in Nat \ {0} /\ k < Len(h)
    BY <1>1, <1>8
  <2>2. kept[1] = h[k + 1] /\ h[k + 1] \in Int
    BY <1>1, <2>1
  <2> QED BY <2>1, <2>2 DEF DropsExpired, Expired
<1> QED BY <1>1, <1>7, <1>8 DEF kept

\* Counting one more request, when fewer than Limit are left, keeps both.
LEMMA AcceptKeeps ==
    ASSUME NEW kept \in Seq(Times), NEW a \in Seq(Times), NEW now \in Times,
           Counted(kept, a, now), Spaced(a), Len(kept) < Limit
    PROVE  /\ Counted(Append(kept, now), Append(a, now), now)
           /\ Spaced(Append(a, now))
<1> DEFINE b == Append(a, now)  g == Append(kept, now)
<1>1. /\ Len(b) = Len(a) + 1 /\ b[Len(a) + 1] = now
      /\ \A i \in 1..Len(a) : b[i] = a[i]
  OBVIOUS
<1>2. /\ Len(g) = Len(kept) + 1 /\ g[Len(kept) + 1] = now
      /\ \A i \in 1..Len(kept) : g[i] = kept[i]
  OBVIOUS
<1>3. PICK d \in 0..Len(a) :
          /\ Len(kept) = Len(a) - d
          /\ \A i \in 1..Len(kept) : kept[i] = a[d + i]
          /\ \A i \in 1..d : now - a[i] >= Window
  BY DEF Counted
<1>4. /\ \A i \in 1..Len(a) : a[i] \in Int /\ a[i] <= now
      /\ Len(a) \in Nat /\ Len(kept) \in Nat /\ now \in Int /\ d \in Nat
  BY DEF Counted
<1> HIDE DEF b, g
<1>5. /\ \A i, j \in 1..Len(b) : i <= j => b[i] <= b[j]
      /\ \A i \in 1..Len(b) : b[i] <= now
  <2>1. \A i \in 1..Len(b) : i \in 1..Len(a) \/ i = Len(a) + 1
    BY <1>1, <1>4
  <2>2. \A i \in 1..Len(b) : b[i] <= now
    BY <1>1, <1>4, <2>1, SMTT(30)
  <2>3. ASSUME NEW i \in 1..Len(b), NEW j \in 1..Len(b), i <= j PROVE b[i] <= b[j]
    <3>1. CASE j = Len(a) + 1
      BY <1>1, <2>2, <3>1
    <3>2. CASE j \in 1..Len(a)
      <4>1. i \in 1..Len(a)
        BY <2>3, <3>2
      <4> QED BY <1>1, <2>3, <3>2, <4>1 DEF Counted
    <3> QED BY <2>1, <3>1, <3>2
  <2> QED BY <2>2, <2>3
<1>6. /\ d \in 0..Len(b) /\ Len(g) = Len(b) - d
      /\ \A i \in 1..Len(g) : g[i] = b[d + i]
      /\ \A i \in 1..d : now - b[i] >= Window
  <2>1. d \in 0..Len(b) /\ Len(g) = Len(b) - d
    BY <1>1, <1>2, <1>3, <1>4
  <2>2. ASSUME NEW i \in 1..Len(g) PROVE g[i] = b[d + i]
    <3>1. CASE i \in 1..Len(kept)
      <4>1. d + i \in 1..Len(a)
        BY <1>3, <1>4, <3>1
      <4> QED BY <1>1, <1>2, <1>3, <3>1, <4>1
    <3>2. CASE i = Len(kept) + 1
      <4>1. d + i = Len(a) + 1
        BY <1>3, <1>4, <3>2
      <4> QED BY <1>1, <1>2, <3>2, <4>1
    <3> QED BY <1>2, <1>4, <3>1, <3>2, SMTT(30)
  <2>3. ASSUME NEW i \in 1..d PROVE now - b[i] >= Window
    <3>1. i \in 1..Len(a)
      BY <1>4
    <3> QED BY <1>1, <1>3, <3>1
  <2> QED BY <2>1, <2>2, <2>3
<1>7. Counted(g, b, now)
  <2>1. Len(g) <= Limit
    BY <1>2, <1>4
  <2> QED BY <1>5, <1>6, <2>1 DEF Counted
<1>8. Spaced(b)
  <2> SUFFICES ASSUME NEW i \in 1..Len(b), NEW j \in 1..Len(b), i + Limit <= j
               PROVE  b[j] - b[i] >= Window
    BY DEF Spaced
  <2>1. CASE j <= Len(a)
    <3>1. i \in 1..Len(a) /\ j \in 1..Len(a)
      BY <1>4, <2>1
    <3> QED BY <1>1, <3>1 DEF Spaced
  <2>2. CASE j = Len(a) + 1
    <3>1. i \in 1..d /\ i \in 1..Len(a)
      BY <1>3, <1>4, <2>2
    <3> QED BY <1>1, <1>3, <2>2, <3>1
  <2>3. Len(b) = Len(a) + 1 /\ Len(a) \in Nat
    BY <1>1, <1>4
  <2>4. j <= Len(a) \/ j = Len(a) + 1
    <3>1. j \in 1..(Len(a) + 1) /\ Len(a) \in Nat
      BY <2>3
    <3> HIDE <1>1, <1>2
    <3> QED BY <3>1
  <2> QED BY <2>1, <2>2, <2>4
<1> QED BY <1>7, <1>8 DEF b, g

\* The clock only moves away from what was dropped.
LEMMA TickKeeps ==
    ASSUME NEW h \in Seq(Times), NEW a \in Seq(Times), NEW now \in Times, Counted(h, a, now),
           NEW later \in Int, later >= now
    PROVE  Counted(h, a, later)
<1>1. \A i \in 1..Len(a) : a[i] \in Int
  OBVIOUS
<1>2. \A i \in 1..Len(a) : a[i] <= later
  BY <1>1 DEF Counted
<1>3. PICK d \in 0..Len(a) :
          /\ Len(h) = Len(a) - d
          /\ \A i \in 1..Len(h) : h[i] = a[d + i]
          /\ \A i \in 1..d : now - a[i] >= Window
  BY DEF Counted
<1>4. ASSUME NEW i \in 1..d PROVE later - a[i] >= Window
  <2>1. i \in 1..Len(a)
    OBVIOUS
  <2> QED BY <1>1, <1>3, <2>1, SMTT(30)
<1>5. \E e \in 0..Len(a) :
          /\ Len(h) = Len(a) - e
          /\ \A i \in 1..Len(h) : h[i] = a[e + i]
          /\ \A i \in 1..e : later - a[i] >= Window
  BY <1>3, <1>4
<1>6. (\A i, j \in 1..Len(a) : i <= j => a[i] <= a[j]) /\ Len(h) <= Limit
  BY DEF Counted
<1> QED BY <1>2, <1>5, <1>6 DEF Counted

-----------------------------------------------------------------------------
LEMMA MoveKeeps ==
    ASSUME IInv, NEW r \in requests, NEW at \in {"calling"} \cup Statuses, Move(r, at)
    PROVE  /\ requests' \subseteq Requests
           /\ submitted' = submitted /\ shown' = shown => (OneRequest /\ ShowsLastSubmission)'
<1> DEFINE moved == [r EXCEPT !.at = at]
<1>1. moved \in Requests /\ moved.from = r.from /\ moved.of = r.of
  BY DEF IInv, PredictTypeOK, Requests
<1>2. requests' = (requests \ {r}) \cup {moved}
  BY DEF Move
<1> HIDE DEF moved
<1>3. ASSUME submitted' = submitted, shown' = shown
      PROVE  (OneRequest /\ ShowsLastSubmission)'
  BY <1>1, <1>2, <1>3 DEF IInv, OneRequest, ShowsLastSubmission
<1> QED BY <1>1, <1>2, <1>3 DEF IInv, PredictTypeOK

\* A request goes through the limiter.
LEMMA PredictStep ==
    ASSUME IInv, NEW r \in requests, Predict(r)
    PROVE  IInv'
<1> DEFINE v == r.from
<1>1. v \in Visitors /\ hits[v] \in Seq(Times) /\ accepted[v] \in Seq(Times)
      /\ moment \in Times
  BY DEF IInv, PredictTypeOK, Requests
<1> HIDE DEF v
<1>2. PICK k \in 0..Len(hits[v]) :
          /\ DropsExpired(hits[v], k)
          /\ LET kept == SubSeq(hits[v], k + 1, Len(hits[v]))
             IN  IF Len(kept) >= Limit
                 THEN /\ hits' = [hits EXCEPT ![v] = kept]
                      /\ Move(r, "429")
                      /\ UNCHANGED accepted
                 ELSE /\ hits' = [hits EXCEPT ![v] = Append(kept, moment)]
                      /\ accepted' = [accepted EXCEPT ![v] = Append(@, moment)]
                      /\ Move(r, IF r.of \in Invalid THEN "400" ELSE "calling")
  BY DEF Predict, v
<1> DEFINE kept == SubSeq(hits[v], k + 1, Len(hits[v]))
<1>3. kept \in Seq(Times) /\ Counted(kept, accepted[v], moment)
  BY <1>1, <1>2, DropKeeps DEF IInv
<1> HIDE DEF kept
<1>4. requests' \subseteq Requests /\ (OneRequest /\ ShowsLastSubmission)'
  BY <1>2, MoveKeeps DEF Predict, pageVars, Statuses
<1>5. CASE Len(kept) >= Limit
  <2>1. hits' = [hits EXCEPT ![v] = kept] /\ UNCHANGED accepted
    BY <1>2, <1>5 DEF kept
  <2>2. PredictTypeOK'
    BY <1>1, <1>3, <1>4, <2>1 DEF IInv, PredictTypeOK, Predict, pageVars
  <2>3. \A w \in Visitors : Counted(hits'[w], accepted'[w], moment) /\ Spaced(accepted'[w])
    BY <1>1, <1>3, <2>1 DEF IInv, PredictTypeOK
  <2> QED BY <1>4, <2>2, <2>3 DEF IInv, Predict
<1>6. CASE ~(Len(kept) >= Limit)
  <2>1. /\ hits' = [hits EXCEPT ![v] = Append(kept, moment)]
        /\ accepted' = [accepted EXCEPT ![v] = Append(@, moment)]
    BY <1>2, <1>6 DEF kept
  <2>2. Append(kept, moment) \in Seq(Times) /\ Append(accepted[v], moment) \in Seq(Times)
    BY <1>1, <1>3
  <2>3. PredictTypeOK'
    BY <1>1, <1>4, <2>1, <2>2 DEF IInv, PredictTypeOK, Predict, pageVars
  <2>4. Len(kept) < Limit
    BY <1>3, <1>6
  <2>5. /\ Counted(Append(kept, moment), Append(accepted[v], moment), moment)
        /\ Spaced(Append(accepted[v], moment))
    BY <1>1, <1>3, <2>4, AcceptKeeps DEF IInv
  <2>6. \A w \in Visitors : Counted(hits'[w], accepted'[w], moment) /\ Spaced(accepted'[w])
    BY <1>1, <2>1, <2>5 DEF IInv, PredictTypeOK
  <2> QED BY <1>4, <2>3, <2>6 DEF IInv, Predict
<1> QED BY <1>5, <1>6

\* What a restart makes of a request.
Dropped(r) == [r EXCEPT !.at = IF @ \in {"sent", "calling"} THEN "unreachable" ELSE @]

LEMMA RestartStep == ASSUME IInv, Restart PROVE IInv'
<1>1. \A r \in requests :
        Dropped(r) \in Requests /\ Dropped(r).from = r.from /\ Dropped(r).of = r.of
  BY DEF IInv, PredictTypeOK, Requests, Statuses, Dropped
<1>5. \A q \in requests' : \E r \in requests : q = Dropped(r)
  BY DEF Restart, Dropped
<1>6. requests' \subseteq Requests
  BY <1>1, <1>5
<1>2. PredictTypeOK'
  BY <1>6 DEF IInv, PredictTypeOK, Restart, pageVars
<1>3. (OneRequest /\ ShowsLastSubmission)'
  <2>1. OneRequest'
    <3>1. submitted' = submitted
      BY DEF Restart, pageVars
    <3>2. ASSUME NEW q \in requests' PROVE q.of = submitted'[q.from]
      BY <1>1, <1>5, <3>1, <3>2 DEF IInv, OneRequest
    <3>3. ASSUME NEW p \in requests', NEW q \in requests', p.from = q.from PROVE p = q
      <4>1. PICK r \in requests, t \in requests : p = Dropped(r) /\ q = Dropped(t)
        BY <1>5
      <4>2. r = t
        BY <1>1, <3>3, <4>1 DEF IInv, OneRequest
      <4> QED BY <4>1, <4>2
    <3> QED BY <3>2, <3>3 DEF OneRequest
  <2> QED BY <2>1 DEF IInv, ShowsLastSubmission, Restart, pageVars
<1>4. ASSUME NEW v \in Visitors
      PROVE  Counted(hits'[v], accepted'[v], moment') /\ Spaced(accepted'[v])
  <2>1. hits'[v] = <<>> /\ accepted'[v] = <<>>
    BY DEF Restart
  <2>2. Len(hits'[v]) = 0 /\ Len(accepted'[v]) = 0
    BY <2>1
  <2> QED BY <2>2, EmptyCounted
<1> QED BY <1>2, <1>3, <1>4 DEF IInv

LEMMA StepInvariant == IInv /\ [PredictNext]_predictVars => IInv'
<1> SUFFICES ASSUME IInv, [PredictNext]_predictVars PROVE IInv'
  OBVIOUS
<1>1. CASE UNCHANGED predictVars
  BY <1>1 DEF IInv, PredictTypeOK, OneRequest, ShowsLastSubmission, predictVars, limiterVars, pageVars
<1>2. CASE ClockTick
  <2>1. PredictTypeOK'
    BY <1>2 DEF IInv, PredictTypeOK, ClockTick, limiterVars, pageVars
  <2>2. (OneRequest /\ ShowsLastSubmission)'
    BY <1>2 DEF IInv, OneRequest, ShowsLastSubmission, ClockTick, pageVars
  <2>3. \A v \in Visitors : Counted(hits[v], accepted[v], moment + 1)
    <3>1. moment \in Times /\ moment + 1 \in Int /\ moment + 1 >= moment
      BY DEF IInv, PredictTypeOK
    <3> QED BY <3>1, TickKeeps DEF IInv, PredictTypeOK
  <2> QED BY <1>2, <2>1, <2>2, <2>3 DEF IInv, ClockTick, limiterVars
<1>3. CASE Restart
  BY <1>3, RestartStep
<1>4. ASSUME NEW v \in Visitors, Update(v) \/ LoadExample(v) \/ Submit(v) PROVE IInv'
  <2>1. UNCHANGED <<moment, hits, accepted>>
    BY <1>4 DEF Update, LoadExample, Submit, limiterVars
  <2>2. PredictTypeOK' /\ OneRequest' /\ ShowsLastSubmission'
    <3>1. CASE Update(v) \/ LoadExample(v)
      BY <3>1 DEF IInv, PredictTypeOK, OneRequest, ShowsLastSubmission, Update, LoadExample,
                  limiterVars
    <3>2. CASE Submit(v)
      <4>1. [from |-> v, of |-> record[v], at |-> "sent"] \in Requests
        BY DEF IInv, PredictTypeOK, Requests
      <4> QED BY <3>2, <4>1 DEF IInv, PredictTypeOK, OneRequest, ShowsLastSubmission, Submit,
                  Pending, limiterVars, Requests
    <3> QED BY <1>4, <3>1, <3>2
  <2> QED BY <2>1, <2>2 DEF IInv
<1>5. ASSUME NEW r \in requests, Predict(r) PROVE IInv'
  BY <1>5, PredictStep
<1>6. ASSUME NEW r \in requests, Answer(r) PROVE IInv'
  <2>1. UNCHANGED <<moment, hits, accepted>>
    BY <1>6 DEF Answer, ApiAnswers, Deliver, limiterVars
  <2>2. PredictTypeOK' /\ OneRequest' /\ ShowsLastSubmission'
    <3>1. CASE ApiAnswers(r)
      <4>1. PICK status \in {"200", "502"} : Move(r, status)
        BY <3>1 DEF ApiAnswers
      <4>2. requests' \subseteq Requests /\ (OneRequest /\ ShowsLastSubmission)'
        BY <3>1, <4>1, MoveKeeps DEF ApiAnswers, pageVars, Statuses
      <4> QED BY <3>1, <4>2 DEF IInv, PredictTypeOK, ApiAnswers, limiterVars, pageVars
    <3>2. CASE Deliver(r)
      BY <3>2 DEF IInv, PredictTypeOK, OneRequest, ShowsLastSubmission, Deliver, limiterVars,
                  Requests
    <3> QED BY <1>6, <3>1, <3>2 DEF Answer
  <2> QED BY <2>1, <2>2 DEF IInv
<1> QED BY <1>1, <1>2, <1>3, <1>4, <1>5, <1>6 DEF PredictNext

-----------------------------------------------------------------------------
\* In every window a process lets at most Limit requests of a caller through
\* (rate_limit.py:21-30), for every limit and every window.
THEOREM LimitHolds == PredictSpec => []WindowKept
<1>1. IInv => WindowKept
  BY DEF IInv, Spaced, WindowKept
<1> QED BY <1>1, InitInvariant, StepInvariant, PTL DEF PredictSpec

\* A 429 is answered only to a caller that had Limit requests let through in
\* the window that ends with it.
THEOREM RefusalsAreDue == PredictSpec => [][FullWhenRefused]_predictVars
<1>1. ASSUME IInv, PredictNext, NEW v \in Visitors, Refused(v)
      PROVE  /\ Len(accepted[v]) >= Limit
             /\ moment - accepted[v][Len(accepted[v]) - Limit + 1] < Window
  <2>1. PICK r \in requests : Predict(r) /\ r.from = v
    <3>1. PICK q \in requests' \ requests : q.from = v /\ q.at = "429"
      BY <1>1 DEF Refused
    <3>2. CASE \E w \in Visitors : Submit(w)
      BY <3>1, <3>2 DEF Submit
    <3>3. CASE Restart
      <4>1. PICK r \in requests :
              q = [r EXCEPT !.at = IF @ \in {"sent", "calling"} THEN "unreachable" ELSE @]
        BY <3>1, <3>3 DEF Restart
      <4>2. r \in Requests
        BY <1>1 DEF IInv, PredictTypeOK
      <4>3. q = r
        BY <3>1, <4>1, <4>2 DEF Requests
      <4> QED BY <3>1, <4>3
    <3>4. CASE \E r \in requests : ApiAnswers(r)
      <4>1. PICK r \in requests, status \in {"200", "502"} : Move(r, status)
        BY <3>4 DEF ApiAnswers
      <4>2. q = [r EXCEPT !.at = status] /\ r \in Requests
        BY <1>1, <3>1, <4>1 DEF Move, IInv, PredictTypeOK
      <4> QED BY <3>1, <4>2 DEF Requests
    <3>5. ASSUME NEW r \in requests, Predict(r) PROVE r.from = v
      <4>1. r \in Requests
        BY <1>1 DEF IInv, PredictTypeOK
      <4>2. \E at \in {"429", "400", "calling"} : q = [r EXCEPT !.at = at]
        BY <3>1, <3>5 DEF Predict, Move
      <4> QED BY <3>1, <4>1, <4>2 DEF Requests
    <3>6. \E r \in requests : Predict(r)
      BY <1>1, <3>1, <3>2, <3>3, <3>4 DEF PredictNext, ClockTick, Update, LoadExample, Answer,
         Deliver
    <3> QED BY <3>5, <3>6
  <2>2. hits[v] \in Seq(Times) /\ accepted[v] \in Seq(Times) /\ moment \in Times
        /\ Counted(hits[v], accepted[v], moment)
    BY <1>1 DEF IInv, PredictTypeOK
  <2>3. PICK k \in 0..Len(hits[v]) :
          /\ DropsExpired(hits[v], k)
          /\ \/ Len(SubSeq(hits[v], k + 1, Len(hits[v]))) >= Limit
             \/ Move(r, IF r.of \in Invalid THEN "400" ELSE "calling")
    BY <2>1 DEF Predict
  <2> DEFINE kept == SubSeq(hits[v], k + 1, Len(hits[v]))
  <2>4. kept \in Seq(Times) /\ Counted(kept, accepted[v], moment)
        /\ (kept # <<>> => moment - kept[1] < Window)
    BY <2>2, <2>3, DropKeeps
  <2>5. Len(kept) >= Limit
    <3>1. CASE Move(r, IF r.of \in Invalid THEN "400" ELSE "calling")
      <4>1. r \in Requests
        BY <1>1 DEF IInv, PredictTypeOK
      <4>2. \A q \in requests' \ requests : q.at \in {"400", "calling"}
        BY <3>1, <4>1 DEF Move, Requests
      <4> QED BY <1>1, <4>2 DEF Refused
    <3> QED BY <2>3, <3>1
  <2> HIDE DEF kept
  <2>6. PICK d \in 0..Len(accepted[v]) :
          /\ Len(kept) = Len(accepted[v]) - d
          /\ \A i \in 1..Len(kept) : kept[i] = accepted[v][d + i]
    BY <2>4 DEF Counted
  <2>7. Len(kept) = Limit
    BY <2>4, <2>5, SMTT(30) DEF Counted
  <2>8. Len(accepted[v]) - Limit + 1 = d + 1 /\ kept[1] = accepted[v][d + 1] /\ kept # <<>>
    <3>1. Len(accepted[v]) \in Nat /\ Limit \in Nat \ {0} /\ d \in Nat
      BY <2>2
    <3>2. 1 \in 1..Len(kept) /\ kept # <<>>
      BY <2>4, <2>7, <3>1
    <3>3. Limit = Len(accepted[v]) - d
      BY <2>6, <2>7
    <3>4. Len(accepted[v]) - Limit + 1 = d + 1
      BY <3>1, <3>3
    <3> QED BY <2>6, <3>2, <3>4
  <2> QED BY <2>2, <2>4, <2>6, <2>7, <2>8, SMTT(30)
<1>2. IInv /\ [PredictNext]_predictVars => [FullWhenRefused]_predictVars
  BY <1>1 DEF FullWhenRefused
<1> QED BY <1>2, InitInvariant, StepInvariant, PTL DEF PredictSpec

\* The limiter is exact, for every limit, window and number of callers.
THEOREM LimiterIsExact == PredictSpec => LimiterExact
<1>1. WindowKept' /\ [FullWhenRefused]_predictVars
        => [WindowKept' /\ FullWhenRefused]_predictVars
  OBVIOUS
<1> QED BY <1>1, LimitHolds, RefusalsAreDue, PTL DEF LimiterExact

\* A page never displays the outcome of an earlier submission than its last.
THEOREM LastSubmissionShown == PredictSpec => []ShowsLastSubmission
<1>1. IInv => ShowsLastSubmission
  BY DEF IInv
<1> QED BY <1>1, InitInvariant, StepInvariant, PTL DEF PredictSpec

=============================================================================
