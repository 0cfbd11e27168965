---------------------------- MODULE ServicesProofs ----------------------------
(***************************************************************************)
(* Proofs about Alerts, Migrations and ConfigCache, which share nothing:   *)
(* the debounce of the rate-limit alerts, what brands are told, the order  *)
(* in which migrations are recorded, and what a reload leaves a copy to    *)
(* be, for every set of services, words, keys, runners and calls and every *)
(* number of rows. And about the modules together: MCServices implements   *)
(* each of them, so it has what was proved of it.                          *)
(***************************************************************************)
EXTENDS MCServices, UserProofs, CrawlProofs, TrendProofs, FiniteSetTheorems, TLAPS

(***************************************************************************)
(* Rate-limit alerts.                                                      *)
(***************************************************************************)

\* A call that has not counted yet finds its own row, still in the window, and not yet
\* queued by anyone.
RecordersCurrent ==
    \A r \in Recorder : recorder[r] # 0 =>
        \E a \in alerts : a.id = recorder[r] /\ a.recent

\* What the debounce needs of the state; the brands take no part in it.
AlertRows ==
    /\ alerts \subseteq AlertRow /\ \A a, b \in alerts : a.id = b.id => a = b
    /\ \A a \in alerts : a.id <= Cardinality(alerts)
    /\ recorder \in [Recorder -> AlertId \cup {0}]

AlertsInv == AlertRows /\ RecordersCurrent /\ AtMostOneQueuedPerWindow

LEMMA AlertsFinite == AlertRows => IsFiniteSet(alerts) /\ Cardinality(alerts) \in Nat
<1> SUFFICES ASSUME AlertRows PROVE IsFiniteSet(alerts)
  BY FS_CardinalityType
<1> DEFINE f == [a \in alerts |-> a.id]
<1>1. \A a \in alerts : a.id \in 1 .. MaxAlerts
  BY DEF AlertRows, AlertRow, AlertId
<1>2. f \in Injection(alerts, 1 .. MaxAlerts)
  BY <1>1 DEF AlertRows, Injection, IsInjective
<1>3. IsFiniteSet(1 .. MaxAlerts)
  BY AlertsAssumption, FS_Interval
<1> QED
  BY <1>2, <1>3, FS_Injection

\* A row put in the place of another of the same id.
LEMMA RowAmended ==
    ASSUME AlertRows, NEW a \in alerts, NEW b \in AlertRow, b.id = a.id, Amend(a, b),
           recorder' \in [Recorder -> AlertId \cup {0}]
    PROVE  AlertRows'
<1>1. alerts' = (alerts \ {a}) \cup {b}
  BY DEF Amend
<1>2. IsFiniteSet(alerts) /\ Cardinality(alerts) \in Nat
  BY AlertsFinite
<1>3. b \notin alerts \ {a}
  BY DEF AlertRows
<1>4. /\ IsFiniteSet(alerts \ {a})
      /\ Cardinality(alerts \ {a}) = Cardinality(alerts) - 1
  BY <1>2, FS_RemoveElement
<1>5. Cardinality((alerts \ {a}) \cup {b}) = Cardinality(alerts \ {a}) + 1
  BY <1>3, <1>4, FS_AddElement
<1>6. Cardinality(alerts') = Cardinality(alerts)
  BY <1>1, <1>2, <1>4, <1>5
<1> QED
  BY <1>1, <1>6 DEF AlertRows

\* Fields of a row amended one at a time.
LEMMA AmendedFields ==
    ASSUME NEW a \in AlertRow
    PROVE  /\ [a EXCEPT !.queued = TRUE] \in AlertRow /\ [a EXCEPT !.mailed = TRUE] \in AlertRow
           /\ [a EXCEPT !.dismissed = TRUE] \in AlertRow /\ [a EXCEPT !.recent = FALSE] \in AlertRow
  BY DEF AlertRow

\* An amendment that leaves service and queued alone, and the window but for closing it,
\* queues nothing more.
LEMMA QuietAmendment ==
    ASSUME AlertsInv, NEW a \in alerts, NEW b \in AlertRow, Amend(a, b),
           b.id = a.id, b.service = a.service, b.queued = a.queued, b.recent => a.recent,
           recorder' \in [Recorder -> AlertId \cup {0}],
           \A r \in Recorder : recorder'[r] = recorder[r] \/ recorder'[r] = 0,
           b.recent = a.recent \/ \A r \in Recorder : recorder[r] # a.id
    PROVE  AlertsInv'
<1>1. alerts' = (alerts \ {a}) \cup {b}
  BY DEF Amend
<1>2. AlertRows'
  BY RowAmended DEF AlertsInv
<1>3. RecordersCurrent'
  <2> SUFFICES ASSUME NEW r \in Recorder, recorder'[r] # 0
               PROVE  \E c \in alerts' : c.id = recorder'[r] /\ c.recent
    BY DEF RecordersCurrent
  <2>1. PICK c \in alerts : c.id = recorder[r] /\ c.recent /\ recorder'[r] = recorder[r]
    BY DEF AlertsInv, RecordersCurrent
  <2>2. CASE c = a
    BY <1>1, <2>1, <2>2
  <2>3. CASE c # a
    BY <1>1, <2>1, <2>3
  <2> QED
    BY <2>2, <2>3
<1>4. AtMostOneQueuedPerWindow'
  <2> SUFFICES ASSUME NEW c \in alerts', NEW d \in alerts', c.service = d.service,
                      c.recent, d.recent, c.queued, d.queued
               PROVE  c = d
    BY DEF AtMostOneQueuedPerWindow
  <2> DEFINE was(x) == IF x = b THEN a ELSE x
  <2>1. /\ was(c) \in alerts /\ was(c).service = c.service /\ was(c).recent /\ was(c).queued
        /\ was(d) \in alerts /\ was(d).service = d.service /\ was(d).recent /\ was(d).queued
    BY <1>1
  <2>2. was(c) = was(d)
    <3> HIDE DEF was
    <3> QED
      BY <2>1 DEF AlertsInv, AtMostOneQueuedPerWindow
  <2> QED
    BY <1>1, <2>2
<1> QED
  BY <1>2, <1>3, <1>4 DEF AlertsInv

\* A call inserts its row: not queued, so nothing that was true of queued rows changes.
LEMMA RecordInsertStep ==
    ASSUME AlertsInv, NEW r \in Recorder, NEW s \in Service, RecordInsert(r, s)
    PROVE  AlertsInv'
<1> DEFINE n == Cardinality(alerts)
           new == [id |-> n + 1, service |-> s, recent |-> TRUE, queued |-> FALSE,
                   mailed |-> FALSE, dismissed |-> FALSE]
<1>1. /\ n < MaxAlerts /\ alerts' = alerts \cup {new} /\ recorder' = [recorder EXCEPT ![r] = n + 1]
  BY DEF RecordInsert
<1>2. IsFiniteSet(alerts) /\ n \in Nat
  BY AlertsFinite DEF AlertsInv
<1>3. n + 1 \in AlertId
  BY <1>1, <1>2, AlertsAssumption DEF AlertId
<1>4. new \in AlertRow /\ new.id = n + 1 /\ new.recent = TRUE /\ new.queued = FALSE
  <2> HIDE DEF n
  <2> QED
    BY <1>3 DEF AlertRow
<1>5. \A a \in alerts : a \in AlertRow /\ a.id \in Nat /\ a.id <= n
  BY DEF AlertsInv, AlertRows, AlertRow, AlertId
<1>6. new \notin alerts
  <2> HIDE DEF n, new
  <2> QED
    BY <1>2, <1>4, <1>5
<1>7. Cardinality(alerts') = n + 1
  BY <1>1, <1>2, <1>6, FS_AddElement
<1> HIDE DEF n, new
<1>8. AlertRows'
  <2>1. recorder' \in [Recorder -> AlertId \cup {0}]
    BY <1>1, <1>3 DEF AlertsInv, AlertRows
  <2>2. \A a, b \in alerts' : a.id = b.id => a = b
    BY <1>1, <1>2, <1>4, <1>5 DEF AlertsInv, AlertRows
  <2>3. \A a \in alerts' : a.id <= Cardinality(alerts')
    BY <1>1, <1>2, <1>4, <1>5, <1>7
  <2> QED
    BY <1>1, <1>4, <2>1, <2>2, <2>3 DEF AlertsInv, AlertRows
<1>9. RecordersCurrent'
  <2>1. \A q \in Recorder : recorder'[q] = IF q = r THEN n + 1 ELSE recorder[q]
    BY <1>1 DEF AlertsInv, AlertRows
  <2> QED
    BY <1>1, <1>4, <2>1 DEF AlertsInv, RecordersCurrent
<1>10. AtMostOneQueuedPerWindow'
  BY <1>1, <1>4 DEF AlertsInv, AtMostOneQueuedPerWindow
<1> QED
  BY <1>8, <1>9, <1>10 DEF AlertsInv

\* A call that queues a mail has found no row but its own in the window.
LEMMA RecordCountStep ==
    ASSUME AlertsInv, NEW r \in Recorder, RecordCount(r)
    PROVE  AlertsInv'
<1>1. PICK a \in alerts :
          /\ a.id = recorder[r]
          /\ IF ShouldEmail(a.service)
             THEN Amend(a, [a EXCEPT !.queued = TRUE]) /\ mailTasks' = mailTasks \cup {a.id}
             ELSE UNCHANGED <<alerts, mailTasks>>
  BY DEF RecordCount
<1>2. recorder[r] # 0 /\ recorder' = [recorder EXCEPT ![r] = 0]
  BY DEF RecordCount
<1>3. /\ recorder' \in [Recorder -> AlertId \cup {0}]
      /\ \A q \in Recorder : recorder'[q] = IF q = r THEN 0 ELSE recorder[q]
  BY <1>2 DEF AlertsInv, AlertRows
<1>4. a.recent /\ a \in AlertRow
  BY <1>1, <1>2 DEF AlertsInv, AlertRows, RecordersCurrent
<1>5. CASE ~ShouldEmail(a.service)
  <2>1. alerts' = alerts
    BY <1>1, <1>5
  <2>2. AlertRows'
    BY <1>3, <2>1 DEF AlertsInv, AlertRows
  <2> QED
    BY <1>3, <2>1, <2>2 DEF AlertsInv, RecordersCurrent, AtMostOneQueuedPerWindow
<1>6. CASE ShouldEmail(a.service)
  <2> DEFINE b == [a EXCEPT !.queued = TRUE]
  <2>1. Amend(a, b)
    BY <1>1, <1>6
  <2>2. /\ b \in AlertRow /\ b.id = a.id /\ b.service = a.service /\ b.recent = a.recent
    BY <1>4, AmendedFields DEF AlertRow
  <2> HIDE DEF b
  <2>3. alerts' = (alerts \ {a}) \cup {b}
    BY <2>1 DEF Amend
  <2>4. AlertRows'
    BY <1>3, <2>1, <2>2, RowAmended DEF AlertsInv
  <2>5. RecordersCurrent'
    BY <1>3, <1>4, <2>2, <2>3 DEF AlertsInv, RecordersCurrent
  <2>6. RecentAlerts(a.service) = {a}
    <3> DEFINE W == RecentAlerts(a.service)
    <3>1. W \in SUBSET alerts /\ a \in W /\ Cardinality(W) <= 1
      BY <1>4, <1>6 DEF RecentAlerts, ShouldEmail
    <3>2. IsFiniteSet(W) /\ Cardinality(W) \in Nat /\ Cardinality(W) # 0
      BY <3>1, AlertsFinite, FS_Subset, FS_CardinalityType, FS_EmptySet DEF AlertsInv
    <3>3. PICK x : W = {x}
      BY <3>1, <3>2, FS_Singleton
    <3> QED
      BY <3>1, <3>3
  <2>7. AtMostOneQueuedPerWindow'
    <3> SUFFICES ASSUME NEW c \in alerts', NEW d \in alerts', c.service = d.service,
                        c.recent, d.recent, c.queued, d.queued
                 PROVE  c = d
      BY DEF AtMostOneQueuedPerWindow
    <3>1. CASE c \in alerts /\ d \in alerts
      BY <3>1 DEF AlertsInv, AtMostOneQueuedPerWindow
    <3>2. \A x \in alerts : x.service = a.service /\ x.recent => x = a
      BY <2>6 DEF RecentAlerts
    <3>3. CASE ~(c \in alerts /\ d \in alerts)
      BY <2>2, <2>3, <3>2, <3>3
    <3> QED
      BY <3>1, <3>3
  <2> QED
    BY <2>4, <2>5, <2>7 DEF AlertsInv
<1> QED
  BY <1>5, <1>6

\* Steps that amend a row without queueing, or leave the rows alone.
LEMMA QuietAlertStep ==
    ASSUME AlertsInv,
           \/ \E r \in Recorder : RecordFails(r)
           \/ \E i \in mailTasks, sent \in SendEmail : SendAndMark(i, sent)
           \/ \E a \in alerts : DismissAlert(a) \/ LeaveWindow(a)
           \/ LoseTasks \/ UNCHANGED <<alerts, recorder>>
    PROVE  AlertsInv'
<1>0. /\ recorder \in [Recorder -> AlertId \cup {0}] /\ \A a \in alerts : a \in AlertRow
  BY DEF AlertsInv, AlertRows
<1>1. ASSUME alerts' = alerts, recorder' \in [Recorder -> AlertId \cup {0}],
             \A r \in Recorder : recorder'[r] = recorder[r] \/ recorder'[r] = 0
      PROVE  AlertsInv'
  BY <1>1 DEF AlertsInv, AlertRows, RecordersCurrent, AtMostOneQueuedPerWindow
<1>2. CASE UNCHANGED <<alerts, recorder>>
  BY <1>0, <1>1, <1>2
<1>3. ASSUME NEW r \in Recorder, RecordFails(r) PROVE AlertsInv'
  <2>1. alerts' = alerts /\ recorder' = [recorder EXCEPT ![r] = 0]
    BY <1>3 DEF RecordFails
  <2> QED
    BY <1>0, <1>1, <2>1
<1>4. CASE LoseTasks
  BY <1>1, <1>4 DEF LoseTasks
<1>5. ASSUME NEW i \in mailTasks, NEW sent \in SendEmail, SendAndMark(i, sent) PROVE AlertsInv'
  <2>1. recorder' = recorder
    BY <1>5 DEF SendAndMark
  <2>2. CASE sent
    <3>1. PICK b \in alerts : Amend(b, [b EXCEPT !.mailed = TRUE])
      BY <1>5, <2>2 DEF SendAndMark
    <3> DEFINE c == [b EXCEPT !.mailed = TRUE]
    <3>2. /\ c \in AlertRow /\ c.id = b.id /\ c.service = b.service /\ c.queued = b.queued
          /\ c.recent = b.recent
      BY <1>0, AmendedFields DEF AlertRow
    <3> HIDE DEF c
    <3> QED
      BY <1>0, <2>1, <3>1, <3>2, QuietAmendment DEF c
  <2>3. CASE ~sent
    BY <1>0, <1>1, <1>5, <2>1, <2>3 DEF SendAndMark
  <2> QED
    BY <2>2, <2>3 DEF SendEmail
<1>6. ASSUME NEW a \in alerts, DismissAlert(a) PROVE AlertsInv'
  <2> DEFINE c == [a EXCEPT !.dismissed = TRUE]
  <2>1. Amend(a, c) /\ recorder' = recorder
    BY <1>6 DEF DismissAlert
  <2>2. /\ c \in AlertRow /\ c.id = a.id /\ c.service = a.service /\ c.queued = a.queued
        /\ c.recent = a.recent
    BY <1>0, AmendedFields DEF AlertRow
  <2> HIDE DEF c
  <2> QED
    BY <1>0, <2>1, <2>2, QuietAmendment
<1>7. ASSUME NEW a \in alerts, LeaveWindow(a) PROVE AlertsInv'
  <2> DEFINE c == [a EXCEPT !.recent = FALSE]
  <2>1. Amend(a, c) /\ recorder' = recorder /\ (\A r \in Recorder : recorder[r] # a.id)
    BY <1>7 DEF LeaveWindow
  <2>2. /\ c \in AlertRow /\ c.id = a.id /\ c.service = a.service /\ c.queued = a.queued
        /\ c.recent = FALSE
    BY <1>0, AmendedFields DEF AlertRow
  <2> HIDE DEF c
  <2> QED
    BY <1>0, <2>1, <2>2, QuietAmendment
<1> QED
  BY <1>2, <1>3, <1>4, <1>5, <1>6, <1>7

LEMMA AlertsInvariance == AlertsInv /\ [NextAlerts]_alertsVars => AlertsInv'
<1> SUFFICES ASSUME AlertsInv, [NextAlerts]_alertsVars PROVE AlertsInv'
  OBVIOUS
<1>1. ASSUME UNCHANGED <<alerts, recorder>> PROVE AlertsInv'
  BY <1>1, QuietAlertStep
<1>2. CASE UNCHANGED alertsVars
  BY <1>1, <1>2 DEF alertsVars
<1>3. CASE \E r \in Recorder : RecordCount(r)
  BY <1>3, RecordCountStep
<1>4. CASE \E r \in Recorder, s \in Service, exc \in Failure : HandleApiException(r, s, exc)
  BY <1>4, RecordInsertStep DEF HandleApiException
<1>5. CASE \/ \E r \in Recorder : RecordFails(r)
           \/ \E i \in mailTasks, sent \in SendEmail : SendAndMark(i, sent)
           \/ \E a \in alerts : DismissAlert(a) \/ LeaveWindow(a)
           \/ LoseTasks
  BY <1>5, QuietAlertStep
<1>6. CASE \/ \E i \in Mention : CollectMention(i)
           \/ \E m \in mentions : MentionAges(m)
           \/ \E b \in Monitor : MonitorBrand(b) \/ BrandCacheExpires(b)
           \/ StartBrandJob
           \/ \E j \in brandJob : CheckMonitor(j)
  BY <1>1, <1>6 DEF CollectMention, MentionAges, MonitorBrand, BrandCacheExpires, StartBrandJob,
     CheckMonitor, quotaAlertVars
<1> QED
  BY <1>2, <1>3, <1>4, <1>5, <1>6 DEF NextAlerts

LEMMA InitAlertsInv == InitAlerts => AlertsInv
<1> SUFFICES ASSUME InitAlerts PROVE AlertsInv
  OBVIOUS
<1>1. alerts = {} /\ recorder = [r \in Recorder |-> 0]
  BY DEF InitAlerts
<1> QED
  BY <1>1 DEF AlertsInv, AlertRows, RecordersCurrent, AtMostOneQueuedPerWindow

\* However many calls record at once, fail or die, of the rows of a service in the window
\* at most one has had a mail queued (quota_alert.py: record_quota_alert).
THEOREM OneMailQueued == SpecAlerts => []AtMostOneQueuedPerWindow
<1>1. AlertsInv => AtMostOneQueuedPerWindow
  BY DEF AlertsInv
<1> QED
  BY <1>1, InitAlertsInv, AlertsInvariance, PTL DEF SpecAlerts

(***************************************************************************)
(* Brands: every mention is stored as the collector inserts it, so the     *)
(* scores add up to nothing.                                               *)
(***************************************************************************)

\* What the brands come to: every mention as it was collected, no cached crisis.
BrandInv ==
    /\ mentions \subseteq [id : Mention, row : {Collected}]
    /\ lastAlerted \in [Monitor -> {"never"}]
    /\ brandCache \in [Monitor -> {"none", "normal"}]
    /\ brandJob \subseteq [monitor : Monitor, last : {"never"}]
    /\ brandRuns \in 0 .. MaxBrandRuns /\ dispatched = {}

\* The fold over the scores of mentions is the sum of a function that has them.
LEMMA MentionTotal ==
    ASSUME NEW M, IsFiniteSet(M), NEW f, \A m \in M : f[m] = MentionScore(m)
    PROVE  ScoreTotal(M) = Total(f, M)
<1> DEFINE g == CHOOSE iter : iter = [s \in SUBSET M |->
               IF s = {} THEN 0
               ELSE MentionScore(CHOOSE x \in s : TRUE) + iter[s \ {CHOOSE x \in s : TRUE}]]
<1>1. PICK h : Sums(h, f, M)
  BY SumsExist
<1>2. \A s \in SUBSET M : s # {} => f[CHOOSE x \in s : TRUE] = MentionScore(CHOOSE x \in s : TRUE)
  OBVIOUS
<1>3. h = [s \in SUBSET M |->
               IF s = {} THEN 0
               ELSE MentionScore(CHOOSE x \in s : TRUE) + h[s \ {CHOOSE x \in s : TRUE}]]
  BY <1>1, <1>2 DEF Sums, Pick
<1>4. g = [s \in SUBSET M |->
               IF s = {} THEN 0
               ELSE MentionScore(CHOOSE x \in s : TRUE) + g[s \ {CHOOSE x \in s : TRUE}]]
  BY <1>3
<1>5. Sums(g, f, M)
  <2> HIDE DEF g
  <2> QED
    BY <1>2, <1>4 DEF Sums, Pick
<1>6. ScoreTotal(M) = g[M]
  BY DEF ScoreTotal, MapThenSumSet, MapThenFoldSet
<1> QED
  BY <1>5, <1>6, TotalSub

\* The spread of the scores, by the sums of them and of their squares.
LEMMA ScoreSpreadTotal ==
    ASSUME NEW M, IsFiniteSet(M), NEW f, \A m \in M : f[m] = MentionScore(m) * MentionScore(m)
    PROVE  ScoreSpread(M) = Cardinality(M) * Total(f, M) - ScoreTotal(M) * ScoreTotal(M)
<1> DEFINE sq(m) == MentionScore(m) * MentionScore(m)
           g == CHOOSE iter : iter = [s \in SUBSET M |->
               IF s = {} THEN 0
               ELSE sq(CHOOSE x \in s : TRUE) + iter[s \ {CHOOSE x \in s : TRUE}]]
<1>1. PICK h : Sums(h, f, M)
  BY SumsExist
<1>2. \A s \in SUBSET M : s # {} => f[CHOOSE x \in s : TRUE] = sq(CHOOSE x \in s : TRUE)
  OBVIOUS
<1>3. ScoreSpread(M) = Cardinality(M) * g[M] - ScoreTotal(M) * ScoreTotal(M)
  BY DEF ScoreSpread, MapThenSumSet, MapThenFoldSet
<1> HIDE DEF sq
<1>4. h = [s \in SUBSET M |->
               IF s = {} THEN 0
               ELSE sq(CHOOSE x \in s : TRUE) + h[s \ {CHOOSE x \in s : TRUE}]]
  BY <1>1, <1>2 DEF Sums, Pick
<1>5. g = [s \in SUBSET M |->
               IF s = {} THEN 0
               ELSE sq(CHOOSE x \in s : TRUE) + g[s \ {CHOOSE x \in s : TRUE}]]
  BY <1>4
<1>6. Sums(g, f, M)
  <2> HIDE DEF g
  <2> QED
    BY <1>2, <1>5 DEF Sums, Pick
<1>7. g[M] = Total(f, M)
  <2> HIDE DEF g
  <2> QED
    BY <1>6, TotalSub
<1> QED
  BY <1>3, <1>7

\* A sum of zeros.
LEMMA TotalZero ==
    ASSUME NEW S, IsFiniteSet(S)
    PROVE  Total([x \in S |-> 0], S) = 0
<1> DEFINE f == [x \in S |-> 0]
<1>1. \A x \in S : f[x] \in Nat /\ f[x] \in Int /\ f[x] <= 0
  OBVIOUS
<1> HIDE DEF f
<1>2. Total(f, S) \in Nat /\ Total(f, S) <= Cardinality(S) * 0
  BY <1>1, TotalNat, TotalAtMost
<1>3. Cardinality(S) * 0 = 0
  BY FS_CardinalityType
<1> QED
  BY <1>2, <1>3 DEF f

\* Mentions as they are collected have score 0, so no spread.
LEMMA CollectedScores ==
    ASSUME NEW M, M \subseteq [id : Mention, row : {Collected}]
    PROVE  ScoreTotal(M) = 0 /\ ScoreSpread(M) = 0
<1>1. IsFiniteSet(M)
  <2> DEFINE f == [m \in M |-> m.id]
  <2>1. f \in Injection(M, Mention)
    BY DEF Injection, IsInjective
  <2> QED
    BY <2>1, AlertsAssumption, FS_Injection
<1>2. \A m \in M : MentionScore(m) = 0
  BY DEF MentionScore, Collected
<1> DEFINE z == [x \in M |-> 0]
<1>3. Total(z, M) = 0
  BY <1>1, TotalZero
<1>4. \A m \in M : z[m] = MentionScore(m) /\ z[m] = MentionScore(m) * MentionScore(m)
  BY <1>2
<1> HIDE DEF z
<1>5. ScoreTotal(M) = 0
  BY <1>1, <1>3, <1>4, MentionTotal
<1>6. ScoreSpread(M) = Cardinality(M) * 0 - 0 * 0
  BY <1>1, <1>3, <1>4, <1>5, ScoreSpreadTotal
<1>7. Cardinality(M) \in Nat
  BY <1>1, FS_CardinalityType
<1> QED
  BY <1>5, <1>6, <1>7

\* Without variance and without a mood no rule of the job finds a crisis.
LEMMA NoCrisis ==
    ASSUME NEW M, M \subseteq [id : Mention, row : {Collected}]
    PROVE  ~Deviates(M) /\ ~IsCrisis(M)
<1>1. ScoreTotal(M) = 0 /\ ScoreSpread(M) = 0
  BY CollectedScores
<1>2. ~Deviates(M)
  BY <1>1 DEF Deviates
<1>3. Cardinality(M) \in Nat
  <2> DEFINE f == [m \in M |-> m.id]
  <2>1. f \in Injection(M, Mention)
    BY DEF Injection, IsInjective
  <2> QED
    BY <2>1, AlertsAssumption, FS_Injection, FS_CardinalityType
<1>4. ~(0 < -15 * Cardinality(M))
  BY <1>3
<1> QED
  BY <1>1, <1>2, <1>4 DEF IsCrisis

\* Nobody mentions a brand yet.
LEMMA BrandInit == InitAlerts => BrandInv
  BY AlertsAssumption DEF InitAlerts, BrandInv

\* No step breaks the invariant.
LEMMA BrandStep == BrandInv /\ [NextAlerts]_alertsVars => BrandInv'
<1> SUFFICES ASSUME BrandInv, [NextAlerts]_alertsVars PROVE BrandInv'
  OBVIOUS
<1>0. ~Deviates(mentions) /\ ~IsCrisis(mentions)
  BY NoCrisis DEF BrandInv
<1>1. ASSUME UNCHANGED brandVars PROVE BrandInv'
  BY <1>1 DEF BrandInv, brandVars
<1>2. ASSUME NEW r \in Recorder, RecordCount(r) \/ RecordFails(r)
             \/ \E s \in Service, exc \in Failure : HandleApiException(r, s, exc)
      PROVE BrandInv'
  BY <1>1, <1>2 DEF RecordCount, RecordFails, HandleApiException, RecordInsert
<1>3. ASSUME NEW i \in mailTasks, NEW sent \in SendEmail, SendAndMark(i, sent) PROVE BrandInv'
  BY <1>1, <1>3 DEF SendAndMark
<1>4. ASSUME NEW a \in alerts, DismissAlert(a) \/ LeaveWindow(a) PROVE BrandInv'
  BY <1>1, <1>4 DEF DismissAlert, LeaveWindow
<1>5. ASSUME LoseTasks PROVE BrandInv'
  BY <1>1, <1>5 DEF LoseTasks
<1>6. ASSUME NEW i \in Mention, CollectMention(i) PROVE BrandInv'
  BY <1>6 DEF CollectMention, BrandInv
<1>7. ASSUME NEW m \in mentions, MentionAges(m) PROVE BrandInv'
  BY <1>7 DEF MentionAges, BrandInv
<1>8. ASSUME NEW b \in Monitor, MonitorBrand(b) \/ BrandCacheExpires(b) PROVE BrandInv'
  BY <1>0, <1>8 DEF MonitorBrand, BrandCacheExpires, BrandInv
<1>9. ASSUME StartBrandJob PROVE BrandInv'
  BY <1>9, AlertsAssumption DEF StartBrandJob, BrandInv
<1>10. ASSUME NEW j \in brandJob, CheckMonitor(j) PROVE BrandInv'
  <2>1. j.monitor \in Monitor
    BY DEF BrandInv
  <2>2. brandCache[j.monitor] # "crisis"
    BY <2>1 DEF BrandInv
  <2>3. /\ UNCHANGED <<dispatched, lastAlerted, mentions, brandCache, brandRuns>>
        /\ brandJob' = brandJob \ {j}
    BY <1>0, <1>10, <2>2 DEF CheckMonitor
  <2> QED
    BY <2>3 DEF BrandInv
<1>11. ASSUME UNCHANGED alertsVars PROVE BrandInv'
  BY <1>1, <1>11 DEF alertsVars, brandVars
<1> QED
  BY <1>2, <1>3, <1>4, <1>5, <1>6, <1>7, <1>8, <1>9, <1>10, <1>11 DEF NextAlerts

\* The alerts that jobs/brand_alert.py documents never come: however the mentions, the cache
\* and the runs of the job interleave, what the collectors insert deviates from nothing
\* (run_brand_alert; monitor_brand of brand_monitor.py).
THEOREM NoBrandAlert == SpecAlerts => [](dispatched = {})
<1>1. BrandInv => dispatched = {}
  BY DEF BrandInv
<1> QED
  BY <1>1, BrandInit, BrandStep, PTL DEF SpecAlerts

\* What the tasks that send mail know is the id of a row.
MailsKnown == mailTasks \subseteq AlertId

LEMMA MailsKnownStep ==
    ASSUME AlertsInv, MailsKnown, [NextAlerts]_alertsVars
    PROVE  MailsKnown'
<1>1. \A a \in alerts : a.id \in AlertId
  BY DEF AlertsInv, AlertRows, AlertRow
<1>2. ASSUME mailTasks' \subseteq mailTasks PROVE MailsKnown'
  BY <1>2 DEF MailsKnown
<1>3. CASE UNCHANGED alertsVars
  BY <1>2, <1>3 DEF alertsVars
<1>4. CASE \E r \in Recorder : RecordCount(r)
  BY <1>1, <1>4 DEF RecordCount, MailsKnown
<1>5. CASE \/ \E r \in Recorder : RecordFails(r)
           \/ \E r \in Recorder, s \in Service, exc \in Failure : HandleApiException(r, s, exc)
           \/ \E i \in mailTasks, sent \in SendEmail : SendAndMark(i, sent)
           \/ \E a \in alerts : DismissAlert(a) \/ LeaveWindow(a)
           \/ LoseTasks
  BY <1>2, <1>5 DEF RecordFails, HandleApiException, RecordInsert, SendAndMark, DismissAlert,
     LeaveWindow, LoseTasks
<1>6. CASE \/ \E i \in Mention : CollectMention(i)
           \/ \E m \in mentions : MentionAges(m)
           \/ \E b \in Monitor : MonitorBrand(b) \/ BrandCacheExpires(b)
           \/ StartBrandJob
           \/ \E j \in brandJob : CheckMonitor(j)
  BY <1>2, <1>6 DEF CollectMention, MentionAges, MonitorBrand, BrandCacheExpires, StartBrandJob,
     CheckMonitor, quotaAlertVars
<1> QED
  BY <1>3, <1>4, <1>5, <1>6 DEF NextAlerts

\* The rows of the alerts, the mails to be sent and what is known of the brands have their
\* types (quota_alert.py, brand_monitor.py, jobs/brand_alert.py).
THEOREM AlertsTypes == SpecAlerts => []AlertsTypeOK
<1>1. AlertsInv /\ MailsKnown /\ BrandInv => AlertsTypeOK
  BY DEF AlertsInv, AlertRows, MailsKnown, BrandInv, Collected, AlertsTypeOK
<1>2. InitAlerts => MailsKnown
  BY DEF InitAlerts, MailsKnown
<1>3. AlertsInv /\ MailsKnown /\ [NextAlerts]_alertsVars => MailsKnown'
  BY MailsKnownStep
<1> QED
  BY <1>1, <1>2, <1>3, InitAlertsInv, AlertsInvariance, BrandInit, BrandStep, PTL DEF SpecAlerts

(***************************************************************************)
(* Migrations.                                                             *)
(***************************************************************************)

\* What a runner has read or done of the migrations before the one it has come to.
Progress ==
    \A r \in Runner :
        /\ runner[r] # NoRunner => /\ tracked /\ runner[r].applied \subseteq recorded
                                   /\ 1 .. (runner[r].at - 1) \subseteq recorded
        /\ runner[r].pc \in {"build", "insert"} => runner[r].at \in Migration
        /\ runner[r].pc = "serve" => runner[r].at = LastMigration + 1

\* The indexes being built have one builder, and what is about to be recorded is there.
Building ==
    /\ \A r \in Runner : runner[r].pc = "build" =>
          runner[r].at \in Standalone /\ effect[runner[r].at] = "building"
    /\ \A r, s \in Runner :
          (runner[r].pc = "build" /\ runner[s].pc = "build" /\ runner[r].at = runner[s].at) => r = s
    /\ \A r \in Runner : (runner[r].pc = "insert" /\ runner[r].at \in Standalone) =>
          effect[runner[r].at] \in {"whole", "invalid"}

\* The part of MigrationsInOrder about the table.
Recorded ==
    /\ \A v \in recorded : /\ 1 .. v \subseteq recorded
                           /\ effect[v] = "whole" \/ (v \in Standalone /\ effect[v] = "invalid")
    /\ \A v \in Migration \ (recorded \cup Standalone) : effect[v] = "none"

MigrationsInv == MigrationsTypeOK /\ Progress /\ Building /\ Recorded

LEMMA InitMigrationsInv == InitMigrations => MigrationsInv
<1> SUFFICES ASSUME InitMigrations PROVE MigrationsInv
  OBVIOUS
<1> USE DEF InitMigrations
<1>1. MigrationsTypeOK
  <2>1. effect \in [Migration -> {"none", "building", "cut", "invalid", "whole"}]
    OBVIOUS
  <2>2. runnerFaults \in 0 .. MaxRunnerFaults
    BY MigrationsAssumption
  <2>3. \A r \in Runner : runner[r] = NoRunner
    OBVIOUS
  <2>4. runner \in [Runner -> {NoRunner}]
    OBVIOUS
  <2> QED
    BY <2>1, <2>2, <2>4 DEF MigrationsTypeOK
<1>2. Progress /\ Building
  BY DEF Progress, Building, NoRunner
<1>3. Recorded
  BY DEF Recorded
<1> QED
  BY <1>1, <1>2, <1>3 DEF MigrationsInv

\* A runner that has begun is a record with the versions it read and its place.
LEMMA RunnerFields ==
    ASSUME MigrationsTypeOK, NEW r \in Runner, runner[r] # NoRunner
    PROVE  /\ runner[r] \in [pc : {"read", "next", "build", "insert", "serve"},
                             applied : SUBSET Migration, at : 1 .. (LastMigration + 1)]
           /\ runner[r].pc \in {"read", "next", "build", "insert", "serve"}
           /\ runner[r].applied \subseteq Migration
           /\ runner[r].at \in 1 .. (LastMigration + 1)
<1>1. runner[r] \in [pc : {"read", "next", "build", "insert", "serve"},
                     applied : SUBSET Migration, at : 1 .. (LastMigration + 1)]
  BY DEF MigrationsTypeOK
<1> QED
  BY <1>1

\* Where a runner is, is enough to know that it has begun.
LEMMA Begun ==
    ASSUME NEW r \in Runner, runner[r].pc # "idle"
    PROVE  runner[r] # NoRunner
  BY DEF NoRunner

(***************************************************************************)
(* One lemma for each kind of step.                                        *)
(***************************************************************************)

LEMMA BeginStep ==
    ASSUME MigrationsInv, NEW r \in Runner, EnsureMigrationsTable(r) \/ GetApplied(r)
    PROVE  MigrationsInv'
<1>1. CASE EnsureMigrationsTable(r)
  <2> DEFINE new == [pc |-> "read", applied |-> {}, at |-> 1]
  <2>1. /\ tracked' = TRUE /\ runner' = [runner EXCEPT ![r] = new]
        /\ UNCHANGED <<recorded, effect, runnerFaults>>
    BY <1>1 DEF EnsureMigrationsTable
  <2>2. new \in [pc : {"read", "next", "build", "insert", "serve"},
                 applied : SUBSET Migration, at : 1 .. (LastMigration + 1)]
    BY MigrationsAssumption
  <2>3. MigrationsTypeOK'
    BY <2>1, <2>2 DEF MigrationsInv, MigrationsTypeOK
  <2>4. \A s \in Runner : runner'[s] = IF s = r THEN new ELSE runner[s]
    BY <2>1 DEF MigrationsInv, MigrationsTypeOK
  <2>5. Progress' /\ Building' /\ Recorded'
    BY <2>1, <2>4 DEF MigrationsInv, Progress, Building, Recorded
  <2> QED
    BY <2>3, <2>5 DEF MigrationsInv
<1>2. CASE GetApplied(r)
  <2>1. /\ runner[r].pc = "read" /\ runner' = [runner EXCEPT ![r] = [@ EXCEPT !.pc = "next", !.applied = recorded]]
        /\ UNCHANGED <<tracked, recorded, effect, runnerFaults>>
    BY <1>2 DEF GetApplied
  <2> DEFINE new == [runner[r] EXCEPT !.pc = "next", !.applied = recorded]
  <2>2. /\ runner[r] # NoRunner /\ recorded \subseteq Migration
        /\ runner[r] \in [pc : {"read", "next", "build", "insert", "serve"},
                          applied : SUBSET Migration, at : 1 .. (LastMigration + 1)]
    BY <2>1, Begun, RunnerFields DEF MigrationsInv, MigrationsTypeOK
  <2>3. /\ new \in [pc : {"read", "next", "build", "insert", "serve"},
                    applied : SUBSET Migration, at : 1 .. (LastMigration + 1)]
        /\ new.pc = "next" /\ new.applied = recorded /\ new.at = runner[r].at
    BY <2>2
  <2> HIDE DEF new
  <2>4. MigrationsTypeOK'
    BY <2>1, <2>3 DEF MigrationsInv, MigrationsTypeOK, new
  <2>5. \A s \in Runner : runner'[s] = IF s = r THEN new ELSE runner[s]
    BY <2>1 DEF MigrationsInv, MigrationsTypeOK, new
  <2>6. Progress' /\ Building' /\ Recorded'
    BY <2>1, <2>2, <2>3, <2>5 DEF MigrationsInv, Progress, Building, Recorded
  <2> QED
    BY <2>4, <2>6 DEF MigrationsInv
<1> QED
  BY <1>1, <1>2

\* A version found among those read, or the end of the list.
LEMMA SkipStep ==
    ASSUME MigrationsInv, NEW r \in Runner,
           StartServer(r) \/ \E v \in Migration : SkipApplied(r, v)
    PROVE  MigrationsInv'
<1> DEFINE Place == [pc : {"read", "next", "build", "insert", "serve"},
                     applied : SUBSET Migration, at : 1 .. (LastMigration + 1)]
<1>1. CASE StartServer(r)
  <2>1. /\ runner[r].pc = "next" /\ runner[r].at > LastMigration
        /\ runner' = [runner EXCEPT ![r] = [@ EXCEPT !.pc = "serve"]]
        /\ UNCHANGED <<tracked, recorded, effect, runnerFaults>>
    BY <1>1 DEF StartServer
  <2> DEFINE new == [runner[r] EXCEPT !.pc = "serve"]
  <2>2. runner[r] # NoRunner /\ runner[r] \in Place
    BY <2>1, Begun, RunnerFields DEF MigrationsInv
  <2>3. new \in Place /\ new.pc = "serve" /\ new.applied = runner[r].applied /\ new.at = runner[r].at
    BY <2>2
  <2>4. new.at = LastMigration + 1
    <3>1. new.at \in 1 .. (LastMigration + 1) /\ new.at > LastMigration
      BY <2>1, <2>3
    <3> QED
      BY <3>1, MigrationsAssumption
  <2> HIDE DEF new
  <2>5. MigrationsTypeOK'
    BY <2>1, <2>3 DEF MigrationsInv, MigrationsTypeOK, new
  <2>6. \A s \in Runner : runner'[s] = IF s = r THEN new ELSE runner[s]
    BY <2>1 DEF MigrationsInv, MigrationsTypeOK, new
  <2>7. Progress' /\ Building' /\ Recorded'
    BY <2>1, <2>2, <2>3, <2>4, <2>6 DEF MigrationsInv, Progress, Building, Recorded
  <2> QED
    BY <2>5, <2>7 DEF MigrationsInv
<1>2. ASSUME NEW v \in Migration, SkipApplied(r, v) PROVE MigrationsInv'
  <2>1. /\ runner[r].pc = "next" /\ runner[r].at = v /\ v \in runner[r].applied
        /\ runner' = [runner EXCEPT ![r].at = v + 1]
        /\ UNCHANGED <<tracked, recorded, effect, runnerFaults>>
    BY <1>2 DEF SkipApplied, AtMigration
  <2> DEFINE new == [runner[r] EXCEPT !.at = v + 1]
  <2>2. runner[r] # NoRunner /\ runner[r] \in Place
    BY <2>1, Begun, RunnerFields DEF MigrationsInv
  <2>3. v \in 1 .. LastMigration /\ v + 1 \in 1 .. (LastMigration + 1) /\ 1 .. ((v + 1) - 1) = 1 .. v
    BY MigrationsAssumption DEF Migration
  <2>4. new \in Place /\ new.pc = "next" /\ new.applied = runner[r].applied /\ new.at = v + 1
    BY <2>1, <2>2, <2>3
  <2>5. 1 .. v \subseteq recorded
    BY <2>1, <2>2 DEF MigrationsInv, Progress, Recorded
  <2> HIDE DEF new
  <2>6. MigrationsTypeOK'
    BY <2>1, <2>4 DEF MigrationsInv, MigrationsTypeOK, new
  <2>7. \A s \in Runner : runner'[s] = IF s = r THEN new ELSE runner[s]
    BY <2>1 DEF MigrationsInv, MigrationsTypeOK, new
  <2>8. Progress' /\ Building' /\ Recorded'
    BY <2>1, <2>2, <2>3, <2>4, <2>5, <2>7 DEF MigrationsInv, Progress, Building, Recorded
  <2> QED
    BY <2>6, <2>8 DEF MigrationsInv
<1> QED
  BY <1>1, <1>2

\* A transaction that nobody sees yet.
LEMMA TransactionStep ==
    ASSUME MigrationsInv, NEW r \in Runner, NEW v \in Migration, UpInTransaction(r, v)
    PROVE  MigrationsInv'
<1> DEFINE Place == [pc : {"read", "next", "build", "insert", "serve"},
                     applied : SUBSET Migration, at : 1 .. (LastMigration + 1)]
           new == [runner[r] EXCEPT !.pc = "insert"]
<1>1. /\ runner[r].pc = "next" /\ runner[r].at = v /\ v \notin Standalone
      /\ runner' = [runner EXCEPT ![r].pc = "insert"]
      /\ UNCHANGED <<tracked, recorded, effect, runnerFaults>>
  BY DEF UpInTransaction, AtMigration
<1>2. runner[r] # NoRunner /\ runner[r] \in Place
  BY <1>1, Begun, RunnerFields DEF MigrationsInv
<1>3. new \in Place /\ new.pc = "insert" /\ new.applied = runner[r].applied /\ new.at = v
  BY <1>1, <1>2
<1> HIDE DEF new
<1>4. MigrationsTypeOK'
  BY <1>1, <1>3 DEF MigrationsInv, MigrationsTypeOK, new
<1>5. \A s \in Runner : runner'[s] = IF s = r THEN new ELSE runner[s]
  BY <1>1 DEF MigrationsInv, MigrationsTypeOK, new
<1>6. Progress' /\ Building' /\ Recorded'
  BY <1>1, <1>2, <1>3, <1>5 DEF MigrationsInv, Progress, Building, Recorded
<1> QED
  BY <1>4, <1>6 DEF MigrationsInv

\* Indexes begun or found, and those brought to their end.
LEMMA BuildStep ==
    ASSUME MigrationsInv, NEW r \in Runner,
           IndexesBuilt(r) \/ \E v \in Migration : UpAlone(r, v)
    PROVE  MigrationsInv'
<1> DEFINE Place == [pc : {"read", "next", "build", "insert", "serve"},
                     applied : SUBSET Migration, at : 1 .. (LastMigration + 1)]
<1>1. CASE IndexesBuilt(r)
  <2> DEFINE new == [runner[r] EXCEPT !.pc = "insert"]
             v == runner[r].at
  <2>1. /\ runner[r].pc = "build" /\ effect' = [effect EXCEPT ![v] = "whole"]
        /\ runner' = [runner EXCEPT ![r].pc = "insert"]
        /\ UNCHANGED <<tracked, recorded, runnerFaults>>
    BY <1>1 DEF IndexesBuilt
  <2>2. runner[r] # NoRunner /\ runner[r] \in Place
    BY <2>1, Begun, RunnerFields DEF MigrationsInv
  <2>3. v \in Standalone /\ v \in Migration /\ effect[v] = "building"
    BY <2>1 DEF MigrationsInv, Progress, Building
  <2>4. new \in Place /\ new.pc = "insert" /\ new.applied = runner[r].applied /\ new.at = v
    BY <2>1, <2>2
  <2> HIDE DEF new
  <2>5. MigrationsTypeOK'
    BY <2>1, <2>3, <2>4 DEF MigrationsInv, MigrationsTypeOK, new
  <2>6. /\ \A s \in Runner : runner'[s] = IF s = r THEN new ELSE runner[s]
        /\ \A w \in Migration : effect'[w] = IF w = v THEN "whole" ELSE effect[w]
    BY <2>1, <2>3 DEF MigrationsInv, MigrationsTypeOK, new
  <2>7. Progress'
    BY <2>1, <2>2, <2>3, <2>4, <2>6 DEF MigrationsInv, Progress
  <2> HIDE DEF v
  <2>8. \A s \in Runner : runner[s].pc = "build" /\ runner[s].at = v => s = r
    BY <2>1 DEF MigrationsInv, Building, v
  <2>9. Building'
    BY <2>1, <2>3, <2>4, <2>6, <2>8 DEF MigrationsInv, Building, Progress
  <2>10. Recorded'
    BY <2>1, <2>3, <2>6 DEF MigrationsInv, Recorded, MigrationsTypeOK
  <2> QED
    BY <2>5, <2>7, <2>9, <2>10 DEF MigrationsInv
<1>2. ASSUME NEW v \in Migration, UpAlone(r, v) PROVE MigrationsInv'
  <2> DEFINE where == IF effect[v] \in {"none", "cut"} THEN "build" ELSE "insert"
             new == [runner[r] EXCEPT !.pc = where]
  <2>1. /\ runner[r].pc = "next" /\ runner[r].at = v /\ v \in Standalone /\ effect[v] # "building"
        /\ effect' = [effect EXCEPT ![v] = IF @ \in {"none", "cut"} THEN "building" ELSE @]
        /\ runner' = [runner EXCEPT ![r].pc = where]
        /\ UNCHANGED <<tracked, recorded, runnerFaults>>
    BY <1>2 DEF UpAlone, AtMigration
  <2>2. runner[r] # NoRunner /\ runner[r] \in Place
    BY <2>1, Begun, RunnerFields DEF MigrationsInv
  <2>3. new \in Place /\ new.pc = where /\ new.applied = runner[r].applied /\ new.at = v
    BY <2>1, <2>2
  <2> HIDE DEF new
  <2>4. MigrationsTypeOK'
    BY <2>1, <2>3 DEF MigrationsInv, MigrationsTypeOK, new
  <2>5. /\ \A s \in Runner : runner'[s] = IF s = r THEN new ELSE runner[s]
        /\ effect[v] \in {"none", "cut", "invalid", "whole"}
        /\ \A w \in Migration : effect'[w] = IF w = v /\ effect[v] \in {"none", "cut"}
                                             THEN "building" ELSE effect[w]
    BY <2>1 DEF MigrationsInv, MigrationsTypeOK, new
  <2>6. Progress'
    BY <2>1, <2>2, <2>3, <2>5 DEF MigrationsInv, Progress
  <2>7. \A s \in Runner : ~(runner[s].pc = "build" /\ runner[s].at = v)
    BY <2>1 DEF MigrationsInv, Building
  <2>8. Building'
    BY <2>1, <2>3, <2>5, <2>7 DEF MigrationsInv, Building, Progress
  <2>9. Recorded'
    BY <2>1, <2>5 DEF MigrationsInv, Recorded, MigrationsTypeOK
  <2> QED
    BY <2>4, <2>6, <2>8, <2>9 DEF MigrationsInv
<1> QED
  BY <1>1, <1>2

\* The version inserted, or refused because another runner was faster.
LEMMA InsertStep ==
    ASSUME MigrationsInv, NEW r \in Runner, InsertVersion(r)
    PROVE  MigrationsInv'
<1> DEFINE Place == [pc : {"read", "next", "build", "insert", "serve"},
                     applied : SUBSET Migration, at : 1 .. (LastMigration + 1)]
           v == runner[r].at
<1>1. runner[r].pc = "insert" /\ RecordVersion(r, v) /\ UNCHANGED <<tracked, runnerFaults>>
  BY DEF InsertVersion
<1>2. runner[r] # NoRunner /\ runner[r] \in Place /\ v \in Migration
  BY <1>1, Begun, RunnerFields DEF MigrationsInv, Progress
<1>3. CASE v \in recorded
  <2>1. runner' = [runner EXCEPT ![r] = NoRunner] /\ UNCHANGED <<recorded, effect>>
    BY <1>1, <1>3 DEF RecordVersion
  <2>2. MigrationsTypeOK'
    BY <1>1, <2>1 DEF MigrationsInv, MigrationsTypeOK
  <2>3. \A s \in Runner : runner'[s] = IF s = r THEN NoRunner ELSE runner[s]
    BY <2>1 DEF MigrationsInv, MigrationsTypeOK
  <2>4. NoRunner.pc = "idle"
    BY DEF NoRunner
  <2>5. Progress' /\ Building' /\ Recorded'
    BY <1>1, <2>1, <2>3, <2>4 DEF MigrationsInv, Progress, Building, Recorded
  <2> QED
    BY <2>2, <2>5 DEF MigrationsInv
<1>4. CASE v \notin recorded
  <2> DEFINE new == [runner[r] EXCEPT !.pc = "next", !.at = v + 1]
  <2>1. /\ recorded' = recorded \cup {v}
        /\ runner' = [runner EXCEPT ![r] = [@ EXCEPT !.pc = "next", !.at = v + 1]]
        /\ effect' = IF v \in Standalone THEN effect ELSE [effect EXCEPT ![v] = "whole"]
    BY <1>1, <1>4 DEF RecordVersion
  <2>2. /\ v \in 1 .. LastMigration /\ v + 1 \in 1 .. (LastMigration + 1)
        /\ 1 .. ((v + 1) - 1) = 1 .. v /\ 1 .. v = (1 .. (v - 1)) \cup {v}
    BY <1>2, MigrationsAssumption DEF Migration
  <2>3. new \in Place /\ new.pc = "next" /\ new.applied = runner[r].applied /\ new.at = v + 1
    BY <1>2, <2>2
  <2>4. 1 .. v \subseteq recorded'
    BY <1>2, <2>1, <2>2 DEF MigrationsInv, Progress
  <2>5. tracked
    BY <1>2 DEF MigrationsInv, Progress
  <2> HIDE DEF new
  <2>6. MigrationsTypeOK'
    BY <1>1, <1>2, <2>1, <2>3, <2>5 DEF MigrationsInv, MigrationsTypeOK, new
  <2>7. /\ \A s \in Runner : runner'[s] = IF s = r THEN new ELSE runner[s]
        /\ \A w \in Migration : effect'[w] = IF w = v /\ v \notin Standalone THEN "whole" ELSE effect[w]
    BY <1>2, <2>1 DEF MigrationsInv, MigrationsTypeOK, new
  <2>8. Progress'
    BY <1>1, <1>2, <2>1, <2>2, <2>3, <2>4, <2>5, <2>7 DEF MigrationsInv, Progress
  <2>9. Building'
    <3> HIDE DEF v
    <3> QED
      BY <2>1, <2>3, <2>7 DEF MigrationsInv, Building, Progress
  <2>10. Recorded'
    <3>1. effect'[v] = "whole" \/ (v \in Standalone /\ effect'[v] = "invalid")
      BY <1>1, <1>2, <2>7 DEF MigrationsInv, Building
    <3> HIDE DEF v
    <3> QED
      BY <1>2, <2>1, <2>4, <2>7, <3>1 DEF MigrationsInv, Recorded, MigrationsTypeOK
  <2> QED
    BY <2>6, <2>8, <2>9, <2>10 DEF MigrationsInv
<1> QED
  BY <1>3, <1>4

\* A runner that stops; only a build leaves something half done.
LEMMA FailStep ==
    ASSUME MigrationsInv, NEW r \in Runner, NEW left \in {"cut", "invalid", "whole"},
           RunnerFails(r, left)
    PROVE  MigrationsInv'
<1> DEFINE v == runner[r].at
<1>1. /\ runner[r] # NoRunner /\ runnerFaults < MaxRunnerFaults /\ runnerFaults' = runnerFaults + 1
      /\ runner' = [runner EXCEPT ![r] = NoRunner]
      /\ effect' = IF runner[r].pc = "build" THEN [effect EXCEPT ![v] = left] ELSE effect
      /\ UNCHANGED <<tracked, recorded>>
  BY DEF RunnerFails
<1>2. runner[r].pc = "build" => /\ v \in Migration /\ v \in Standalone /\ effect[v] = "building"
                                /\ v \notin recorded
  BY DEF MigrationsInv, Progress, Building, Recorded
<1>3. runnerFaults' \in 0 .. MaxRunnerFaults
  BY <1>1, MigrationsAssumption DEF MigrationsInv, MigrationsTypeOK
<1>4. MigrationsTypeOK'
  BY <1>1, <1>2, <1>3 DEF MigrationsInv, MigrationsTypeOK
<1>5. /\ \A s \in Runner : runner'[s] = IF s = r THEN NoRunner ELSE runner[s]
      /\ NoRunner.pc = "idle"
      /\ \A w \in Migration : effect'[w] = IF w = v /\ runner[r].pc = "build" THEN left ELSE effect[w]
  BY <1>1, <1>2 DEF MigrationsInv, MigrationsTypeOK, NoRunner
<1>6. Progress'
  BY <1>1, <1>5 DEF MigrationsInv, Progress
<1>7. \A s \in Runner : runner[r].pc = "build" /\ runner[s].pc = "build" /\ runner[s].at = v => s = r
  BY DEF MigrationsInv, Building
<1>8. Building'
  <2> HIDE DEF v
  <2> QED
    BY <1>1, <1>2, <1>5, <1>7 DEF MigrationsInv, Building, Progress
<1>9. Recorded'
  <2> HIDE DEF v
  <2> QED
    BY <1>1, <1>2, <1>5 DEF MigrationsInv, Recorded, MigrationsTypeOK
<1> QED
  BY <1>4, <1>6, <1>8, <1>9 DEF MigrationsInv

LEMMA MigrationsInvariance == MigrationsInv /\ [NextMigrations]_migrationsVars => MigrationsInv'
<1> SUFFICES ASSUME MigrationsInv, [NextMigrations]_migrationsVars PROVE MigrationsInv'
  OBVIOUS
<1>1. CASE UNCHANGED migrationsVars
  BY <1>1 DEF migrationsVars, MigrationsInv, MigrationsTypeOK, Progress, Building, Recorded
<1>2. CASE NextMigrations
  BY <1>2, BeginStep, SkipStep, TransactionStep, BuildStep, InsertStep, FailStep DEF NextMigrations
<1> QED
  BY <1>1, <1>2

LEMMA MigrationsInvImplies == MigrationsInv => MigrationsInOrder
<1> SUFFICES ASSUME MigrationsInv, NEW r \in Runner, runner[r].pc = "serve"
             PROVE  recorded = Migration
  BY DEF MigrationsInv, Recorded, MigrationsInOrder
<1>1. runner[r] # NoRunner /\ runner[r].at = LastMigration + 1
  BY Begun DEF MigrationsInv, Progress
<1>2. 1 .. ((LastMigration + 1) - 1) \subseteq recorded
  BY <1>1 DEF MigrationsInv, Progress
<1>3. 1 .. LastMigration \subseteq recorded
  BY <1>2, MigrationsAssumption
<1> QED
  BY <1>3 DEF MigrationsInv, MigrationsTypeOK, Migration

\* The table, what its versions have left in the schema, and the runners have their types
\* (runner.py: run_migrations).
THEOREM MigrationsTypes == SpecMigrations => []MigrationsTypeOK
<1>1. MigrationsInv => MigrationsTypeOK
  BY DEF MigrationsInv
<1> QED
  BY <1>1, InitMigrationsInv, MigrationsInvariance, PTL DEF SpecMigrations

\* However many runners there are and wherever they fail, the recorded versions are a
\* prefix of the list that has taken effect, an unrecorded transaction has left nothing,
\* and a server starts on the whole schema (runner.py: run_migrations, entrypoint.sh).
THEOREM MigrationsOrdered == SpecMigrations => []MigrationsInOrder
  BY InitMigrationsInv, MigrationsInvariance, MigrationsInvImplies, PTL DEF SpecMigrations

\* However many runners there are, together they do what a single process would: apply the
\* versions one by one in order, lose none, and serve on the whole schema (runner.py:
\* run_migrations, entrypoint.sh).
THEOREM MigrationsUpgrade == SpecMigrations => UpgradesInOrder
<1>1. InitMigrations => Schema!Init
  BY DEF InitMigrations, NoRunner, Serving, Schema!Init
<1>2. MigrationsInv /\ [NextMigrations]_migrationsVars => [Schema!Next]_<<recorded, Serving>>
  <2> SUFFICES ASSUME MigrationsInv, [NextMigrations]_migrationsVars
               PROVE  Schema!Next \/ (recorded' = recorded /\ Serving' = Serving)
    OBVIOUS
  <2>1. CASE UNCHANGED migrationsVars
    BY <2>1 DEF migrationsVars, Serving
  \* A step of a runner that neither begins nor ends to serve.
  <2>2. ASSUME NEW r \in Runner, runner[r].pc # "serve", runner'[r].pc # "serve",
               \A s \in Runner \ {r} : runner'[s] = runner[s]
        PROVE  Serving' = Serving
    BY <2>2 DEF Serving
  <2>3. ASSUME NEW r \in Runner, NEW f, runner' = [runner EXCEPT ![r] = f]
        PROVE  runner'[r] = f /\ \A s \in Runner \ {r} : runner'[s] = runner[s]
    BY <2>3 DEF MigrationsInv, MigrationsTypeOK
  <2>4. ASSUME NEW r \in Runner, StartServer(r) PROVE Schema!Next
    <3>1. runner[r].pc = "next" /\ runner[r].at > LastMigration /\ recorded' = recorded
      BY <2>4 DEF StartServer
    <3>2. runner' = [runner EXCEPT ![r] = [runner[r] EXCEPT !.pc = "serve"]]
      BY <2>4 DEF StartServer
    <3>3. /\ runner[r] # NoRunner /\ runner[r].at \in 1 .. (LastMigration + 1)
          /\ 1 .. (runner[r].at - 1) \subseteq recorded /\ recorded \subseteq 1 .. LastMigration
      BY <3>1, Begun, RunnerFields DEF MigrationsInv, Progress, MigrationsTypeOK, Migration
    <3>4. recorded = 1 .. LastMigration
      <4>1. runner[r].at - 1 = LastMigration
        BY <3>1, <3>3, MigrationsAssumption
      <4> QED
        BY <3>3, <4>1
    <3>5. [runner[r] EXCEPT !.pc = "serve"].pc = "serve"
      BY <3>1, <3>3, RunnerFields DEF MigrationsInv
    <3>6. Serving' = Serving \cup {r} /\ r \notin Serving
      <4> DEFINE new == [runner[r] EXCEPT !.pc = "serve"]
      <4>1. runner' = [runner EXCEPT ![r] = new] /\ new.pc = "serve"
        BY <3>2, <3>5
      <4> HIDE DEF new
      <4>2. runner'[r] = new /\ \A s \in Runner \ {r} : runner'[s] = runner[s]
        BY <2>3, <4>1
      <4> QED
        BY <3>1, <4>1, <4>2 DEF Serving
    <3> QED
      BY <3>1, <3>4, <3>6 DEF Schema!Next, Schema!Serve
  <2>5. ASSUME NEW r \in Runner, NEW left \in {"cut", "invalid", "whole"}, RunnerFails(r, left)
        PROVE  Schema!Next \/ (recorded' = recorded /\ Serving' = Serving)
    <3>1. recorded' = recorded /\ runner' = [runner EXCEPT ![r] = NoRunner]
      BY <2>5 DEF RunnerFails
    <3>2. runner'[r].pc = "idle" /\ \A s \in Runner \ {r} : runner'[s] = runner[s]
      <4>1. runner'[r] = NoRunner /\ \A s \in Runner \ {r} : runner'[s] = runner[s]
        BY <2>3, <3>1
      <4> QED
        BY <4>1 DEF NoRunner
    <3>3. CASE runner[r].pc = "serve"
      <4>1. Serving' = Serving \ {r} /\ r \in Serving
        BY <3>2, <3>3 DEF Serving
      <4> QED
        BY <3>1, <4>1 DEF Schema!Next, Schema!Stop
    <3>4. CASE runner[r].pc # "serve"
      BY <2>2, <3>1, <3>2, <3>4
    <3> QED
      BY <3>3, <3>4
  <2>6. ASSUME NEW r \in Runner, InsertVersion(r)
        PROVE  Schema!Next \/ (recorded' = recorded /\ Serving' = Serving)
    <3> DEFINE v == runner[r].at
    <3>1. runner[r].pc = "insert" /\ RecordVersion(r, v)
      BY <2>6 DEF InsertVersion
    <3>2. CASE v \in recorded
      <4>1. recorded' = recorded /\ runner' = [runner EXCEPT ![r] = NoRunner]
        BY <3>1, <3>2 DEF RecordVersion
      <4>2. runner'[r].pc = "idle" /\ \A s \in Runner \ {r} : runner'[s] = runner[s]
        <5>1. runner'[r] = NoRunner /\ \A s \in Runner \ {r} : runner'[s] = runner[s]
          BY <2>3, <4>1
        <5> QED
          BY <5>1 DEF NoRunner
      <4> QED
        BY <2>2, <3>1, <4>1, <4>2
    <3>3. CASE v \notin recorded
      <4>1. /\ recorded' = recorded \cup {v}
            /\ runner' = [runner EXCEPT ![r] = [runner[r] EXCEPT !.pc = "next", !.at = v + 1]]
        BY <3>1, <3>3 DEF RecordVersion
      <4>2. v \in Migration /\ 1 .. (v - 1) \subseteq recorded /\ recorded \subseteq Migration
        BY <3>1, Begun DEF MigrationsInv, Progress, MigrationsTypeOK
      <4>3. \A w \in recorded : 1 .. w \subseteq recorded
        BY DEF MigrationsInv, Recorded
      <4>4. recorded = 1 .. (v - 1)
        <5> HIDE DEF v
        <5>1. \A w \in recorded : w \in Nat /\ w < v
          BY <3>3, <4>2, <4>3, MigrationsAssumption DEF Migration
        <5>2. \A w \in recorded : w \in 1 .. (v - 1)
          BY <4>2, <5>1, MigrationsAssumption DEF Migration
        <5> QED
          BY <4>2, <5>2
      <4>5. Serving' = Serving
        <5>1. [runner[r] EXCEPT !.pc = "next", !.at = v + 1].pc = "next"
          BY <3>1, Begun, RunnerFields DEF MigrationsInv
        <5> QED
          BY <2>2, <2>3, <3>1, <4>1, <5>1
      <4> QED
        BY <4>1, <4>2, <4>4, <4>5 DEF Schema!Next, Schema!Apply, Migration
    <3> QED
      BY <3>2, <3>3
  <2>7. ASSUME NEW r \in Runner, EnsureMigrationsTable(r) \/ GetApplied(r) \/ IndexesBuilt(r)
                 \/ \E v \in Migration : SkipApplied(r, v) \/ UpInTransaction(r, v) \/ UpAlone(r, v)
        PROVE  recorded' = recorded /\ Serving' = Serving
    <3>1. recorded' = recorded /\ runner[r].pc # "serve"
      BY <2>7 DEF EnsureMigrationsTable, GetApplied, IndexesBuilt, SkipApplied, UpInTransaction,
                  UpAlone, AtMigration, NoRunner
    <3>2. \A s \in Runner \ {r} : runner'[s] = runner[s]
      BY <2>7 DEF EnsureMigrationsTable, GetApplied, IndexesBuilt, SkipApplied, UpInTransaction,
                  UpAlone, MigrationsInv, MigrationsTypeOK
    <3>3. runner'[r].pc # "serve"
      <4>1. CASE EnsureMigrationsTable(r)
        <5> DEFINE start == [pc |-> "read", applied |-> {}, at |-> 1]
        <5>1. runner' = [runner EXCEPT ![r] = start]
          BY <4>1 DEF EnsureMigrationsTable
        <5>2. start.pc = "read"
          OBVIOUS
        <5> HIDE DEF start
        <5> QED
          BY <2>3, <5>1, <5>2
      <4>2. runner[r].pc # "idle" => \A p : [runner[r] EXCEPT !.pc = p].pc = p
        BY Begun, RunnerFields DEF MigrationsInv
      <4>3. CASE GetApplied(r)
        <5>1. runner[r].pc = "read"
          BY <4>3 DEF GetApplied
        <5>2. runner' = [runner EXCEPT ![r] =
                           [runner[r] EXCEPT !.pc = "next", !.applied = recorded]]
          BY <4>3 DEF GetApplied
        <5>3. [runner[r] EXCEPT !.pc = "next", !.applied = recorded].pc = "next"
          BY <5>1, Begun, RunnerFields DEF MigrationsInv
        <5> QED
          BY <2>3, <5>2, <5>3
      <4>4. CASE IndexesBuilt(r)
        <5>1. /\ runner[r].pc = "build"
              /\ runner' = [runner EXCEPT ![r] = [runner[r] EXCEPT !.pc = "insert"]]
          BY <4>4 DEF IndexesBuilt
        <5> QED
          BY <2>3, <4>2, <5>1
      <4>5. ASSUME NEW v \in Migration, UpInTransaction(r, v) \/ UpAlone(r, v)
            PROVE  runner'[r].pc # "serve"
        <5>1. PICK p \in {"build", "insert"} :
                 runner' = [runner EXCEPT ![r] = [runner[r] EXCEPT !.pc = p]]
          BY <4>5 DEF UpInTransaction, UpAlone
        <5>2. runner[r].pc = "next"
          BY <4>5 DEF UpInTransaction, UpAlone, AtMigration
        <5> QED
          BY <2>3, <4>2, <5>1, <5>2
      <4>6. ASSUME NEW v \in Migration, SkipApplied(r, v) PROVE runner'[r].pc # "serve"
        <5>1. /\ runner[r].pc = "next"
              /\ runner' = [runner EXCEPT ![r] = [runner[r] EXCEPT !.at = v + 1]]
          BY <4>6 DEF SkipApplied, AtMigration
        <5>2. [runner[r] EXCEPT !.at = v + 1].pc = "next"
          BY <5>1, Begun, RunnerFields DEF MigrationsInv
        <5> QED
          BY <2>3, <5>1, <5>2
      <4> QED
        BY <2>7, <4>1, <4>3, <4>4, <4>5, <4>6
    <3> QED
      BY <2>2, <2>7, <3>1, <3>2, <3>3
  <2> QED
    BY <2>1, <2>4, <2>5, <2>6, <2>7 DEF NextMigrations
<1> QED
  BY <1>1, <1>2, InitMigrationsInv, MigrationsInvariance, PTL
     DEF SpecMigrations, UpgradesInOrder, Schema!Spec

(***************************************************************************)
(* The copies of the configuration in each process.                        *)
(***************************************************************************)

RowType == [group : AllKeys, word : Word, active : BOOLEAN]

\* The list a key's table has now is one it has had since the last delete.
CurrentHeld == \A k \in ListKey : ActiveWords(configRows, k) \in held[k]

\* A load that will store a list from before the delete is excused.
StoresHeld ==
    \A r \in Reader : reader[r].pc = "store" =>
        reader[r].list \in held[reader[r].key] \/ reader[r].key \in excused

\* Only keys that a reload can delete are due.
ReloadsDelete ==
    \A k \in reloading : \E t \in ConfigTable : k \in Groups[t] /\ k \in Invalidated(t)

ConfigInv ==
    ConfigTypeOK /\ CurrentHeld /\ StoresHeld /\ ReloadsDelete /\ ReloadHoldsUnlessRaced

LEMMA TableFacts ==
    /\ ConfigTable = {"stopword", "filter_keyword", "category_keyword", "setting"}
    /\ \A t \in {"stopword", "filter_keyword", "category_keyword"} : Groups[t] \subseteq Invalidated(t)
    /\ \A t \in ConfigTable : Groups[t] \subseteq AllKeys
<1>1. ConfigTable = {"stopword", "filter_keyword", "category_keyword", "setting"}
  BY DEF ConfigTable, Groups
<1>2. /\ Groups["stopword"] = {"ko", "en"} /\ Groups["category_keyword"] = {"category"}
      /\ Groups["filter_keyword"] = {"ad", "gambling", "adult", "obituary"}
  BY DEF Groups
<1>3. /\ Groups["stopword"] \subseteq Invalidated("stopword")
      /\ Groups["filter_keyword"] \subseteq Invalidated("filter_keyword")
      /\ Groups["category_keyword"] \subseteq Invalidated("category_keyword")
  BY <1>2 DEF Invalidated
<1> QED
  BY <1>1, <1>3 DEF AllKeys

LEMMA WordsOfRows == ASSUME NEW table, NEW k PROVE ActiveWords(table, k) \in SUBSET Word
  BY DEF ActiveWords

\* A copy holds one list or none.
LEMMA OneCopy ==
    ASSUME NEW x \in SUBSET Word
    PROVE  /\ {x} \subseteq SUBSET Word /\ Cardinality({x}) <= 1
           /\ {} \subseteq SUBSET Word /\ Cardinality({}) <= 1
<1>1. Cardinality({x}) = 1
  BY FS_Singleton
<1>2. Cardinality({}) = 0
  BY FS_EmptySet
<1> QED
  BY <1>1, <1>2

LEMMA InitConfigInv == InitConfig => ConfigInv
<1> SUFFICES ASSUME InitConfig PROVE ConfigInv
  OBVIOUS
<1>1. /\ listCache = [k \in ListKey |-> {}]
      /\ reader = [r \in Reader |-> NoLoad] /\ reloading = {}
      /\ configUsed = [edits |-> 0, faults |-> 0]
      /\ held = [k \in ListKey |-> {ActiveWords(configRows, k)}] /\ excused = {}
  BY DEF InitConfig
<1>2. configRows \subseteq RowType
  <2>1. configRows \in {{}} \cup {{[group |-> k, word |-> w, active |-> TRUE]} :
                                     k \in ListKey, w \in Word}
    BY DEF InitConfig, Row
  <2>2. \A k \in ListKey, w \in Word : [group |-> k, word |-> w, active |-> TRUE] \in RowType
    BY ConfigCacheAssumption DEF RowType
  <2> QED
    BY <2>1, <2>2
<1>3. held \in [ListKey -> SUBSET SUBSET Word]
  BY <1>1, WordsOfRows
<1>4. configUsed \in [edits : 0 .. MaxConfigEdits, faults : 0 .. MaxConfigFaults]
  BY <1>1, ConfigCacheAssumption
<1>5. ConfigTypeOK
  BY <1>1, <1>2, <1>3, <1>4, FS_EmptySet DEF ConfigTypeOK, RowType
<1>6. CurrentHeld /\ StoresHeld /\ ReloadsDelete /\ ReloadHoldsUnlessRaced
  BY <1>1 DEF CurrentHeld, StoresHeld, ReloadsDelete, ReloadHoldsUnlessRaced, NoLoad
<1> QED
  BY <1>5, <1>6 DEF ConfigInv

\* Where a load is, is enough to know its fields.
LEMMA LoadFields ==
    ASSUME ConfigTypeOK, NEW r \in Reader
    PROVE  /\ reader[r].pc = "select" => reader[r].key \in ListKey
           /\ reader[r].pc = "store" => /\ reader[r].key \in ListKey
                                        /\ reader[r].list \in SUBSET Word
<1>1. reader[r] \in {NoLoad} \cup [pc : {"select"}, key : ListKey]
                         \cup [pc : {"store"}, key : ListKey, list : SUBSET Word]
  BY DEF ConfigTypeOK
<1>2. CASE reader[r] = NoLoad
  BY <1>2 DEF NoLoad
<1>3. CASE reader[r] \in [pc : {"select"}, key : ListKey]
  BY <1>3
<1>4. CASE reader[r] \in [pc : {"store"}, key : ListKey, list : SUBSET Word]
  BY <1>4
<1> QED
  BY <1>1, <1>2, <1>3, <1>4

(***************************************************************************)
(* The loaders.                                                            *)
(***************************************************************************)

LEMMA LoadStep ==
    ASSUME ConfigInv, NEW r \in Reader, NEW k \in ListKey, Load(r, k)
    PROVE  ConfigInv'
<1>1. /\ reader' = [reader EXCEPT ![r] = [pc |-> "select", key |-> k]]
      /\ UNCHANGED <<configRows, listCache, reloading, held, excused>>
  BY DEF Load, MissList, ReadFails
<1>2. configUsed' \in [edits : 0 .. MaxConfigEdits, faults : 0 .. MaxConfigFaults]
  <2>1. configUsed \in [edits : 0 .. MaxConfigEdits, faults : 0 .. MaxConfigFaults]
    BY DEF ConfigInv, ConfigTypeOK
  <2>2. CASE MissList(r, k)
    BY <2>1, <2>2 DEF MissList
  <2>3. CASE ReadFails(r, k)
    BY <2>1, <2>3, ConfigCacheAssumption DEF ReadFails
  <2> QED
    BY <2>2, <2>3 DEF Load
<1>3. ConfigTypeOK'
  BY <1>1, <1>2 DEF ConfigInv, ConfigTypeOK
<1>4. \A s \in Reader : reader'[s] = IF s = r THEN [pc |-> "select", key |-> k] ELSE reader[s]
  BY <1>1 DEF ConfigInv, ConfigTypeOK
<1>5. StoresHeld'
  BY <1>1, <1>4 DEF ConfigInv, StoresHeld
<1>6. CurrentHeld' /\ ReloadsDelete' /\ ReloadHoldsUnlessRaced'
  BY <1>1 DEF ConfigInv, CurrentHeld, ReloadsDelete, ReloadHoldsUnlessRaced
<1> QED
  BY <1>3, <1>5, <1>6 DEF ConfigInv

LEMMA SelectListStep ==
    ASSUME ConfigInv, NEW r \in Reader, SelectList(r)
    PROVE  ConfigInv'
<1> DEFINE k == reader[r].key
           new == [pc |-> "store", key |-> k, list |-> ActiveWords(configRows, k)]
<1>1. /\ reader[r].pc = "select" /\ reader' = [reader EXCEPT ![r] = new]
      /\ UNCHANGED <<configRows, listCache, reloading, configUsed, held, excused>>
  BY DEF SelectList
<1>2. k \in ListKey
  BY <1>1, LoadFields DEF ConfigInv
<1>3. new \in [pc : {"store"}, key : ListKey, list : SUBSET Word]
  BY <1>2, WordsOfRows
<1>4. ActiveWords(configRows, k) \in held[k]
  BY <1>2 DEF ConfigInv, CurrentHeld
<1>5. new.pc = "store" /\ new.key = k /\ new.list = ActiveWords(configRows, k)
  OBVIOUS
<1> HIDE DEF new, k
<1>6. ConfigTypeOK'
  BY <1>1, <1>3 DEF ConfigInv, ConfigTypeOK
<1>7. \A s \in Reader : reader'[s] = IF s = r THEN new ELSE reader[s]
  BY <1>1 DEF ConfigInv, ConfigTypeOK
<1>8. StoresHeld'
  BY <1>1, <1>4, <1>5, <1>7 DEF ConfigInv, StoresHeld
<1>9. CurrentHeld' /\ ReloadsDelete' /\ ReloadHoldsUnlessRaced'
  BY <1>1 DEF ConfigInv, CurrentHeld, ReloadsDelete, ReloadHoldsUnlessRaced
<1> QED
  BY <1>6, <1>8, <1>9 DEF ConfigInv

\* A load that ends, whether it stores its list or not.
LEMMA EndLoadStep ==
    ASSUME ConfigInv, NEW r \in Reader, StoreList(r) \/ LoadFails(r)
    PROVE  ConfigInv'
<1> DEFINE k == reader[r].key
<1>1. /\ reader' = [reader EXCEPT ![r] = NoLoad]
      /\ UNCHANGED <<configRows, reloading, configUsed, held, excused>>
  BY DEF StoreList, LoadFails
<1>2. \/ UNCHANGED listCache
      \/ /\ k \in ListKey /\ reader[r].list \in SUBSET Word
         /\ reader[r].list \in held[k] \/ k \in excused
         /\ listCache' = [listCache EXCEPT ![k] = {reader[r].list}]
  <2>1. CASE LoadFails(r)
    BY <2>1 DEF LoadFails
  <2>2. CASE StoreList(r)
    <3>1. /\ k \in ListKey /\ reader[r].list \in SUBSET Word
          /\ reader[r].list \in held[k] \/ k \in excused
      BY <2>2, LoadFields DEF StoreList, ConfigInv, StoresHeld
    <3> QED
      BY <2>2, <3>1 DEF StoreList
  <2> QED
    BY <2>1, <2>2
<1>3. \A s \in Reader : reader'[s] = IF s = r THEN NoLoad ELSE reader[s]
  BY <1>1 DEF ConfigInv, ConfigTypeOK
<1>4. StoresHeld' /\ CurrentHeld' /\ ReloadsDelete'
  BY <1>1, <1>3 DEF ConfigInv, StoresHeld, CurrentHeld, ReloadsDelete, NoLoad
<1>5. \A j \in ListKey : \/ listCache'[j] = listCache[j]
                         \/ /\ listCache'[j] = {reader[r].list} /\ reader[r].list \in SUBSET Word
                            /\ reader[r].list \in held[j] \/ j \in excused
  BY <1>2 DEF ConfigInv, ConfigTypeOK
<1>6. DOMAIN listCache' = ListKey
  BY <1>2 DEF ConfigInv, ConfigTypeOK
<1>7. ReloadHoldsUnlessRaced'
  BY <1>1, <1>5 DEF ConfigInv, ReloadHoldsUnlessRaced
<1>8. \A j \in ListKey : listCache'[j] \subseteq SUBSET Word /\ Cardinality(listCache'[j]) <= 1
  BY <1>5, OneCopy DEF ConfigInv, ConfigTypeOK
<1>9. ConfigTypeOK'
  BY <1>1, <1>6, <1>8 DEF ConfigInv, ConfigTypeOK
<1> QED
  BY <1>4, <1>7, <1>9 DEF ConfigInv

LEMMA ExpireStep ==
    ASSUME ConfigInv, NEW k \in ListKey, ListExpires(k)
    PROVE  ConfigInv'
<1>1. /\ listCache' = [listCache EXCEPT ![k] = {}]
      /\ UNCHANGED <<configRows, reader, reloading, configUsed, held, excused>>
  BY DEF ListExpires
<1>2. /\ DOMAIN listCache' = ListKey
      /\ \A j \in ListKey : listCache'[j] = IF j = k THEN {} ELSE listCache[j]
  BY <1>1 DEF ConfigInv, ConfigTypeOK
<1>3. ConfigTypeOK'
  BY <1>1, <1>2, FS_EmptySet DEF ConfigInv, ConfigTypeOK
<1> QED
  BY <1>1, <1>2, <1>3 DEF ConfigInv, CurrentHeld, StoresHeld, ReloadsDelete, ReloadHoldsUnlessRaced

(***************************************************************************)
(* The administrator.                                                      *)
(***************************************************************************)

LEMMA RequestCounted ==
    ASSUME ConfigTypeOK, AdminRequest
    PROVE  configUsed' \in [edits : 0 .. MaxConfigEdits, faults : 0 .. MaxConfigFaults]
  BY ConfigCacheAssumption DEF ConfigTypeOK, AdminRequest

\* Whatever the tables become, the lists held only grow.
LEMMA EditStep ==
    ASSUME ConfigInv, NEW table \in SUBSET RowType, Edit(table)
    PROVE  ConfigInv'
<1>1. /\ AdminRequest /\ configRows' = table
      /\ held' = [k \in ListKey |-> held[k] \cup {ActiveWords(table, k)}]
      /\ UNCHANGED <<listCache, reader, reloading, excused>>
  BY DEF Edit
<1>2. ConfigTypeOK'
  <2>1. held' \in [ListKey -> SUBSET SUBSET Word]
    BY <1>1, WordsOfRows DEF ConfigInv, ConfigTypeOK
  <2>2. configUsed' \in [edits : 0 .. MaxConfigEdits, faults : 0 .. MaxConfigFaults]
    BY <1>1, RequestCounted DEF ConfigInv
  <2> QED
    BY <1>1, <2>1, <2>2 DEF ConfigInv, ConfigTypeOK, RowType
<1>3. CurrentHeld'
  BY <1>1 DEF CurrentHeld
<1>4. \A k \in ListKey : held[k] \subseteq held'[k]
  BY <1>1
<1>5. StoresHeld'
  BY <1>1, <1>4, LoadFields DEF ConfigInv, StoresHeld
<1>6. ReloadsDelete' /\ ReloadHoldsUnlessRaced'
  BY <1>1, <1>4 DEF ConfigInv, ReloadsDelete, ReloadHoldsUnlessRaced
<1> QED
  BY <1>2, <1>3, <1>5, <1>6 DEF ConfigInv

\* Every request on the rows leaves rows.
LEMMA AdminStep ==
    ASSUME ConfigInv,
           \/ \E k \in ListKey, w \in Word :
                 \/ CreateStopword(k, w) \/ CreateFilterKeyword(k, w) \/ CreateCategoryKeyword(k, w)
                 \/ ReviewKeywords(k, w)
           \/ \E r \in configRows :
                 \/ DeleteStopword(r) \/ DeleteFilterKeyword(r) \/ DeleteCategoryKeyword(r)
                 \/ ApproveFilterKeyword(r) \/ \E w \in Word : PatchCategoryKeyword(r, w)
                 \/ \E k \in ListKey, on \in BOOLEAN : PatchFilterKeyword(r, k, on)
           \/ \E w \in Word : UpdateSettings(w) \/ ResetSettings(w)
    PROVE  ConfigInv' \/ UNCHANGED configVars
<1>1. configRows \subseteq RowType /\ ListKey \subseteq AllKeys
  BY ConfigCacheAssumption DEF ConfigInv, ConfigTypeOK, RowType
<1>2. \A k \in AllKeys, w \in Word, a \in BOOLEAN : Row(k, w, a) \in RowType
  BY DEF Row, RowType
<1>3. \A r \in RowType, k \in AllKeys, w \in Word, a \in BOOLEAN :
         [r EXCEPT !.group = k, !.active = a] \in RowType /\ [r EXCEPT !.word = w] \in RowType
  BY DEF RowType
<1>4. \A r \in RowType : r.group \in AllKeys
  BY DEF RowType
<1>5. "setting" \in AllKeys
  BY TableFacts DEF AllKeys, ConfigTable, Groups
<1>6. ASSUME NEW k \in ListKey, NEW w \in Word,
             \/ CreateStopword(k, w) \/ CreateFilterKeyword(k, w) \/ CreateCategoryKeyword(k, w)
             \/ ReviewKeywords(k, w)
      PROVE  ConfigInv' \/ UNCHANGED configVars
  <2>1. Row(k, w, TRUE) \in RowType /\ Row(k, w, FALSE) \in RowType
    BY <1>1, <1>2
  <2>2. \/ Edit(configRows \cup {Row(k, w, TRUE)}) \/ Edit(configRows \cup {Row(k, w, FALSE)})
        \/ UNCHANGED configVars
    BY <1>6 DEF CreateStopword, CreateFilterKeyword, CreateCategoryKeyword, CreateWord, ReviewKeywords
  <2> QED
    BY <1>1, <2>1, <2>2, EditStep
<1>7. ASSUME NEW r \in configRows,
             DeleteStopword(r) \/ DeleteFilterKeyword(r) \/ DeleteCategoryKeyword(r)
      PROVE  ConfigInv'
  <2>1. Edit(configRows \ {r})
    BY <1>7 DEF DeleteStopword, DeleteFilterKeyword, DeleteCategoryKeyword, DeleteWord
  <2> QED
    BY <1>1, <2>1, EditStep
<1>8. ASSUME NEW r \in configRows, NEW k \in AllKeys, NEW on \in BOOLEAN,
             PatchFilterKeyword(r, k, on)
      PROVE  ConfigInv'
  <2>1. [r EXCEPT !.group = k, !.active = on] \in RowType
    <3>1. r \in RowType
      BY <1>1
    <3> QED
      BY <3>1 DEF RowType
  <2>2. Edit((configRows \ {r}) \cup {[r EXCEPT !.group = k, !.active = on]})
    BY <1>8 DEF PatchFilterKeyword
  <2> QED
    BY <1>1, <2>1, <2>2, EditStep
<1>9. ASSUME NEW r \in configRows, NEW w \in Word, PatchCategoryKeyword(r, w)
      PROVE  ConfigInv'
  <2>1. [r EXCEPT !.word = w] \in RowType
    <3>1. r \in RowType
      BY <1>1
    <3> QED
      BY <3>1 DEF RowType
  <2>2. Edit((configRows \ {r}) \cup {[r EXCEPT !.word = w]})
    BY <1>9 DEF PatchCategoryKeyword
  <2> QED
    BY <1>1, <2>1, <2>2, EditStep
<1>10. ASSUME NEW r \in configRows, ApproveFilterKeyword(r) PROVE ConfigInv'
  BY <1>1, <1>4, <1>8, <1>10 DEF ApproveFilterKeyword
<1>11. ASSUME NEW w \in Word, UpdateSettings(w) \/ ResetSettings(w) PROVE ConfigInv'
  <2> DEFINE found == {r \in configRows : r.group = "setting"}
  <2>1. Edit((configRows \ found) \cup {Row("setting", w, TRUE)})
    BY <1>11 DEF UpdateSettings, ResetSettings, WriteSetting
  <2>2. Row("setting", w, TRUE) \in RowType
    BY <1>2, <1>5
  <2>3. (configRows \ found) \cup {Row("setting", w, TRUE)} \in SUBSET RowType
    BY <1>1, <2>2
  <2> HIDE DEF found
  <2> QED
    BY <2>1, <2>3, EditStep
<1> QED
  BY <1>1, <1>6, <1>7, <1>8, <1>9, <1>10, <1>11

LEMMA StartReloadStep ==
    ASSUME ConfigInv, ReloadStopwords \/ ReloadFilterKeywords \/ ReloadCategoryKeywords
    PROVE  ConfigInv'
<1>1. PICK t \in {"stopword", "filter_keyword", "category_keyword"} : StartReload(t)
  BY DEF ReloadStopwords, ReloadFilterKeywords, ReloadCategoryKeywords
<1>2. /\ AdminRequest /\ reloading' = ListKey \cap Groups[t]
      /\ UNCHANGED <<configRows, listCache, reader, held, excused>>
  BY <1>1 DEF StartReload
<1>3. ConfigTypeOK'
  BY <1>2, RequestCounted DEF ConfigInv, ConfigTypeOK
<1>4. t \in ConfigTable /\ Groups[t] \subseteq Invalidated(t)
  BY TableFacts
<1>5. ReloadsDelete'
  BY <1>2, <1>4 DEF ReloadsDelete
<1> QED
  BY <1>2, <1>3, <1>5 DEF ConfigInv, CurrentHeld, StoresHeld, ReloadHoldsUnlessRaced

\* The delete takes the copy, or is excused; so are the loads ahead of it.
LEMMA ReloadKeyStep ==
    ASSUME ConfigInv, NEW k \in ListKey, NEW fails \in BOOLEAN, ReloadKey(k, fails)
    PROVE  ConfigInv'
<1>1. /\ k \in reloading /\ (fails => configUsed.faults < MaxConfigFaults)
      /\ configUsed' = [configUsed EXCEPT !.faults = IF fails THEN @ + 1 ELSE @]
      /\ reloading' = reloading \ {k}
      /\ held' = [held EXCEPT ![k] = {ActiveWords(configRows, k)}]
      /\ excused' = IF fails \/ Ahead(k) THEN excused \cup {k} ELSE excused \ {k}
      /\ UNCHANGED <<configRows, reader>>
  BY DEF ReloadKey
<1>2. listCache' = IF fails THEN listCache ELSE [listCache EXCEPT ![k] = {}]
  <2>1. \E t \in ConfigTable : k \in Groups[t] /\ k \in Invalidated(t)
    BY <1>1 DEF ConfigInv, ReloadsDelete
  <2> QED
    BY <2>1 DEF ReloadKey
<1>3. /\ DOMAIN listCache' = ListKey
      /\ \A j \in ListKey : listCache'[j] = IF j = k /\ ~fails THEN {} ELSE listCache[j]
      /\ \A j \in ListKey : held'[j] = IF j = k THEN {ActiveWords(configRows, k)} ELSE held[j]
  BY <1>1, <1>2 DEF ConfigInv, ConfigTypeOK
<1>4. configUsed' \in [edits : 0 .. MaxConfigEdits, faults : 0 .. MaxConfigFaults]
  BY <1>1, ConfigCacheAssumption DEF ConfigInv, ConfigTypeOK
<1>5. held' \in [ListKey -> SUBSET SUBSET Word]
  BY <1>1, WordsOfRows DEF ConfigInv, ConfigTypeOK
<1>6. ConfigTypeOK'
  <2>1. \A j \in ListKey : listCache'[j] \subseteq SUBSET Word /\ Cardinality(listCache'[j]) <= 1
    BY <1>3, OneCopy, WordsOfRows DEF ConfigInv, ConfigTypeOK
  <2>2. reloading' \subseteq ListKey /\ excused' \subseteq ListKey
    BY <1>1 DEF ConfigInv, ConfigTypeOK
  <2> QED
    BY <1>1, <1>3, <1>4, <1>5, <2>1, <2>2 DEF ConfigInv, ConfigTypeOK
<1>7. CurrentHeld' /\ ReloadsDelete'
  BY <1>1, <1>3 DEF ConfigInv, CurrentHeld, ReloadsDelete
<1>8. StoresHeld'
  <2> SUFFICES ASSUME NEW s \in Reader, reader[s].pc = "store"
               PROVE  reader[s].list \in held'[reader[s].key] \/ reader[s].key \in excused'
    BY <1>1 DEF StoresHeld
  <2>1. reader[s].key \in ListKey
    BY LoadFields DEF ConfigInv
  <2>2. CASE reader[s].key = k
    BY <1>1, <2>2 DEF Ahead
  <2>3. CASE reader[s].key # k
    BY <1>1, <1>3, <2>1, <2>3 DEF ConfigInv, StoresHeld
  <2> QED
    BY <2>2, <2>3
<1>9. ReloadHoldsUnlessRaced'
  BY <1>1, <1>3 DEF ConfigInv, ReloadHoldsUnlessRaced
<1> QED
  BY <1>6, <1>7, <1>8, <1>9 DEF ConfigInv

LEMMA ConfigInvariance == ConfigInv /\ [NextConfig]_configVars => ConfigInv'
<1> SUFFICES ASSUME ConfigInv, [NextConfig]_configVars PROVE ConfigInv'
  OBVIOUS
<1>1. ASSUME UNCHANGED configVars PROVE ConfigInv'
  BY <1>1 DEF configVars, ConfigInv, ConfigTypeOK, CurrentHeld, StoresHeld, ReloadsDelete,
     ReloadHoldsUnlessRaced
<1>2. CASE \E r \in Reader, k \in ListKey : \/ GetStopwords(r, k) \/ GetFilterKeywords(r, k)
                                            \/ GetCategoryKeywords(r, k) \/ GetSetting(r, k)
  BY <1>2, LoadStep DEF GetStopwords, GetFilterKeywords, GetCategoryKeywords, GetSetting
<1>3. CASE \E r \in Reader : SelectList(r) \/ StoreList(r) \/ LoadFails(r)
  BY <1>3, SelectListStep, EndLoadStep
<1>4. CASE \E k \in ListKey : ListExpires(k) \/ \E fails \in BOOLEAN : ReloadKey(k, fails)
  BY <1>4, ExpireStep, ReloadKeyStep
<1>5. CASE ReloadStopwords \/ ReloadFilterKeywords \/ ReloadCategoryKeywords
  BY <1>5, StartReloadStep
<1>6. CASE \/ \E k \in ListKey, w \in Word :
                 \/ CreateStopword(k, w) \/ CreateFilterKeyword(k, w) \/ CreateCategoryKeyword(k, w)
                 \/ ReviewKeywords(k, w)
           \/ \E r \in configRows :
                 \/ DeleteStopword(r) \/ DeleteFilterKeyword(r) \/ DeleteCategoryKeyword(r)
                 \/ ApproveFilterKeyword(r) \/ \E w \in Word : PatchCategoryKeyword(r, w)
                 \/ \E k \in ListKey, on \in BOOLEAN : PatchFilterKeyword(r, k, on)
           \/ \E w \in Word : UpdateSettings(w) \/ ResetSettings(w)
  BY <1>1, <1>6, AdminStep
<1> QED
  BY <1>1, <1>2, <1>3, <1>4, <1>5, <1>6 DEF NextConfig

(***************************************************************************)
(* The theorems.                                                           *)
(***************************************************************************)

\* The rows, the copies and the loads have their types (config_loader.py).
THEOREM ConfigTypes == SpecConfig => []ConfigTypeOK
<1>1. ConfigInv => ConfigTypeOK
  BY DEF ConfigInv
<1> QED
  BY <1>1, InitConfigInv, ConfigInvariance, PTL DEF SpecConfig

\* After a reload the copy of a key is a list its table has held since, for any number of
\* loads and edits, unless a load was ahead of the delete or the delete failed
\* (config_loader.py: invalidate_cache and the loaders).
THEOREM ReloadHolds == SpecConfig => []ReloadHoldsUnlessRaced
<1>1. ConfigInv => ReloadHoldsUnlessRaced
  BY DEF ConfigInv
<1> QED
  BY <1>1, InitConfigInv, ConfigInvariance, PTL DEF SpecConfig

(***************************************************************************)
(* The components together. The choices of MCServices only narrow what the *)
(* components do, and the others keep their variables: so each component's *)
(* theorems hold of the whole.                                             *)
(***************************************************************************)

\* A step of some jobs and sources is a step of the crawler.
LEMMA CrawlPart ==
    ASSUME NEW J \in SUBSET Job, NEW S \in SUBSET Source, CrawlStep(J, S)
    PROVE  NextCrawl
<1>1. FeedsOf(S) \subseteq FeedsOf(Source)
  BY DEF FeedsOf
<1>2. \A j \in J : j \in Job
  OBVIOUS
<1> QED
  BY <1>1, <1>2 DEF CrawlStep, NextCrawl

\* Accounts, subscriptions and items: their own steps, or none.
LEMMA UserSteps ==
    [Next]_servicesVars => /\ [NextAccounts]_accountVars /\ [NextSubscription]_subscriptionVars
                           /\ [NextUserItems]_userItemsVars
  BY DEF Next, servicesVars

\* The crawler's, the alerts', the configuration's and the migrations'.
LEMMA OperationsSteps ==
    [Next]_servicesVars => /\ [NextCrawl]_crawlVars /\ [NextAlerts]_alertsVars
                           /\ [NextConfig]_configVars /\ [NextMigrations]_migrationsVars
<1>1. /\ {"news", "search_google_news", "search_reddit"} \in SUBSET Job
      /\ {"community", "search_reddit"} \in SUBSET Job /\ {"sns", "naver"} \in SUBSET Job
  BY DEF Job
<1>2. /\ NewsSource \in SUBSET Source /\ CommunitySource \in SUBSET Source
      /\ SnsSource \in SUBSET Source
  BY DEF Source
<1>3. \/ CrawlStep({"news", "search_google_news", "search_reddit"}, NewsSource)
      \/ CrawlStep({"community", "search_reddit"}, CommunitySource)
      \/ CrawlStep({"sns", "naver"}, SnsSource)
      => NextCrawl
  BY <1>1, <1>2, CrawlPart
<1> QED
  BY <1>3 DEF Next, servicesVars

\* What lists, divides and scores the trends.
LEMMA TrendSteps ==
    [Next]_servicesVars => /\ [NextPaging]_pagingVars /\ [NextClustering]_clusteringVars
                           /\ [NextScoring]_scoringVars
  BY DEF Next, servicesVars, NextClustering

\* The whole implements each component, whatever runs with it: every behaviour of
\* MCServices is one of its specification.
THEOREM ComponentsImplemented ==
    Spec => /\ SpecAccounts /\ SpecSubscription /\ SpecUserItems
            /\ SpecCrawl /\ SpecAlerts /\ SpecConfig /\ SpecMigrations
            /\ SpecPaging /\ SpecClustering /\ SpecScoring
<1>1. Init => /\ InitAccounts /\ InitSubscription /\ InitUserItems /\ InitCrawl /\ InitAlerts
              /\ InitConfig /\ InitMigrations /\ InitPaging /\ InitClustering /\ InitScoring
  BY DEF Init
<1> QED
  BY <1>1, UserSteps, OperationsSteps, TrendSteps, PTL
     DEF Spec, SpecAccounts, SpecSubscription, SpecUserItems, SpecCrawl, SpecAlerts, SpecConfig,
         SpecMigrations, SpecPaging, SpecClustering, SpecScoring

\* What may be chosen to run.
Part == {"accounts", "oauth", "subscription", "items", "personalization", "news", "community",
         "sns", "alerts", "brands", "config", "paging", "migrations", "clustering", "meta",
         "scoring"}

\* A component that is well typed is so as the one that runs.
LEMMA TypesOfParts ==
    ASSUME active \in Part,
           AccountsTypeOK, SubscriptionTypeOK, UserItemsTypeOK, CrawlTypeOK, AlertsTypeOK,
           ConfigTypeOK, PagingTypeOK, MigrationsTypeOK, ClusteringTypeOK, ScoringTypeOK
    PROVE  ServicesTypeOK
<1>1. CASE active \in {"accounts", "oauth"}
  BY <1>1 DEF ServicesTypeOK
<1>2. CASE active = "subscription"
  BY <1>2 DEF ServicesTypeOK
<1>3. CASE active \in {"items", "personalization"}
  BY <1>3 DEF ServicesTypeOK
<1>4. CASE active \in {"news", "community", "sns"}
  BY <1>4 DEF ServicesTypeOK
<1>5. CASE active \in {"alerts", "brands"}
  BY <1>5 DEF ServicesTypeOK
<1>6. CASE active = "config"
  BY <1>6 DEF ServicesTypeOK
<1>7. CASE active = "paging"
  BY <1>7 DEF ServicesTypeOK
<1>8. CASE active = "migrations"
  BY <1>8 DEF ServicesTypeOK
<1>9. CASE active \in {"clustering", "meta"}
  BY <1>9 DEF ServicesTypeOK
<1>10. CASE active = "scoring"
  BY <1>10 DEF ServicesTypeOK
<1> QED
  BY <1>1, <1>2, <1>3, <1>4, <1>5, <1>6, <1>7, <1>8, <1>9, <1>10 DEF Part

\* Every variable of every component holds what its code stores in it, whichever runs.
THEOREM ServicesTypes == Spec => []ServicesTypeOK
<1>1. Spec => [](active \in Part)
  <2>1. Init => active \in Part
    BY DEF Init, Part
  <2>2. [Next]_servicesVars => active' = active
    BY DEF Next, servicesVars
  <2>3. active \in Part /\ active' = active => (active \in Part)'
    BY DEF Part
  <2> QED
    BY <2>1, <2>2, <2>3, PTL DEF Spec
<1>2. active \in Part /\ AccountsTypeOK /\ SubscriptionTypeOK /\ UserItemsTypeOK /\ CrawlTypeOK
      /\ AlertsTypeOK /\ ConfigTypeOK /\ PagingTypeOK /\ MigrationsTypeOK /\ ClusteringTypeOK
      /\ ScoringTypeOK
      => ServicesTypeOK
  BY TypesOfParts
<1> QED
  BY <1>1, <1>2, ComponentsImplemented, AccountsTypes, SubscriptionTypes, UserItemsTypes,
     CrawlTypes, AlertsTypes, ConfigTypes, PagingTypes, MigrationsTypes, ClusteringTypes,
     ScoringTypes, PTL

\* What the runs check of the components holds of all of them together: the logins, the
\* plans and items of the users, the crawler's counts and copies, the alerts, the cached
\* lists, the migrations, the pages, the clusters and the early trends.
THEOREM ServicesSafe ==
    Spec => /\ []EnabledSecretProven /\ []LoginlessOnlyHalfway /\ []IssuedOnlyIfActive
            /\ []ExpiredPlanTaken /\ OnlyProviderReopens /\ []LimitOvershootBounded
            /\ []PutRatioKept /\ []ValidatorCoversFeed /\ []QuotaOvershootBounded
            /\ []CopiesAtMostRuns /\ []AtMostOneQueuedPerWindow
            /\ []ReloadHoldsUnlessRaced /\ []MigrationsInOrder /\ []StableRowsPagedOnce
            /\ []ClustersSound /\ []EarlyTrendEarned /\ UpgradesInOrder
  BY ComponentsImplemented, SecretProven, LoginlessHalfway, IssuedToActive, PlanTaken,
     ProviderReopens, OvershootBounded, RatioKept, ValidatorSound, QuotaOvershoot, CopiesBounded,
     OneMailQueued, ReloadHolds, MigrationsOrdered, MigrationsUpgrade, StableRowsPaged,
     ClustersDivide, EarlyTrendProven

===============================================================================
