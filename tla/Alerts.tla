------------------------------- MODULE Alerts -------------------------------
(***************************************************************************)
(* Rate-limit alerts (backend/common/quota_alert.py and the admin routes   *)
(* on api_quota_alert) and brand alerts (backend/jobs/brand_alert.py,      *)
(* backend/processor/algorithms/brand_monitor.py).                         *)
(*                                                                         *)
(* Two promises to send no more mail than needed: one mail per service in  *)
(* ten minutes, kept by counting rows, and one alert per brand in a day,   *)
(* kept by last_alerted_at.                                                *)
(***************************************************************************)
EXTENDS Integers, FiniteSetsExt

CONSTANTS
    Service,      \* the providers that may answer 429
    Recorder,     \* calls of record_quota_alert in progress at once
    MaxAlerts,    \* bound on the rows of api_quota_alert
    Monitor,      \* the active rows of brand_monitor
    Mention,      \* rows of sns_trend that name the brands, of the last 24 hours
    MaxBrandRuns  \* bound on the runs of the brand job

ASSUME AlertsAssumption ==
    /\ IsFiniteSet(Mention)
    /\ MaxAlerts \in Nat /\ MaxBrandRuns \in Nat

VARIABLES
    alerts,      \* rows of api_quota_alert
    recorder,    \* the row each call has inserted and not counted yet, 0 for none
    mailTasks,   \* rows whose call has created the task that sends the mail
    mentions,    \* sns_trend: [burst, badge] of the rows there are
    lastAlerted, \* brand_monitor.last_alerted_at: "never" or "recent"
    brandCache,  \* brand:{user}:{name} in Redis: is_crisis, or "none"
    brandJob,    \* the run of the brand job: last_alerted_at as read, of the rows to do
    brandRuns,   \* number of runs
    dispatched   \* monitors an alert was sent for

quotaAlertVars == <<alerts, recorder, mailTasks>>
brandVars == <<mentions, lastAlerted, brandCache, brandJob, brandRuns, dispatched>>
alertsVars == <<alerts, recorder, mailTasks, mentions, lastAlerted, brandCache,
                brandJob, brandRuns, dispatched>>

InitAlerts ==
    /\ alerts = {} /\ recorder = [r \in Recorder |-> 0] /\ mailTasks = {}
    /\ mentions = {} /\ lastAlerted = [b \in Monitor |-> "never"]
    /\ brandCache = [b \in Monitor |-> "none"]
    /\ brandJob = {} /\ brandRuns = 0 /\ dispatched = {}

(***************************************************************************)
(* record_quota_alert: insert, count, and perhaps a task for the mail.     *)
(***************************************************************************)

AlertId == 1 .. MaxAlerts

\* queued: its call decided to send the mail. recent: created in the last 10 minutes.
AlertRow == [id : AlertId, service : Service, recent : BOOLEAN, queued : BOOLEAN,
             mailed : BOOLEAN, dismissed : BOOLEAN]

RecentAlerts(s) == {a \in alerts : a.service = s /\ a.recent}

Amend(a, b) == alerts' = (alerts \ {a}) \cup {b}

\* What a call of a provider may raise.
Failure == {"HTTPStatusError 429", "ResourceExhausted", "RateLimitError", "another"}

IsRateLimitError(exc) == exc \in Failure \ {"another"}

\* The row is inserted, with the statement's own commit.
RecordInsert(r, s) ==
    /\ recorder[r] = 0 /\ Cardinality(alerts) < MaxAlerts
    /\ LET i == Cardinality(alerts) + 1
       IN /\ alerts' = alerts \cup {[id |-> i, service |-> s, recent |-> TRUE, queued |-> FALSE,
                                     mailed |-> FALSE, dismissed |-> FALSE]}
          /\ recorder' = [recorder EXCEPT ![r] = i]
    /\ UNCHANGED <<mailTasks, brandVars>>

\* Callers swallow the exception of a provider and tell only of a rate limit.
HandleApiException(r, s, exc) == IsRateLimitError(exc) /\ RecordInsert(r, s)

\* Counting as if the row inserted before were not among them.
EmailOnSecond(s) == Cardinality(RecentAlerts(s)) <= 2

\* should_email: no row of the service in the window but its own.
ShouldEmail(s) == Cardinality(RecentAlerts(s)) <= 1

RecordCount(r) ==
    /\ recorder[r] # 0
    /\ \E a \in alerts :
          /\ a.id = recorder[r]
          /\ IF ShouldEmail(a.service)
             THEN Amend(a, [a EXCEPT !.queued = TRUE]) /\ mailTasks' = mailTasks \cup {a.id}
             ELSE UNCHANGED <<alerts, mailTasks>>
    /\ recorder' = [recorder EXCEPT ![r] = 0]
    /\ UNCHANGED brandVars

\* The count fails, or the caller is cancelled: the row stays, without a mail.
RecordFails(r) ==
    /\ recorder[r] # 0
    /\ recorder' = [recorder EXCEPT ![r] = 0]
    /\ UNCHANGED <<alerts, mailTasks, brandVars>>

\* The answers of send_email: SMTP may not be configured, or fail.
SendEmail == BOOLEAN

\* _send_and_mark_email: a sent mail marks the newest row of the service, which need
\* not be the one it was queued for.
SendAndMark(i, sent) ==
    /\ i \in mailTasks
    /\ mailTasks' = mailTasks \ {i}
    /\ IF sent
       THEN \E a, b \in alerts :
               /\ a.id = i /\ b.service = a.service
               /\ \A c \in alerts : c.service = a.service => c.id <= b.id
               /\ Amend(b, [b EXCEPT !.mailed = TRUE])
       ELSE UNCHANGED alerts
    /\ UNCHANGED <<recorder, brandVars>>

\* POST /quota-alerts/{id}/dismiss; it does not reopen the window.
DismissAlert(a) ==
    /\ a \in alerts /\ ~a.dismissed
    /\ Amend(a, [a EXCEPT !.dismissed = TRUE])
    /\ UNCHANGED <<recorder, mailTasks, brandVars>>

\* Ten minutes after a row was created, oldest first. The call that inserted it has
\* counted by then: its two statements share a connection and take milliseconds.
LeaveWindow(a) ==
    /\ a \in alerts /\ a.recent
    /\ \A b \in alerts : b.id < a.id => ~b.recent
    /\ \A r \in Recorder : recorder[r] # a.id
    /\ Amend(a, [a EXCEPT !.recent = FALSE])
    /\ UNCHANGED <<recorder, mailTasks, brandVars>>

\* The process of the callers stops: tasks in memory are gone, rows stay.
LoseTasks ==
    /\ mailTasks # {} \/ \E r \in Recorder : recorder[r] # 0
    /\ mailTasks' = {} /\ recorder' = [r \in Recorder |-> 0]
    /\ UNCHANGED <<alerts, brandVars>>

(***************************************************************************)
(* Brands. A collector of sns_crawler or naver_datalab stores a trend with *)
(* burst_z 0.0 and the badge neutral: no later statement changes either.   *)
(***************************************************************************)

Collected == [burst |-> 0, badge |-> "neutral"]

CollectMention(i) ==
    /\ \A m \in mentions : m.id # i
    /\ mentions' = mentions \cup {[id |-> i, row |-> Collected]}
    /\ UNCHANGED <<quotaAlertVars, lastAlerted, brandCache, brandJob, brandRuns, dispatched>>

MentionAges(m) ==
    /\ m \in mentions
    /\ mentions' = mentions \ {m}
    /\ UNCHANGED <<quotaAlertVars, lastAlerted, brandCache, brandJob, brandRuns, dispatched>>

\* _fetch_recent_scores: |burst_z| / 5 but at most 1, signed by the badge, in fiftieths,
\* where burst is in tenths and not negative.
MentionScore(m) ==
    LET size == IF m.row.burst > 50 THEN 50 ELSE m.row.burst
    IN CASE m.row.badge = "positive" -> size
         [] m.row.badge = "negative" -> -size
         [] OTHER -> 0

ScoreTotal(M) == MapThenSumSet(MentionScore, M)

\* _compute_stats: the variance of the scores, times the square of their number.
ScoreSpread(M) ==
    LET Square(m) == MentionScore(m) * MentionScore(m)
    IN Cardinality(M) * MapThenSumSet(Square, M) - ScoreTotal(M) * ScoreTotal(M)

\* admin_settings.value comes from the driver as text, neither a number nor a dict, so
\* _fetch_alert_threshold returns its default whatever an administrator stored.
AlertThreshold == 2

\* |z| > threshold for calculate_zscore(0.0, mean, std), squared and multiplied out;
\* without variance z is 0.
Deviates(M) ==
    /\ ScoreSpread(M) # 0
    /\ ScoreTotal(M) * ScoreTotal(M) > AlertThreshold * AlertThreshold * ScoreSpread(M)

\* The job also takes a mean below -0.3 without variance for a crisis.
IsCrisis(M) ==
    Deviates(M) \/ (ScoreSpread(M) = 0 /\ ScoreTotal(M) < -15 * Cardinality(M))

\* GET /brand/{name}/monitor: monitor_brand without texts caches what it computes, and
\* calls no crisis without variance.
MonitorBrand(b) ==
    /\ brandCache[b] = "none"
    /\ brandCache' = [brandCache EXCEPT ![b] = IF Deviates(mentions) THEN "crisis" ELSE "normal"]
    /\ UNCHANGED <<quotaAlertVars, mentions, lastAlerted, brandJob, brandRuns, dispatched>>

BrandCacheExpires(b) ==
    /\ brandCache[b] # "none"
    /\ brandCache' = [brandCache EXCEPT ![b] = "none"]
    /\ UNCHANGED <<quotaAlertVars, mentions, lastAlerted, brandJob, brandRuns, dispatched>>

\* run_brand_alert reads the monitors once; it runs one at a time.
StartBrandJob ==
    /\ brandJob = {} /\ brandRuns < MaxBrandRuns
    /\ brandJob' = {[monitor |-> b, last |-> lastAlerted[b]] : b \in Monitor}
    /\ brandRuns' = brandRuns + 1
    /\ UNCHANGED <<quotaAlertVars, mentions, lastAlerted, brandCache, dispatched>>

\* One monitor: skipped when its alert is less than a day old, else the cached verdict
\* or a new one; a crisis is sent first and recorded after, and recording may fail.
CheckMonitor(j) ==
    /\ j \in brandJob
    /\ brandJob' = brandJob \ {j}
    /\ LET b == j.monitor
           fresh == j.last # "never" /\ lastAlerted[b] = "recent"
           crisis == \/ brandCache[b] = "crisis"
                     \/ brandCache[b] = "none" /\ IsCrisis(mentions)
       IN IF ~fresh /\ crisis
          THEN /\ dispatched' = dispatched \cup {b}
               /\ \E now \in {"recent", lastAlerted[b]} :
                     lastAlerted' = [lastAlerted EXCEPT ![b] = now]
          ELSE UNCHANGED <<dispatched, lastAlerted>>
    /\ UNCHANGED <<quotaAlertVars, mentions, brandCache, brandRuns>>

NextAlerts ==
    \/ \E r \in Recorder : RecordCount(r) \/ RecordFails(r)
                           \/ \E s \in Service, exc \in Failure : HandleApiException(r, s, exc)
    \/ \E i \in mailTasks, sent \in SendEmail : SendAndMark(i, sent)
    \/ \E a \in alerts : DismissAlert(a) \/ LeaveWindow(a)
    \/ LoseTasks
    \/ \E i \in Mention : CollectMention(i)
    \/ \E m \in mentions : MentionAges(m)
    \/ \E b \in Monitor : MonitorBrand(b) \/ BrandCacheExpires(b)
    \/ StartBrandJob
    \/ \E j \in brandJob : CheckMonitor(j)

SpecAlerts == InitAlerts /\ [][NextAlerts]_alertsVars

(***************************************************************************)
(* Properties.                                                             *)
(***************************************************************************)

\* The rows and what the calls and the job hold.
AlertsTypeOK ==
    /\ alerts \subseteq AlertRow /\ \A a, b \in alerts : a.id = b.id => a = b
    /\ recorder \in [Recorder -> AlertId \cup {0}]
    /\ mailTasks \subseteq AlertId
    /\ mentions \subseteq [id : Mention, row : [burst : Int, badge : {"neutral", "positive", "negative"}]]
    /\ lastAlerted \in [Monitor -> {"never", "recent"}]
    /\ brandCache \in [Monitor -> {"none", "crisis", "normal"}]
    /\ brandJob \subseteq [monitor : Monitor, last : {"never", "recent"}]
    /\ brandRuns \in 0 .. MaxBrandRuns /\ dispatched \subseteq Monitor

\* The debounce of record_quota_alert: however calls interleave, of the rows of a service
\* in the last ten minutes at most one has had a mail queued. It holds because each call
\* counts after its own insert, and the price is that of two calls at once neither mails.
AtMostOneQueuedPerWindow ==
    \A a, b \in alerts :
        a.service = b.service /\ a.recent /\ b.recent /\ a.queued /\ b.queued => a = b

=============================================================================
