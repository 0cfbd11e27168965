# TrendScope in TLA+

TrendScope collects news and community articles, groups them into scored trends
and serves them through a FastAPI backend to a Svelte frontend. This directory
holds TLA+ models of the backend (`src/backend/`), the TLC configurations that
check them on small instances, and theorems about them that TLAPS checks for
every value of the constants.

To check a model: `tlc -workers 2 -config MCPipeline.cfg MCPipeline`. To check
the proofs: `tlapm PipelineProofs.tla` (version 1.4.5; SMT, Zenon and LS4).
`PROJECT.json` lists the runs, which lines of the source each definition stands
for, and for every property a faulty variant of the code that breaks it. The
faulty variants (`TrustBloom`, `AcquireAnyway`, ...) stand in the models before
the definitions they would replace; nothing else uses them.

## 1. The system

| Component | State | Operations | Talks to |
| --- | --- | --- | --- |
| **Crawler** (`crawler/`) | ETags and health of feeds, daily quotas (PostgreSQL), scheduler | news, SNS, community and Naver crawls: check the quota, ask, store the validator, look a url up, insert a row | `news_article`, `sns_trend`; burst job |
| **Processor** (`processor/main.py`, `processor/stages/`) | the batch in hand | poll rows without a group; duplicate filter, spam filter, match against existing groups, cluster, score, save, announce, warm the cache | `news_article`, `news_group`, Redis sets, `trends:new`, `feed:*` |
| **Duplicate filter** (`processor/shared/dedupe_filter.py`) | Bloom filter (memory), two Redis sets with TTL | is_duplicate, registration | processor only |
| **Feed** (`api/routers/trends.py`, `processor/shared/cache_manager.py`) | `feed:{category}:{locale}` in Redis | list_trends reads and fills, the processor overwrites, the consumer invalidates | PostgreSQL, Redis |
| **trends:new consumer** (`api/pubsub/trends_consumer.py`) | subscription, message in hand | receive, read the group, delete `feed:*` | Redis pub/sub |
| **Burst job** (`jobs/burst_job.py`) | Redis lock with TTL, `burst_job_log` | scheduled and manual runs: candidates, log, crawl, close the log row | burst crawler, Redis |
| **Request chain** (`api/main.py`, `api/middleware/`) | rate counters (Redis), `api_usage` (PostgreSQL), access tokens | RateLimit, PlanGate, Quota, route dependencies | every route |
| **Plans and subscriptions** (`api/routers/subscriptions.py`, `payments.py`, `webhooks/payment.py`, `jobs/plan_expiry.py`) | `subscription.status`, `user_profile.plan` | checkout, cancel, webhooks, refund, expiry | tokens, gate, quota |
| **Accounts** (`auth/`, `api/routers/auth/`) | users, identities, one-time tokens | register, log in, refresh, verify, reset, second factor | request chain |
| **Source quota** (`crawler/quota_guard.py`) | used count per source | check, increment, reset | crawlers |
| **Quota and brand alerts** (`common/quota_alert.py`, `jobs/brand_alert.py`) | alert rows, last_alerted_at | debounce, send, record | e-mail |
| **Scores** (`processor/stages/score.py`, `match.py`, `jobs/early_trend_update.py`) | the columns of `news_group` | compute at the save, at a match, and every three minutes | `news_article`, settings |
| **What a user keeps** (`api/routers/scraps.py`, `notifications.py`, `brand.py`, `personalization.py`) | items under a limit of the plan, weights | create, delete, put, learn from behavior | PostgreSQL |
| **Lists and settings** (`processor/shared/config_loader.py`, admin routers) | stopwords, keywords, settings, and their copies in Redis | load, edit, reload, review | Redis, PostgreSQL |
| **Read-through cache** (`cache_manager.get_or_compute`, called by tests only) | value, lock | look up, lock, compute, store, release | Redis |
| **Migrations** (`src/migrations/runner.py`) | version table | apply, record | PostgreSQL |
| **Algorithms** (`processor/algorithms/`, `processor/shared/`) | none | clustering, meta trends, burst, ranking, sentiment | their callers |
| **Admin API, other routers, frontend** | none of their own | single statements, views | PostgreSQL, API |

What is hard in it, and what correctness means:

- *Processor and duplicate filter.* A batch is a chain of awaited calls with a
  crash, a failed statement or a lost acknowledgement possible at each; three
  memories of what was seen are lost at different times; UPDATEs name a url and not
  "a row without a group". Correct: no article is dropped that does not repeat
  another, a grouped row stays in its group, what is announced can be read, every
  row is eventually looked at.
- *Feed.* Three processes write one key without a version; publication is
  at-most-once. Correct: an answer belongs to the feed asked for or to one that shares
  its key, a refresh removes what it should, what is stale goes away.
- *Burst job.* A lock that holds no owner, expires under a running job and is
  deleted by whoever finishes. Correct: mutual exclusion up to an expiry and a
  known excess after it, one burst per cooldown, no lock forever.
- *Request chain.* Counters that are read before and written after what they
  limit, a token every layer decodes again, an except clause around the whole
  chain. Correct: a bound on the excess, no call handled twice, no limited call
  uncounted that the middlewares can tell from an anonymous one, no gated call without
  the plan a token's lifetime ago.
- *Subscriptions.* Several writers of one status, two statements for one change,
  late and repeated webhooks. Correct: who no longer pays is back on the free plan,
  and only the provider reopens a subscription.
- *Accounts.* Every route is a chain of statements without a transaction, beside
  others of the same user. Correct: a second factor is enabled only with a secret
  its owner has proved to hold, an account has a login, an account that is not
  active gets no tokens.
- *Crawler.* Quota checked before and counted after, a validator stored before the
  entries it stands for, look-up before insert without a key. Correct: a bounded
  overshoot, a bounded number of copies, nothing skipped that is not known to be lost.
- *Alerts, items, lists.* Check-then-act around awaited statements, copies that
  outlive what they copy. Correct: one mail a window, a limit passed by less than the
  requests in progress, a reload that holds.
- *Paging, scores, clusters, migrations.* A list read in several requests while it
  moves and whose first page may be minutes old, one column written by three formulas,
  one of them before its group is whole, a fold over a list, two runners of one list. Correct: what stands still is shown once, an early trend has earned its place,
  groups are disjoint and their members similar, versions are recorded in order.

The hazards are listed at their lines in `PROJECT.json`, each with the properties
that cover it.

## 2. The modules

| Module | Models | Extends or uses |
| --- | --- | --- |
| `Pipeline` | processor, duplicate filter, the crawler's insert | - |
| `FeedCache` | list_trends, stage_warm_cache, the consumer | - |
| `BurstJob` | run_burst_job, manual_burst_trigger, the lock | implements `Exclusive` |
| `Exclusive` | abstract: a critical section | - |
| `Access` | request chain and access tokens of one user | - |
| `Accounts` | the /auth routes, user_profile, user_identity, one-time tokens | - |
| `Subscription` | checkout, cancel, webhook, refund, expiry job | - |
| `UserItems` | scraps, keyword alerts, brand monitors, personalization | - |
| `Crawl` | the crawler's jobs and searches, quotas, feeds, admin of sources | - |
| `Alerts` | rate-limit alerts and their mail, brand alerts | - |
| `ConfigCache` | the loaders and their copies, admin of lists and settings, keyword review | - |
| `FeedPaging` | /trends, /trends/early and /news by cursor | - |
| `Migrations` | the runner in several containers | implements `Upgrade` |
| `Upgrade` | abstract: one process that applies the versions and serves | - |
| `Clustering` | stage_cluster, the meta trends and their cache | - |
| `Scoring` | stage_score, the match stage's scores, the early trend job | - |
| `PipelineProofs`, `FeedCacheProofs`, `BurstJobProofs`, `AccessProofs`, `CrawlProofs` | theorems about the model of that name | the model, TLAPS |
| `UserProofs` | theorems about `Accounts`, `Subscription` and `UserItems` | these, TLAPS |
| `TrendProofs` | lemmas about sums and recursions; theorems about `FeedPaging`, `Clustering` and `Scoring` | these, TLAPS |
| `ServicesProofs` | theorems about `Alerts`, `Migrations` and `ConfigCache`, and about all of `MCServices` | `MCServices`, `CrawlProofs`, `UserProofs`, `TrendProofs`, TLAPS |
| `MCPipeline`, `MCFeedCache`, `MCBurstJob`, `MCAccess`, `MCPaging` | instances for TLC | the model |
| `MCServices` | the models from `Accounts` to `Scoring`, one at a time | these |

In all of them a step ends where the code awaits: what runs between two awaits is
one action, and everything else may happen in between. A variable named in the
source keeps its name; the rest are the position of a process (`pc`, `stage`,
`step`, `handler`) and ghosts, which no guard looks at and which are marked as such
(or as history) where they are declared.

### Pipeline

PostgreSQL is `crawled`, `groupOf`, `nGroups`, `score`; Redis is `redisUrl` and
`redisFp`; the processor's memory is `bloom` and the batch (`pc`, `todo`, `passed`,
`snapshot`, `clusters`, `current`, `announce`). `Fetch` is `_fetch_unprocessed`,
`DedupeNew`, `DedupeDuplicate`, `DedupeUnknown` and `DedupeError` are the ways out
of `is_duplicate`, `Filter` the spam and title drops, `FetchGroups`, `MatchNone`,
`MatchGroup` and `MatchInDoubt` are stage_match_existing_groups, `Cluster`,
`ScoreClusters`, `SaveBatch...`, `InsertGroup` and `UpdateRow` the later stages
with the fallback that saves cluster by cluster, `Publish` the announcement.
`Restart` loses the processor's memory between any two steps; `ExpireUrlSet` and
`ExpireFpSet` lose a Redis set; `LookUp` and `Insert` are the crawler, two of whose
crawls may find the same url missing. Because every UPDATE names a url, a row that is
inserted while its twin is in the batch gets its twin's group and is never fetched;
`EveryRowFetched` allows that and nothing else (`GroupedWithTwin`).

What embedding similarity, clustering and scoring compute is left open: any match,
any partition, any score within the range. The properties therefore hold whatever
those functions return. Urls and contents are opaque, `UrlOf` and `FpOf` give each
row its hash.

### FeedCache

`Save`, `Publish`, `Warm` and `SaverDone` are the processor's side, `Subscribe` to
`DeleteFeedsFails` the consumer's, `Start`, `Hit`, `Miss`, `QueryTrends`, `Store`
and `Abort` a request of list_trends, `Expire` the TTL. A body is the query it
answers and the version of the database it was read from. The pub/sub channel
keeps order, delivers nothing to an absent consumer and loses what is undelivered
when the connection drops. A feed is what a request filters by and `KeyOf` is
`_trend_cache_key`: `category=all` is a filter of fetch_trends, no category is none, and
both have one key, so the default page of the one may be answered to the other.
`AnswersStayInFeed` allows that for feeds of one key, and no answer of a third feed.

### BurstJob and Exclusive

`Acquire` is SET NX EX, `AcquireInDoubt` the SET whose answer is lost, `Release` the
unconditional DEL, `ExpireAbandoned` and `ExpireUnderOwner` the two ways to reach
the TTL; `FindCandidates` to `CloseLog` are the body of the job and of the manual
trigger. `Age` moves a row out of the cooldown.

`Exclusive` is what a lock promises. With `inside` mapped to the active runners
until the first `ExpireUnderOwner` (and to nothing afterwards), BurstJob implements
it.

### Access

One user with any number of requests in progress. `CheckRate`, `CheckIpRate`,
`CountHit`, `RateLimitFails` and `FailOpen` are RateLimitMiddleware, `Gate` is
PlanGateMiddleware, `Quota`, `CheckQuota`, `CheckQuotaFails`, `Charge` and
`ChargeFails` are QuotaMiddleware around the route (`Refuse`, `Succeed`, `Fail`).
A header spelled exactly `Bearer ` is what the middlewares read (`exact`, `Authenticated`);
HTTPBearer of the routes takes the word in any case (`Refused`), so a call with `bearer`
is anonymous to the former and a user's to the latter. `Issue` is the token of login or refresh, `SetPlan` any change of the plan, `Tick`
an hour, `Cancel` a client that disconnects or a process that stops. `hits` and
`used` are the counters of Redis and of `api_usage`; `passed` counts every call the rate
limiter let through in the window and `opened` those of its except clause. Plans are
levels 0 to 3.

The free branch of `check_insight_quota` (three insights a day) is not modelled:
PlanGateMiddleware demands pro for every `/insights` path, so no free user
reaches it.

### Accounts

`user`, `emailId` and `linked` are the rows of user_profile and user_identity, `otp`
the one-time tokens in Redis, `challenge` the 2FA challenges; `req` is where each
request stands and what it has read. `Register`, `CreateUser`, `CreateIdentity` are the
statements of /register; `OAuth...` the callbacks of Google and Kakao, which find an
account by id, then by address, then create one; `Login`, `CheckPassword`,
`SecondFactor`, `CheckCode` the login; `Enable2FA`, `SaveSecret`, `Verify2FA`,
`ActivateStored`, `Activate2FA`, `Disable2FA` the second factor; `VerifySend`,
`Forgot`, `SaveResetToken`, `GetToken`, `VerifyEmail`, `ResetPassword`, `DropToken` the
one-time tokens. `SetActive` and `DeleteUser` are the administrator's, `Fail` a failed
statement, a cancelled request or a crash after any of them. Password hashes, TOTP and
signatures are taken to do what they promise; a wrong answer is a refusal.

### Subscription

`subs` and `plan` are the table and the column. `Checkout` inserts an active row;
`CancelRead`, `CancelUpdate` are the two statements of the cancel; `Emit`, `Deliver`
and `Forget` a webhook that may be late, repeated or lost; `Refund` and `AdminSetPlan`
the admin API; `GetOverdue` the time passing expires_at, which no code in the
repository writes; `ExpiryMark`, `ExpiryDowngrade`, `ExpiryCrash` the job. A refund
sets a status the table's CHECK refuses (`db/queries/admin.py:159`): the statement
fails, and `Refund` leaves the row as it was.

### UserItems

`CreateScrap`, `AddKeyword`, `CreateBrand` count, `CheckDuplicate` looks,
`InsertScrap`, `InsertKeyword`, `InsertBrand` insert: requests of one user overlap
between the three. A brand monitor is deactivated, a scrap and a keyword are
deleted. `ApplyRead`, `ApplyWrite` and `PutPersonalization` write the same row, the
first from what it had read.

### Crawl

`run` holds each execution of a job: the sources and feeds still to do, the feed and
the entries in hand. `OpenSource` and `CheckFeed` are check_quota, once per source or
once per feed; `NewsAnswer`, `CommunityAnswer`, `FetchSubreddit` and the like the
requests; `StoreValidator` keeps the ETag, before `Count` (increment_quota) and
`ParseFeed`, whose exception leaves the validator in place; `ReadItems` is what a
social network's answer gives; `EndFeed` reports the feed's health. `ReportFailure` is
the except clause, whose own report may raise as well and then ends the source
(`Abandoned`). `ReadPage` is the page of fm_korea, empty when it cannot be read. Naver
DataLab counts once for all its batches of keywords. `LookUp` and `InsertArticle` the
two statements per entry; `SaveSnsTrend` and `SaveDatalab` the upserts. `CrashCrawler`
loses what the runs have in hand, `DailyReset`, `UpdateSource`, `ResetSource` and the
feed routes change what they read, `Publish` is a feed that changes, `ExpireValidator`
a server that no longer knows a validator. youtube has no row in source_config, so
check_quota refuses it and its branch never asks; this is how the model has it.

`copies`, `peak` and `lost` are history: rows stored per url, the highest limit a
source had since its counter was reset, and entries that could not be parsed, looked
up or inserted or were in hand at a crash.

### Alerts

`RecordInsert`, `RecordCount`, `SendAndMark` are record_quota_alert and the task it
creates, `RecordFails` the exception it swallows, `LoseTasks` a restart. Two calls that
insert before either counts both count two and nobody mails; the window of ten minutes
ends with `LeaveWindow`, and a row is assumed to leave it only after its own call has counted.
`StartBrandJob`, `CheckMonitor`, `MonitorBrand` are the brand job over the rows of
sns_trend. What those rows can hold (burst_score 0, a mood that is never computed)
never makes the deviation brand_monitor asks for: no brand alert is ever sent, though
`brand_alert.py` documents that crises are dispatched. `NoBrandAlert` proves it; no run
states it, as it is nothing the code means to keep.

### ConfigCache

A load is `GetStopwords` and the like (miss), `SelectList`, `StoreList` or `LoadFails`;
a reload deletes its keys one after another (`ReloadKey`), each of which may fail
silently. get_ai_config indexes a jsonb text with a string, raises and answers its
default, so that `ReviewKeywords`, which inserts for another provider than the
default, never does. PATCH and reset of a
setting invalidate no copy: `setting:` and `early_trend_weights` live up to 300 s.

### FeedPaging

A client opens a list, in one of its orders, and asks for a page after the other while
`Rescore`, `UpdateEarlyTrend`, `HideTrend` and `JoinGroup` move its rows. The first
page of /trends may be a copy (`firstPages`) which another request read in any order,
window and limit and left under the one key (`AnswerOther`, `ShowTrends`,
`ForgetFirstPage`); a page carries the rows written since it was read. A hidden row
leaves /trends and stays in /trends/early. A cursor carries the score and the id of
the last row even if the list is sorted by another column, and is text split at a
colon: a double with the byte 58 cannot be read back (`Decodable`). /news collapses
the articles of a group within a page only, and orders by publish_time and id; times
may be equal.

### Migrations

`EnsureMigrationsTable`, `GetApplied`, `SkipApplied`, `UpInTransaction`, `UpAlone`,
`InsertVersion`, `StartServer` are a runner; any number of them run at once.
`RunnerFails` stops one anywhere. `Upgrade` says what they come to together, as if one
process applied the versions one by one. `effect` is what `up` has left: a CREATE INDEX
CONCURRENTLY that is cut off leaves an invalid index, which IF NOT EXISTS accepts.

### Clustering

`StageClusterGreedy` and `StageClusterHdbscan` map a batch and its similarities to
clusters and outliers, `StageClusterFails` is the exception that leaves none.
`articleMap` is stage_cluster's map by url_hash, in which the last of the rows with
one url_hash stands for all. `GetMetaTrends` is the route with its cache, whose key
lacks the `limit`. Similarities are levels; which dense sets HDBSCAN finds is left
open. The greedy clusterer compares with the representatives of clusters only, and the
meta clusterer goes once through the list in the order of the query, so another order
gives other meta trends; `ClustersSound` says what holds all the same.

### Scoring

`StageScore`, `MatchScores` and `UpdateEarly` compute early_trend_score by three
formulas. The row of `StageScore` is saved with its articles in one transaction
(`SaveBatch`) or, when that fails, by the fallback: the group with the score of the
whole cluster first (`SaveEach`), then one article after the other (`AssignArticle`),
with a failure or a crash possible after each (`SaveEnds`). Until the match or the job
next writes, the row tells of the cluster and not of the articles in the group
(`ArticlesBehind`). Fractions are integers, in ten-thousandths, rounded down;
logarithms and exponentials are given as tables with their values. Publish times are
not in the future, and rows that a twin moves out of the group are left out.

### MCServices

These components share no variable. Where one reads what another writes (mentions in
sns_trend, the scores a list is sorted by) its model has the writer as an action of its
own, left open as far as the writer is, so an interleaving of two of them shows nothing
that one alone does not.
MCServices holds an instance of each and chooses one of sixteen slices in the initial
state (`active`): accounts, oauth, subscription, items, personalization, news,
community, sns, alerts, brands, config, paging, migrations, clustering, meta, scoring.
Its VIEW is the variables of the one that runs, without those that no guard, no other
variable and no safety property reads (the health of feeds, the mails sent, a row's
growth), and up to a renaming of what is interchangeable (two actors, three creates or
recorders, two customers, two outlets).

## 3. What the runs check

| Run | Instance | Shows |
| --- | --- | --- |
| `pipeline` | rows r1, r2 of one url, r3 of another; batches of 2; scores 0, 1; no faults; restarts and expiries at any time; 430k states | `TypeOK`, `NoFalseDuplicate`, `AnnouncedGroupsVisible`, `ScoreKeepsSnapshotFloor`, `RegroupedOnlyIfTwinOrInDoubt` |
| `pipeline_faults` | rows r1, r2 of one url; two failed statements or lost acknowledgements; fairness; 164k states | the inductive invariant `IInv`, and `EveryRowFetched` while a batch has room for every row |
| `pipeline_starved` | as above with batches of 1 | `EveryRowFetched` is violated |
| `pipeline_lost_save` | two faults | `FailedSaveNotDuplicate` is violated |
| `feed_cache` | no category, `all` and `tech`, with two keys; the processor warms `tech`; one request; one save; fairness; 83k states | `TypeOK`, `AnswersStayInFeed`, `RefreshHoldsUnlessRaced`, `StaleFeedsGoAway` |
| `feed_cache_default` | two values of limit | `DefaultPageIsDefault` is violated |
| `feed_cache_shape` | one feed | `AnswersAreResponses` is violated |
| `burst_job` | one scheduled and two manual runs, two groups, two log rows, one expiry under a running job; fairness; 239k states | `TypeOK`, `OneBurstPerCooldown`, `ConcurrencyBound`, `RunsExclusively` (the refinement), `LockComesFree` |
| `burst_job_failed` | one scheduled, one manual run | `SuccessMeansCrawled` is violated |
| `access` | two requests, two hours of a day, limits of 1, plans free and pro, the gated and counted `/content/ideas` and the counted `/scraps`, one fault; 898k states | `TypeOK`, `RateBound`, `QuotaBound`, `HandledOnce`, `EntitledRecently`, `LoggedInCallsAreBooked` |
| `services` | the sixteen slices of `MCServices`, 646k states | by component: `ServicesTypeOK`; `EnabledSecretProven`, `LoginlessOnlyHalfway`, `IssuedOnlyIfActive`; `ExpiredPlanTaken`, `OnlyProviderReopens`; `LimitOvershootBounded`, `PutRatioKept`; `ValidatorCoversFeed`, `QuotaOvershootBounded`, `CopiesAtMostRuns`; `AtMostOneQueuedPerWindow`; `ReloadHoldsUnlessRaced`; `StableRowsPagedOnce`; `MigrationsInOrder`, `UpgradesInOrder` (the refinement); `ClustersSound`; `EarlyTrendEarned` |
| `cursor` | two rows, a score and a time with the byte of a colon | `CursorsAccepted` is violated |

Why the bounds are enough. Two rows of one url and one of another are the smallest
set with a twin to move, a duplicate to refuse and an unrelated row to confuse them
with; two rows suffice for every fault, because a fault concerns one row and the
history another leaves. A second fault is needed only where the run says so. Two
keys tell the feed asked for from another, one of them has two feeds, and only one is
warmed; one request is enough because requests meet only in the cache, which the processor and
the consumer also write. Three runners are one inside, one let in by an expiry and
one that must stay out. Two requests are one that checked and one that has not
counted yet; the limits are 1 so that the second call already exceeds them, and a
token lives one hour so that it can expire between two layers. All these runs stop
at a bound; the theorems below do not.

In `services` two requests of one account are one that has read and one that writes
in between, with one fault; the account exists once or not at all, and two secrets
tell the stored one from the proven one. Two rows of `subscription` and two customers
are a row that expires beside one that stays active, and an owner beside a stranger;
one event can arrive late and twice. Three creates against a limit of one are what it
takes to pass the limit by two. Two runs of the crawler overlap on a source, two feeds
of one community source make a check worth two requests, one url has two finders, and
a limit of 1 is passed by the second. Three recorders are one that inserts, one that
counts in between and one that comes after. Two words tell a list from an older one,
with a load, a reload, two edits and a failure between them. Two rows, pages of one or two, one copy of a
first page and three writes are a page before and one after a move, a first page older than
the list, a window with fewer rows, and equal scores and times. Three migrations with the
second outside a transaction have one before and one after it, for two runners and two
failures. Three articles and four groups are the shortest lists in which the greedy
orders give different results. Three articles of two outlets in a group at ages 0, 5
and 50 hours reach every class and cap of the scores, and a fallback that stops before,
between and after its articles.

Deadlock is checked in every run but `services` and `cursor`: none of the other models
has a state without a step. The components in those two stop where their bounds on
rows, changes and faults are used up.

### Disagreements with what the code says of itself

Each is a run with one violated property, and a finding in `PROJECT.json`.

- `_fetch_unprocessed` takes the newest rows without a group and nothing marks a row
  the filters dropped: as soon as a full batch of such rows is newer, older rows are
  never read (`pipeline_starved`), though they are "articles not yet processed".
- An article enters the Redis sets before it is saved. When the save fails, the next
  poll fetches it again and the filter refuses it as its own duplicate
  (`pipeline_lost_save`).
- Every first page is stored under the feed's key whatever its `limit`, while only
  the default page was meant to be (`feed_cache_default`).
- stage_warm_cache stores a bare list where list_trends expects a
  `TrendListResponse` (`feed_cache_shape`).
- run_burst_crawl catches every exception and returns a number, so the callers'
  `failed` branch is dead and a crawl that failed on both sources is logged as a
  `success`, which starts the cooldown (`burst_job_failed`).
- decode_cursor splits the unpacked text at the first `:`, which may be a byte of the
  packed score: the feed refuses a cursor it gave out (`cursor`, `db/queries/trends.py:28`).

More are plain from the code and have no run; where a model meets one it has it as the
code does.

- After a Bloom miss `is_duplicate` returns at once, so the same content under a new
  url is never compared (`dedupe_filter.py:125`).
- The batch statement of stage_save passes a `text[][]` to `unnest`, which takes it
  apart into single texts (`save.py:37`); `Pipeline` keeps both outcomes.
- `category=all` and no category share a key though only one means every category
  (`trends.py:50`): either may be answered with the other's page (`FeedCache`).
- A call with the header `bearer` instead of `Bearer` reaches a route that needs a login
  and is counted by no middleware (`Access`).
- The early score of a cluster is stored before its articles have the group: a fallback
  that stops in between leaves a listed trend with fewer (`Scoring`).
- A filtered or otherwise sorted first page is stored under the key of the default one;
  whoever gets it has a cursor into another order (`FeedPaging`).
- get_or_compute releases a lock it may no longer hold (`cache_manager.py:265`); only
  tests call it, and it is not modelled.
- `get_ai_config` always answers its default, so the admin's AI configuration is never
  read and the keyword review never inserts (`ConfigCache`).
- A refund sets a status the CHECK refuses and answers 500 (`Subscription`); a keyword
  that exists already answers 500 after its audit row is written (`ConfigCache`).
- The shares list and the personalization of a user with a row always answer 500;
  audit_archive always fails, on RETURNING COUNT(*).
- youtube is never asked, for want of a row in source_config; a feed that failed counts
  as a success of the crawl (`Crawl`).
- Brand alerts never fire (`Alerts`); the daily digest reads none of the user's
  `alert_daily`.
- stage_match_existing_groups writes an early_trend_score from the number of articles
  alone, so a group of one source can be listed as early until the job's next write;
  growth_type and burst_score are never computed again after the save, and a group
  without an article in 36 hours is of class growth (`Scoring`).
- The louvain grouping has no caller but tests.

### Fairness

- `Pipeline!FairSpec`: weak fairness of the batch as a whole. The poll loop never
  ends and every stage returns or raises. Nothing is assumed of the crawler, of
  Redis or of faults.
- `FeedCache!FairSpec`: weak fairness of each request, of the processor's writes, and
  of the TTL of an outdated entry that nobody overwrites. Nothing is assumed of the
  consumer: `StaleFeedsGoAway` holds though every announcement may be lost.
- `BurstJob!FairSpec`: weak fairness of each runner that is inside (its requests have
  timeouts) and of the TTL of an abandoned key. A crash may come at any time.
- `Access` and the components of `MCServices` have safety properties only: what they
  promise to do at last is a job of the scheduler's, which the models do not have.

## 4. What is proved

All theorems hold for every value of the constants under the named assumptions of
the models: finiteness of the actors and types of the parameters, nothing else. Each
component's proof is one inductive invariant (`IInv`, or one named for the
component), shown to hold initially and to be preserved by one lemma per action or
group of actions; `IInv` is checked by TLC too where the run names it. Each theorem
that a run's property states is listed with it in `PROJECT.json`.

**PipelineProofs** (`Invariance`, `TypeCorrect`, `DuplicatesAreReal`,
`AnnouncementsAreVisible`, `ScoresKeepFloor`, `RegroupSafe`). The properties are not
inductive: that an UPDATE by url moves no grouped row depends on what the batch
holds. `StageInv` says which variables of the batch are in use at which stage and
that clusters are disjoint, `SeenInv` that what Redis remembers was admitted,
`FlightInv` that a row the batch may still write has no group, has a twin or is in
doubt. `RegroupSafe` is an action property derived from `FlightInv`.

**FeedCacheProofs** (`Invariance`, `TypeCorrect`, `FeedsAreSeparate`,
`RefreshRemovesStale`). `CacheInv` and `RequestInv` follow a body from the query to
the key it is stored under, which is that of its feed (`KeyOf`, any function); `ChannelInv` orders messages and saves; `ScanInv` is
what the consumer knows between its scan and its delete, where entries it did not
find can only be newer.

**BurstJobProofs** (`Invariance`, `TypeCorrect`, `BoundedConcurrency`,
`OncePerCooldown`, `LockRefinesExclusive`). `LockInv` adds to the bound that a lock
which belongs to nobody active leaves room for exactly one more; without it the
unconditional DEL could not be shown harmless. `CandidateInv` carries "not cooling"
from the query to the INSERT, which holds as long as no lock expires under a
running job. `LockRefinesExclusive` is the refinement: the initial state maps to the
initial state, every step to an enter, a leave or a stutter.

**AccessProofs** (`Invariance`, `TypeCorrect`, `RateBounded`, `QuotaBounded`,
`HandledAtMostOnce`, `GateEntitled`, `LimitedCallsBooked`). `LedgerInv` balances what
was served against what is counted, about to be counted or lost, and bounds the
counter plus those who have still to raise it; `RateInv` is the same for the
window, in which `RateBound` speaks of every call let through: those counted, and with
`opened` those for which Redis failed. `ReadAtGate` says that a call behind a gate had a
header the middlewares can read, so that only a path without a gate can go unbooked. `ClockInv` and `TokenInv` say that a claim was true in the hour of issue.
`RequestInv` follows a request through the layers; the step that matters is that a
token Quota found expired is refused by the route, because time only moves on.

**UserProofs.** Accounts (`AccountsTypes`, `SecretProven`, `LoginlessHalfway`,
`IssuedToActive`). `AccountsInv` adds to the three properties what each request in
progress knows: `RequestInv` says that an account it found active was active at some
moment of the request, that the code it passed on was right and the secret it is about
to enable is proven; `TokensInv` that challenges were given to users who were active.

Subscriptions (`SubscriptionTypes`, `PlanTaken`, `ProviderReopens`): `SubscriptionInv` needs beside the
property that ids are given out in order (`IdsInOrder`), so that a row the job expired
keeps its owner. Items (`UserItemsTypes`, `OvershootBounded`, `RatioKept`): `ItemsPart` counts the rows of a
user together with the requests that have counted and will insert, of which the last
to count saw all the others' rows; `PrefPart` says what an apply in progress read.

**CrawlProofs** (`CrawlTypes`, `QuotaOvershoot`, `CopiesBounded`, `ValidatorSound`).
`CrawlInv` is the types and five parts. `RunsPart` says what a run holds at each point,
and that an answer not yet stored still has every entry if the feed has not changed.
`ValidatorSound` is for the code's order, in which the validator is stored before the
answer is counted and parsed: what an exception or a crash then loses is the property's
exception, and a validator that stands for anything else does not exist.
`CoveragePart` is `ValidatorCoversFeed` with the entries in hand as a third place to
be. `CopiesPart` counts rows of a url with the runs that may still insert it, and
`QuotaPart` the counter with the requests let pass and not counted; both sums stay
under the bound because a look-up or a check lets in only who sees room.

**TrendProofs.** The models fold over sets and recurse over intervals, and induction
would need a theorem that takes an operator. The lemmas that come first do it by hand:
`SmallestSet` and `LeastNumber` give the smallest counterexample to a law about one
particular function, and the step refutes it. From that follow what a sum is (`SumsExist`,
`SumsAgree`), that MapThenSumSet computes it (`TotalIsSums`), and that a recursion on an
interval has a solution (`RecursionSolved`), without which nothing could be said of the
value that TLA+ chooses for it.

- *Paging* (`PagingTypes`, `StableRowsPaged`). `PagingInv` says that of the rows nobody
  has written since the first page was read, be it a copy, those shown are exactly those
  not past the cursor, and `PagesSound` the same of every page that a request holds or
  Redis keeps, which the property alone does not carry.
  `PrecedesOrder` shows ORDER BY score DESC, id DESC to be a strict total order and
  `ShowStep` that a page is an initial segment of what is past the cursor: a page cut in
  the middle of equal scores is continued at the right row.
- *Clustering* (`ClusteringTypes`, `ClustersDivide`). Three recursions are followed to the
  end: the pass of cluster_greedy over the batch, the split of a cluster by its
  outliers, and the pass of the meta clusterer over the groups with its inner gathering
  of neighbours. Each has as invariant that what is placed so far is divided
  (`Divides`, `DividedTo`); `ClusteringInv` adds to it what was dropped.
- *Scoring* (`ScoringTypes`, `EarlyTrendProven`). `ScoringInv` says that a row's early
  score is earned by the articles the group has (`Earned`), or by the cluster's until the
  save has given the group all of them (`RowsEarned`, `ScoredInv`, `SavingInv`), and that
  what the job has selected is no more than the group has (`JobInv`): counts only grow, so
  a score written late is earned still, and the group has the cluster's when the save ends. Each writer is then arithmetic in ten-thousandths: whatever the weights an
  administrator stored, two articles stay below the list's threshold, and the cap of 0.3
  stays below it after the largest boost.

**ServicesProofs.** Alerts (`AlertsTypes`, `OneMailQueued`, `NoBrandAlert`):
`RecordersCurrent` says that a call that has not counted finds its own row in the
window, so that a call which counts no more than one row has counted its own and any
other queued one has left. `BrandInv` says that every mention is as it was collected;
`ScoreSpreadTotal` and `NoCrisis` that any number of such mentions has no variance and a
mean of zero. Migrations (`MigrationsTypes`, `MigrationsOrdered`): `Progress`, `Building`
and `Recorded` relate where a runner stands to what is recorded and what `up` has left.
`MigrationsUpgrade` is the refinement to `Upgrade`, under which `recorded` is the applied
versions and the runners at `serve` are the servers: an INSERT that succeeds finds exactly
the versions before its own, a refused one is a stutter. The run checks it on its instance (`UpgradesInOrder`).
Lists (`ConfigTypes`, `ReloadHolds`): `CurrentHeld`, `StoresHeld` and `ReloadsDelete`
follow a list from the SELECT to the copy across a reload.

`ComponentsImplemented` is about the module that TLC runs: every behaviour of
`MCServices` is one of each of the ten specifications, since a slice takes steps of one
component, some of them with fewer jobs and sources (`CrawlPart`), and stutters in the
rest. From it follow `ServicesTypes`, the type invariant of the run, and `ServicesSafe`,
every safety property of the run, now for any values of the constants of all ten at once.

Every invariant and safety property that a passing run checks is proved. Only
model-checked: the liveness properties `EveryRowFetched`, `StaleFeedsGoAway`
and `LockComesFree` (fairness and ENABLED are beyond this prover);
the violated properties, and everything about particular values of the constants. In
`Scoring` the tables of logarithms and exponentials remain assumptions
(`ScoringAssumption`: values between 0 and 100), as they are computed in floating point.

## 5. What is not modelled

- *Real-valued functions.* Embeddings, similarities, sentiment, forecasts, ranking,
  keyword weights and the spam classifier are computed by libraries or from text;
  the models let them be anything in range, or take their values as given.
- *Text.* The extraction of articles, the parsing of feeds and pages, action insights
  and content ideas; `crawler/sources/rss_feeds.py` is a table of addresses, and the
  seeds are data.
- *More than one instance.* docker-compose runs one processor and one crawler
  (fixed container names), and the models take that from it. Production has two API
  containers; FeedCache has one consumer, Access counts requests and not processes,
  so only the consumer's side would change. Migrations has any number of containers.
- *Reads.* The detail, keyword and sentiment endpoints, the lists, statistics and
  exports of the admin API, the dashboard: a request, one or two queries, a response.
- *Single statements.* The digest sends what one query returns, the snapshot is one
  INSERT ... SELECT, audit_archive one DELETE.
- *Outside.* Logging, metrics, heartbeat and audit are output; the maintenance script is
  run by hand; the frontend is views over the API; the deployment is configuration.
- *Parts of modelled components.* get_or_compute, `rate_limit_check`, the counters
  of client addresses and of `/events`, and check_insight_quota behind the gate.

## 6. Plan

Done: `Pipeline`, `FeedCache`, `BurstJob` over `Exclusive`, `Access`, `Accounts`,
`Subscription`, `UserItems`, `Crawl`, `Alerts`, `ConfigCache`, `FeedPaging`,
`Migrations`, `Clustering`, `Scoring`.

Left, in this order:

1. `Access` composed with `Subscription`: its `SetPlan` replaced by the expiry job and
   the administrator, so that `EntitledRecently` speaks of what was paid for.
2. `Pipeline` composed with `FeedCache` over saves and announcements (each announced
   group is readable by the consumer that receives it), and with the early trend job,
   which `Scoring` has beside one group only.
3. Liveness of the expiry job and of a feed's entries, once the scheduler is modelled.
