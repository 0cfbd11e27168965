------------------------------- MODULE Crawl -------------------------------
(***************************************************************************)
(* The crawler process: its scheduled jobs, the quota of each source, the  *)
(* conditional requests, the health of the feeds and the rows inserted in  *)
(* news_article and sns_trend (backend/crawler and the queries it uses),   *)
(* with the administrator's routes on sources and feeds.                   *)
(*                                                                         *)
(* A run is one execution of a job; an await of the code that reads or     *)
(* writes shared state is a step. A url stands for an entry of a feed and  *)
(* for the keyword of an item of a social network.                         *)
(***************************************************************************)
EXTENDS Naturals, Sequences, FiniteSets

CONSTANTS
    Run,              \* executions of jobs that can overlap
    Jobs,             \* the jobs a run may execute
    Feed,             \* rows of feed_source, and what FixedFeed stands for
    SourceOf,         \* the source a feed counts on
    Url,
    Limit,            \* values of quota_limit, 0 for unlimited
    MaxStarts,        \* bound on the runs started
    MaxDisturbances   \* bound on new editions, administrators' requests, crashes and
                      \* failures the code swallows, together

\* One quota check per feed.
NewsSource == {"rss_ko", "rss_en"}

\* One check per crawl, in this order.
CommunityOrder == <<"dc_inside", "fm_korea">>

SnsOrder == <<"reddit", "google_trends_rss", "youtube", "naver_datalab">>

SourcePlan == {SubSeq(CommunityOrder, i, 2) : i \in 1 .. 3} \cup {SubSeq(SnsOrder, i, 4) : i \in 1 .. 4}

CommunitySource == {CommunityOrder[i] : i \in DOMAIN CommunityOrder}

SnsSource == {SnsOrder[i] : i \in DOMAIN SnsOrder}

Source == NewsSource \cup CommunitySource \cup SnsSource

\* The rows of source_config: the migrations put none in for YouTube.
Configured == Source \ {"youtube"}

\* The scheduler's jobs, and the two searches of a burst crawl.
Job == {"news", "community", "sns", "naver", "search_google_news", "search_reddit"}

FeedsOf(S) == {f \in Feed : SourceOf[f] \in S}

\* YouTube's regions and Naver's keyword groups are not rows of feed_source.
FixedFeed == FeedsOf({"youtube", "naver_datalab"})

ASSUME CrawlAssumption ==
    /\ IsFiniteSet(Run) /\ Run # {} /\ IsFiniteSet(Feed)
    /\ SourceOf \in [Feed -> Source]
    /\ Cardinality(FeedsOf({"naver_datalab"})) <= 1   \* one count for all keyword batches
    /\ Jobs \in [Run -> SUBSET Job]
    /\ Limit \subseteq Nat /\ Limit # {}
    /\ MaxStarts \in Nat /\ MaxDisturbances \in Nat

VARIABLES
    quota,      \* source_config: is_active, quota_limit and quota_used
    peak,       \* highest limit since the counter was last 0, 0 when it was unlimited
    feedRows,   \* rows of feed_source
    enabled,    \* of these, is_active
    health,     \* last_crawled_at is set, and consecutive_failures
    doc,        \* what the feed's server publishes: the edition and its entries
    validator,  \* ETag and Last-Modified in Redis: the edition, 0 when expired
    copies,     \* rows of news_article per url
    trend,      \* rows of sns_trend: the edition the score is from, 0 for no row
    run,        \* the runs
    lost,       \* entries of an edition that were not parsed, failed or died with the process
    crawlUsed   \* runs started and disturbances

crawlVars == <<quota, peak, feedRows, enabled, health, doc, validator, copies, trend,
               run, lost, crawlUsed>>

Idle == [pc |-> "idle", sources |-> <<>>, todo |-> {}, cur |-> {}, got |-> 0,
         left |-> {}, look |-> {}, items |-> {}, fresh |-> FALSE, page |-> FALSE]

InitCrawl ==
    /\ quota \in [Source -> {[on |-> TRUE, limit |-> l, used |-> 0] : l \in Limit \ {0}}]
    /\ peak = [s \in Source |-> quota[s].limit]
    /\ feedRows = Feed \ FixedFeed /\ enabled = Feed \ FixedFeed
    /\ health = [f \in Feed |-> [seen |-> FALSE, fails |-> 0]]
    /\ doc = [f \in Feed |-> [edition |-> 1, entries |-> Url]]
    /\ validator = [f \in Feed |-> 0]
    /\ copies = [u \in Url |-> 0] /\ trend \in [SnsSource \X Url -> {0}]
    /\ run = [r \in Run |-> Idle]
    /\ lost = {}
    /\ crawlUsed = [starts |-> 0, disturbances |-> 0]

At(r, pc) == run[r].pc = pc

Step(r, pc, step) == At(r, pc) /\ run' = [run EXCEPT ![r] = step]

Disturb == /\ crawlUsed.disturbances < MaxDisturbances
           /\ crawlUsed' = [crawlUsed EXCEPT !.disturbances = @ + 1]

\* A statement, a request or a cache call that fails; the caller swallows it.
Fault == Disturb

---------------------------------------------------------------------------
(***************************************************************************)
(* quota_guard and update_feed_health.                                     *)
(***************************************************************************)

\* check_quota: a source without a row, off, or with its quota used up is not asked.
Allowed(s) ==
    /\ s \in Configured /\ quota[s].on
    /\ quota[s].limit = 0 \/ quota[s].used < quota[s].limit

\* Had both a collector and its caller counted the request.
IncrementTwice(s) ==
    \/ quota' = [quota EXCEPT ![s].used = @ + 2] /\ UNCHANGED crawlUsed
    \/ Fault /\ UNCHANGED quota

\* increment_quota swallows its error.
Increment(s) ==
    \/ /\ quota' = [quota EXCEPT ![s].used = @ + 1]
       /\ UNCHANGED crawlUsed
    \/ Fault /\ UNCHANGED quota

\* The UPDATE of update_feed_health, of no row when the feed was deleted.
Crawled(f, success) ==
    health' = IF f \in feedRows
              THEN [health EXCEPT ![f] = [seen |-> TRUE,
                                          fails |-> IF success THEN 0 ELSE @.fails + 1]]
              ELSE health

ResetQuotas(S) ==
    /\ quota' = [s \in Source |-> IF s \in S THEN [quota[s] EXCEPT !.used = 0] ELSE quota[s]]
    /\ peak' = [s \in Source |-> IF s \in S THEN quota[s].limit ELSE peak[s]]
    /\ UNCHANGED <<feedRows, enabled, health, doc, validator, copies, trend, run, lost>>

---------------------------------------------------------------------------
(***************************************************************************)
(* The jobs. A run has the sources it will still open, the feeds of the    *)
(* open source it will still crawl, the feed in hand, the entries left and *)
(* the url it found missing.                                               *)
(***************************************************************************)

\* get_feed_sources_for_crawl.
Crawlable(S) == (enabled \cup FixedFeed) \cap FeedsOf(S)

Start(r, job, step) ==
    /\ At(r, "idle") /\ job \in Jobs[r] /\ crawlUsed.starts < MaxStarts
    /\ run' = [run EXCEPT ![r] = step]
    /\ crawlUsed' = [crawlUsed EXCEPT !.starts = @ + 1]
    /\ UNCHANGED <<quota, peak, feedRows, enabled, health, doc, validator, copies, trend, lost>>

\* crawl_all of the news reads its feeds at once.
CrawlNews(r) == Start(r, "news", [Idle EXCEPT !.pc = "pick", !.todo = Crawlable(NewsSource)])

\* crawl_all of the communities and collect_all open a source after another.
CrawlCommunity(r) ==
    Start(r, "community", [Idle EXCEPT !.pc = "pick", !.sources = CommunityOrder])

CollectSns(r) == Start(r, "sns", [Idle EXCEPT !.pc = "pick", !.sources = SnsOrder])

CrawlNaver(r) == Start(r, "naver", [Idle EXCEPT !.pc = "pick", !.sources = <<"naver_datalab">>])

\* The two searches of run_burst_crawl, side by side: no feed, no quota, and whatever
\* the sites find for the keywords; an error of the request is nothing found.
SearchGoogleNews(r, found) ==
    Start(r, "search_google_news", [Idle EXCEPT !.pc = "entries", !.left = found])

SearchReddit(r, found) ==
    Start(r, "search_reddit", [Idle EXCEPT !.pc = "entries", !.left = found])

\* One check, and then every feed of the source; without a quota, none.
OpenSource(r, s) ==
    /\ run[r].sources # <<>> /\ Head(run[r].sources) = s /\ run[r].todo = {}
    /\ Step(r, "pick", [run[r] EXCEPT !.sources = Tail(@),
                                      !.todo = IF Allowed(s) THEN Crawlable({s}) ELSE {}])
    /\ UNCHANGED <<quota, peak, feedRows, enabled, health, doc, validator, copies, trend,
                   lost, crawlUsed>>

CrawlDcInside(r) == OpenSource(r, "dc_inside")

CrawlFmKorea(r) == OpenSource(r, "fm_korea")

CrawlReddit(r) == OpenSource(r, "reddit")

CrawlGoogleTrends(r) == OpenSource(r, "google_trends_rss")

CrawlYoutube(r) == OpenSource(r, "youtube")

CrawlNaverDatalab(r) == OpenSource(r, "naver_datalab")

\* crawl_feed begins: no quota is no articles, which crawl_all reports as a success.
CheckFeed(r, f) ==
    /\ f \in run[r].todo /\ SourceOf[f] \in NewsSource
    /\ Step(r, "pick", [run[r] EXCEPT !.pc = IF Allowed(SourceOf[f]) THEN "get" ELSE "entries",
                                     !.todo = @ \ {f}, !.cur = {f}, !.got = validator[f]])
    /\ UNCHANGED <<quota, peak, feedRows, enabled, health, doc, validator, copies, trend, lost,
                   crawlUsed>>

\* The other jobs take the next feed without a check.
TakeFeed(r, f) ==
    /\ f \in run[r].todo /\ SourceOf[f] \notin NewsSource
    /\ Step(r, "pick", [run[r] EXCEPT !.pc = "get", !.todo = @ \ {f}, !.cur = {f}])
    /\ UNCHANGED <<quota, peak, feedRows, enabled, health, doc, validator, copies, trend,
                   lost, crawlUsed>>

\* The run is done with the feed in hand.
NextFeed(r) == [run[r] EXCEPT !.pc = "pick", !.cur = {}, !.got = 0, !.left = {},
                              !.fresh = FALSE, !.page = FALSE]

\* update_feed_health raises: the rest of the source, or of the news, is left, with the
\* items of the source.
Abandoned(r, f) ==
    [NextFeed(r) EXCEPT !.todo = {}, !.items = {i \in @ : i[1] # SourceOf[f]}]

\* The request failed, or the report of its success did: the except clause reports a
\* failure, and when that raises as well nothing is left to catch it in the loop.
ReportFailure(r, pc, f) ==
    /\ Fault
    /\ \/ Step(r, pc, NextFeed(r)) /\ Crawled(f, FALSE)
       \/ Step(r, pc, Abandoned(r, f)) /\ UNCHANGED health

\* Had an answer with an error status been taken for a document without entries.
NewsAnswerAnyStatus(r, f) ==
    /\ run[r].cur = {f} /\ SourceOf[f] \in NewsSource
    /\ \/ /\ run[r].got # doc[f].edition
          /\ Step(r, "get", [run[r] EXCEPT !.pc = "store", !.got = doc[f].edition, !.left = doc[f].entries])
          /\ UNCHANGED crawlUsed
       \/ /\ Step(r, "get", [run[r] EXCEPT !.pc = "store", !.got = doc[f].edition])
          /\ Fault
    /\ UNCHANGED <<quota, peak, feedRows, enabled, health, doc, validator, copies, trend, lost>>

\* The answer to crawl_feed: a document, or 304, an error status or an exception, which
\* are all [] and reported as a success.
NewsAnswer(r, f) ==
    /\ run[r].cur = {f} /\ SourceOf[f] \in NewsSource
    /\ \/ /\ run[r].got # doc[f].edition
          /\ Step(r, "get", [run[r] EXCEPT !.pc = "store", !.got = doc[f].edition,
                                          !.left = doc[f].entries])
          /\ UNCHANGED crawlUsed
       \/ /\ run[r].got = doc[f].edition
          /\ Step(r, "get", [run[r] EXCEPT !.pc = "entries"])
          /\ UNCHANGED crawlUsed
       \/ /\ Step(r, "get", [run[r] EXCEPT !.pc = "entries"])
          /\ Fault
    /\ UNCHANGED <<quota, peak, feedRows, enabled, health, doc, validator, copies, trend, lost>>

\* The validator goes to Redis before the request is counted and the document is parsed.
StoreValidator(r, f) ==
    /\ run[r].cur = {f}
    /\ Step(r, "store", [run[r] EXCEPT !.pc = "count"])
    /\ \/ validator' = [validator EXCEPT ![f] = run[r].got] /\ UNCHANGED crawlUsed
       \/ Fault /\ UNCHANGED validator
    /\ UNCHANGED <<quota, peak, feedRows, enabled, health, doc, copies, trend, lost>>

\* increment_quota: before the entries for news and the items of a social network, after
\* the entries for a community.
Count(r, f) ==
    /\ run[r].cur = {f}
    /\ Step(r, "count", CASE SourceOf[f] \in NewsSource -> [run[r] EXCEPT !.pc = "parse"]
                          [] SourceOf[f] \in CommunitySource -> NextFeed(r)
                          [] SourceOf[f] \in SnsSource -> [run[r] EXCEPT !.pc = "items"])
    /\ Increment(SourceOf[f])
    /\ UNCHANGED <<peak, feedRows, enabled, health, doc, validator, copies, trend, lost>>

\* feedparser.parse: what it raises is caught by crawl_feed, with the validator stored.
ParseFeed(r, f) ==
    /\ run[r].cur = {f}
    /\ \/ /\ Step(r, "parse", [run[r] EXCEPT !.pc = "entries"])
          /\ UNCHANGED <<lost, crawlUsed>>
       \/ /\ Step(r, "parse", [run[r] EXCEPT !.pc = "entries", !.left = {}])
          /\ lost' = lost \cup ({f} \X run[r].left)
          /\ Fault
    /\ UNCHANGED <<quota, peak, feedRows, enabled, health, doc, validator, copies, trend>>

\* The answer to _crawl_rss_feed: an error status is an empty page and a success, an
\* exception is a failure and is not counted on the quota.
CommunityAnswer(r, f) ==
    /\ run[r].cur = {f} /\ SourceOf[f] \in CommunitySource
    /\ \/ /\ Step(r, "get", [run[r] EXCEPT !.pc = "entries", !.left = doc[f].entries])
          /\ UNCHANGED <<health, crawlUsed>>
       \/ /\ Step(r, "get", [run[r] EXCEPT !.pc = "entries"])
          /\ Fault /\ UNCHANGED health
       \/ ReportFailure(r, "get", f)
    /\ UNCHANGED <<quota, peak, feedRows, enabled, doc, validator, copies, trend, lost>>

\* The request of a social network: its items, or an error, which counts on no quota.
Answer(r, f, s) ==
    /\ run[r].cur = {f} /\ SourceOf[f] = s
    /\ \/ /\ Step(r, "get", [run[r] EXCEPT !.pc = "count", !.left = doc[f].entries,
                                           !.got = doc[f].edition])
          /\ UNCHANGED <<health, crawlUsed>>
       \/ ReportFailure(r, "get", f)
    /\ UNCHANGED <<quota, peak, feedRows, enabled, doc, validator, copies, trend, lost>>

FetchSubreddit(r, f) == Answer(r, f, "reddit")

FetchGoogleTrends(r, f) == Answer(r, f, "google_trends_rss")

\* The batches of keywords, of which some may fail: with no result at all there is no
\* count. Their source has no row of feed_source.
FetchNaverTrends(r, f) ==
    /\ run[r].cur = {f} /\ SourceOf[f] = "naver_datalab"
    /\ \E found \in SUBSET doc[f].entries :
          /\ Step(r, "get", IF found = {} THEN NextFeed(r)
                            ELSE [run[r] EXCEPT !.pc = "count", !.left = found,
                                                !.got = doc[f].edition])
          /\ IF found = doc[f].entries THEN UNCHANGED crawlUsed ELSE Fault
    /\ UNCHANGED <<quota, peak, feedRows, enabled, health, doc, validator, copies, trend, lost>>

\* The items of an answer are kept for later, and the crawl of the feed is a success; or
\* the answer cannot be read, or the report fails, and the items are dropped. For the data
\* lab it is the connection that fails, and there is no report.
ReadItems(r, f) ==
    /\ run[r].cur = {f} /\ SourceOf[f] \in SnsSource
    /\ \/ /\ Step(r, "items", [NextFeed(r) EXCEPT
                    !.items = @ \cup ({SourceOf[f]} \X run[r].left \X {run[r].got})])
          /\ Crawled(f, TRUE) /\ UNCHANGED crawlUsed
       \/ ReportFailure(r, "items", f)
    /\ UNCHANGED <<quota, peak, feedRows, enabled, doc, validator, copies, trend, lost>>

\* Without the SELECT: every entry is taken for a new one.
TakeForNew(r, u) ==
    /\ u \in run[r].left /\ run[r].look = {}
    /\ Step(r, "entries", [run[r] EXCEPT !.left = @ \ {u}, !.look = {u}])
    /\ UNCHANGED <<lost, quota, peak, feedRows, enabled, health, doc, validator, copies, trend, crawlUsed>>

\* An entry: SELECT 1 FROM news_article WHERE url_hash = $1 ...
LookUp(r, u) ==
    /\ u \in run[r].left /\ run[r].look = {}
    /\ \/ /\ Step(r, "entries", [run[r] EXCEPT !.left = @ \ {u},
                                              !.look = IF copies[u] = 0 THEN {u} ELSE {}])
          /\ UNCHANGED <<lost, crawlUsed>>
       \/ /\ Step(r, "entries", [run[r] EXCEPT !.left = @ \ {u}])
          /\ lost' = lost \cup (run[r].cur \X {u})
          /\ Fault
    /\ UNCHANGED <<quota, peak, feedRows, enabled, health, doc, validator, copies, trend>>

\* ... and, after the body was fetched, INSERT: no key of the table holds the url.
InsertArticle(r, u) ==
    /\ run[r].look = {u}
    /\ \/ /\ Step(r, "entries", [run[r] EXCEPT !.look = {}, !.fresh = TRUE])
          /\ copies' = [copies EXCEPT ![u] = @ + 1]
          /\ UNCHANGED <<lost, crawlUsed>>
       \/ /\ Step(r, "entries", [run[r] EXCEPT !.look = {}])
          /\ lost' = lost \cup (run[r].cur \X {u})
          /\ Fault /\ UNCHANGED copies
    /\ UNCHANGED <<quota, peak, feedRows, enabled, health, doc, validator, trend>>

\* _crawl_fm_html: nothing new in the feed, so the page it comes from is read once; a page
\* that robots.txt forbids or that does not answer is an empty one.
ReadPage(r) ==
    /\ run[r].left = {} /\ run[r].look = {} /\ ~run[r].fresh /\ ~run[r].page
    /\ \E f \in run[r].cur, readable \in BOOLEAN :
          /\ SourceOf[f] = "fm_korea"
          /\ Step(r, "entries", [run[r] EXCEPT !.page = TRUE,
                                              !.left = IF readable THEN doc[f].entries ELSE {}])
    /\ UNCHANGED <<quota, peak, feedRows, enabled, health, doc, validator, copies, trend,
                   lost, crawlUsed>>

\* The feed is done, and its success reported; a community's request is counted then.
EndFeed(r, f) ==
    /\ run[r].cur = {f} /\ run[r].left = {} /\ run[r].look = {}
    /\ SourceOf[f] = "fm_korea" => run[r].fresh \/ run[r].page
    /\ \/ /\ Step(r, "entries", IF SourceOf[f] \in NewsSource THEN NextFeed(r)
                                ELSE [run[r] EXCEPT !.pc = "count"])
          /\ Crawled(f, TRUE) /\ UNCHANGED crawlUsed
       \/ ReportFailure(r, "entries", f)
    /\ UNCHANGED <<quota, peak, feedRows, enabled, doc, validator, copies, trend, lost>>

\* _save_sns_trends, after every source: a plain INSERT, which the key (platform,
\* keyword, locale) refuses when the keyword has a row, and the error is swallowed.
SaveSnsTrend(r, s, u, edition) ==
    /\ <<s, u, edition>> \in run[r].items /\ s # "naver_datalab"
    /\ run[r].sources = <<>> /\ run[r].todo = {}
    /\ Step(r, "pick", [run[r] EXCEPT !.items = @ \ {<<s, u, edition>>}])
    /\ \/ /\ trend' = [trend EXCEPT ![<<s, u>>] = IF @ = 0 THEN edition ELSE @]
          /\ UNCHANGED crawlUsed
       \/ Fault /\ UNCHANGED trend
    /\ UNCHANGED <<quota, peak, feedRows, enabled, health, doc, validator, copies, lost>>

\* crawl_naver_datalab saves what it got at once, and updates the row there is; an error
\* leaves the rest out.
SaveDatalab(r, u, edition) ==
    /\ <<"naver_datalab", u, edition>> \in run[r].items
    /\ \/ /\ Step(r, "pick", [run[r] EXCEPT !.items = @ \ {<<"naver_datalab", u, edition>>}])
          /\ trend' = [trend EXCEPT ![<<"naver_datalab", u>>] = edition]
          /\ UNCHANGED crawlUsed
       \/ /\ Step(r, "pick", [run[r] EXCEPT !.items = {i \in @ : i[1] # "naver_datalab"}])
          /\ Fault /\ UNCHANGED trend
    /\ UNCHANGED <<quota, peak, feedRows, enabled, health, doc, validator, copies, lost>>

EndJob(r) ==
    /\ run[r].cur = {} /\ run[r].left = {} /\ run[r].look = {} /\ run[r].items = {}
    /\ run[r].sources = <<>> /\ run[r].todo = {}
    /\ At(r, "pick") \/ At(r, "entries")
    /\ run' = [run EXCEPT ![r] = Idle]
    /\ UNCHANGED <<quota, peak, feedRows, enabled, health, doc, validator, copies, trend,
                   lost, crawlUsed>>

\* The process dies: Redis and PostgreSQL stay.
CrashCrawler ==
    /\ \E r \in Run : ~At(r, "idle")
    /\ Fault
    /\ lost' = lost \cup UNION {run[r].cur \X (run[r].left \cup run[r].look) : r \in Run}
    /\ run' = [r \in Run |-> Idle]
    /\ UNCHANGED <<quota, peak, feedRows, enabled, health, doc, validator, copies, trend>>

---------------------------------------------------------------------------
(***************************************************************************)
(* What the crawler does not do itself: the servers of the feeds, the TTL  *)
(* of Redis, midnight and administrators.                                  *)
(***************************************************************************)

Publish(f) ==
    /\ Disturb
    /\ \E E \in SUBSET Url : doc' = [doc EXCEPT ![f] = [edition |-> @.edition + 1,
                                                        entries |-> E]]
    /\ lost' = {l \in lost : l[1] # f}
    /\ UNCHANGED <<quota, peak, feedRows, enabled, health, validator, copies, trend, run>>

\* After 24 hours the feed is read again, whatever its edition.
ExpireValidator(f) ==
    /\ validator[f] # 0
    /\ validator' = [validator EXCEPT ![f] = 0]
    /\ UNCHANGED <<quota, peak, feedRows, enabled, health, doc, copies, trend, run, lost,
                   crawlUsed>>

\* reset_all_quotas at 00:00 UTC, while runs may be between a check and its increment.
DailyReset == ResetQuotas(Source) /\ UNCHANGED crawlUsed

\* admin_update_source.
SetSource(s, on, limit) == quota' = [quota EXCEPT ![s].on = on, ![s].limit = limit]

\* PATCH and POST .../reset of /admin/sources.
UpdateSource(s, on, limit) ==
    /\ s \in Configured /\ Disturb
    /\ SetSource(s, on, limit)
    /\ peak' = [peak EXCEPT ![s] = IF @ = 0 \/ limit = 0 THEN 0
                                   ELSE IF limit > @ THEN limit ELSE @]
    /\ UNCHANGED <<feedRows, enabled, health, doc, validator, copies, trend, run, lost>>

ResetSource(s) == s \in Configured /\ Disturb /\ ResetQuotas({s})

\* The queries create_feed_source, update_feed_source, delete_feed_source and
\* bulk_toggle_feed_sources; the last passes over ids without a row.
InsertFeed(f) == feedRows' = feedRows \cup {f}

SetActiveFeed(f, on) == enabled' = IF on THEN enabled \cup {f} ELSE enabled \ {f}

RemoveFeed(f) == feedRows' = feedRows \ {f} /\ enabled' = enabled \ {f}

SetActiveFeeds(F, on) == enabled' = IF on THEN enabled \cup (F \cap feedRows) ELSE enabled \ F

\* POST, PATCH, DELETE and bulk-toggle of /admin/feed-sources.
CreateFeed(f, on) ==
    /\ f \notin feedRows \cup FixedFeed /\ Disturb
    /\ InsertFeed(f) /\ SetActiveFeed(f, on)
    /\ health' = [health EXCEPT ![f] = [seen |-> FALSE, fails |-> 0]]
    /\ UNCHANGED <<quota, peak, doc, validator, copies, trend, run, lost>>

UpdateFeed(f, on) ==
    /\ f \in feedRows /\ Disturb
    /\ SetActiveFeed(f, on)
    /\ UNCHANGED <<quota, peak, feedRows, health, doc, validator, copies, trend, run, lost>>

DeleteFeed(f) ==
    /\ f \in feedRows /\ Disturb
    /\ RemoveFeed(f)
    /\ UNCHANGED <<quota, peak, health, doc, validator, copies, trend, run, lost>>

ToggleFeeds(F, on) ==
    /\ Disturb
    /\ SetActiveFeeds(F, on)
    /\ UNCHANGED <<quota, peak, feedRows, health, doc, validator, copies, trend, run, lost>>

\* What the sources of S and the jobs of J take part in.
CrawlStep(J, S) ==
    \/ \E r \in Run :
          \/ "news" \in J /\ CrawlNews(r)
          \/ "community" \in J /\ CrawlCommunity(r)
          \/ "sns" \in J /\ CollectSns(r)
          \/ "naver" \in J /\ CrawlNaver(r)
          \/ \E found \in SUBSET Url : \/ "search_google_news" \in J /\ SearchGoogleNews(r, found)
                                       \/ "search_reddit" \in J /\ SearchReddit(r, found)
          \/ CrawlDcInside(r) \/ CrawlFmKorea(r) \/ CrawlReddit(r) \/ CrawlGoogleTrends(r)
          \/ CrawlYoutube(r) \/ CrawlNaverDatalab(r)
          \/ \E f \in FeedsOf(S) :
                \/ CheckFeed(r, f) \/ TakeFeed(r, f) \/ NewsAnswer(r, f) \/ StoreValidator(r, f)
                \/ CommunityAnswer(r, f) \/ FetchSubreddit(r, f) \/ FetchGoogleTrends(r, f)
                \/ FetchNaverTrends(r, f) \/ Count(r, f) \/ ParseFeed(r, f) \/ ReadItems(r, f)
                \/ EndFeed(r, f)
          \/ \E u \in Url :
                \/ LookUp(r, u) \/ InsertArticle(r, u)
                \/ \E v \in 1 .. MaxDisturbances + 1 :
                      SaveDatalab(r, u, v) \/ \E s \in SnsSource : SaveSnsTrend(r, s, u, v)
          \/ ReadPage(r) \/ EndJob(r)
    \/ CrashCrawler
    \/ DailyReset
    \/ \E s \in S : \/ \E on \in BOOLEAN, l \in Limit : UpdateSource(s, on, l)
                    \/ ResetSource(s)
    \/ \E f \in FeedsOf(S) :
          \/ Publish(f) \/ ExpireValidator(f) \/ DeleteFeed(f)
          \/ \E on \in BOOLEAN : CreateFeed(f, on) \/ UpdateFeed(f, on)
    \/ \E F \in SUBSET FeedsOf(S), on \in BOOLEAN : ToggleFeeds(F, on)

NextCrawl == CrawlStep(Job, Source)

SpecCrawl == InitCrawl /\ [][NextCrawl]_crawlVars

---------------------------------------------------------------------------

\* The variables hold what the code stores in them.
CrawlTypeOK ==
    /\ quota \in [Source -> [on : BOOLEAN, limit : Nat, used : Nat]]
    /\ peak \in [Source -> Nat]
    /\ enabled \subseteq feedRows /\ feedRows \subseteq Feed
    /\ health \in [Feed -> [seen : BOOLEAN, fails : Nat]]
    /\ doc \in [Feed -> [edition : Nat, entries : SUBSET Url]]
    /\ validator \in [Feed -> Nat]
    /\ copies \in [Url -> Nat] /\ trend \in [SnsSource \X Url -> Nat]
    /\ run \in [Run -> [pc : {"idle", "pick", "get", "store", "count", "parse", "items", "entries"},
                        sources : SourcePlan, todo : SUBSET Feed, cur : SUBSET Feed,
                        got : Nat, left : SUBSET Url, look : SUBSET Url,
                        items : SUBSET (SnsSource \X Url \X Nat), fresh : BOOLEAN, page : BOOLEAN]]
    /\ lost \subseteq Feed \X Url
    /\ crawlUsed \in [starts : Nat, disturbances : Nat]

\* A feed that answers 304 from now on, and that no run has in hand, has every entry
\* stored, but for those that failed: the validator is stored before the document is
\* parsed, so nothing reads the entries of one that could not be, or those that could not
\* be looked up or inserted or were in hand when the process died, until the feed changes
\* or the validator expires. No other answer, and no overlap of crawls, leaves any out.
ValidatorCoversFeed ==
    \A f \in Feed :
        (SourceOf[f] \in NewsSource /\ validator[f] = doc[f].edition
             /\ \A r \in Run : run[r].cur # {f})
        => \A u \in doc[f].entries : copies[u] > 0 \/ <<f, u>> \in lost

\* How many increments may follow one check of the source's quota.
PerCheck(s) == IF s \in NewsSource THEN 1 ELSE Cardinality(FeedsOf({s}))

\* Sources with a limit that have used it up.
Spent == {s \in Source : peak[s] # 0 /\ quota[s].used >= peak[s]}

\* The check before the requests and the increments after them let a source go over the
\* highest limit it had, by less than one crawl of each run.
QuotaOvershootBounded ==
    \A s \in Spent : quota[s].used < peak[s] + Cardinality(Run) * PerCheck(s)

\* A url is stored once per run that looked for it before another had inserted it, and
\* never again: however often the jobs run, no more rows than overlapping runs.
CopiesAtMostRuns == \A u \in Url : copies[u] <= Cardinality(Run)

=============================================================================
