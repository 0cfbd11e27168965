----------------------------- MODULE FeedCache -----------------------------
(***************************************************************************)
(* The feed cache shared by three processes: list_trends of the API        *)
(* (backend/api/routers/trends.py) reads and fills it, stage_warm_cache of *)
(* the processor (processor/stages/cache.py) overwrites it after a save,   *)
(* and the trends:new consumer (api/pubsub/trends_consumer.py) deletes     *)
(* feed:* when the processor announces a group.                            *)
(*                                                                         *)
(* A body is abstracted to the query it answers and the version of the     *)
(* database it was read from; the version counts the committed saves.      *)
(***************************************************************************)
EXTENDS Naturals, Sequences

CONSTANTS
    Feed,        \* what a request filters by: category and locale, given or not
    Key,         \* cache keys feed:{category or 'all'}:{locale or 'all'}
    KeyOf,       \* _trend_cache_key, [Feed -> Key]
    WarmKey,     \* the keys the processor writes: a concrete category and locale
    Limit,       \* values of the limit parameter
    Request,     \* concurrent requests of GET /trends
    MaxVersion   \* bound on the saves

\* KeyOf need not be one to one: a category spelled "all" is a filter of
\* fetch_trends, no category is none, and both have the key feed:all.
ASSUME KeyAssumption == WarmKey \subseteq Key /\ KeyOf \in [Feed -> Key]

ASSUME VersionAssumption == MaxVersion \in Nat

\* filtered: since is given or sort is one of _ALLOWED_SORT; paged: cursor is
\* given.  _trend_cache_key looks at category and locale only.
Query == [feed : Feed, filtered : BOOLEAN, paged : BOOLEAN, limit : Limit]

\* The default page of a feed, the only one list_trends looks up in the cache.
IsDefault(q) == ~q.paged /\ ~q.filtered

Version == 0 .. MaxVersion

\* What list_trends renders, and what stage_warm_cache writes under the same
\* key: a bare list of title, score and keywords, not a TrendListResponse.
\* seen is a ghost: the refreshes the API had done when the body was read.
Response == [shape : {"response"}, query : Query, version : Version, seen : Version]

BareList == [shape : {"list"}, version : Version]

Body == Response \cup BareList

NoBody == [shape |-> "none"]

NoQuery == [feed |-> "none"]

VARIABLES
    version,    \* committed saves (PostgreSQL)
    saver,      \* the processor: "idle", "publish" or "warm"
    toWarm,     \* the keys stage_warm_cache has still to write
    listening,  \* the consumer is subscribed to trends:new
    channel,    \* messages delivered to it and not handled, oldest first
    handler,    \* the consumer: "wait", "fetch", "scan" or "delete"
    found,      \* the keys scan_iter returned
    cache,      \* [Key -> Body or NoBody] (Redis)
    step,       \* where each request is: "idle", "lookup", "query", "store", "done"
    asked,      \* the query of each request
    body,       \* the body each request holds
    scanned,    \* ghost: the latest save the consumer scanned feed:* for
    refreshed,  \* ghost: the latest save it deleted the keys of that scan for
    writtenAt   \* ghost: [Key -> scanned, when the key was last written]

saverVars == <<version, saver, toWarm>>
consumerVars == <<listening, channel, handler, found, scanned, refreshed>>
cacheVars == <<cache, writtenAt>>
requestVars == <<step, asked, body>>
vars == <<saverVars, consumerVars, cacheVars, requestVars>>

Init ==
    /\ version = 0
    /\ saver = "idle"
    /\ toWarm = {}
    /\ listening = FALSE
    /\ channel = <<>>
    /\ handler = "wait"
    /\ found = {}
    /\ cache = [k \in Key |-> NoBody]
    /\ step = [r \in Request |-> "idle"]
    /\ asked = [r \in Request |-> NoQuery]
    /\ body = [r \in Request |-> NoBody]
    /\ scanned = 0
    /\ refreshed = 0
    /\ writtenAt = [k \in Key |-> 0]

(***************************************************************************)
(* The processor: stage_save, its announcements and stage_warm_cache.      *)
(* (Pipeline has the whole batch.)                                         *)
(***************************************************************************)

\* A save commits; only the batch statement is announced, the fallback that
\* inserts cluster by cluster is not.
Save ==
    /\ saver = "idle"
    /\ version < MaxVersion
    /\ version' = version + 1
    /\ saver' \in {"publish", "warm"}
    /\ toWarm' \in SUBSET WarmKey
    /\ UNCHANGED <<consumerVars, cacheVars, requestVars>>

\* Faulty variant: the save is announced under the next number.
PublishAhead ==
    /\ saver = "publish"
    /\ saver' = "warm"
    /\ listening /\ channel' = Append(channel, version + 1)
    /\ UNCHANGED <<version, toWarm, listening, handler, found, scanned, refreshed,
                   cacheVars, requestVars>>

\* publish: delivered if the consumer is subscribed, otherwise (or when Redis
\* fails) gone.
Publish ==
    /\ saver = "publish"
    /\ saver' = "warm"
    /\ \/ listening /\ channel' = Append(channel, version)
       \/ UNCHANGED channel
    /\ UNCHANGED <<version, toWarm, listening, handler, found, scanned, refreshed,
                   cacheVars, requestVars>>

\* set_cached: SETEX replaces what the key holds.
Write(k, b) ==
    /\ cache' = [cache EXCEPT ![k] = b]
    /\ writtenAt' = [writtenAt EXCEPT ![k] = scanned]

\* set_cached for one of the batch's feeds; its errors are swallowed.
Warm(k) ==
    /\ saver = "warm"
    /\ k \in toWarm
    /\ toWarm' = toWarm \ {k}
    /\ \/ Write(k, [shape |-> "list", version |-> version])
       \/ UNCHANGED cacheVars
    /\ UNCHANGED <<version, saver, consumerVars, requestVars>>

\* The batch is over, or the processor stops and its announcement is lost.
SaverDone ==
    /\ saver # "idle"
    /\ saver' = "idle"
    /\ toWarm' = {}
    /\ UNCHANGED <<version, consumerVars, cacheVars, requestVars>>

(***************************************************************************)
(* The consumer.                                                           *)
(***************************************************************************)

Subscribe ==
    /\ ~listening
    /\ listening' = TRUE
    /\ UNCHANGED <<saverVars, channel, handler, found, scanned, refreshed,
                   cacheVars, requestVars>>

\* get_message raises, and the loop sleeps and subscribes again, or the API
\* stops: what was delivered or is published in between is gone.
Disconnect ==
    /\ listening
    /\ listening' = FALSE
    /\ channel' = <<>>
    /\ handler' = "wait"
    /\ found' = {}
    /\ UNCHANGED <<saverVars, scanned, refreshed, cacheVars, requestVars>>

Receive ==
    /\ listening
    /\ handler = "wait"
    /\ channel # <<>>
    /\ handler' = "fetch"
    /\ UNCHANGED <<saverVars, listening, channel, found, scanned, refreshed,
                   cacheVars, requestVars>>

\* fetch_trend_detail; when it fails or finds nothing the handler returns and
\* the cache is left as it is.
FetchDetail ==
    /\ handler = "fetch"
    /\ \/ handler' = "scan" /\ UNCHANGED channel
       \/ handler' = "wait" /\ channel' = Tail(channel)
    /\ UNCHANGED <<saverVars, listening, found, scanned, refreshed, cacheVars,
                   requestVars>>

\* delete_keys_by_pattern: scan_iter returns the keys present, then they are
\* deleted; what is written in between under a new key survives.
ScanFeeds ==
    /\ handler = "scan"
    /\ found' = {k \in Key : cache[k] # NoBody}
    /\ scanned' = IF scanned < Head(channel) THEN Head(channel) ELSE scanned
    /\ handler' = "delete"
    /\ UNCHANGED <<saverVars, listening, channel, refreshed, cacheVars, requestVars>>

\* Faulty variant: only the feeds the processor writes are deleted.
DeleteWarmFeeds ==
    /\ handler = "delete"
    /\ cache' = [k \in Key |-> IF k \in found \cap WarmKey THEN NoBody ELSE cache[k]]
    /\ refreshed' = IF refreshed < Head(channel) THEN Head(channel) ELSE refreshed
    /\ found' = {}
    /\ channel' = Tail(channel)
    /\ handler' = "wait"
    /\ UNCHANGED <<saverVars, listening, scanned, writtenAt, requestVars>>

\* The message is handled.
DeleteFeeds ==
    /\ handler = "delete"
    /\ cache' = [k \in Key |-> IF k \in found THEN NoBody ELSE cache[k]]
    /\ refreshed' = IF refreshed < Head(channel) THEN Head(channel) ELSE refreshed
    /\ found' = {}
    /\ channel' = Tail(channel)
    /\ handler' = "wait"
    /\ UNCHANGED <<saverVars, listening, scanned, writtenAt, requestVars>>

\* Redis fails during the scan or the delete: some batches of keys are gone.
DeleteFeedsFails ==
    /\ handler \in {"scan", "delete"}
    /\ \E gone \in SUBSET found :
          cache' = [k \in Key |-> IF k \in gone THEN NoBody ELSE cache[k]]
    /\ found' = {}
    /\ channel' = Tail(channel)
    /\ handler' = "wait"
    /\ UNCHANGED <<saverVars, listening, scanned, refreshed, writtenAt, requestVars>>

(***************************************************************************)
(* list_trends.                                                            *)
(***************************************************************************)

\* A request arrives; only the default page is looked up in the cache.
Start(r) ==
    /\ step[r] \in {"idle", "done"}
    /\ \E q \in Query :
        /\ asked' = [asked EXCEPT ![r] = q]
        /\ step' = [step EXCEPT ![r] = IF IsDefault(q) THEN "lookup" ELSE "query"]
    /\ body' = [body EXCEPT ![r] = NoBody]
    /\ UNCHANGED <<saverVars, consumerVars, cacheVars>>

\* get_cached: a hit is returned as it is, whatever was asked to fill it; a miss or an error goes to the
\* database.
Hit(r) ==
    /\ step[r] = "lookup"
    /\ cache[KeyOf[asked[r].feed]] # NoBody
    /\ body' = [body EXCEPT ![r] = cache[KeyOf[asked[r].feed]]]
    /\ step' = [step EXCEPT ![r] = "done"]
    /\ UNCHANGED <<saverVars, consumerVars, cacheVars, asked>>

Miss(r) ==
    /\ step[r] = "lookup"
    /\ step' = [step EXCEPT ![r] = "query"]
    /\ UNCHANGED <<saverVars, consumerVars, cacheVars, asked, body>>

\* Faulty variant: later pages are stored too.
QueryAndStore(r) ==
    /\ step[r] = "query"
    /\ body' = [body EXCEPT ![r] = [shape |-> "response", query |-> asked[r],
                                    version |-> version, seen |-> refreshed]]
    /\ step' = [step EXCEPT ![r] = "store"]
    /\ UNCHANGED <<saverVars, consumerVars, cacheVars, asked>>

\* fetch_trends; the rendered body is stored unless a cursor was given.
QueryTrends(r) ==
    /\ step[r] = "query"
    /\ body' = [body EXCEPT ![r] = [shape |-> "response", query |-> asked[r],
                                    version |-> version, seen |-> refreshed]]
    /\ step' = [step EXCEPT ![r] = IF asked[r].paged THEN "done" ELSE "store"]
    /\ UNCHANGED <<saverVars, consumerVars, cacheVars, asked>>

\* set_cached; its errors are swallowed.
Store(r) ==
    /\ step[r] = "store"
    /\ Write(KeyOf[asked[r].feed], body[r]) \/ UNCHANGED cacheVars
    /\ step' = [step EXCEPT ![r] = "done"]
    /\ UNCHANGED <<saverVars, consumerVars, asked, body>>

\* The database fails (a 500), or the client goes away.
Abort(r) ==
    /\ step[r] \in {"lookup", "query", "store"}
    /\ step' = [step EXCEPT ![r] = "idle"]
    /\ body' = [body EXCEPT ![r] = NoBody]
    /\ UNCHANGED <<saverVars, consumerVars, cacheVars, asked>>

\* Faulty variant: the entry has no TTL.
KeepForever(k) == cache[k] # NoBody /\ UNCHANGED vars

\* An entry outlives its TTL.
Expire(k) ==
    /\ cache[k] # NoBody
    /\ cache' = [cache EXCEPT ![k] = NoBody]
    /\ UNCHANGED <<saverVars, consumerVars, writtenAt, requestVars>>

(***************************************************************************)
(* Specification.                                                          *)
(***************************************************************************)

Saver == Save \/ Publish \/ (\E k \in WarmKey : Warm(k)) \/ SaverDone

Consumer ==
    \/ Subscribe
    \/ Disconnect
    \/ Receive
    \/ FetchDetail
    \/ ScanFeeds
    \/ DeleteFeeds
    \/ DeleteFeedsFails

Answer(r) == Hit(r) \/ Miss(r) \/ QueryTrends(r) \/ Store(r) \/ Abort(r)

Next ==
    \/ Saver
    \/ Consumer
    \/ \E r \in Request : Start(r) \/ Answer(r)
    \/ \E k \in Key : Expire(k)

Spec == Init /\ [][Next]_vars

\* An entry that is older than the database and that nobody overwrites lives out
\* its TTL.
ExpireStale(k) == cache[k] # NoBody /\ cache[k].version < version /\ Expire(k)

\* Each request and the processor's batch run to their end; Redis keeps TTLs.
\* Nothing is assumed of the consumer.
FairSpec ==
    /\ Spec
    /\ \A r \in Request : WF_vars(Answer(r))
    /\ \A k \in WarmKey : WF_vars(Warm(k))
    /\ WF_vars(SaverDone)
    /\ \A k \in Key : WF_vars(ExpireStale(k))

(***************************************************************************)
(* Properties.                                                             *)
(***************************************************************************)

Types ==
    /\ version \in Version
    /\ saver \in {"idle", "publish", "warm"}
    /\ toWarm \in SUBSET WarmKey
    /\ listening \in BOOLEAN
    /\ channel \in Seq(Version)
    /\ handler \in {"wait", "fetch", "scan", "delete"}
    /\ found \in SUBSET Key
    /\ cache \in [Key -> Body \cup {NoBody}]
    /\ step \in [Request -> {"idle", "lookup", "query", "store", "done"}]
    /\ asked \in [Request -> Query \cup {NoQuery}]
    /\ body \in [Request -> Body \cup {NoBody}]
    /\ refreshed \in Version

GhostTypes ==
    /\ scanned \in Version
    /\ writtenAt \in [Key -> Version]

TypeOK == Types /\ GhostTypes

AnswersFor(b, q) ==
    b.shape = "response"
        => /\ b.query.paged = q.paged
           /\ \/ b.query.feed = q.feed
              \/ IsDefault(q) /\ KeyOf[b.query.feed] = KeyOf[q.feed]

\* A later page is only ever answered to a request with a cursor, and a request is
\* answered with the feed it asked for, but for the default page of a feed that
\* shares its key with another: that page may be the other's, never a third's.
AnswersStayInFeed ==
    \A r \in Request : step[r] = "done" => AnswersFor(body[r], asked[r])

\* Publish-after-commit, scan-then-delete and no owner of a key: when the
\* consumer has deleted feed:* for a save, what the cache still holds from before
\* that save was written after the consumer's scan; a response of that kind was
\* read before the delete, by a request that was overtaken.
RefreshHoldsUnlessRaced ==
    \A k \in Key :
        cache[k] # NoBody /\ cache[k].version < refreshed
            => /\ writtenAt[k] >= refreshed
               /\ cache[k].shape = "response" => cache[k].seen < refreshed

(***************************************************************************)
(* The inductive invariant behind the two.                                 *)
(***************************************************************************)

\* A message was published after its save, and is kept until it is handled.
ChannelInv ==
    /\ \A i \in 1 .. Len(channel) : channel[i] <= version
    /\ handler # "wait" => channel # <<>>
    /\ refreshed <= version

\* A body was read from a database that had every save refreshed by then.
ReadInv(b) == b.shape = "response" => b.seen <= b.version

CacheInv ==
    \A k \in Key :
        /\ ReadInv(cache[k])
        /\ cache[k].shape = "response"
              => KeyOf[cache[k].query.feed] = k /\ ~cache[k].query.paged

RequestInv ==
    \A r \in Request :
        /\ ReadInv(body[r])
        /\ step[r] # "idle" => asked[r] \in Query
        /\ step[r] = "lookup" => IsDefault(asked[r])
        /\ step[r] = "store"
              => body[r] \in Response /\ body[r].query = asked[r] /\ ~asked[r].paged

IInv ==
    /\ Types
    /\ ChannelInv
    /\ CacheInv
    /\ RequestInv
    /\ AnswersStayInFeed

\* While the consumer deletes, what it did not find was written after its scan.
ScanInv ==
    /\ refreshed <= scanned
    /\ handler = "delete"
          => /\ Head(channel) <= scanned
             /\ \A k \in Key \ found :
                    cache[k] # NoBody => writtenAt[k] >= Head(channel)

RefreshInv == GhostTypes /\ ScanInv /\ RefreshHoldsUnlessRaced

\* Once the saves stop, every outdated entry leaves the cache, announced or not.
StaleFeedsGoAway ==
    <>[](\A k \in Key : cache[k] = NoBody \/ cache[k].version = version)

\* "Only use cache for first page (no cursor, no time filter, default sort)":
\* a request for the default page is answered with the page it asked for.
DefaultPageIsDefault ==
    \A r \in Request :
        step[r] = "done" /\ IsDefault(asked[r]) /\ body[r].shape = "response"
            => body[r].query = asked[r]

\* list_trends declares response_model=TrendListResponse.
AnswersAreResponses ==
    \A r \in Request : step[r] = "done" => body[r].shape = "response"

=============================================================================
