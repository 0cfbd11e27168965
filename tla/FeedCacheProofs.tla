-------------------------- MODULE FeedCacheProofs --------------------------
(***************************************************************************)
(* Proofs about FeedCache, for every set of feeds and requests and every   *)
(* number of saves.                                                        *)
(***************************************************************************)
EXTENDS FeedCache, TLAPS

USE DEF cacheVars, Write

\* The three kinds of body are told apart by their shape.
LEMMA BodyShapes ==
    /\ \A b \in Body \cup {NoBody} : b.shape = "response" => b \in Response
    /\ NoBody.shape # "response"
    /\ \A b \in BareList : b.shape # "response"
  BY DEF Body, NoBody, Response, BareList

LEMMA InitIInv == Init => IInv
<1> SUFFICES ASSUME Init PROVE IInv
  OBVIOUS
<1> USE DEF Init
<1>1. Types
  <2>1. 0 \in Version /\ <<>> \in Seq(Version)
    BY VersionAssumption DEF Version
  <2>2. /\ cache \in [Key -> Body \cup {NoBody}]
        /\ asked \in [Request -> Query \cup {NoQuery}]
        /\ body \in [Request -> Body \cup {NoBody}]
    BY <2>1
  <2>3. step \in [Request -> {"idle", "lookup", "query", "store", "done"}]
    OBVIOUS
  <2> QED
    BY <2>1, <2>2, <2>3 DEF Types
<1>2. ChannelInv
  BY DEF ChannelInv
<1>3. CacheInv /\ RequestInv /\ AnswersStayInFeed
  BY BodyShapes DEF CacheInv, RequestInv, AnswersStayInFeed, ReadInv
<1> QED
  BY <1>1, <1>2, <1>3 DEF IInv

\* What requests do not change stays true of them.
LEMMA RequestsStay ==
    RequestInv /\ AnswersStayInFeed /\ UNCHANGED requestVars
        => RequestInv' /\ AnswersStayInFeed'
  BY DEF requestVars, RequestInv, AnswersStayInFeed, ReadInv

\* An entry that is kept or removed needs no new justification.
LEMMA CacheShrinks ==
    ASSUME CacheInv, cache \in [Key -> Body \cup {NoBody}],
           \E gone \in SUBSET Key :
               cache' = [k \in Key |-> IF k \in gone THEN NoBody ELSE cache[k]]
    PROVE  CacheInv' /\ cache' \in [Key -> Body \cup {NoBody}]
  BY BodyShapes DEF CacheInv, ReadInv

LEMMA SaverIInv == IInv /\ Saver => IInv'
<1> SUFFICES ASSUME IInv, Saver PROVE IInv'
  OBVIOUS
<1> USE DEF IInv
<1>1. CASE Save
  <2>1. version' \in Version /\ version <= version'
    BY <1>1, VersionAssumption DEF Save, Types, Version
  <2>2. Types'
    <3>1. saver' \in {"idle", "publish", "warm"} /\ toWarm' \in SUBSET WarmKey
      BY <1>1 DEF Save
    <3>2. UNCHANGED <<listening, channel, handler, found, refreshed, cache, step,
                      asked, body>>
      BY <1>1 DEF Save, consumerVars, requestVars
    <3> QED
      BY <2>1, <3>1, <3>2 DEF Types
  <2>3. ChannelInv'
    <3>1. /\ version \in Nat /\ version' \in Nat /\ refreshed \in Nat
          /\ \A i \in 1 .. Len(channel) : channel[i] \in Nat
      BY <2>1, VersionAssumption DEF Types, Version
    <3>2. UNCHANGED <<channel, handler, refreshed>>
      BY <1>1 DEF Save, consumerVars
    <3> QED
      BY <2>1, <3>1, <3>2 DEF ChannelInv
  <2>4. CacheInv'
    BY <1>1 DEF Save, CacheInv, ReadInv
  <2> QED
    BY <1>1, <2>2, <2>3, <2>4, RequestsStay DEF Save
<1>2. CASE Publish
  <2>1. /\ channel' \in Seq(Version)
        /\ \A i \in 1 .. Len(channel') : channel'[i] <= version
        /\ handler # "wait" => channel' # <<>>
    <3>1. channel \in Seq(Version) /\ version \in Version /\ version <= version
      BY DEF Types, Version
    <3>2. CASE UNCHANGED channel
      BY <3>1, <3>2 DEF ChannelInv
    <3>3. CASE channel' = Append(channel, version)
      <4>1. /\ Len(channel') = Len(channel) + 1 /\ Len(channel) \in Nat
            /\ channel' \in Seq(Version)
            /\ \A i \in 1 .. Len(channel) : channel'[i] = channel[i]
            /\ channel'[Len(channel) + 1] = version
        BY <3>1, <3>3
      <4>2. \A i \in 1 .. Len(channel') : i \in 1 .. Len(channel) \/ i = Len(channel) + 1
        BY <4>1
      <4>3. channel' # <<>>
        BY <4>1
      <4> QED
        BY <3>1, <4>1, <4>2, <4>3 DEF ChannelInv
    <3> QED
      BY <1>2, <3>2, <3>3 DEF Publish
  <2>2. Types' /\ ChannelInv'
    BY <1>2, <2>1 DEF Publish, Types, ChannelInv, requestVars
  <2>3. CacheInv'
    BY <1>2 DEF Publish, CacheInv, ReadInv
  <2> QED
    BY <1>2, <2>2, <2>3, RequestsStay DEF Publish
<1>3. CASE \E k \in WarmKey : Warm(k)
  <2>1. PICK k \in WarmKey : Warm(k)
    BY <1>3
  <2> DEFINE list == [shape |-> "list", version |-> version]
  <2>2. list \in BareList
    BY DEF BareList, Types
  <2>3. cache' = [cache EXCEPT ![k] = list] \/ UNCHANGED cache
    BY <2>1 DEF Warm
  <2> HIDE DEF list
  <2>4. CacheInv' /\ cache' \in [Key -> Body \cup {NoBody}]
    BY <2>2, <2>3, BodyShapes, KeyAssumption DEF CacheInv, ReadInv, Types, Body
  <2>5. Types' /\ ChannelInv'
    BY <2>1, <2>4 DEF Warm, Types, ChannelInv, consumerVars, requestVars
  <2> QED
    BY <2>1, <2>4, <2>5, RequestsStay DEF Warm
<1>4. CASE SaverDone
  <2>1. Types' /\ ChannelInv'
    BY <1>4 DEF SaverDone, Types, ChannelInv, consumerVars, requestVars
  <2>2. CacheInv'
    BY <1>4 DEF SaverDone, CacheInv, ReadInv
  <2> QED
    BY <1>4, <2>1, <2>2, RequestsStay DEF SaverDone
<1> QED
  BY <1>1, <1>2, <1>3, <1>4 DEF Saver

LEMMA ConsumerIInv == IInv /\ Consumer => IInv'
<1> SUFFICES ASSUME IInv, Consumer PROVE IInv'
  OBVIOUS
<1> USE DEF IInv
<1>1. UNCHANGED saverVars /\ UNCHANGED requestVars
  BY DEF Consumer, Subscribe, Disconnect, Receive, FetchDetail, ScanFeeds,
         DeleteFeeds, DeleteFeedsFails
<1>2. RequestInv' /\ AnswersStayInFeed'
  BY <1>1, RequestsStay
<1>3. CacheInv' /\ cache' \in [Key -> Body \cup {NoBody}]
  <2>1. CASE UNCHANGED cache
    BY <2>1 DEF CacheInv, ReadInv, Types
  <2>2. CASE DeleteFeeds \/ DeleteFeedsFails
    <3>1. \E gone \in SUBSET Key :
             cache' = [k \in Key |-> IF k \in gone THEN NoBody ELSE cache[k]]
      <4>1. found \in SUBSET Key
        BY DEF Types
      <4>2. CASE DeleteFeeds
        BY <4>1, <4>2 DEF DeleteFeeds
      <4>3. CASE DeleteFeedsFails
        <5>1. PICK gone \in SUBSET found :
                 cache' = [k \in Key |-> IF k \in gone THEN NoBody ELSE cache[k]]
          BY <4>3 DEF DeleteFeedsFails
        <5> QED
          BY <4>1, <5>1
      <4> QED
        BY <2>2, <4>2, <4>3
    <3> QED
      BY <3>1, CacheShrinks DEF Types
  <2> QED
    BY <2>1, <2>2 DEF Consumer, Subscribe, Disconnect, Receive, FetchDetail, ScanFeeds
<1>4. CASE Subscribe \/ Disconnect \/ Receive \/ ScanFeeds
  <2>1. Types'
    <3>1. UNCHANGED <<version, saver, toWarm, step, asked, body, refreshed>>
      BY <1>1, <1>4 DEF saverVars, requestVars, Subscribe, Disconnect, Receive,
                        ScanFeeds
    <3>2. /\ listening' \in BOOLEAN /\ found' \in SUBSET Key
          /\ handler' \in {"wait", "fetch", "scan", "delete"}
          /\ channel' \in Seq(Version)
      <4>1. CASE Subscribe
        BY <4>1 DEF Types, Subscribe
      <4>2. CASE Disconnect
        <5>1. <<>> \in Seq(Version)
          OBVIOUS
        <5> QED
          BY <4>2, <5>1 DEF Types, Disconnect
      <4>3. CASE Receive
        BY <4>3 DEF Types, Receive
      <4>4. CASE ScanFeeds
        BY <4>4 DEF Types, ScanFeeds
      <4> QED
        BY <1>4, <4>1, <4>2, <4>3, <4>4
    <3> QED
      BY <1>3, <3>1, <3>2 DEF Types
  <2>2. ChannelInv'
    BY <1>1, <1>4 DEF ChannelInv, Subscribe, Disconnect, Receive, ScanFeeds, saverVars
  <2> QED
    BY <1>2, <1>3, <2>1, <2>2
<1>5. CASE FetchDetail \/ DeleteFeeds \/ DeleteFeedsFails
  <2>1. channel # <<>> /\ channel \in Seq(Version)
    BY <1>5 DEF FetchDetail, DeleteFeeds, DeleteFeedsFails, ChannelInv, Types
  <2>2. /\ Tail(channel) \in Seq(Version)
        /\ Len(Tail(channel)) = Len(channel) - 1 /\ Len(channel) \in Nat
        /\ \A i \in 1 .. Len(Tail(channel)) : Tail(channel)[i] = channel[i + 1]
        /\ Head(channel) \in Version /\ Head(channel) <= version
    BY <2>1 DEF ChannelInv
  <2>3. \A i \in 1 .. Len(Tail(channel)) : Tail(channel)[i] <= version
    BY <2>2 DEF ChannelInv
  <2>4. CASE FetchDetail
    <3>1. Types'
      BY <1>1, <1>3, <2>2, <2>4 DEF Types, FetchDetail, saverVars, requestVars
    <3>2. ChannelInv'
      BY <1>1, <2>1, <2>3, <2>4 DEF ChannelInv, FetchDetail, saverVars
    <3> QED
      BY <1>2, <1>3, <3>1, <3>2
  <2>5. CASE DeleteFeeds \/ DeleteFeedsFails
    <3>1. /\ channel' = Tail(channel) /\ handler' = "wait" /\ found' = {}
          /\ refreshed' \in {refreshed, Head(channel)}
          /\ UNCHANGED listening
      BY <2>5 DEF DeleteFeeds, DeleteFeedsFails
    <3>2. Types'
      BY <1>1, <1>3, <2>2, <3>1 DEF Types, saverVars, requestVars
    <3>3. ChannelInv'
      BY <1>1, <2>2, <2>3, <3>1 DEF ChannelInv, saverVars
    <3> QED
      BY <1>2, <1>3, <3>2, <3>3
  <2> QED
    BY <1>5, <2>4, <2>5
<1> QED
  BY <1>4, <1>5 DEF Consumer

\* A request touches its own entries of the request functions only.
LEMMA RequestsKeep ==
    ASSUME IInv, NEW r \in Request,
           \A p \in Request \ {r} :
               /\ step'[p] = step[p] /\ asked'[p] = asked[p] /\ body'[p] = body[p],
           /\ ReadInv(body[r])'
           /\ step'[r] # "idle" => asked'[r] \in Query
           /\ step'[r] = "lookup" => IsDefault(asked[r])'
           /\ step'[r] = "store" => /\ body'[r] \in Response
                                    /\ body'[r].query = asked'[r]
                                    /\ ~asked'[r].paged,
           step'[r] = "done" => AnswersFor(body'[r], asked'[r])
    PROVE  RequestInv' /\ AnswersStayInFeed'
<1>1. RequestInv'
  BY DEF IInv, RequestInv, ReadInv, IsDefault
<1>2. AnswersStayInFeed'
  BY DEF IInv, AnswersStayInFeed
<1> QED
  BY <1>1, <1>2

LEMMA RequestIInv ==
    ASSUME IInv, NEW r \in Request, Start(r) \/ Answer(r)
    PROVE  IInv'
<1> USE DEF IInv
<1>1. UNCHANGED saverVars /\ UNCHANGED consumerVars
  BY DEF Start, Answer, Hit, Miss, QueryTrends, Store, Abort
<1>2. ChannelInv'
  BY <1>1 DEF ChannelInv, saverVars, consumerVars
<1>3. SUFFICES /\ cache' \in [Key -> Body \cup {NoBody}] /\ CacheInv'
               /\ step' \in [Request -> {"idle", "lookup", "query", "store", "done"}]
               /\ asked' \in [Request -> Query \cup {NoQuery}]
               /\ body' \in [Request -> Body \cup {NoBody}]
               /\ RequestInv' /\ AnswersStayInFeed'
  BY <1>1, <1>2 DEF Types, saverVars, consumerVars
<1>4. CASE Start(r)
  <2>1. PICK q \in Query :
          /\ asked' = [asked EXCEPT ![r] = q]
          /\ step' = [step EXCEPT ![r] = IF IsDefault(q) THEN "lookup" ELSE "query"]
    BY <1>4 DEF Start
  <2>2. /\ body' = [body EXCEPT ![r] = NoBody] /\ UNCHANGED cache
    BY <1>4 DEF Start
  <2>3. RequestInv' /\ AnswersStayInFeed'
    BY <2>1, <2>2, RequestsKeep, BodyShapes DEF ReadInv, IsDefault, Types
  <2> QED
    BY <2>1, <2>2, <2>3 DEF Types, CacheInv, ReadInv
<1>5. CASE Hit(r)
  <2>1. /\ step[r] = "lookup" /\ asked[r] \in Query /\ IsDefault(asked[r])
        /\ KeyOf[asked[r].feed] \in Key /\ ~asked[r].paged
    BY <1>5, KeyAssumption DEF Hit, RequestInv, IsDefault, Query
  <2>2. /\ body' = [body EXCEPT ![r] = cache[KeyOf[asked[r].feed]]]
        /\ step' = [step EXCEPT ![r] = "done"]
        /\ UNCHANGED <<cache, asked>>
    BY <1>5 DEF Hit
  <2> DEFINE entry == cache[KeyOf[asked[r].feed]]
  <2>3. /\ entry \in Body \cup {NoBody} /\ ReadInv(entry)
        /\ entry.shape = "response"
              => KeyOf[entry.query.feed] = KeyOf[asked[r].feed] /\ ~entry.query.paged
    BY <2>1 DEF CacheInv, Types
  <2>4. entry.shape = "response" => entry.query.paged \in BOOLEAN
    BY <2>3, BodyShapes DEF Response, Query
  <2>5. asked[r].paged \in BOOLEAN
    BY <2>1 DEF Query
  <2>6. /\ body' \in [Request -> Body \cup {NoBody}]
        /\ step' \in [Request -> {"idle", "lookup", "query", "store", "done"}]
        /\ body'[r] = entry /\ step'[r] = "done" /\ asked' = asked
        /\ \A p \in Request \ {r} : step'[p] = step[p] /\ body'[p] = body[p]
    BY <2>2, <2>3 DEF Types
  <2>7. AnswersFor(entry, asked[r])
    BY <2>1, <2>3, <2>4, <2>5 DEF AnswersFor
  <2>8. RequestInv' /\ AnswersStayInFeed'
    BY <2>1, <2>3, <2>6, <2>7, RequestsKeep DEF ReadInv
  <2> QED
    BY <2>2, <2>6, <2>8 DEF Types, CacheInv, ReadInv
<1>6. CASE Miss(r)
  <2>1. /\ step[r] = "lookup" /\ step' = [step EXCEPT ![r] = "query"]
        /\ UNCHANGED <<cache, asked, body>>
    BY <1>6 DEF Miss
  <2>2. RequestInv' /\ AnswersStayInFeed'
    BY <2>1, RequestsKeep DEF RequestInv, ReadInv, Types
  <2> QED
    BY <2>1, <2>2 DEF Types, CacheInv, ReadInv
<1>7. CASE QueryTrends(r)
  <2> DEFINE answer == [shape |-> "response", query |-> asked[r],
                        version |-> version, seen |-> refreshed]
  <2>1. /\ step[r] = "query" /\ asked[r] \in Query
        /\ body' = [body EXCEPT ![r] = answer]
        /\ step' = [step EXCEPT ![r] = IF asked[r].paged THEN "done" ELSE "store"]
        /\ UNCHANGED <<cache, asked>>
    BY <1>7 DEF QueryTrends, RequestInv
  <2>2. /\ answer \in Response /\ ReadInv(answer) /\ answer.query = asked[r]
        /\ AnswersFor(answer, asked[r])
    BY <2>1 DEF Response, ReadInv, Types, ChannelInv, AnswersFor
  <2> HIDE DEF answer
  <2>3. /\ body' \in [Request -> Body \cup {NoBody}]
        /\ step' \in [Request -> {"idle", "lookup", "query", "store", "done"}]
        /\ body'[r] = answer /\ asked' = asked
        /\ step'[r] = IF asked[r].paged THEN "done" ELSE "store"
        /\ \A p \in Request \ {r} : step'[p] = step[p] /\ body'[p] = body[p]
    BY <2>1, <2>2 DEF Types, Body
  <2>4. RequestInv' /\ AnswersStayInFeed'
    BY <2>1, <2>2, <2>3, RequestsKeep DEF ReadInv
  <2> QED
    BY <2>1, <2>3, <2>4 DEF Types, CacheInv, ReadInv
<1>8. CASE Store(r)
  <2>1. /\ step[r] = "store" /\ asked[r] \in Query /\ ~asked[r].paged
        /\ body[r] \in Response /\ body[r].query = asked[r] /\ ReadInv(body[r])
        /\ KeyOf[asked[r].feed] \in Key
    BY <1>8, KeyAssumption DEF Store, RequestInv, Query
  <2>2. /\ step' = [step EXCEPT ![r] = "done"]
        /\ cache' = [cache EXCEPT ![KeyOf[asked[r].feed]] = body[r]] \/ UNCHANGED cache
        /\ UNCHANGED <<asked, body>>
    BY <1>8 DEF Store
  <2>3. CacheInv' /\ cache' \in [Key -> Body \cup {NoBody}]
    BY <2>1, <2>2 DEF CacheInv, ReadInv, Types, Body
  <2>4. AnswersFor(body[r], asked[r])
    BY <2>1 DEF AnswersFor
  <2>5. RequestInv' /\ AnswersStayInFeed'
    BY <2>1, <2>2, <2>4, RequestsKeep DEF ReadInv, Types
  <2> QED
    BY <2>2, <2>3, <2>5 DEF Types
<1>9. CASE Abort(r)
  <2>1. /\ step' = [step EXCEPT ![r] = "idle"] /\ body' = [body EXCEPT ![r] = NoBody]
        /\ UNCHANGED <<cache, asked>>
    BY <1>9 DEF Abort
  <2>2. RequestInv' /\ AnswersStayInFeed'
    BY <2>1, RequestsKeep, BodyShapes DEF ReadInv, Types
  <2> QED
    BY <2>1, <2>2 DEF Types, CacheInv, ReadInv
<1> QED
  BY <1>4, <1>5, <1>6, <1>7, <1>8, <1>9 DEF Answer

LEMMA ExpireIInv ==
    ASSUME IInv, NEW k \in Key, Expire(k)
    PROVE  IInv'
<1> USE DEF IInv
<1>1. CacheInv' /\ cache' \in [Key -> Body \cup {NoBody}]
  BY BodyShapes DEF Expire, CacheInv, ReadInv, Types
<1>2. Types' /\ ChannelInv'
  BY <1>1 DEF Expire, Types, ChannelInv, saverVars, consumerVars, requestVars
<1> QED
  BY <1>1, <1>2, RequestsStay DEF Expire

LEMMA StutterIInv == IInv /\ UNCHANGED vars => IInv'
  BY DEF IInv, vars, saverVars, consumerVars, requestVars, Types, ChannelInv,
         CacheInv, RequestInv, AnswersStayInFeed, ReadInv

(***************************************************************************)
(* The refresh.                                                            *)
(***************************************************************************)

LEMMA InitRefreshInv == Init => RefreshInv
  BY VersionAssumption
  DEF Init, RefreshInv, GhostTypes, ScanInv, RefreshHoldsUnlessRaced, Version, NoBody

\* Versions are numbers.
LEMMA VersionsAreNumbers ==
    ASSUME IInv, RefreshInv
    PROVE  /\ Version \subseteq Nat
           /\ version \in Nat /\ scanned \in Nat /\ refreshed \in Nat
           /\ \A k \in Key : writtenAt[k] \in Nat
           /\ channel # <<>> => Head(channel) \in Version
<1>1. Version \subseteq Nat
  BY VersionAssumption DEF Version
<1>2. channel # <<>> => Head(channel) \in Version
  BY DEF IInv, Types
<1> QED
  BY <1>1, <1>2 DEF IInv, RefreshInv, GhostTypes, Types

\* A body that is stored is as recent as the refreshes it has seen.
LEMMA StoredBody ==
    ASSUME IInv, RefreshInv, NEW k \in Key, NEW b, Write(k, b),
           b.shape = "response" => b \in Response /\ b.seen <= b.version,
           UNCHANGED consumerVars
    PROVE  RefreshInv'
<1> USE VersionsAreNumbers
<1>1. GhostTypes'
  BY DEF RefreshInv, GhostTypes, consumerVars
<1>2. /\ \A j \in Key \ {k} : cache'[j] = cache[j] /\ writtenAt'[j] = writtenAt[j]
      /\ cache'[k] = b /\ writtenAt'[k] = scanned
  BY DEF IInv, Types, RefreshInv, GhostTypes
<1>3. ScanInv'
  BY <1>2 DEF RefreshInv, ScanInv, consumerVars
<1>4. b.shape = "response" /\ b.version < refreshed => b.seen < refreshed
  BY DEF Response
<1>5. scanned >= refreshed
  BY DEF RefreshInv, ScanInv
<1>6. RefreshHoldsUnlessRaced'
  BY <1>2, <1>4, <1>5 DEF RefreshInv, RefreshHoldsUnlessRaced, consumerVars
<1> QED
  BY <1>1, <1>3, <1>6 DEF RefreshInv

\* Removing entries needs no new justification either.
LEMMA RefreshShrinks ==
    ASSUME RefreshInv, NEW gone \in SUBSET Key,
           cache' = [k \in Key |-> IF k \in gone THEN NoBody ELSE cache[k]],
           UNCHANGED <<writtenAt, scanned, refreshed>>,
           handler' = "wait" \/ UNCHANGED <<handler, found, channel>>
    PROVE  RefreshInv'
<1>1. \A k \in Key : cache'[k] # NoBody => cache'[k] = cache[k] /\ cache[k] # NoBody
  OBVIOUS
<1>2. GhostTypes'
  BY DEF RefreshInv, GhostTypes
<1>3. ScanInv'
  BY <1>1 DEF RefreshInv, ScanInv
<1>4. RefreshHoldsUnlessRaced'
  BY <1>1 DEF RefreshInv, RefreshHoldsUnlessRaced
<1> QED
  BY <1>2, <1>3, <1>4 DEF RefreshInv

\* Nor does a step that leaves the cache and the consumer's work alone.
LEMMA RefreshStays ==
    ASSUME RefreshInv, UNCHANGED <<cacheVars, scanned, refreshed>>,
           handler' # "delete" \/ (UNCHANGED <<handler, found>> /\ Head(channel') = Head(channel))
    PROVE  RefreshInv'
  BY DEF RefreshInv, GhostTypes, ScanInv, RefreshHoldsUnlessRaced

LEMMA ConsumerRefreshInv ==
    ASSUME IInv, RefreshInv, Consumer
    PROVE  RefreshInv'
<1> USE VersionsAreNumbers
<1>1. CASE Subscribe \/ Disconnect \/ Receive \/ FetchDetail
  <2>1. UNCHANGED <<cacheVars, scanned, refreshed>>
    BY <1>1 DEF Subscribe, Disconnect, Receive, FetchDetail
  <2>2. handler' # "delete" \/ (UNCHANGED <<handler, found>> /\ Head(channel') = Head(channel))
    BY <1>1 DEF Subscribe, Disconnect, Receive, FetchDetail
  <2> QED
    BY <2>1, <2>2, RefreshStays
<1>2. CASE ScanFeeds
  <2>1. channel # <<>> /\ Head(channel) \in Version
    BY <1>2 DEF ScanFeeds, IInv, ChannelInv
  <2>2. /\ found' = {k \in Key : cache[k] # NoBody}
        /\ scanned' = IF scanned < Head(channel) THEN Head(channel) ELSE scanned
        /\ UNCHANGED <<channel, refreshed, cache, writtenAt>>
    BY <1>2 DEF ScanFeeds
  <2>3. GhostTypes'
    BY <2>1, <2>2 DEF RefreshInv, GhostTypes
  <2>4. ScanInv'
    BY <2>1, <2>2 DEF RefreshInv, ScanInv
  <2>5. RefreshHoldsUnlessRaced'
    BY <2>2 DEF RefreshInv, RefreshHoldsUnlessRaced
  <2> QED
    BY <2>3, <2>4, <2>5 DEF RefreshInv
<1>3. CASE DeleteFeeds
  <2>1. /\ handler = "delete" /\ handler' = "wait"
        /\ cache' = [k \in Key |-> IF k \in found THEN NoBody ELSE cache[k]]
        /\ refreshed' = IF refreshed < Head(channel) THEN Head(channel) ELSE refreshed
        /\ UNCHANGED <<scanned, writtenAt>>
    BY <1>3 DEF DeleteFeeds
  <2>2. channel # <<>> /\ Head(channel) \in Nat
    BY <2>1 DEF IInv, ChannelInv
  <2>3. GhostTypes' /\ ScanInv'
    BY <2>1, <2>2 DEF RefreshInv, GhostTypes, ScanInv
  <2>4. ASSUME NEW k \in Key, cache'[k] # NoBody, cache'[k].version < refreshed'
        PROVE  /\ writtenAt[k] >= refreshed'
               /\ cache'[k].shape = "response" => cache'[k].seen < refreshed'
    <3>1. k \notin found /\ cache'[k] = cache[k] /\ cache[k] # NoBody
      BY <2>1, <2>4
    <3>2. writtenAt[k] >= Head(channel)
      BY <2>1, <3>1 DEF RefreshInv, ScanInv
    <3>3. cache[k].version < refreshed => writtenAt[k] >= refreshed
      BY <3>1 DEF RefreshInv, RefreshHoldsUnlessRaced
    <3>4. cache[k].shape = "response" => cache[k] \in Response
                                         /\ cache[k].seen <= cache[k].version
      BY BodyShapes DEF IInv, Types, CacheInv, ReadInv
    <3>5. cache[k].shape = "response" => cache[k].seen \in Nat /\ cache[k].version \in Nat
      BY <3>4 DEF Response
    <3>6. refreshed' \in Nat
      BY <2>1, <2>2
    <3>7. writtenAt[k] >= refreshed'
      BY <2>1, <2>2, <2>4, <3>1, <3>2, <3>3
    <3>8. cache[k].shape = "response" => cache[k].seen < refreshed'
      BY <2>4, <3>1, <3>4, <3>5, <3>6
    <3> QED
      BY <3>1, <3>7, <3>8
  <2> QED
    BY <2>1, <2>3, <2>4 DEF RefreshInv, RefreshHoldsUnlessRaced
<1>4. CASE DeleteFeedsFails
  <2>1. PICK gone \in SUBSET found :
           cache' = [k \in Key |-> IF k \in gone THEN NoBody ELSE cache[k]]
    BY <1>4 DEF DeleteFeedsFails
  <2>2. gone \in SUBSET Key
    BY <2>1 DEF IInv, Types
  <2>3. UNCHANGED <<writtenAt, scanned, refreshed>> /\ handler' = "wait"
    BY <1>4 DEF DeleteFeedsFails
  <2> QED
    BY <2>1, <2>2, <2>3, RefreshShrinks
<1> QED
  BY <1>1, <1>2, <1>3, <1>4 DEF Consumer

LEMMA NextRefreshInv ==
    ASSUME IInv, RefreshInv, [Next]_vars
    PROVE  RefreshInv'
<1>1. CASE \E k \in WarmKey : Warm(k)
  <2>1. PICK k \in WarmKey : Warm(k)
    BY <1>1
  <2> DEFINE list == [shape |-> "list", version |-> version]
  <2>2. k \in Key /\ list.shape # "response" /\ UNCHANGED consumerVars
    BY <2>1, KeyAssumption DEF Warm
  <2>3. Write(k, list) \/ UNCHANGED cacheVars
    BY <2>1 DEF Warm
  <2> HIDE DEF list
  <2>4. CASE Write(k, list)
    BY <2>2, <2>4, StoredBody
  <2>5. CASE UNCHANGED cacheVars
    BY <2>2, <2>5, RefreshStays DEF consumerVars
  <2> QED
    BY <2>3, <2>4, <2>5
<1>2. ASSUME NEW r \in Request, Store(r) PROVE RefreshInv'
  <2>1. /\ KeyOf[asked[r].feed] \in Key /\ body[r] \in Response
        /\ body[r].seen <= body[r].version /\ UNCHANGED consumerVars
    BY <1>2, BodyShapes, KeyAssumption DEF Store, IInv, RequestInv, Query, ReadInv, Response
  <2>2. CASE Write(KeyOf[asked[r].feed], body[r])
    BY <2>1, <2>2, StoredBody
  <2>3. CASE UNCHANGED cacheVars
    BY <2>1, <2>3, RefreshStays DEF consumerVars
  <2> QED
    BY <1>2, <2>2, <2>3 DEF Store
<1>3. ASSUME NEW k \in Key, Expire(k) PROVE RefreshInv'
  <2>1. cache' = [j \in Key |-> IF j \in {k} THEN NoBody ELSE cache[j]]
    BY <1>3 DEF Expire, IInv, Types
  <2>2. UNCHANGED <<writtenAt, scanned, refreshed, handler, found, channel>>
    BY <1>3 DEF Expire, consumerVars
  <2> QED
    BY <2>1, <2>2, RefreshShrinks
<1>4. CASE Publish
  <2>1. UNCHANGED <<handler, found, scanned, refreshed, cacheVars>>
    BY <1>4 DEF Publish
  <2>2. handler = "delete" => Head(channel') = Head(channel)
    <3>1. handler = "delete" => channel # <<>>
      BY DEF IInv, ChannelInv
    <3>2. channel \in Seq(Version)
      BY DEF IInv, Types
    <3>3. channel' = channel \/ channel' = Append(channel, version)
      BY <1>4 DEF Publish
    <3> QED
      BY <3>1, <3>2, <3>3
  <2> QED
    BY <2>1, <2>2, RefreshStays
<1>5. CASE UNCHANGED <<consumerVars, cacheVars>>
  BY <1>5, RefreshStays DEF consumerVars
<1>6. \/ UNCHANGED <<consumerVars, cacheVars>>
      \/ Publish \/ (\E k \in WarmKey : Warm(k)) \/ Consumer
      \/ (\E r \in Request : Store(r)) \/ (\E k \in Key : Expire(k))
  BY DEF Next, Saver, Save, SaverDone, Start, Answer, Hit, Miss, QueryTrends, Abort, vars
<1> QED
  BY <1>1, <1>2, <1>3, <1>4, <1>5, <1>6, ConsumerRefreshInv

(***************************************************************************)
(* The theorems.                                                           *)
(***************************************************************************)

THEOREM Invariance == Spec => [](IInv /\ RefreshInv)
<1>1. Init => IInv /\ RefreshInv
  BY InitIInv, InitRefreshInv
<1>2. IInv /\ RefreshInv /\ [Next]_vars => IInv' /\ RefreshInv'
  <2>1. IInv /\ [Next]_vars => IInv'
    BY SaverIInv, ConsumerIInv, RequestIInv, ExpireIInv, StutterIInv DEF Next
  <2> QED
    BY <2>1, NextRefreshInv
<1> QED
  BY <1>1, <1>2, PTL DEF Spec

\* Every variable of the feed cache's processes stays in its range.
THEOREM TypeCorrect == Spec => []TypeOK
<1>1. IInv /\ RefreshInv => TypeOK
  BY DEF IInv, RefreshInv, TypeOK
<1> QED
  BY <1>1, Invariance, PTL

\* No request of list_trends is answered with a later page it did not ask for, nor
\* with another feed, unless it asked for the default page of one of two feeds that
\* have the same key.
THEOREM FeedsAreSeparate == Spec => []AnswersStayInFeed
<1>1. IInv => AnswersStayInFeed
  BY DEF IInv
<1> QED
  BY <1>1, Invariance, PTL

\* A refresh removes every outdated entry but what was stored after its scan, by
\* requests that had read the database before the delete.
THEOREM RefreshRemovesStale == Spec => []RefreshHoldsUnlessRaced
<1>1. RefreshInv => RefreshHoldsUnlessRaced
  BY DEF RefreshInv
<1> QED
  BY <1>1, Invariance, PTL

=============================================================================
