------------------------------ MODULE Pipeline ------------------------------
(***************************************************************************)
(* The processor service: the poll loop of backend/processor/main.py, the  *)
(* duplicate filter of processor/shared/dedupe_filter.py and the stages of *)
(* processor/stages/ that process_articles chains together.                *)
(*                                                                         *)
(* One processor runs (docker-compose gives it a fixed container name), so *)
(* its batch is a sequential process; around it the crawler inserts rows,  *)
(* Redis drops or expires its sets, statements fail, acknowledgements get  *)
(* lost and the process crashes between any two awaited calls.             *)
(*                                                                         *)
(* Articles are rows of news_article.  A row's url decides its url_hash    *)
(* and its title and body decide its content fingerprint: both are         *)
(* constant functions.  Group ids are the numbers 1 .. nGroups in the      *)
(* order the groups were committed; 0 stands for a NULL group_id.          *)
(***************************************************************************)
EXTENDS Naturals, FiniteSets

CONSTANTS
    Row,          \* rows the crawler may insert in news_article
    Url,          \* url hashes
    Fingerprint,  \* content fingerprints
    UrlOf,        \* [Row -> Url]
    FpOf,         \* [Row -> Fingerprint]
    Rank,         \* [Row -> Nat], the order of publish_time
    BatchSize,    \* _BATCH_SIZE, the LIMIT of _fetch_unprocessed
    MaxScore,     \* scores are 0 .. MaxScore
    MaxFaults     \* bound on failed writes, lost acknowledgements and crashes

ASSUME RowAssumption ==
    /\ IsFiniteSet(Row)
    /\ UrlOf \in [Row -> Url]
    /\ FpOf \in [Row -> Fingerprint]
    /\ Rank \in [Row -> Nat]

ASSUME BoundAssumption ==
    /\ BatchSize \in Nat \ {0}
    /\ MaxScore \in Nat
    /\ MaxFaults \in Nat

NoGroup == 0

Score == 0 .. MaxScore

Stages == {"idle", "dedupe", "filter", "groups", "match", "cluster", "score", "save",
           "single", "singleUpdate", "publish", "warm"}

VARIABLES
    (* PostgreSQL *)
    crawled,    \* rows of news_article
    inserting,  \* rows whose url the crawler looked up and did not find
    groupOf,    \* [Row -> Nat], news_article.group_id
    nGroups,    \* number of rows of news_group
    score,      \* news_group.score, by group id
    (* Redis *)
    redisUrl,   \* the set dedupe:url_hash
    redisFp,    \* the set dedupe:content_fp
    (* the processor's memory *)
    bloom,      \* url hashes added to the Bloom filter
    pc,         \* the stage the batch is in
    todo,       \* rows the current stage has still to visit
    passed,     \* rows the stages so far have let through
    snapshot,   \* groups stage_match_existing_groups fetched, with their score
    clusters,   \* clusters to save: disjoint sets of rows
    current,    \* the group a one-by-one save is filling
    announce,   \* groups committed and not yet published on trends:new
    faults      \* failures so far, bounded by MaxFaults

VARIABLES
    (* history: what the properties compare with *)
    fetched,    \* rows some batch contained
    admitted,   \* rows the duplicate filter let through at least once
    rejected,   \* rows the duplicate filter refused at least once
    unsaved,    \* rows of a cluster whose save raised
    inDoubt,    \* urls whose UPDATE was applied though the caller saw an error
    published   \* groups published on trends:new

crawlVars == <<crawled, inserting>>
dbVars == <<crawlVars, groupOf, nGroups, score>>
redisVars == <<redisUrl, redisFp>>
batchVars == <<pc, todo, passed, snapshot, clusters, current, announce>>
historyVars == <<fetched, admitted, rejected, unsaved, inDoubt, published>>
vars == <<dbVars, redisVars, bloom, batchVars, faults, historyVars>>

(***************************************************************************)
(* Helpers.                                                                *)
(***************************************************************************)

\* The rows of S that ORDER BY publish_time DESC puts first.
Newest(S) == {r \in S : \A s \in S : Rank[s] <= Rank[r]}

\* Faulty variant: the query forgets WHERE group_id IS NULL.
EverythingUnprocessed == crawled

\* The rows of _fetch_unprocessed, before the LIMIT.
Unprocessed == {r \in crawled : groupOf[r] = NoGroup}

\* Faulty variant: the LIMIT is one short.
ShortBatches(S) ==
    {B \in SUBSET S :
        /\ Cardinality(B) <= BatchSize - 1
        /\ B = S \/ Cardinality(B) = BatchSize - 1
        /\ \A b \in B : \A s \in S \ B : Rank[s] <= Rank[b]}

\* The rows SELECT ... WHERE group_id IS NULL ORDER BY ... LIMIT may return.
Batches(S) ==
    {B \in SUBSET S :
        /\ Cardinality(B) <= BatchSize
        /\ B = S \/ Cardinality(B) = BatchSize
        /\ \A b \in B : \A s \in S \ B : Rank[s] <= Rank[b]}

\* UPDATE news_article SET group_id = g WHERE url_hash = u: every row of the
\* url, whatever its group_id was.
Assign(g, u) ==
    [r \in Row |-> IF r \in crawled /\ UrlOf[r] = u THEN g ELSE groupOf[r]]

\* The ways to divide S into clusters.
Partitions(S) ==
    {P \in SUBSET ((SUBSET S) \ {{}}) :
        /\ UNION P = S
        /\ \A A, B \in P : A = B \/ A \cap B = {}}

Urls(S) == {UrlOf[r] : r \in S}

NoSnapshot == [g \in {} |-> 0]

NoCurrent == [group |-> NoGroup, rows |-> {}]

Fault == faults < MaxFaults /\ faults' = faults + 1

NoFault == faults' = faults

(***************************************************************************)
(* Initial state: an empty database, Redis and Bloom filter.               *)
(***************************************************************************)

Init ==
    /\ crawled = {}
    /\ inserting = {}
    /\ groupOf = [r \in Row |-> NoGroup]
    /\ nGroups = 0
    /\ score = [g \in {} |-> 0]
    /\ redisUrl = {}
    /\ redisFp = {}
    /\ bloom = {}
    /\ pc = "idle"
    /\ todo = {}
    /\ passed = {}
    /\ snapshot = NoSnapshot
    /\ clusters = {}
    /\ current = NoCurrent
    /\ announce = {}
    /\ faults = 0
    /\ fetched = {}
    /\ admitted = {}
    /\ rejected = {}
    /\ unsaved = {}
    /\ inDoubt = {}
    /\ published = {}

(***************************************************************************)
(* The processor's surroundings.                                           *)
(***************************************************************************)

\* _process_entries looks the url of an entry up, extracts and classifies the
\* body, and only then inserts the row.  url_hash has no unique constraint, so
\* two crawls that both looked the url up in time both insert it.
LookUp(r) ==
    /\ r \notin crawled \cup inserting
    /\ \A s \in crawled : UrlOf[s] # UrlOf[r]
    /\ inserting' = inserting \cup {r}
    /\ UNCHANGED <<crawled, groupOf, nGroups, score, redisVars, bloom,
                   batchVars, faults, historyVars>>

Insert(r) ==
    /\ r \in inserting
    /\ inserting' = inserting \ {r}
    /\ crawled' = crawled \cup {r}
    /\ UNCHANGED <<groupOf, nGroups, score, redisVars, bloom, batchVars,
                   faults, historyVars>>

\* The dedupe keys outlive _REDIS_SET_TTL, or Redis loses them.
ExpireUrlSet ==
    /\ redisUrl # {}
    /\ redisUrl' = {}
    /\ UNCHANGED <<dbVars, redisFp, bloom, batchVars, faults, historyVars>>

ExpireFpSet ==
    /\ redisFp # {}
    /\ redisFp' = {}
    /\ UNCHANGED <<dbVars, redisUrl, bloom, batchVars, faults, historyVars>>

\* The process stops anywhere and is started again: its batch and its Bloom
\* filter are gone, the database and Redis keep what they have.
Restart ==
    /\ Fault
    /\ bloom' = {}
    /\ pc' = "idle"
    /\ todo' = {}
    /\ passed' = {}
    /\ snapshot' = NoSnapshot
    /\ clusters' = {}
    /\ current' = NoCurrent
    /\ announce' = {}
    /\ UNCHANGED <<dbVars, redisVars, historyVars>>

(***************************************************************************)
(* The poll loop and the duplicate filter.                                 *)
(***************************************************************************)

\* One turn of _poll_loop that finds rows: _fetch_unprocessed and the start of
\* process_articles.
Fetch ==
    /\ pc = "idle"
    /\ Unprocessed # {}
    /\ \E B \in Batches(Unprocessed) :
        /\ todo' = B
        /\ fetched' = fetched \cup B
    /\ passed' = {}
    /\ pc' = "dedupe"
    /\ UNCHANGED <<dbVars, redisVars, bloom, snapshot, clusters, current,
                   announce, faults, admitted, rejected, unsaved, inDoubt,
                   published>>

\* A turn that finds none: the loop only sleeps.
PollNothing ==
    /\ pc = "idle"
    /\ Unprocessed = {}
    /\ UNCHANGED vars

\* stage_dedupe moves to the next row; a batch of duplicates ends here.
AfterDedupe(r, let) ==
    /\ todo' = todo \ {r}
    /\ passed' = IF let THEN passed \cup {r} ELSE passed
    /\ pc' = IF todo' # {} THEN "dedupe"
             ELSE IF passed' = {} THEN "idle" ELSE "filter"
    /\ admitted' = IF let THEN admitted \cup {r} ELSE admitted
    /\ rejected' = IF let THEN rejected ELSE rejected \cup {r}
    /\ UNCHANGED <<dbVars, snapshot, clusters, current, announce, faults,
                   fetched, unsaved, inDoubt, published>>

\* Faulty variant: the two keys are swapped.
RegisterSwapped(r) ==
    /\ redisUrl' = redisUrl \cup {FpOf[r]}
    /\ redisFp' = redisFp \cup {UrlOf[r]}

\* _register_in_redis: both sets, or neither when Redis fails (swallowed).
Register(r) ==
    \/ /\ redisUrl' = redisUrl \cup {UrlOf[r]}
       /\ redisFp' = redisFp \cup {FpOf[r]}
    \/ UNCHANGED redisVars

\* might_contain is TRUE for every url that was added, and for others by chance.
DedupeNew(r) ==
    /\ pc = "dedupe"
    /\ r \in Newest(todo)
    /\ UrlOf[r] \notin bloom
    /\ bloom' = bloom \cup {UrlOf[r]}
    /\ Register(r)
    /\ AfterDedupe(r, TRUE)

\* Faulty variant: a Bloom hit, which may be a collision, is taken for a duplicate.
TrustBloom(r) ==
    /\ pc = "dedupe"
    /\ r \in Newest(todo)
    /\ UNCHANGED <<bloom, redisVars>>
    /\ AfterDedupe(r, FALSE)

\* Bloom hit, real or false: Redis decides, first by url, then by content.
DedupeDuplicate(r) ==
    /\ pc = "dedupe"
    /\ r \in Newest(todo)
    /\ UrlOf[r] \in redisUrl \/ FpOf[r] \in redisFp
    /\ UNCHANGED <<bloom, redisVars>>
    /\ AfterDedupe(r, FALSE)

DedupeUnknown(r) ==
    /\ pc = "dedupe"
    /\ r \in Newest(todo)
    /\ UrlOf[r] \notin redisUrl
    /\ FpOf[r] \notin redisFp
    /\ bloom' = bloom \cup {UrlOf[r]}
    /\ Register(r)
    /\ AfterDedupe(r, TRUE)

\* Bloom hit, but Redis raises: the row goes through unregistered.
DedupeError(r) ==
    /\ pc = "dedupe"
    /\ r \in Newest(todo)
    /\ UNCHANGED <<bloom, redisVars>>
    /\ AfterDedupe(r, TRUE)

(***************************************************************************)
(* Normalisation, the spam filter and the match against existing groups.   *)
(***************************************************************************)

\* stage_normalize drops rows with no title left, stage_spam_filter drops spam,
\* obituaries and rows it fails on; stage_extract_keywords drops nothing.
Filter ==
    /\ pc = "filter"
    /\ \E clean \in SUBSET passed :
        /\ passed' = clean
        /\ pc' = IF clean = {} THEN "idle" ELSE "groups"
    /\ todo' = {}
    /\ UNCHANGED <<dbVars, redisVars, bloom, snapshot, clusters, current,
                   announce, faults, historyVars>>

\* stage_match_existing_groups reads the groups younger than six hours, 500 at
\* most; when there are none, or the read fails, nothing is matched.
FetchGroups ==
    /\ pc = "groups"
    /\ \E G \in SUBSET (1 .. nGroups) :
        /\ snapshot' = [g \in G |-> score[g]]
        /\ IF G = {}
             THEN pc' = "cluster" /\ UNCHANGED <<todo, passed>>
             ELSE pc' = "match" /\ todo' = passed /\ passed' = {}
    /\ UNCHANGED <<dbVars, redisVars, bloom, clusters, current, announce,
                   faults, historyVars>>

\* The loop of stage_match_existing_groups moves to the next row.
AfterMatch(r, unmatched) ==
    /\ todo' = todo \ {r}
    /\ snapshot' = IF todo' = {} THEN NoSnapshot ELSE snapshot
    /\ passed' = IF unmatched THEN passed \cup {r} ELSE passed
    /\ pc' = IF todo' = {} THEN "cluster" ELSE "match"
    /\ UNCHANGED <<crawlVars, nGroups, redisVars, bloom, clusters, current,
                   announce, fetched, admitted, rejected, unsaved, published>>

\* No group is similar enough, or the UPDATE raises before it is applied.
MatchNone(r) ==
    /\ pc = "match"
    /\ r \in Newest(todo)
    /\ AfterMatch(r, TRUE)
    /\ UNCHANGED <<groupOf, score, faults, inDoubt>>

\* Faulty variant: the old score is forgotten.
NewScore(g, s) == s

\* max(best_current_score, new_score_result.normalized)
Rescored(g, s) == IF s > snapshot[g] THEN s ELSE snapshot[g]

\* The row joins g and g is rescored against the score of the snapshot; an
\* error while rescoring is swallowed and the row stays matched.
MatchGroup(r, g) ==
    /\ pc = "match"
    /\ r \in Newest(todo)
    /\ g \in DOMAIN snapshot
    /\ groupOf' = Assign(g, UrlOf[r])
    /\ \/ \E s \in Score :
             score' = [score EXCEPT ![g] = Rescored(g, s)]
       \/ UNCHANGED score
    /\ AfterMatch(r, FALSE)
    /\ UNCHANGED <<faults, inDoubt>>

\* The UPDATE is applied but the caller sees an error: the row is written to g
\* and still goes on to clustering.
MatchInDoubt(r, g) ==
    /\ pc = "match"
    /\ r \in Newest(todo)
    /\ g \in DOMAIN snapshot
    /\ Fault
    /\ groupOf' = Assign(g, UrlOf[r])
    /\ inDoubt' = inDoubt \cup {UrlOf[r]}
    /\ AfterMatch(r, TRUE)
    /\ UNCHANGED score

(***************************************************************************)
(* Clustering and scoring: pure functions of the batch.                    *)
(***************************************************************************)

\* stage_cluster: HDBSCAN drops noise points too short to stand alone; any
\* error loses every row (nothing is kept).
Cluster ==
    /\ pc = "cluster"
    /\ \E kept \in SUBSET passed : clusters' \in Partitions(kept)
    /\ pc' = "score"
    /\ passed' = {}
    /\ UNCHANGED <<dbVars, redisVars, bloom, todo, snapshot, current, announce,
                   faults, historyVars>>

\* stage_score skips the clusters it fails on; stage_summarize only adds text.
ScoreClusters ==
    /\ pc = "score"
    /\ clusters' \in SUBSET clusters
    /\ pc' = IF clusters' = {} THEN "warm" ELSE "save"
    /\ UNCHANGED <<dbVars, redisVars, bloom, todo, passed, snapshot, current,
                   announce, faults, historyVars>>

(***************************************************************************)
(* Saving.  The batch is one transaction; when it raises, stage_save falls *)
(* back to inserting cluster by cluster, statement by statement.           *)
(***************************************************************************)

\* Faulty variant: the groups are committed without the UPDATE of their rows.
GroupsCommitted ==
    /\ nGroups' = nGroups + Cardinality(clusters)
    /\ \E s \in [1 .. nGroups' -> Score] :
        /\ \A g \in 1 .. nGroups : s[g] = score[g]
        /\ score' = s
    /\ UNCHANGED groupOf

\* The committed effect of the batch: one new group per cluster and the rows of
\* every url of a cluster assigned to it (the last UPDATE of a url wins).
BatchCommitted ==
    \E id \in [clusters -> nGroups + 1 .. nGroups + Cardinality(clusters)] :
        /\ \A g \in nGroups + 1 .. nGroups + Cardinality(clusters) :
               \E C \in clusters : id[C] = g
        /\ nGroups' = nGroups + Cardinality(clusters)
        /\ \E s \in [1 .. nGroups' -> Score] :
            /\ \A g \in 1 .. nGroups : s[g] = score[g]
            /\ score' = s
        /\ \E new \in [UNION {Urls(C) : C \in clusters} -> clusters] :
            /\ \A u \in DOMAIN new : u \in Urls(new[u])
            /\ groupOf' = [r \in Row |->
                             IF r \in crawled /\ UrlOf[r] \in DOMAIN new
                             THEN id[new[UrlOf[r]]] ELSE groupOf[r]]

SaveBatch ==
    /\ pc = "save"
    /\ BatchCommitted
    /\ announce' = nGroups + 1 .. nGroups'
    /\ clusters' = {}
    /\ pc' = "publish"
    /\ UNCHANGED <<crawlVars, redisVars, bloom, todo, passed, snapshot, current,
                   faults, historyVars>>

\* The transaction is rolled back.  This is no rare event, so it is not counted:
\* unnest takes the text[][] of the keywords apart into single texts, which
\* PostgreSQL does not store in a text[] column.
SaveBatchFails ==
    /\ pc = "save"
    /\ NoFault
    /\ pc' = "single"
    /\ UNCHANGED <<dbVars, redisVars, bloom, todo, passed, snapshot, clusters,
                   current, announce, historyVars>>

\* The transaction commits but the acknowledgement is lost: the fallback saves
\* the same clusters again.
SaveBatchInDoubt ==
    /\ pc = "save"
    /\ Fault
    /\ BatchCommitted
    /\ inDoubt' = inDoubt \cup UNION {Urls(C) : C \in clusters}
    /\ pc' = "single"
    /\ UNCHANGED <<crawlVars, redisVars, bloom, todo, passed, snapshot, clusters,
                   current, announce, fetched, admitted, rejected, unsaved,
                   published>>

\* _save_individually: the INSERT of the next cluster's group.
InsertGroup(C) ==
    /\ pc = "single"
    /\ C \in clusters
    /\ clusters' = clusters \ {C}
    /\ \/ /\ nGroups' = nGroups + 1
          /\ \E s \in Score :
                score' = [g \in 1 .. nGroups' |-> IF g = nGroups' THEN s ELSE score[g]]
          /\ current' = [group |-> nGroups', rows |-> C]
          /\ pc' = "singleUpdate"
          /\ NoFault
          /\ UNCHANGED unsaved
       \/ /\ Fault
          /\ pc' = IF clusters' = {} THEN "warm" ELSE "single"
          /\ unsaved' = unsaved \cup C
          /\ UNCHANGED <<nGroups, score, current>>
    /\ UNCHANGED <<crawlVars, groupOf, redisVars, bloom, todo, passed, snapshot,
                   announce, fetched, admitted, rejected, inDoubt, published>>

\* The UPDATE of the next row of the cluster; when it raises, the rest of the
\* cluster is left and its group stays.
UpdateRow(r) ==
    /\ pc = "singleUpdate"
    /\ r \in current.rows
    /\ \/ /\ groupOf' = Assign(current.group, UrlOf[r])
          /\ current' = IF current.rows = {r} THEN NoCurrent
                        ELSE [current EXCEPT !.rows = @ \ {r}]
          /\ NoFault
          /\ UNCHANGED <<unsaved, inDoubt>>
       \/ /\ Fault
          /\ current' = NoCurrent
          /\ unsaved' = unsaved \cup current.rows
          /\ \/ UNCHANGED <<groupOf, inDoubt>>
             \/ /\ groupOf' = Assign(current.group, UrlOf[r])
                /\ inDoubt' = inDoubt \cup {UrlOf[r]}
    /\ pc' = IF current' # NoCurrent THEN "singleUpdate"
             ELSE IF clusters = {} THEN "warm" ELSE "single"
    /\ UNCHANGED <<crawlVars, nGroups, score, redisVars, bloom, todo, passed,
                   snapshot, clusters, announce, fetched, admitted, rejected,
                   published>>

\* Fire-and-forget: publish swallows its own errors.
Publish(g) ==
    /\ pc = "publish"
    /\ g \in announce
    /\ \/ published' = published \cup {g}
       \/ UNCHANGED published
    /\ announce' = announce \ {g}
    /\ pc' = IF announce' = {} THEN "warm" ELSE "publish"
    /\ UNCHANGED <<dbVars, redisVars, bloom, todo, passed, snapshot, clusters,
                   current, faults, fetched, admitted, rejected, unsaved,
                   inDoubt>>

\* stage_warm_cache (what it writes is in FeedCache); the batch is over.
WarmCache ==
    /\ pc = "warm"
    /\ pc' = "idle"
    /\ UNCHANGED <<dbVars, redisVars, bloom, todo, passed, snapshot, clusters,
                   current, announce, faults, historyVars>>

(***************************************************************************)
(* Specification.                                                          *)
(***************************************************************************)

Crawler == \E r \in Row : LookUp(r) \/ Insert(r)

Batch ==
    \/ Fetch
    \/ \E r \in Row :
        \/ DedupeNew(r)
        \/ DedupeDuplicate(r)
        \/ DedupeUnknown(r)
        \/ DedupeError(r)
    \/ Filter
    \/ FetchGroups
    \/ \E r \in Row :
        \/ MatchNone(r)
        \/ \E g \in 1 .. nGroups : MatchGroup(r, g) \/ MatchInDoubt(r, g)
    \/ Cluster
    \/ ScoreClusters
    \/ SaveBatch
    \/ SaveBatchFails
    \/ SaveBatchInDoubt
    \/ \E C \in clusters : InsertGroup(C)
    \/ \E r \in Row : UpdateRow(r)
    \/ \E g \in announce : Publish(g)
    \/ WarmCache

Next ==
    \/ Crawler
    \/ ExpireUrlSet
    \/ ExpireFpSet
    \/ Restart
    \/ PollNothing
    \/ Batch

Spec == Init /\ [][Next]_vars

\* The poll loop never ends and every stage returns or raises: whenever the
\* processor can take a step it eventually takes one.  Nothing is assumed of the
\* crawler, of Redis or of failures.
FairSpec == Spec /\ WF_vars(Batch)

(***************************************************************************)
(* Properties.                                                             *)
(***************************************************************************)

\* Every variable stays in its range.
TypeOK ==
    /\ crawled \in SUBSET Row
    /\ inserting \in SUBSET Row
    /\ nGroups \in Nat
    /\ groupOf \in [Row -> 0 .. nGroups]
    /\ score \in [1 .. nGroups -> Score]
    /\ redisUrl \in SUBSET Url
    /\ redisFp \in SUBSET Fingerprint
    /\ bloom \in SUBSET Url
    /\ pc \in Stages
    /\ todo \in SUBSET Row
    /\ passed \in SUBSET Row
    /\ DOMAIN snapshot \in SUBSET (1 .. nGroups)
    /\ snapshot \in [DOMAIN snapshot -> Score]
    /\ clusters \in SUBSET (SUBSET Row)
    /\ current \in [group : 0 .. nGroups, rows : SUBSET Row]
    /\ announce \in SUBSET (1 .. nGroups)
    /\ faults \in 0 .. MaxFaults
    /\ fetched \in SUBSET Row
    /\ admitted \in SUBSET Row
    /\ rejected \in SUBSET Row
    /\ unsaved \in SUBSET Row
    /\ inDoubt \in SUBSET Url
    /\ published \in SUBSET (1 .. nGroups)

\* Two rows of the table carry r's url.
HasTwin(r) == \E s \in crawled \ {r} : UrlOf[s] = UrlOf[r]

\* A row refused as a duplicate really repeats the url or the content of a row
\* that the filter let through, whatever Bloom collisions, lost Redis sets and
\* restarts come between (is_duplicate).
NoFalseDuplicate ==
    \A r \in rejected :
        \E s \in admitted : UrlOf[s] = UrlOf[r] \/ FpOf[s] = FpOf[r]

\* The UPDATEs of the match and save stages carry no "group_id IS NULL": that a
\* grouped row stays in its group rests on the fetch and on one batch at a time.
\* A row moves to another group only when its url has a second row, or when an
\* applied UPDATE was reported as failed.
RegroupedOnlyIfTwinOrInDoubt ==
    [][\A r \in Row :
        groupOf[r] # NoGroup /\ groupOf'[r] # groupOf[r]
            => HasTwin(r) \/ UrlOf[r] \in inDoubt]_vars

\* What stage_save is about to announce on trends:new is committed and has an
\* article in it, so that the subscriber's read of the group finds it (unless
\* the rows of one url were split between two clusters).
AnnouncedGroupsVisible ==
    \A g \in announce :
        \/ \E r \in crawled : groupOf[r] = g
        \/ \E r \in crawled : HasTwin(r)

\* Rescoring works from a snapshot taken before the loop: a later row of the
\* batch may lower what an earlier row raised, but never below the score the
\* group had when the batch read it.
ScoreKeepsSnapshotFloor ==
    \A g \in DOMAIN snapshot : score[g] >= snapshot[g]

(***************************************************************************)
(* The inductive invariant behind the safety properties.                   *)
(***************************************************************************)

\* Rows the batch may still write.
InFlight == todo \cup passed \cup current.rows \cup UNION clusters

\* Which of the batch's variables are in use at which stage.
StageInv ==
    /\ pc \in {"idle", "dedupe", "filter", "groups", "match", "cluster"}
          => clusters = {}
    /\ pc \in {"groups", "cluster"} => todo = {}
    /\ pc \in {"score", "save", "single", "singleUpdate", "publish", "warm"}
          => todo = {} /\ passed = {}
    /\ pc \in {"publish", "warm"} => clusters = {}
    /\ pc # "singleUpdate" => current = NoCurrent
    /\ pc # "publish" => announce = {}
    /\ todo \cap passed = {}
    /\ \A C \in clusters : C # {} /\ C \cap current.rows = {}
    /\ \A C, D \in clusters : C = D \/ C \cap D = {}

\* What Redis remembers was let through by the filter.
SeenInv ==
    /\ \A u \in redisUrl : \E s \in admitted : UrlOf[s] = u
    /\ \A f \in redisFp : \E s \in admitted : FpOf[s] = f

\* A row the batch may still write has no group yet, with the two exceptions of
\* RegroupedOnlyIfTwinOrInDoubt.
FlightInv ==
    \A r \in InFlight :
        /\ r \in crawled
        /\ groupOf[r] = NoGroup \/ HasTwin(r) \/ UrlOf[r] \in inDoubt

IInv ==
    /\ TypeOK
    /\ StageInv
    /\ SeenInv
    /\ FlightInv
    /\ NoFalseDuplicate
    /\ ScoreKeepsSnapshotFloor
    /\ AnnouncedGroupsVisible

\* A row in the group of a fetched row of its url: the UPDATEs of stage_save and
\* stage_match_existing_groups take every row of a url, those that were stored after the
\* batch was fetched as well, and such a row is then never read.
GroupedWithTwin(r) ==
    groupOf[r] # NoGroup
        /\ \E s \in fetched : UrlOf[s] = UrlOf[r] /\ groupOf[s] = groupOf[r]

\* Every row the crawler stores is eventually part of a batch, or in the group of a twin
\* that was.
EveryRowFetched == \A r \in Row : r \in crawled ~> (r \in fetched \/ GroupedWithTwin(r))

\* A row whose save raised is still without a group, so the next poll fetches it
\* as "not yet processed": the duplicate filter must not refuse it for having
\* been seen in the batch that failed.
FailedSaveNotDuplicate ==
    \A r \in unsaved : groupOf[r] = NoGroup => r \notin rejected

=============================================================================
