------------------------------- MODULE Scoring -------------------------------
(***************************************************************************)
(* The numbers a trend carries: stage_score and stage_save (backend/       *)
(* processor/stages/score.py and save.py) when its cluster becomes a       *)
(* group, stage_match_existing_groups when an article joins it, and        *)
(* run_early_trend_update every three minutes.                             *)
(*                                                                         *)
(* The three write one column, early_trend_score, from different formulas, *)
(* and the list /trends/early is made of that column alone. One group is   *)
(* enough: nothing in its row is computed from another group.              *)
(*                                                                         *)
(* Fractions are integers: early_trend_score, burst_score, velocity and    *)
(* score are in ten-thousandths (of 1, and of 100), rounded down.          *)
(***************************************************************************)
EXTENDS Integers, FiniteSets, FiniteSetsExt, Sequences, SequencesExt

CONSTANTS
    Outlet,            \* values of news_article.source
    Moment,            \* the minutes at which something happens
    MaxInGroup,        \* bound on the articles of the group
    MinBurstSeries,    \* _MIN_BURST_SERIES: hours with articles that a burst takes (5)
    BurstPart,         \* answers of Prophet and of IsolationForest, in percent
    Importance,        \* keyword_importance of an article, in percent
    PlatformCount,     \* numbers of platforms that may name a keyword of the group
    EarlyWeights,      \* what an administrator may store as the early_trend_w_* settings
    Freshness(_),      \* exp(-lambda t) by the age in minutes, in percent
    ArticleRatio(_),   \* log2(n + 1) / log2(11), at most 1, in percent
    OutletRatio(_)     \* log2(n + 1) / log2(6), at most 1, in percent

ASSUME ScoringAssumption ==
    /\ Moment \subseteq Nat /\ IsFiniteSet(Moment) /\ 0 \in Moment /\ IsFiniteSet(Outlet)
    /\ MaxInGroup \in Nat \ {0} /\ MinBurstSeries \in Nat \ (0 .. 2)
    /\ 0 \in PlatformCount /\ PlatformCount \subseteq 0 .. 2
    /\ BurstPart \subseteq 0 .. 100 /\ Importance \subseteq 0 .. 100
    /\ \A t, u \in Moment : u <= t => Freshness(t - u) \in 0 .. 100
    /\ \A n \in 0 .. MaxInGroup : ArticleRatio(n) \in 0 .. 100 /\ OutletRatio(n) \in 0 .. 100
    /\ EarlyWeights \subseteq [{"burst", "velocity", "diversity", "recency"} -> Int]

VARIABLES
    clock,         \* now, in minutes
    cluster,       \* number of the cluster's articles by source and publish_time
    scored,        \* the row stage_score has made of the cluster, not yet saved
    saving,        \* how the save goes: "none" of it has been done, it is at the "batch", it
                   \* inserts "each" group, it goes on to "assign" its articles, and ended
                   \* with them "saved" or was "cut"
    grouped,       \* number of the articles with the group's id, likewise
    trendRow,      \* the row of news_group, once it is saved; by: who wrote early last
    earlyJob,      \* what run_early_trend_update has selected of the group and not written
    earlySetting,  \* the rows early_trend_w_* of admin_settings, in tenths
    earlyCopy,     \* early_trend_weights in Redis
    platforms      \* platforms of sns_trend that name a keyword of the group today

saveVars == <<cluster, scored, saving>>

scoringVars ==
    <<clock, saveVars, grouped, trendRow, earlyJob, earlySetting, earlyCopy, platforms>>

DefaultWeights == [burst |-> 3, velocity |-> 3, diversity |-> 2, recency |-> 2]

InitScoring ==
    /\ clock = 0 /\ cluster \in [Outlet \X Moment -> {0}] /\ grouped = cluster
    /\ scored = {} /\ saving = "none"
    /\ trendRow = {} /\ earlyJob = {}
    /\ earlySetting = DefaultWeights /\ earlyCopy = {} /\ platforms = 0

(***************************************************************************)
(* What is counted of the articles A of a group.                           *)
(***************************************************************************)

Least(m, n) == IF m < n THEN m ELSE n

Present(A) == {p \in DOMAIN A : A[p] > 0}

SizeOf(A) == MapThenSumSet(LAMBDA p : A[p], Present(A))

Outlets(A) == {p[1] : p \in Present(A)}

\* Published from less than so many minutes ago.
Aged(A, from, to) ==
    MapThenSumSet(LAMBDA p : A[p], {p \in Present(A) : clock - p[2] >= from /\ clock - p[2] < to})

Newest(A) == Max({p[2] : p \in Present(A)})

Hours(A) == {p[2] \div 60 : p \in Present(A)}

(***************************************************************************)
(* The formulas.                                                           *)
(***************************************************************************)

\* compute_momentum_velocity: the last hour against the hourly mean of the day, of which
\* five times is the most.
Velocity(recent, day) ==
    LET mean == IF 10 * day > 24 THEN 10 * day ELSE 24
    IN Least(10000, (480000 * recent) \div mean)

Diversity(outlets, n) == (10000 * outlets) \div n

\* From 1 to 0 over 48 hours.
Recency(age) == IF age > 2880 THEN 0 ELSE 10000 - (10000 * age) \div 2880

\* A cluster of less than three articles does not get above 0.3.
SmallCap(n, early) == IF n < 3 THEN Least(early, 3000) ELSE early

\* compute_early_trend_score of stage_score; 0 for a single source.
EarlyOfSave(A) ==
    IF Cardinality(Outlets(A)) < 2 THEN 0
    ELSE SmallCap(SizeOf(A), (4 * Velocity(Aged(A, 0, 60), Aged(A, 0, 1440))
                              + 3 * Diversity(Cardinality(Outlets(A)), SizeOf(A))
                              + 3 * Recency(clock - Newest(A))) \div 10)

\* match_existing: by the number of articles, whatever their sources.
EarlyOfMatch(n) == 3000 + 400 * Least(n, 10)

\* compute_early_trend_score of algorithms/early_trend.py.
EarlyOfJob(w, row) ==
    LET score == (w.burst * row.burst + w.velocity * Velocity(row.quarter + row.hour, row.day)
                  + w.diversity * Diversity(row.outlets, row.size)
                  + w.recency * Recency(row.age)) \div 10
    IN IF score < 0 THEN 0 ELSE Least(10000, score)

\* Had the boost two platforms give been as large as that of five sources.
ExternalDoubled(n) == CASE n = 0 -> 100 [] n = 1 -> 130 [] OTHER -> 150

\* Multipliers, in percent: verify_cross_platform by the sources of the articles, and
\* verify_external_trends by the platforms that trend with one of the keywords.
CrossPlatform(n) == CASE n >= 5 -> 150 [] n \in 2 .. 4 -> 90 + 10 * n [] OTHER -> 100

ExternalBoost(n) == CASE n = 0 -> 100 [] n = 1 -> 110 [] OTHER -> 130

\* _build_burst_series: the hours that have articles; the others are not in the series.
BurstSeries(A) ==
    LET hour(i) == CHOOSE h \in Hours(A) : Cardinality({g \in Hours(A) : g < h}) = i - 1
    IN [i \in 1 .. Cardinality(Hours(A)) |->
            MapThenSumSet(LAMBDA p : A[p], {p \in Present(A) : p[2] \div 60 = hour(i)})]

SeriesSum(v) == FoldLeft(LAMBDA x, y : x + y, 0, v)

\* Len(v) * Len(v) times the variance of v.
Spread(v) ==
    Len(v) * SeriesSum([i \in 1 .. Len(v) |-> v[i] * v[i]]) - SeriesSum(v) * SeriesSum(v)

\* The quotient m / (n * sqrt(D)) in percent, at most 100.
PercentOfRoot(m, n, D) == Max({q \in 0 .. 100 : q * q * n * n * D <= 10000 * m * m})

\* _statistical_anomaly_score: half, and a sixth of the z-score of the last hour among
\* those before; without variance all or nothing.
StatisticalAnomaly(v) ==
    LET before == Front(v)
        excess == Len(before) * Last(v) - SeriesSum(before)
    IN CASE Spread(before) = 0 -> IF excess > 0 THEN 100 ELSE 0
         [] Spread(before) # 0 /\ excess >= 0 ->
                Least(100, 50 + PercentOfRoot(excess, 6, Spread(before)))
         [] OTHER -> 50 - Least(50, PercentOfRoot(-excess, 6, Spread(before)))

\* _percentile_anomaly_score: twice what the share of the hours at most the last exceeds
\* one half by.
PercentileAnomaly(v) ==
    LET rank == Cardinality({i \in 1 .. Len(v) : v[i] <= Last(v)})
    IN IF 2 * rank <= Len(v) THEN 0 ELSE (200 * rank) \div Len(v) - 100

\* compute_cusum_score: the largest sum of what the hours exceed one and a half times
\* their mean by, restarted when negative, against five standard deviations.
Cusum(v) ==
    LET sum[i \in 0 .. Len(v)] ==
            IF i = 0 THEN 0
            ELSE LET next == sum[i - 1] + 2 * Len(v) * v[i] - 3 * SeriesSum(v)
                 IN IF next > 0 THEN next ELSE 0
        most == Max({sum[i] : i \in 1 .. Len(v)})
    IN IF Spread(v) = 0 THEN 0 ELSE PercentOfRoot(most, 10, Spread(v))

\* detect_burst: two of the detectors are models of libraries, with a formula instead when
\* the library is missing or raises.
DetectBurst(A) ==
    LET v == BurstSeries(A)
    IN IF Len(v) < MinBurstSeries THEN {0}
       ELSE {40 * prophet + 35 * iforest + 25 * Cusum(v) :
                 prophet \in BurstPart \cup {StatisticalAnomaly(v)},
                 iforest \in BurstPart \cup {PercentileAnomaly(v)}}

\* classify_growth_type of the last three windows of 12 hours; three empty ones grow.
Spike(recent, mid) == mid <= 2 /\ recent >= 3 * (IF mid = 0 THEN 1 ELSE mid)

GrowthType(A) ==
    LET recent == Aged(A, 0, 720)  mid == Aged(A, 720, 1440)  old == Aged(A, 1440, 2160)
    IN IF Spike(recent, mid) THEN "spike"
       ELSE IF 10 * recent >= 12 * mid /\ 10 * mid >= 11 * old THEN "growth" ELSE "unknown"

\* _ARTICLE_COUNT_PENALTIES, in percent.
CountPenalty(n) == CASE n = 1 -> 30 [] n = 2 -> 50 [] n = 3 -> 70 [] n = 4 -> 85 [] OTHER -> 100

\* calculate_score with its default weights; no social signal is ever given.
CalculateScore(age, n, outlets, importance, burst, velocity) ==
    ((15 * Freshness(age) + 15 * OutletRatio(outlets) + 30 * ArticleRatio(n) + 10 * importance
      + (15 * (burst + velocity)) \div 100) * CountPenalty(n)) \div 100

(***************************************************************************)
(* The writers.                                                            *)
(***************************************************************************)

\* An article that the cluster will have is published.
PublishForGroup(o) ==
    /\ saving = "none" /\ SizeOf(cluster) < MaxInGroup
    /\ cluster' = [cluster EXCEPT ![<<o, clock>>] = @ + 1]
    /\ UNCHANGED <<clock, scored, saving, grouped, trendRow, earlyJob, earlySetting, earlyCopy,
                   platforms>>

\* The boost is 1.0 when sns_trend cannot be read.
ReadBoost == {100, ExternalBoost(platforms)}

\* stage_score. first is the representative of the cluster.
StageScore(first, importance, burst, boost) ==
    /\ saving = "none" /\ saving' = "batch"
    /\ LET outlets == Cardinality(Outlets(cluster))
           base == CalculateScore(clock - first[2], SizeOf(cluster), outlets, importance, burst,
                                  Velocity(Aged(cluster, 0, 60), Aged(cluster, 0, 1440)))
       IN scored' = {[early |-> EarlyOfSave(cluster), burst |-> burst,
                      score |-> Least(10000, (base * CrossPlatform(outlets) * boost) \div 10000),
                      growth |-> GrowthType(cluster), created |-> clock, by |-> "save"]}
    /\ UNCHANGED <<clock, cluster, grouped, trendRow, earlyJob, earlySetting, earlyCopy, platforms>>

\* stage_save: the group and its articles in one transaction. When the answer to the COMMIT
\* is lost the fallback saves a second group: that is Pipeline's.
SaveBatch ==
    /\ saving = "batch" /\ saving' = "saved"
    /\ trendRow' = scored /\ grouped' = cluster /\ scored' = {}
    /\ UNCHANGED <<clock, cluster, earlyJob, earlySetting, earlyCopy, platforms>>

\* The transaction fails.
BatchFails ==
    /\ saving = "batch" /\ saving' = "each"
    /\ UNCHANGED <<clock, cluster, scored, grouped, trendRow, earlyJob, earlySetting, earlyCopy,
                   platforms>>

\* _save_individually: the group, on its own; the answer may be lost.
SaveEach ==
    /\ saving = "each" /\ saving' \in {"assign", "cut"}
    /\ trendRow' = scored /\ scored' = {}
    /\ UNCHANGED <<clock, cluster, grouped, earlyJob, earlySetting, earlyCopy, platforms>>

\* Then its articles, one after the other.
AssignArticle(p) ==
    /\ saving = "assign" /\ grouped[p] < cluster[p]
    /\ grouped' = [grouped EXCEPT ![p] = @ + 1]
    /\ saving' = IF grouped' = cluster THEN "saved" ELSE "assign"
    /\ UNCHANGED <<clock, cluster, scored, trendRow, earlyJob, earlySetting, earlyCopy, platforms>>

\* The process stops, or a statement of the fallback fails and the next cluster has its
\* turn. Articles without a group are clustered again.
SaveEnds ==
    /\ \/ saving \in {"batch", "each"} /\ saving' = "none"
       \/ saving = "assign" /\ saving' = "cut"
    /\ scored' = {}
    /\ UNCHANGED <<clock, cluster, grouped, trendRow, earlyJob, earlySetting, earlyCopy, platforms>>

\* stage_match_existing_groups: the article joins, then both scores are written, the score
\* only upwards; when a statement in between fails the article stays and the row does not
\* change. Only groups of the last six hours are matched, by the batches after the save.
MatchScores(o, at, importance) ==
    /\ saving \in {"saved", "cut"}
    /\ at <= clock /\ SizeOf(grouped) < MaxInGroup
    /\ \A r \in trendRow : clock - r.created < 360
    /\ grouped' = [grouped EXCEPT ![<<o, at>>] = @ + 1]
    /\ \E r \in trendRow :
          LET n == SizeOf(grouped')
              new == CalculateScore(clock - at, n, Cardinality(Outlets(grouped')), importance, 0, 0)
          IN trendRow' \in {trendRow,
                            {[r EXCEPT !.early = EarlyOfMatch(n), !.by = "match",
                                       !.score = IF new > @ THEN new ELSE @]}}
    /\ UNCHANGED <<clock, saveVars, earlyJob, earlySetting, earlyCopy, platforms>>

\* run_early_trend_update selects the counts of all groups of the last 48 hours at once, if
\* they have articles.
SelectEarly ==
    /\ earlyJob = {} /\ Present(grouped) # {}
    /\ \E r \in trendRow :
          /\ clock - r.created < 2880
          /\ earlyJob' = {[size |-> SizeOf(grouped), outlets |-> Cardinality(Outlets(grouped)),
                           age |-> clock - Newest(grouped), burst |-> r.burst,
                           quarter |-> Aged(grouped, 0, 15), hour |-> Aged(grouped, 0, 60),
                           day |-> Aged(grouped, 0, 1440)]}
    /\ UNCHANGED <<clock, saveVars, grouped, trendRow, earlySetting, earlyCopy, platforms>>

\* _load_weights: the copy, else the settings; Redis or the statement may fail.
LoadWeights(w) ==
    \/ w \in earlyCopy /\ UNCHANGED earlyCopy
    \/ earlyCopy = {} /\ w = earlySetting /\ earlyCopy' = {w}
    \/ w \in {earlySetting, DefaultWeights} /\ UNCHANGED earlyCopy

\* Single sources get 0, small groups the cap, and after the cap the boost.
Boosted(w, row, boost) ==
    LET capped == IF row.outlets < 2 THEN 0 ELSE SmallCap(row.size, EarlyOfJob(w, row))
    IN Least(10000, (capped * boost) \div 100)

\* Then one row at a time, with awaits in between.
UpdateEarly(w, boost) ==
    /\ LoadWeights(w)
    /\ \E row \in earlyJob, r \in trendRow :
          trendRow' = {[r EXCEPT !.early = Boosted(w, row, boost), !.by = "job"]}
    /\ earlyJob' = {}
    /\ UNCHANGED <<clock, saveVars, grouped, earlySetting, platforms>>

\* A row that raises is left as it is.
SkipEarly ==
    /\ earlyJob # {} /\ earlyJob' = {}
    /\ UNCHANGED <<clock, saveVars, grouped, trendRow, earlySetting, earlyCopy, platforms>>

(***************************************************************************)
(* What goes on around them.                                               *)
(***************************************************************************)

\* A run of the job and a save take less than the moments are apart.
PassTime(t) ==
    /\ clock < t /\ \A u \in Moment : clock < u => t <= u
    /\ earlyJob = {} /\ saving \in {"none", "saved", "cut"}
    /\ clock' = t
    /\ UNCHANGED <<saveVars, grouped, trendRow, earlyJob, earlySetting, earlyCopy, platforms>>

\* PATCH /admin/settings; nothing drops the copy, which lives for five minutes.
StoreWeights(w) ==
    /\ w # earlySetting /\ earlySetting' = w
    /\ UNCHANGED <<clock, saveVars, grouped, trendRow, earlyJob, earlyCopy, platforms>>

WeightsExpire ==
    /\ earlyCopy # {} /\ earlyCopy' = {}
    /\ UNCHANGED <<clock, saveVars, grouped, trendRow, earlyJob, earlySetting, platforms>>

\* Google Trends and Naver DataLab come to name a keyword, or stop for a day.
PlatformsChange(n) ==
    /\ n # platforms /\ platforms' = n
    /\ UNCHANGED <<clock, saveVars, grouped, trendRow, earlyJob, earlySetting, earlyCopy>>

NextScoring ==
    \/ \E o \in Outlet : PublishForGroup(o)
    \/ \E first \in Present(cluster), importance \in Importance :
          \E burst \in DetectBurst(cluster), boost \in ReadBoost :
              StageScore(first, importance, burst, boost)
    \/ SaveBatch \/ BatchFails \/ SaveEach \/ SaveEnds
    \/ \E p \in Outlet \X Moment : AssignArticle(p)
    \/ \E o \in Outlet, at \in Moment, importance \in Importance : MatchScores(o, at, importance)
    \/ SelectEarly \/ SkipEarly \/ WeightsExpire
    \/ \E w \in earlyCopy \cup {earlySetting, DefaultWeights}, boost \in ReadBoost : UpdateEarly(w, boost)
    \/ \E t \in Moment : PassTime(t)
    \/ \E w \in EarlyWeights : StoreWeights(w)
    \/ \E n \in PlatformCount : PlatformsChange(n)

SpecScoring == InitScoring /\ [][NextScoring]_scoringVars

(***************************************************************************)
(* Properties.                                                             *)
(***************************************************************************)

\* The row, what the job holds and what both are computed from.
ScoringTypeOK ==
    /\ clock \in Moment
    /\ \A A \in {cluster, grouped} : A \in [Outlet \X Moment -> 0 .. MaxInGroup]
    /\ saving \in {"none", "batch", "each", "assign", "saved", "cut"}
    /\ \A r \in trendRow \cup scored :
          /\ \A x \in {r.early, r.burst, r.score} : x \in Nat /\ x <= 10000
          /\ r.growth \in {"spike", "growth", "unknown"} /\ r.by \in {"save", "match", "job"}
          /\ r.created \in Moment
    /\ \A S \in {trendRow, scored, earlyJob} : Cardinality(S) <= 1
    /\ earlySetting \in EarlyWeights \cup {DefaultWeights}
    /\ earlyCopy \subseteq EarlyWeights \cup {DefaultWeights} /\ platforms \in PlatformCount

\* The WHERE of fetch_early_trends.
ListedEarly(r) == r.early > 4000 /\ SizeOf(grouped) >= 2

\* The articles that what a row says of its group is to be true of: the cluster's, when a
\* save has not given the group all of them, until another writer has counted the group's.
ArticlesBehind(r) == IF r.by = "save" /\ saving \in {"assign", "cut"} THEN cluster ELSE grouped

\* Whoever wrote the column last, from whatever counts and weights: a group that
\* /trends/early lists has three articles, and two sources unless the last writer was the
\* match, which does not look at them. The cap of 0.3 is below the list's 0.4 even after the
\* largest boost, and the second article's 0.38 too. Of a group that the fallback has
\* inserted with the cluster's score and has not given all articles, or never will, it is
\* the cluster of which this is true, until the match or the job has written it.
EarlyTrendEarned ==
    \A r \in trendRow : ListedEarly(r) =>
        /\ SizeOf(ArticlesBehind(r)) >= 3
        /\ Cardinality(Outlets(ArticlesBehind(r))) >= 2 \/ r.by = "match"

=============================================================================
