----------------------------- MODULE Clustering -----------------------------
(***************************************************************************)
(* How articles become groups and groups become meta trends                *)
(* (backend/processor/shared/semantic_clusterer.py,                        *)
(* processor/stages/cluster.py, processor/algorithms/meta_clusterer.py and *)
(* api/routers/meta_trends.py).                                            *)
(*                                                                         *)
(* Pure functions of a list.  The similarities are given, as levels: what  *)
(* embeddings and keywords make of them is not modelled, nor which dense   *)
(* sets HDBSCAN finds.                                                     *)
(***************************************************************************)
EXTENDS Integers, FiniteSets, FiniteSetsExt

CONSTANTS
    BatchLength,  \* articles of a batch
    Level,        \* values of a similarity, as natural numbers
    Threshold,    \* cluster.threshold
    Sigma,        \* cluster.outlier_sigma
    MetaLength,   \* groups that fetch_groups_for_meta returns
    MetaLimit     \* values of the query parameter limit of /trends/meta

ASSUME ClusteringAssumption ==
    /\ BatchLength \in Nat /\ MetaLength \in Nat /\ Threshold \in Nat /\ Sigma \in Nat
    /\ Level \subseteq Nat /\ 0 \in Level /\ MetaLimit \subseteq Nat

Article == 1 .. BatchLength  \* in the order of the batch

MetaGroup == 1 .. MetaLength  \* of one category, in the order of the query

Pair(S) == {p \in SUBSET S : Cardinality(p) = 2}

VARIABLES
    clusters,   \* what stage_cluster returned last
    dropped,    \* the articles it left out
    articleMap, \* its article_map: the row that the url_hash of an article leads to
    links,      \* pairs of groups whose keywords are similar enough
    metaCache   \* meta_trends:{locale}: the meta trends of the response, or <<>>

batchVars == <<clusters, dropped, articleMap>>
metaVars == <<links, metaCache>>
clusteringVars == <<clusters, dropped, articleMap, links, metaCache>>

InitClustering ==
    /\ clusters = {} /\ dropped = {} /\ articleMap = [i \in Article |-> i]
    /\ links = {} /\ metaCache = <<>>

(***************************************************************************)
(* stage_cluster.  near[i] is the similarity of article i to the centroid  *)
(* of its cluster, or to the keywords of the representative.               *)
(***************************************************************************)

\* The most similar cluster, the earlier one of two: clusters are compared by their
\* representatives only.
Closest(C, sim, i) ==
    {d \in C : /\ sim[{i, d.rep}] > 0 /\ sim[{i, d.rep}] >= Threshold
               /\ \A e \in C : \/ sim[{i, e.rep}] < sim[{i, d.rep}]
                               \/ sim[{i, e.rep}] = sim[{i, d.rep}] /\ d.rep <= e.rep}

Joined(C, sim, i) ==
    LET best == Closest(C, sim, i)
    IN IF best = {}
       THEN C \cup {[rep |-> i, members |-> {}]}
       ELSE (C \ best) \cup {[d EXCEPT !.members = @ \cup {i}] : d \in best}

ClusterGreedy(sim) ==
    LET after[i \in 0 .. BatchLength] == IF i = 0 THEN {} ELSE Joined(after[i - 1], sim, i)
    IN after[BatchLength]

\* The first of those closest to the centroid.
PickRepresentative(S, near) ==
    Min({i \in S : \A j \in S : near[j] <= near[i]})

\* The dense sets, and of the others those with text and keywords enough.
ClusterHdbscan(dense, rich, near) ==
    {[rep |-> PickRepresentative(S, near), members |-> S \ {PickRepresentative(S, near)}] : S \in dense}
    \cup {[rep |-> i, members |-> {}] : i \in rich \ UNION dense}

All(d) == {d.rep} \cup d.members

\* near[i] < mean - Sigma * deviation over the members of d, multiplied out.
IsOutlier(d, near, i) ==
    LET n == Cardinality(All(d))
        total == MapThenSumSet(LAMBDA j : near[j], All(d))
        squares == MapThenSumSet(LAMBDA j : near[j] * near[j], All(d))
        below == total - n * near[i]
    IN below > 0 /\ below * below > Sigma * Sigma * (n * squares - total * total)

\* Had the outliers been dropped.
WithoutOutliers(d, near) ==
    LET keep == {i \in All(d) : ~IsOutlier(d, near, i)}
    IN IF Cardinality(All(d)) <= 2 \/ keep = All(d)
       THEN {d} ELSE {[rep |-> Min(keep), members |-> keep \ {Min(keep)}]}

\* refine_clusters leaves small clusters alone and makes a cluster of each outlier; the
\* first member kept represents the others.
Refined(d, near) ==
    LET outliers == {i \in All(d) : IsOutlier(d, near, i)}
        keep == All(d) \ outliers
        rep == IF d.rep \in keep THEN d.rep ELSE Min(keep)
    IN IF Cardinality(All(d)) <= 2 \/ outliers = {}
       THEN {d}
       ELSE {[rep |-> rep, members |-> keep \ {rep}]} \cup {[rep |-> i, members |-> {}] : i \in outliers}

RefineClusters(C, near) == UNION {Refined(d, near) : d \in C}

\* Of the rows with one url_hash the last of the batch is in the map, for all of them.
ArticleMaps == {f \in [Article -> Article] : \A i \in Article : f[i] >= i /\ f[f[i]] = f[i]}

\* The _articles of a cluster: the rows its items' ids lead to.
Rows(d) == {articleMap[i] : i \in All(d)}

\* Without scikit-learn, or with less than three articles.
StageClusterGreedy(sim, near) ==
    /\ clusters' = RefineClusters(ClusterGreedy(sim), near) /\ dropped' = {}
    /\ articleMap' \in ArticleMaps
    /\ UNCHANGED metaVars

StageClusterHdbscan(dense, rich, near) ==
    /\ BatchLength >= 3
    /\ clusters' = RefineClusters(ClusterHdbscan(dense, rich, near), near)
    /\ dropped' = Article \ (rich \cup UNION dense)
    /\ articleMap' \in ArticleMaps
    /\ UNCHANGED metaVars

\* An exception, say of a time that cannot be parsed, and the batch has no clusters.
StageClusterFails ==
    /\ clusters' = {} /\ dropped' = Article
    /\ UNCHANGED <<articleMap, metaVars>>

(***************************************************************************)
(* Meta trends.                                                            *)
(***************************************************************************)

\* The clusters of one category: the first group that has none yet takes, in one pass,
\* every later one that resembles a group already taken.
Gathered(L, i, free) ==
    LET taken[j \in i .. MetaLength] ==
            IF j = i THEN {i}
            ELSE LET S == taken[j - 1]
                 IN IF j \in free /\ \E m \in S : {m, j} \in L THEN S \cup {j} ELSE S
    IN taken[MetaLength]

ClusterGroupsByKeywords(L) ==
    LET after[i \in 0 .. MetaLength] ==
            IF i = 0 THEN {}
            ELSE LET C == after[i - 1]
                 IN IF i \in UNION C THEN C ELSE C \cup {Gathered(L, i, MetaGroup \ UNION C)}
    IN after[MetaLength]

\* A meta trend has two groups at least.
MetaTrends(L) == {S \in ClusterGroupsByKeywords(L) : Cardinality(S) >= 2}

\* The groups of the window and their keywords change.
GroupsChange(L) ==
    /\ links' = L
    /\ UNCHANGED <<batchVars, metaCache>>

\* GET /trends/meta keeps the best of the meta trends, as many as were asked for.  The
\* key has the locale and not the limit: until the copy expires it answers every request.
GetMetaTrends(limit, top) ==
    /\ \/ metaCache # <<>> /\ UNCHANGED metaCache
       \/ /\ metaCache = <<>> /\ Cardinality(top) <= limit
          /\ top = MetaTrends(links) \/ Cardinality(top) = limit
          /\ metaCache' \in {<<top>>, <<>>}
    /\ UNCHANGED <<batchVars, links>>

MetaCacheExpires ==
    /\ metaCache # <<>> /\ metaCache' = <<>>
    /\ UNCHANGED <<batchVars, links>>

Dense == {D \in SUBSET {S \in SUBSET Article : Cardinality(S) >= 2} :
             \A S, T \in D : S = T \/ S \cap T = {}}

NextBatch ==
    \/ \E near \in [Article -> Level] :
          \/ \E sim \in [Pair(Article) -> Level] : StageClusterGreedy(sim, near)
          \/ \E dense \in Dense, rich \in SUBSET Article : StageClusterHdbscan(dense, rich, near)
    \/ StageClusterFails

NextMeta ==
    \/ \E L \in SUBSET Pair(MetaGroup) : GroupsChange(L)
    \/ \E limit \in MetaLimit, top \in SUBSET MetaTrends(links) : GetMetaTrends(limit, top)
    \/ MetaCacheExpires

NextClustering == NextBatch \/ NextMeta

SpecClustering == InitClustering /\ [][NextClustering]_clusteringVars

(***************************************************************************)
(* Properties.                                                             *)
(***************************************************************************)

\* The clusters of a batch, the pairs of groups and the response.
ClusteringTypeOK ==
    /\ clusters \subseteq [rep : Article, members : SUBSET Article]
    /\ dropped \subseteq Article /\ articleMap \in ArticleMaps /\ links \subseteq Pair(MetaGroup)
    /\ metaCache # <<>> => metaCache = <<metaCache[1]>> /\ metaCache[1] \subseteq SUBSET MetaGroup

\* Every group of S is linked to every other, through groups of S.
Connected(S, L) ==
    \A T \in (SUBSET S) \ {{}, S} : \E i \in T, j \in S \ T : {i, j} \in L

\* Clustering and the separation of outliers lose no article and put none in two groups,
\* but for the noise that is left out on purpose.  A row whose url_hash no other row of the
\* batch has goes with its article: to that cluster, and to no other.  The meta trends divide the groups into
\* linked sets, and one pass in the order of the scores keeps two linked groups apart
\* only when the better of them was passed over before the other was taken.
ClustersSound ==
    /\ \A i \in UNION {All(d) : d \in clusters} :
          i \notin dropped /\ Cardinality({d \in clusters : i \in All(d)}) = 1
    /\ clusters # {} => (UNION {All(d) : d \in clusters}) \cup dropped = Article
    /\ \A i \in Article : (\A j \in Article \ {i} : articleMap[j] # articleMap[i]) =>
          \A d \in clusters : i \in Rows(d) <=> i \in All(d)
    /\ LET C == ClusterGroupsByKeywords(links)
       IN /\ UNION C = MetaGroup /\ \A S \in C : Connected(S, links)
          /\ \A S, T \in C : Min(S) < Min(T) =>
                \A m \in S, j \in T : j \notin S /\ ({m, j} \in links => j < m)

=============================================================================
