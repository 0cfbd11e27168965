--------------------------- MODULE PipelineProofs ---------------------------
(***************************************************************************)
(* Proofs about Pipeline, for every set of rows, batch size and fault      *)
(* bound.  The steps of the specification are grouped by what they write:  *)
(* each lemma below shows that one group preserves the inductive           *)
(* invariant IInv.                                                         *)
(***************************************************************************)
EXTENDS Pipeline, FiniteSetTheorems, TLAPS

\* The cluster sets of a batch are finite, so that a batch insert adds a number
\* of groups.
LEMMA ClustersFinite ==
    ASSUME TypeOK
    PROVE  Cardinality(clusters) \in Nat
<1>1. IsFiniteSet(SUBSET Row)
  BY RowAssumption, FS_SUBSET
<1>2. IsFiniteSet(clusters)
  BY <1>1, FS_Subset DEF TypeOK
<1> QED
  BY <1>2, FS_CardinalityType

LEMMA FaultType == TypeOK /\ Fault => faults' \in 0 .. MaxFaults
  BY BoundAssumption DEF TypeOK, Fault

LEMMA InitIInv == Init => IInv
<1> SUFFICES ASSUME Init PROVE IInv
  OBVIOUS
<1> USE DEF Init, NoSnapshot, NoCurrent, NoGroup
<1>1. TypeOK
  BY BoundAssumption DEF TypeOK, Stages, Score
<1>2. StageInv
  BY DEF StageInv
<1>3. SeenInv /\ FlightInv /\ NoFalseDuplicate
  BY DEF SeenInv, FlightInv, InFlight, NoFalseDuplicate
<1>4. ScoreKeepsSnapshotFloor /\ AnnouncedGroupsVisible
  BY DEF ScoreKeepsSnapshotFloor, AnnouncedGroupsVisible
<1> QED
  BY <1>1, <1>2, <1>3, <1>4 DEF IInv

\* A stuttering step.
LEMMA StutterIInv == IInv /\ UNCHANGED vars => IInv'
  BY DEF IInv, vars, dbVars, crawlVars, redisVars, batchVars, historyVars,
         TypeOK, StageInv, SeenInv, FlightInv, InFlight, HasTwin,
         NoFalseDuplicate, ScoreKeepsSnapshotFloor, AnnouncedGroupsVisible

\* A row that is stored keeps every twin it has.
LEMMA CrawlIInv ==
    ASSUME IInv, NEW r \in Row, LookUp(r) \/ Insert(r)
    PROVE  IInv'
<1> USE DEF IInv, redisVars, batchVars, historyVars
<1>1. /\ crawled \subseteq crawled'
      /\ crawled' \subseteq Row /\ inserting' \subseteq Row
      /\ UNCHANGED <<groupOf, nGroups, score, redisVars, bloom, batchVars,
                     faults, historyVars>>
  BY DEF LookUp, Insert, TypeOK
<1>2. \A q \in Row : HasTwin(q) => HasTwin(q)'
  BY <1>1 DEF HasTwin
<1>3. TypeOK'
  BY <1>1 DEF TypeOK
<1>4. StageInv' /\ SeenInv' /\ NoFalseDuplicate' /\ ScoreKeepsSnapshotFloor'
  BY <1>1 DEF StageInv, SeenInv, NoFalseDuplicate, ScoreKeepsSnapshotFloor
<1>5. FlightInv'
  BY <1>1, <1>2 DEF FlightInv, InFlight, TypeOK
<1>6. AnnouncedGroupsVisible'
  BY <1>1, <1>2 DEF AnnouncedGroupsVisible, TypeOK
<1> QED
  BY <1>3, <1>4, <1>5, <1>6

LEMMA ExpireIInv == IInv /\ (ExpireUrlSet \/ ExpireFpSet) => IInv'
  BY DEF IInv, ExpireUrlSet, ExpireFpSet, dbVars, crawlVars, batchVars,
         historyVars, TypeOK, StageInv, SeenInv, FlightInv, InFlight, HasTwin,
         NoFalseDuplicate, ScoreKeepsSnapshotFloor, AnnouncedGroupsVisible

LEMMA RestartIInv == IInv /\ Restart => IInv'
<1> SUFFICES ASSUME IInv, Restart PROVE IInv'
  OBVIOUS
<1> USE DEF IInv, Restart, dbVars, crawlVars, redisVars, historyVars
<1>1. TypeOK'
  BY BoundAssumption DEF TypeOK, Stages, Score, NoSnapshot, NoCurrent, NoGroup, Fault
<1>2. StageInv'
  BY DEF StageInv
<1>3. SeenInv' /\ NoFalseDuplicate'
  BY DEF SeenInv, NoFalseDuplicate
<1>4. FlightInv' /\ ScoreKeepsSnapshotFloor' /\ AnnouncedGroupsVisible'
  BY DEF FlightInv, InFlight, ScoreKeepsSnapshotFloor, AnnouncedGroupsVisible,
         NoSnapshot, NoCurrent
<1> QED
  BY <1>1, <1>2, <1>3, <1>4

LEMMA FetchIInv == IInv /\ Fetch => IInv'
<1> SUFFICES ASSUME IInv, Fetch PROVE IInv'
  OBVIOUS
<1> USE DEF IInv, Fetch, dbVars, crawlVars, redisVars
<1>1. todo' \subseteq Unprocessed /\ fetched' \subseteq Row
  BY DEF Batches, Unprocessed, TypeOK
<1>2. TypeOK'
  BY <1>1 DEF TypeOK, Stages, Unprocessed
<1>3. StageInv'
  BY DEF StageInv
<1>4. FlightInv'
  BY <1>1 DEF FlightInv, InFlight, Unprocessed, StageInv, NoCurrent
<1>5. SeenInv' /\ NoFalseDuplicate' /\ ScoreKeepsSnapshotFloor'
        /\ AnnouncedGroupsVisible'
  BY DEF SeenInv, NoFalseDuplicate, ScoreKeepsSnapshotFloor,
         AnnouncedGroupsVisible, HasTwin
<1> QED
  BY <1>2, <1>3, <1>4, <1>5

\* The four ways through is_duplicate: a row is let through, and what Redis and
\* the Bloom filter gain is its own url and content; or it is refused, and Redis
\* held one of the two.
LEMMA DedupeIInv ==
    ASSUME IInv, NEW r \in Row,
           DedupeNew(r) \/ DedupeDuplicate(r) \/ DedupeUnknown(r) \/ DedupeError(r)
    PROVE  IInv'
<1> USE DEF IInv, dbVars, crawlVars, redisVars
<1>1. pc = "dedupe" /\ r \in todo
  BY DEF DedupeNew, DedupeDuplicate, DedupeUnknown, DedupeError, Newest
<1>2. \/ /\ AfterDedupe(r, TRUE)
         /\ redisUrl' \in {redisUrl, redisUrl \cup {UrlOf[r]}}
         /\ redisFp' \in {redisFp, redisFp \cup {FpOf[r]}}
         /\ bloom' \in {bloom, bloom \cup {UrlOf[r]}}
      \/ /\ AfterDedupe(r, FALSE)
         /\ UNCHANGED <<redisUrl, redisFp, bloom>>
         /\ UrlOf[r] \in redisUrl \/ FpOf[r] \in redisFp
  BY DEF DedupeNew, DedupeDuplicate, DedupeUnknown, DedupeError, Register
<1>3. /\ todo' = todo \ {r}
      /\ passed' \subseteq passed \cup {r}
      /\ pc' \in {"dedupe", "idle", "filter"}
      /\ admitted \subseteq admitted'
      /\ admitted' \subseteq Row /\ rejected' \subseteq Row
      /\ UNCHANGED <<dbVars, snapshot, clusters, current, announce, faults,
                     fetched, unsaved, inDoubt, published>>
      /\ \/ admitted' = admitted \cup {r} /\ rejected' = rejected
         \/ /\ rejected' = rejected \cup {r}
            /\ UNCHANGED <<admitted, redisUrl, redisFp>>
            /\ UrlOf[r] \in redisUrl \/ FpOf[r] \in redisFp
  BY <1>2 DEF AfterDedupe, TypeOK
<1>4. UrlOf[r] \in Url /\ FpOf[r] \in Fingerprint
  BY RowAssumption
<1>5. TypeOK'
  BY <1>2, <1>3, <1>4 DEF TypeOK, Stages
<1>6. StageInv'
  BY <1>1, <1>3 DEF StageInv
<1>7. SeenInv'
  BY <1>2, <1>3 DEF SeenInv
<1>8. NoFalseDuplicate'
  BY <1>2, <1>3 DEF SeenInv, NoFalseDuplicate
<1>9. FlightInv'
  BY <1>1, <1>3 DEF FlightInv, InFlight, HasTwin
<1>10. ScoreKeepsSnapshotFloor' /\ AnnouncedGroupsVisible'
  BY <1>3 DEF ScoreKeepsSnapshotFloor, AnnouncedGroupsVisible, HasTwin
<1> QED
  BY <1>5, <1>6, <1>7, <1>8, <1>9, <1>10

\* The steps below keep the filter's memory: what it knew stays justified.
LEMMA SeenStays ==
    SeenInv /\ NoFalseDuplicate /\ UNCHANGED <<redisVars, admitted, rejected>>
        => SeenInv' /\ NoFalseDuplicate'
  BY DEF redisVars, SeenInv, NoFalseDuplicate

\* Dropping rows from the batch keeps FlightInv.
LEMMA FlightShrinks ==
    ASSUME FlightInv, InFlight' \subseteq InFlight,
           UNCHANGED <<crawled, groupOf, inDoubt>>
    PROVE  FlightInv'
  BY DEF FlightInv, HasTwin

LEMMA FilterIInv == IInv /\ Filter => IInv'
<1> SUFFICES ASSUME IInv, Filter PROVE IInv'
  OBVIOUS
<1> USE DEF IInv, Filter, dbVars, crawlVars, redisVars, historyVars
<1>1. TypeOK'
  BY DEF TypeOK, Stages
<1>2. StageInv'
  BY DEF StageInv
<1>3. FlightInv'
  BY FlightShrinks DEF InFlight
<1>4. SeenInv' /\ NoFalseDuplicate'
  BY SeenStays
<1>5. ScoreKeepsSnapshotFloor' /\ AnnouncedGroupsVisible'
  BY DEF ScoreKeepsSnapshotFloor, AnnouncedGroupsVisible, HasTwin
<1> QED
  BY <1>1, <1>2, <1>3, <1>4, <1>5

\* The snapshot is a copy of the scores: it is a floor for them.
LEMMA FetchGroupsIInv == IInv /\ FetchGroups => IInv'
<1> SUFFICES ASSUME IInv, FetchGroups PROVE IInv'
  OBVIOUS
<1> USE DEF IInv, FetchGroups, dbVars, crawlVars, redisVars, historyVars
<1>1. PICK G \in SUBSET (1 .. nGroups) : snapshot' = [g \in G |-> score[g]]
  OBVIOUS
<1>2. \/ pc' = "cluster" /\ todo' = todo /\ passed' = passed
      \/ pc' = "match" /\ todo' = passed /\ passed' = {}
  OBVIOUS
<1>3. TypeOK'
  BY <1>1, <1>2 DEF TypeOK, Stages
<1>4. StageInv'
  BY <1>2 DEF StageInv
<1>5. FlightInv'
  BY <1>2, FlightShrinks DEF InFlight
<1>6. SeenInv' /\ NoFalseDuplicate'
  BY SeenStays
<1>7. ScoreKeepsSnapshotFloor'
  <2>1. \A g \in G : score[g] \in Nat
    BY DEF TypeOK, Score
  <2> QED
    BY <1>1, <2>1 DEF ScoreKeepsSnapshotFloor
<1>8. AnnouncedGroupsVisible'
  BY DEF AnnouncedGroupsVisible, HasTwin
<1> QED
  BY <1>3, <1>4, <1>5, <1>6, <1>7, <1>8

(***************************************************************************)
(* Writing a group id.                                                     *)
(***************************************************************************)

\* UPDATE ... WHERE url_hash = u for the url of a row of the batch reaches that
\* row and its twins; the row itself either leaves the batch or is in doubt.
LEMMA FlightAfterWrite ==
    ASSUME TypeOK, FlightInv, NEW q \in InFlight, NEW g \in Nat,
           groupOf' = Assign(g, UrlOf[q]),
           crawled' = crawled, inDoubt \subseteq inDoubt',
           InFlight' \subseteq InFlight,
           q \notin InFlight' \/ UrlOf[q] \in inDoubt'
    PROVE  FlightInv'
<1> SUFFICES ASSUME NEW r \in InFlight'
             PROVE  /\ r \in crawled'
                    /\ \/ groupOf'[r] = NoGroup
                       \/ HasTwin(r)'
                       \/ UrlOf[r] \in inDoubt'
  BY DEF FlightInv
<1>1. r \in InFlight /\ r \in Row /\ r \in crawled /\ q \in crawled
  BY DEF FlightInv, TypeOK
<1>2. CASE UrlOf[r] # UrlOf[q]
  BY <1>1, <1>2 DEF FlightInv, Assign, HasTwin
<1>3. CASE UrlOf[r] = UrlOf[q] /\ r # q
  BY <1>1, <1>3 DEF HasTwin
<1>4. CASE r = q
  BY <1>1, <1>4
<1> QED
  BY <1>1, <1>2, <1>3, <1>4

\* A write on behalf of a row of the batch moves no other grouped row that is
\* the only one of its url.
LEMMA WriteRegroups ==
    ASSUME TypeOK, FlightInv, NEW q \in InFlight, NEW r \in Row,
           r \in crawled, UrlOf[r] = UrlOf[q], groupOf[r] # NoGroup
    PROVE  HasTwin(r) \/ UrlOf[r] \in inDoubt
<1>1. CASE r = q
  BY <1>1 DEF FlightInv
<1>2. CASE r # q
  BY <1>2 DEF FlightInv, HasTwin
<1> QED
  BY <1>1, <1>2

LEMMA AssignType ==
    ASSUME TypeOK, NEW g \in 1 .. nGroups, NEW u
    PROVE  Assign(g, u) \in [Row -> 0 .. nGroups]
  BY DEF TypeOK, Assign

LEMMA MatchNoneIInv ==
    ASSUME IInv, NEW r \in Row, MatchNone(r)
    PROVE  IInv'
<1> USE DEF IInv, MatchNone, AfterMatch, crawlVars, redisVars
<1>1. r \in todo
  BY DEF Newest
<1>2. TypeOK'
  BY DEF TypeOK, Stages, NoSnapshot
<1>3. StageInv'
  BY <1>1 DEF StageInv
<1>4. FlightInv'
  BY <1>1, FlightShrinks DEF InFlight
<1>5. SeenInv' /\ NoFalseDuplicate'
  BY SeenStays
<1>6. ScoreKeepsSnapshotFloor' /\ AnnouncedGroupsVisible'
  BY DEF ScoreKeepsSnapshotFloor, AnnouncedGroupsVisible, HasTwin, NoSnapshot
<1> QED
  BY <1>2, <1>3, <1>4, <1>5, <1>6

LEMMA MatchGroupIInv ==
    ASSUME IInv, NEW r \in Row, NEW g \in 1 .. nGroups, MatchGroup(r, g)
    PROVE  IInv'
<1> USE DEF IInv, MatchGroup, Rescored, AfterMatch, crawlVars, redisVars
<1>1. /\ r \in todo /\ r \in InFlight /\ pc = "match" /\ g \in DOMAIN snapshot
      /\ clusters = {} /\ current = NoCurrent /\ announce = {} /\ r \notin passed
  BY DEF Newest, InFlight, StageInv
<1>2. /\ score' \in [1 .. nGroups -> Score]
      /\ \A h \in DOMAIN snapshot : score'[h] >= snapshot[h]
  <2>1. /\ score \in [1 .. nGroups -> Score]
        /\ snapshot[g] \in Score
        /\ \A h \in DOMAIN snapshot : h \in 1 .. nGroups /\ snapshot[h] \in Score
    BY <1>1 DEF TypeOK
  <2>2. CASE UNCHANGED score
    BY <2>1, <2>2 DEF ScoreKeepsSnapshotFloor
  <2>3. ASSUME NEW s \in Score,
               score' = [score EXCEPT ![g] = IF s > snapshot[g] THEN s ELSE snapshot[g]]
        PROVE  /\ score' \in [1 .. nGroups -> Score]
               /\ \A h \in DOMAIN snapshot : score'[h] >= snapshot[h]
    BY <2>1, <2>3 DEF ScoreKeepsSnapshotFloor, Score
  <2> QED
    BY <2>2, <2>3
<1>3. TypeOK'
  BY <1>1, <1>2, AssignType DEF TypeOK, Stages, NoSnapshot
<1>4. StageInv'
  BY <1>1 DEF StageInv
<1>5. FlightInv'
  <2>1. r \notin InFlight' /\ InFlight' \subseteq InFlight
    BY <1>1 DEF InFlight, NoCurrent
  <2>2. g \in Nat
    BY DEF TypeOK
  <2> QED
    BY <1>1, <2>1, <2>2, FlightAfterWrite
<1>6. SeenInv' /\ NoFalseDuplicate'
  BY SeenStays
<1>7. ScoreKeepsSnapshotFloor'
  BY <1>2 DEF ScoreKeepsSnapshotFloor, NoSnapshot
<1>8. AnnouncedGroupsVisible'
  BY <1>1 DEF AnnouncedGroupsVisible
<1> QED
  BY <1>3, <1>4, <1>5, <1>6, <1>7, <1>8

LEMMA MatchInDoubtIInv ==
    ASSUME IInv, NEW r \in Row, NEW g \in 1 .. nGroups, MatchInDoubt(r, g)
    PROVE  IInv'
<1> USE DEF IInv, MatchInDoubt, AfterMatch, crawlVars, redisVars
<1>1. r \in todo /\ r \in InFlight /\ pc = "match" /\ announce = {}
  BY DEF Newest, InFlight, StageInv
<1>2. UrlOf[r] \in Url
  BY RowAssumption
<1>3. TypeOK'
  <2>1. groupOf' \in [Row -> 0 .. nGroups]
    BY AssignType
  <2>2. faults' \in 0 .. MaxFaults
    BY FaultType
  <2> QED
    BY <1>2, <2>1, <2>2 DEF TypeOK, Stages, NoSnapshot
<1>4. StageInv'
  BY <1>1 DEF StageInv
<1>5. FlightInv'
  <2>1. InFlight' \subseteq InFlight
    BY <1>1 DEF InFlight
  <2>2. g \in Nat
    BY DEF TypeOK
  <2> QED
    BY <1>1, <2>1, <2>2, FlightAfterWrite
<1>6. SeenInv' /\ NoFalseDuplicate'
  BY SeenStays
<1>7. ScoreKeepsSnapshotFloor' /\ AnnouncedGroupsVisible'
  BY <1>1 DEF ScoreKeepsSnapshotFloor, AnnouncedGroupsVisible, NoSnapshot
<1> QED
  BY <1>3, <1>4, <1>5, <1>6, <1>7

(***************************************************************************)
(* Clustering and saving.                                                  *)
(***************************************************************************)

LEMMA ClusterIInv == IInv /\ Cluster => IInv'
<1> SUFFICES ASSUME IInv, Cluster PROVE IInv'
  OBVIOUS
<1> USE DEF IInv, Cluster, dbVars, crawlVars, redisVars, historyVars
<1>1. /\ pc = "cluster" /\ todo = {} /\ current = NoCurrent /\ announce = {}
  BY DEF StageInv
<1>2. PICK kept \in SUBSET passed : clusters' \in Partitions(kept)
  OBVIOUS
<1>3. /\ UNION clusters' \subseteq passed
      /\ clusters' \in SUBSET (SUBSET Row)
      /\ {} \notin clusters'
      /\ \A C, D \in clusters' : C = D \/ C \cap D = {}
  <2>1. /\ clusters' \subseteq (SUBSET kept) \ {{}}
        /\ UNION clusters' = kept
        /\ \A A, B \in clusters' : A = B \/ A \cap B = {}
    BY <1>2 DEF Partitions
  <2>2. kept \subseteq Row
    BY DEF TypeOK
  <2> QED
    BY <2>1, <2>2
<1>4. TypeOK'
  BY <1>3 DEF TypeOK, Stages
<1>5. StageInv'
  BY <1>1, <1>3 DEF StageInv, NoCurrent
<1>6. FlightInv'
  BY <1>3, FlightShrinks DEF InFlight
<1>7. SeenInv' /\ NoFalseDuplicate'
  BY SeenStays
<1>8. ScoreKeepsSnapshotFloor' /\ AnnouncedGroupsVisible'
  BY <1>1 DEF ScoreKeepsSnapshotFloor, AnnouncedGroupsVisible
<1> QED
  BY <1>4, <1>5, <1>6, <1>7, <1>8

LEMMA ScoreClustersIInv == IInv /\ ScoreClusters => IInv'
<1> SUFFICES ASSUME IInv, ScoreClusters PROVE IInv'
  OBVIOUS
<1> USE DEF IInv, ScoreClusters, dbVars, crawlVars, redisVars, historyVars
<1>1. pc = "score" /\ announce = {} /\ current = NoCurrent
  BY DEF StageInv
<1>2. clusters' \subseteq clusters /\ pc' \in {"warm", "save"}
      /\ (pc' = "warm" => clusters' = {})
  OBVIOUS
<1>3. TypeOK'
  BY <1>2 DEF TypeOK, Stages
<1>4. StageInv'
  BY <1>1, <1>2 DEF StageInv
<1>5. FlightInv'
  BY <1>2, FlightShrinks DEF InFlight
<1>6. SeenInv' /\ NoFalseDuplicate'
  BY SeenStays
<1>7. ScoreKeepsSnapshotFloor' /\ AnnouncedGroupsVisible'
  BY <1>1 DEF ScoreKeepsSnapshotFloor, AnnouncedGroupsVisible
<1> QED
  BY <1>3, <1>4, <1>5, <1>6, <1>7

\* What the transaction of a batch leaves behind: as many new groups as
\* clusters, the old scores, and every row of a cluster in a new group; a new
\* group is empty only when another cluster took all its urls.
LEMMA BatchCommits ==
    ASSUME IInv, BatchCommitted, pc = "save", crawled' = crawled
    PROVE  /\ nGroups' \in Nat /\ nGroups <= nGroups'
           /\ score' \in [1 .. nGroups' -> Score]
           /\ groupOf' \in [Row -> 0 .. nGroups']
           /\ \A g \in 1 .. nGroups : score'[g] = score[g]
           /\ \A r \in Row : groupOf'[r] # groupOf[r]
                  => r \in crawled /\ UrlOf[r] \in UNION {Urls(C) : C \in clusters}
           /\ \A g \in nGroups + 1 .. nGroups' :
                  \/ \E r \in crawled : groupOf'[r] = g
                  \/ \E r \in crawled : HasTwin(r)
<1> USE DEF IInv
<1> DEFINE n == Cardinality(clusters)
           dom == UNION {Urls(C) : C \in clusters}
<1>1. n \in Nat /\ nGroups \in Nat
  BY ClustersFinite DEF TypeOK
<1> HIDE DEF n
<1>2. PICK id \in [clusters -> nGroups + 1 .. nGroups + n] :
        /\ \A g \in nGroups + 1 .. nGroups + n : \E C \in clusters : id[C] = g
        /\ nGroups' = nGroups + n
        /\ \E s \in [1 .. nGroups' -> Score] :
              /\ \A g \in 1 .. nGroups : s[g] = score[g]
              /\ score' = s
        /\ \E new \in [dom -> clusters] :
              /\ \A u \in DOMAIN new : u \in Urls(new[u])
              /\ groupOf' = [r \in Row |->
                               IF r \in crawled /\ UrlOf[r] \in DOMAIN new
                               THEN id[new[UrlOf[r]]] ELSE groupOf[r]]
  BY DEF BatchCommitted, n
<1>3. PICK new \in [dom -> clusters] :
        /\ \A u \in DOMAIN new : u \in Urls(new[u])
        /\ groupOf' = [r \in Row |->
                         IF r \in crawled /\ UrlOf[r] \in DOMAIN new
                         THEN id[new[UrlOf[r]]] ELSE groupOf[r]]
  BY <1>2
<1> HIDE DEF dom
<1>4. nGroups' \in Nat /\ nGroups <= nGroups'
  BY <1>1, <1>2
<1>5. /\ score' \in [1 .. nGroups' -> Score]
      /\ \A g \in 1 .. nGroups : score'[g] = score[g]
  BY <1>2
<1>6. groupOf' \in [Row -> 0 .. nGroups']
  <2>1. \A r \in Row : groupOf[r] \in 0 .. nGroups'
    BY <1>1, <1>4 DEF TypeOK
  <2>2. \A u \in dom : id[new[u]] \in 0 .. nGroups'
    BY <1>1, <1>2
  <2> QED
    BY <1>3, <2>1, <2>2
<1>7. ASSUME NEW r \in Row, groupOf'[r] # groupOf[r]
      PROVE  r \in crawled /\ UrlOf[r] \in dom
  BY <1>3, <1>7
<1>8. ASSUME NEW g \in nGroups + 1 .. nGroups'
      PROVE  \/ \E r \in crawled : groupOf'[r] = g
             \/ \E r \in crawled : HasTwin(r)
  <2>1. PICK C \in clusters : id[C] = g
    BY <1>2
  <2>2. PICK r \in C : r \in Row /\ r \in crawled
    BY DEF StageInv, FlightInv, InFlight, TypeOK
  <2>3. UrlOf[r] \in dom
    BY DEF dom, Urls
  <2>4. CASE new[UrlOf[r]] = C
    BY <1>3, <2>1, <2>2, <2>3, <2>4
  <2>5. CASE new[UrlOf[r]] # C
    <3> DEFINE D == new[UrlOf[r]]
    <3>1. D \in clusters /\ UrlOf[r] \in Urls(D)
      BY <1>3, <2>3
    <3>2. PICK t \in D : UrlOf[t] = UrlOf[r]
      BY <3>1 DEF Urls
    <3>3. t \in crawled /\ t # r
      BY <2>5, <3>1, <3>2 DEF StageInv, FlightInv, InFlight
    <3> QED
      BY <2>2, <3>2, <3>3 DEF HasTwin
  <2> QED
    BY <2>4, <2>5
<1> QED
  BY <1>4, <1>5, <1>6, <1>7, <1>8 DEF dom

LEMMA SaveBatchIInv == IInv /\ SaveBatch => IInv'
<1> SUFFICES ASSUME IInv, SaveBatch PROVE IInv'
  OBVIOUS
<1>1. /\ pc = "save" /\ BatchCommitted
      /\ announce' = nGroups + 1 .. nGroups' /\ clusters' = {} /\ pc' = "publish"
      /\ UNCHANGED <<crawled, inserting, redisUrl, redisFp, bloom, todo, passed,
                     snapshot, current, faults, historyVars>>
  BY DEF SaveBatch, crawlVars, redisVars
<1>2. /\ nGroups' \in Nat /\ nGroups <= nGroups' /\ nGroups \in Nat
      /\ score' \in [1 .. nGroups' -> Score]
      /\ groupOf' \in [Row -> 0 .. nGroups']
      /\ \A g \in 1 .. nGroups : score'[g] = score[g]
      /\ \A g \in nGroups + 1 .. nGroups' :
             \/ \E r \in crawled : groupOf'[r] = g
             \/ \E r \in crawled : HasTwin(r)
  BY <1>1, BatchCommits DEF IInv, TypeOK
<1>3. TypeOK'
  BY <1>1, <1>2 DEF IInv, TypeOK, Stages, historyVars
<1>4. StageInv' /\ FlightInv'
  BY <1>1 DEF IInv, StageInv, FlightInv, InFlight, NoCurrent
<1>5. SeenInv' /\ NoFalseDuplicate'
  BY <1>1, SeenStays DEF IInv, redisVars, historyVars
<1>6. ScoreKeepsSnapshotFloor'
  BY <1>1, <1>2 DEF IInv, TypeOK, ScoreKeepsSnapshotFloor
<1>7. AnnouncedGroupsVisible'
  BY <1>1, <1>2 DEF AnnouncedGroupsVisible, HasTwin
<1> QED
  BY <1>3, <1>4, <1>5, <1>6, <1>7 DEF IInv

LEMMA SaveBatchFailsIInv == IInv /\ SaveBatchFails => IInv'
<1> SUFFICES ASSUME IInv, SaveBatchFails PROVE IInv'
  OBVIOUS
<1> USE DEF IInv, SaveBatchFails, dbVars, crawlVars, redisVars, historyVars
<1>1. TypeOK'
  BY DEF TypeOK, Stages, NoFault
<1>2. StageInv'
  BY DEF StageInv
<1>3. FlightInv'
  BY FlightShrinks DEF InFlight, NoFault
<1>4. SeenInv' /\ NoFalseDuplicate'
  BY SeenStays
<1>5. ScoreKeepsSnapshotFloor' /\ AnnouncedGroupsVisible'
  BY DEF ScoreKeepsSnapshotFloor, AnnouncedGroupsVisible, HasTwin
<1> QED
  BY <1>1, <1>2, <1>3, <1>4, <1>5

LEMMA SaveBatchInDoubtIInv == IInv /\ SaveBatchInDoubt => IInv'
<1> SUFFICES ASSUME IInv, SaveBatchInDoubt PROVE IInv'
  OBVIOUS
<1>1. /\ pc = "save" /\ BatchCommitted /\ Fault /\ pc' = "single"
      /\ inDoubt' = inDoubt \cup UNION {Urls(C) : C \in clusters}
      /\ UNCHANGED <<crawled, inserting, redisUrl, redisFp, bloom, todo, passed,
                     snapshot, clusters, current, announce, fetched, admitted,
                     rejected, unsaved, published>>
  BY DEF SaveBatchInDoubt, crawlVars, redisVars
<1>2. /\ nGroups' \in Nat /\ nGroups <= nGroups' /\ nGroups \in Nat
      /\ score' \in [1 .. nGroups' -> Score]
      /\ groupOf' \in [Row -> 0 .. nGroups']
      /\ \A g \in 1 .. nGroups : score'[g] = score[g]
  BY <1>1, BatchCommits DEF IInv, TypeOK
<1>3. /\ announce = {} /\ todo = {} /\ passed = {} /\ current = NoCurrent
  BY <1>1 DEF IInv, StageInv
<1>4. TypeOK'
  <2>1. inDoubt' \subseteq Url
    BY <1>1, RowAssumption DEF IInv, TypeOK, Urls
  <2>2. faults' \in 0 .. MaxFaults
    BY <1>1, FaultType DEF IInv
  <2> QED
    BY <1>1, <1>2, <2>1, <2>2 DEF IInv, TypeOK, Stages
<1>5. StageInv'
  BY <1>1 DEF IInv, StageInv
<1>6. FlightInv'
  <2>1. InFlight' = UNION clusters /\ InFlight' \subseteq InFlight
    BY <1>1, <1>3 DEF InFlight, NoCurrent
  <2>2. \A r \in InFlight' : UrlOf[r] \in inDoubt'
    BY <1>1, <2>1 DEF Urls
  <2> QED
    BY <1>1, <2>1, <2>2 DEF IInv, FlightInv
<1>7. SeenInv' /\ NoFalseDuplicate'
  BY <1>1, SeenStays DEF IInv, redisVars
<1>8. ScoreKeepsSnapshotFloor' /\ AnnouncedGroupsVisible'
  BY <1>1, <1>2, <1>3 DEF IInv, TypeOK, ScoreKeepsSnapshotFloor, AnnouncedGroupsVisible
<1> QED
  BY <1>4, <1>5, <1>6, <1>7, <1>8 DEF IInv

LEMMA InsertGroupIInv ==
    ASSUME IInv, NEW C \in clusters, InsertGroup(C)
    PROVE  IInv'
<1> USE DEF IInv
<1>1. /\ pc = "single" /\ clusters' = clusters \ {C}
      /\ UNCHANGED <<crawled, inserting, groupOf, redisUrl, redisFp, bloom, todo,
                     passed, snapshot, announce, fetched, admitted, rejected,
                     inDoubt, published>>
  BY DEF InsertGroup, crawlVars, redisVars
<1>2. /\ announce = {} /\ todo = {} /\ passed = {} /\ current = NoCurrent
      /\ C \subseteq Row /\ C # {} /\ nGroups \in Nat
  BY <1>1 DEF StageInv, TypeOK
<1>3. SeenInv' /\ NoFalseDuplicate'
  BY <1>1, SeenStays DEF redisVars
<1>4. CASE /\ nGroups' = nGroups + 1
           /\ \E s \in Score :
                score' = [g \in 1 .. nGroups' |-> IF g = nGroups' THEN s ELSE score[g]]
           /\ current' = [group |-> nGroups', rows |-> C]
           /\ pc' = "singleUpdate"
           /\ faults' = faults
           /\ unsaved' = unsaved
  <2>1. /\ score' \in [1 .. nGroups' -> Score]
        /\ \A g \in 1 .. nGroups : score'[g] = score[g]
    BY <1>2, <1>4 DEF TypeOK
  <2>2. TypeOK'
    BY <1>1, <1>2, <1>4, <2>1 DEF TypeOK, Stages
  <2>3. StageInv'
    BY <1>1, <1>2, <1>4 DEF StageInv
  <2>4. FlightInv'
    <3>1. current'.rows = C
      BY <1>4
    <3>2. C \cup (UNION clusters') \subseteq UNION clusters
      BY <1>1
    <3>3. InFlight' \subseteq InFlight
      BY <1>1, <3>1, <3>2 DEF InFlight
    <3> QED
      BY <1>1, <1>4, <3>3, FlightShrinks
  <2>5. ScoreKeepsSnapshotFloor' /\ AnnouncedGroupsVisible'
    BY <1>1, <1>2, <2>1 DEF TypeOK, ScoreKeepsSnapshotFloor, AnnouncedGroupsVisible
  <2> QED
    BY <1>3, <2>2, <2>3, <2>4, <2>5
<1>5. CASE /\ Fault
           /\ pc' = IF clusters' = {} THEN "warm" ELSE "single"
           /\ unsaved' = unsaved \cup C
           /\ UNCHANGED <<nGroups, score, current>>
  <2>1. TypeOK'
    <3>1. faults' \in 0 .. MaxFaults
      BY <1>5, FaultType
    <3> QED
      BY <1>1, <1>2, <1>5, <3>1 DEF TypeOK, Stages
  <2>2. StageInv'
    BY <1>1, <1>2, <1>5 DEF StageInv
  <2>3. FlightInv'
    BY <1>1, <1>5, FlightShrinks DEF InFlight
  <2>4. ScoreKeepsSnapshotFloor' /\ AnnouncedGroupsVisible'
    BY <1>1, <1>2, <1>5 DEF ScoreKeepsSnapshotFloor, AnnouncedGroupsVisible
  <2> QED
    BY <1>3, <2>1, <2>2, <2>3, <2>4
<1> QED
  BY <1>4, <1>5 DEF InsertGroup, NoFault

LEMMA UpdateRowIInv ==
    ASSUME IInv, NEW r \in Row, UpdateRow(r)
    PROVE  IInv'
<1> USE DEF IInv
<1>1. /\ pc = "singleUpdate" /\ r \in current.rows
      /\ pc' = IF current' # NoCurrent THEN "singleUpdate"
               ELSE IF clusters = {} THEN "warm" ELSE "single"
      /\ UNCHANGED <<crawled, inserting, nGroups, score, redisUrl, redisFp, bloom,
                     todo, passed, snapshot, clusters, announce, fetched,
                     admitted, rejected, published>>
  BY DEF UpdateRow, crawlVars, redisVars
<1>2. \/ /\ groupOf' = Assign(current.group, UrlOf[r])
         /\ current' = IF current.rows = {r} THEN NoCurrent
                       ELSE [current EXCEPT !.rows = @ \ {r}]
         /\ UNCHANGED <<unsaved, inDoubt, faults>>
      \/ /\ Fault
         /\ current' = NoCurrent
         /\ unsaved' = unsaved \cup current.rows
         /\ \/ UNCHANGED <<groupOf, inDoubt>>
            \/ /\ groupOf' = Assign(current.group, UrlOf[r])
               /\ inDoubt' = inDoubt \cup {UrlOf[r]}
  BY DEF UpdateRow, NoFault
<1>3. /\ announce = {} /\ todo = {} /\ passed = {} /\ r \in InFlight
      /\ current.group \in 0 .. nGroups /\ current.rows \subseteq Row
      /\ nGroups \in Nat /\ UrlOf[r] \in Url
  <2>1. /\ announce = {} /\ todo = {} /\ passed = {} /\ r \in InFlight
    BY <1>1 DEF StageInv, InFlight
  <2>2. /\ current.group \in 0 .. nGroups /\ current.rows \in SUBSET Row
        /\ nGroups \in Nat
    <3>1. current \in [group : 0 .. nGroups, rows : SUBSET Row] /\ nGroups \in Nat
      BY DEF TypeOK
    <3> QED
      BY <3>1
  <2> QED
    BY <2>1, <2>2, RowAssumption
<1>4. /\ current' \in [group : 0 .. nGroups, rows : SUBSET Row]
      /\ current'.rows \subseteq current.rows \ {r}
  <2>1. CASE current' = NoCurrent
    BY <1>3, <2>1 DEF NoCurrent, NoGroup
  <2>2. CASE current' = [current EXCEPT !.rows = @ \ {r}]
    BY <2>2 DEF TypeOK
  <2> QED
    BY <1>2, <2>1, <2>2
<1>5. TypeOK'
  <2>1. groupOf' \in [Row -> 0 .. nGroups]
    BY <1>2, <1>3 DEF TypeOK, Assign
  <2>2. faults' \in 0 .. MaxFaults
    BY <1>2, FaultType DEF TypeOK
  <2> QED
    BY <1>1, <1>2, <1>3, <1>4, <2>1, <2>2 DEF TypeOK, Stages
<1>6. StageInv'
  BY <1>1, <1>3, <1>4 DEF StageInv
<1>7. FlightInv'
  <2>1. InFlight' \subseteq InFlight /\ r \notin InFlight'
    <3>1. r \notin UNION clusters
      BY <1>1 DEF StageInv
    <3>2. InFlight' = current'.rows \cup UNION clusters
      BY <1>1, <1>3 DEF InFlight
    <3> QED
      BY <1>1, <1>4, <3>1, <3>2 DEF InFlight
  <2>2. CASE UNCHANGED <<groupOf, inDoubt>>
    BY <1>1, <2>1, <2>2, FlightShrinks
  <2>3. CASE groupOf' = Assign(current.group, UrlOf[r]) /\ inDoubt \subseteq inDoubt'
    <3>1. current.group \in Nat
      BY <1>3
    <3> QED
      BY <1>1, <1>3, <2>1, <2>3, <3>1, FlightAfterWrite
  <2> QED
    BY <1>2, <2>2, <2>3
<1>8. SeenInv' /\ NoFalseDuplicate'
  BY <1>1, SeenStays DEF redisVars
<1>9. ScoreKeepsSnapshotFloor' /\ AnnouncedGroupsVisible'
  BY <1>1, <1>3 DEF ScoreKeepsSnapshotFloor, AnnouncedGroupsVisible
<1> QED
  BY <1>5, <1>6, <1>7, <1>8, <1>9

LEMMA PublishIInv ==
    ASSUME IInv, NEW g \in announce, Publish(g)
    PROVE  IInv'
<1> USE DEF IInv, Publish, dbVars, crawlVars, redisVars
<1>1. announce' \subseteq announce /\ published' \subseteq 1 .. nGroups
      /\ pc' = IF announce' = {} THEN "warm" ELSE "publish"
  BY DEF TypeOK
<1>2. TypeOK'
  BY <1>1 DEF TypeOK, Stages
<1>3. StageInv'
  BY <1>1 DEF StageInv
<1>4. FlightInv'
  BY FlightShrinks DEF InFlight
<1>5. SeenInv' /\ NoFalseDuplicate'
  BY SeenStays
<1>6. ScoreKeepsSnapshotFloor' /\ AnnouncedGroupsVisible'
  BY <1>1 DEF ScoreKeepsSnapshotFloor, AnnouncedGroupsVisible, HasTwin
<1> QED
  BY <1>2, <1>3, <1>4, <1>5, <1>6

LEMMA WarmCacheIInv == IInv /\ WarmCache => IInv'
<1> SUFFICES ASSUME IInv, WarmCache PROVE IInv'
  OBVIOUS
<1> USE DEF IInv, WarmCache, dbVars, crawlVars, redisVars, historyVars
<1>1. TypeOK'
  BY DEF TypeOK, Stages
<1>2. StageInv'
  BY DEF StageInv
<1>3. FlightInv'
  BY FlightShrinks DEF InFlight
<1>4. SeenInv' /\ NoFalseDuplicate'
  BY SeenStays
<1>5. ScoreKeepsSnapshotFloor' /\ AnnouncedGroupsVisible'
  BY DEF ScoreKeepsSnapshotFloor, AnnouncedGroupsVisible, HasTwin
<1> QED
  BY <1>1, <1>2, <1>3, <1>4, <1>5

(***************************************************************************)
(* Every step, and the theorems.                                           *)
(***************************************************************************)

LEMMA BatchIInv == IInv /\ Batch => IInv'
<1> SUFFICES ASSUME IInv, Batch PROVE IInv'
  OBVIOUS
<1>1. CASE Fetch \/ Filter \/ FetchGroups \/ Cluster \/ ScoreClusters
  BY <1>1, FetchIInv, FilterIInv, FetchGroupsIInv, ClusterIInv, ScoreClustersIInv
<1>2. CASE \E r \in Row : DedupeNew(r) \/ DedupeDuplicate(r) \/ DedupeUnknown(r)
                            \/ DedupeError(r)
  BY <1>2, DedupeIInv
<1>3. CASE \E r \in Row :
             \/ MatchNone(r)
             \/ \E g \in 1 .. nGroups : MatchGroup(r, g) \/ MatchInDoubt(r, g)
  BY <1>3, MatchNoneIInv, MatchGroupIInv, MatchInDoubtIInv
<1>4. CASE SaveBatch \/ SaveBatchFails \/ SaveBatchInDoubt
  BY <1>4, SaveBatchIInv, SaveBatchFailsIInv, SaveBatchInDoubtIInv
<1>5. CASE (\E C \in clusters : InsertGroup(C)) \/ (\E r \in Row : UpdateRow(r))
  BY <1>5, InsertGroupIInv, UpdateRowIInv
<1>6. CASE (\E g \in announce : Publish(g)) \/ WarmCache
  BY <1>6, PublishIInv, WarmCacheIInv
<1> QED
  BY <1>1, <1>2, <1>3, <1>4, <1>5, <1>6 DEF Batch

LEMMA NextIInv == IInv /\ [Next]_vars => IInv'
  BY StutterIInv, CrawlIInv, ExpireIInv, RestartIInv, BatchIInv
     DEF Next, Crawler, PollNothing

\* The inductive invariant holds in every reachable state.
THEOREM Invariance == Spec => []IInv
<1>1. Init => IInv
  BY InitIInv
<1>2. IInv /\ [Next]_vars => IInv'
  BY NextIInv
<1> QED
  BY <1>1, <1>2, PTL DEF Spec

\* Every variable of the processor stays in its range.
THEOREM TypeCorrect == Spec => []TypeOK
<1>1. IInv => TypeOK
  BY DEF IInv
<1> QED
  BY <1>1, Invariance, PTL

\* is_duplicate never refuses a row whose url and content it never let through.
THEOREM DuplicatesAreReal == Spec => []NoFalseDuplicate
<1>1. IInv => NoFalseDuplicate
  BY DEF IInv
<1> QED
  BY <1>1, Invariance, PTL

\* A group stage_save is about to announce has an article.
THEOREM AnnouncementsAreVisible == Spec => []AnnouncedGroupsVisible
<1>1. IInv => AnnouncedGroupsVisible
  BY DEF IInv
<1> QED
  BY <1>1, Invariance, PTL

\* A batch never lowers a group's score below what it read.
THEOREM ScoresKeepFloor == Spec => []ScoreKeepsSnapshotFloor
<1>1. IInv => ScoreKeepsSnapshotFloor
  BY DEF IInv
<1> QED
  BY <1>1, Invariance, PTL

\* The condition of RegroupedOnlyIfTwinOrInDoubt for one step: only the match
\* and save stages write a group_id, and what they write belongs to the batch.
LEMMA StepRegroups ==
    ASSUME IInv, [Next]_vars, NEW r \in Row,
           groupOf[r] # NoGroup, groupOf'[r] # groupOf[r]
    PROVE  HasTwin(r) \/ UrlOf[r] \in inDoubt
<1> USE DEF IInv
<1>1. \A q \in InFlight : r \in crawled /\ UrlOf[r] = UrlOf[q]
          => HasTwin(r) \/ UrlOf[r] \in inDoubt
  BY WriteRegroups
<1>2. ASSUME NEW q \in InFlight, NEW g, groupOf' = Assign(g, UrlOf[q])
      PROVE  HasTwin(r) \/ UrlOf[r] \in inDoubt
  BY <1>1, <1>2 DEF Assign
<1>3. CASE \E q \in Row, g \in 1 .. nGroups : MatchGroup(q, g) \/ MatchInDoubt(q, g)
  <2>1. PICK q \in Row, g \in 1 .. nGroups : MatchGroup(q, g) \/ MatchInDoubt(q, g)
    BY <1>3
  <2>2. q \in InFlight /\ groupOf' = Assign(g, UrlOf[q])
    BY <2>1 DEF MatchGroup, Rescored, MatchInDoubt, InFlight, Newest
  <2> QED
    BY <1>2, <2>2
<1>4. CASE \E q \in Row : UpdateRow(q)
  <2>1. PICK q \in Row : UpdateRow(q)
    BY <1>4
  <2>2. q \in InFlight /\ groupOf' = Assign(current.group, UrlOf[q])
    BY <2>1 DEF UpdateRow, InFlight
  <2> QED
    BY <1>2, <2>2
<1>5. CASE SaveBatch \/ SaveBatchInDoubt
  <2>1. BatchCommitted /\ pc = "save" /\ crawled' = crawled
    BY <1>5 DEF SaveBatch, SaveBatchInDoubt, crawlVars
  <2>2. r \in crawled /\ UrlOf[r] \in UNION {Urls(C) : C \in clusters}
    BY <2>1, BatchCommits
  <2>3. PICK q \in UNION clusters : UrlOf[r] = UrlOf[q]
    BY <2>2 DEF Urls
  <2> QED
    BY <1>1, <2>2, <2>3 DEF InFlight
<1>6. CASE UNCHANGED groupOf
  BY <1>6
<1>7. \/ UNCHANGED groupOf
      \/ \E q \in Row, g \in 1 .. nGroups : MatchGroup(q, g) \/ MatchInDoubt(q, g)
      \/ \E q \in Row : UpdateRow(q)
      \/ SaveBatch \/ SaveBatchInDoubt
  <2>1. CASE Batch
    BY <2>1 DEF Batch, dbVars, Fetch, DedupeNew, DedupeDuplicate, DedupeUnknown,
                DedupeError, AfterDedupe, Filter, FetchGroups, MatchNone, Cluster,
                ScoreClusters, SaveBatchFails, InsertGroup, Publish, WarmCache
  <2>2. CASE UNCHANGED vars \/ PollNothing
    BY <2>2 DEF vars, dbVars, PollNothing
  <2>3. CASE Crawler \/ ExpireUrlSet \/ ExpireFpSet \/ Restart
    BY <2>3 DEF Crawler, LookUp, Insert, ExpireUrlSet, ExpireFpSet, Restart, dbVars
  <2> QED
    BY <2>1, <2>2, <2>3 DEF Next
<1> QED
  BY <1>3, <1>4, <1>5, <1>6, <1>7

\* A grouped row changes group only when its url has a second row or one of its
\* UPDATEs was applied though reported as failed.
THEOREM RegroupSafe == Spec => RegroupedOnlyIfTwinOrInDoubt
<1>1. IInv /\ [Next]_vars =>
        [\A r \in Row :
            groupOf[r] # NoGroup /\ groupOf'[r] # groupOf[r]
                => HasTwin(r) \/ UrlOf[r] \in inDoubt]_vars
  BY StepRegroups
<1> QED
  BY <1>1, Invariance, PTL DEF Spec, RegroupedOnlyIfTwinOrInDoubt

=============================================================================
