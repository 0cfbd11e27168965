----------------------------- MODULE CrawlProofs -----------------------------
(***************************************************************************)
(* Proofs about Crawl, for every set of runs, feeds and urls, any limits   *)
(* and any number of starts and disturbances: what a quota can be exceeded *)
(* by, how often a url can be stored, and what a stored validator stands   *)
(* for.                                                                    *)
(***************************************************************************)
EXTENDS Crawl, FiniteSetTheorems, SequenceTheorems, TLAPS

\* What a run holds.
RunRow == [pc : {"idle", "pick", "get", "store", "count", "parse", "items", "entries"},
           sources : SourcePlan, todo : SUBSET Feed, cur : SUBSET Feed,
           got : Nat, left : SUBSET Url, look : SUBSET Url,
           items : SUBSET (SnsSource \X Url \X Nat), fresh : BOOLEAN, page : BOOLEAN]

\* What it can hold at a point of the job.
Shape(x) ==
    /\ x.pc # "entries" => x.look = {}
    /\ x.pc \in {"idle", "pick", "get"} => x.left = {}
    /\ x.pc \in {"idle", "pick"} => x.cur = {}
    /\ x.cur # {} => \E f \in Feed : x.cur = {f} /\ f \notin x.todo

\* The answer to a request, before its validator is stored: if the feed has not
\* changed since, the run still has all of the entries.
Answered(x) ==
    x.pc = "store" =>
        \E f \in Feed :
            /\ x.cur = {f} /\ SourceOf[f] \in NewsSource /\ x.got <= doc[f].edition
            /\ x.got = doc[f].edition => doc[f].entries \subseteq x.left

RunsPart == \A r \in Run : Shape(run[r]) /\ Answered(run[r])

VersionsPart == \A f \in Feed : 1 <= doc[f].edition /\ validator[f] <= doc[f].edition

Covered(f, u) ==
    \/ copies[u] > 0
    \/ <<f, u>> \in lost
    \/ \E r \in Run : run[r].cur = {f} /\ u \in run[r].left \cup run[r].look

\* An entry behind a validator is stored, lost or in the hands of a run.
CoveragePart ==
    \A f \in Feed :
        SourceOf[f] \in NewsSource /\ validator[f] = doc[f].edition =>
            \A u \in doc[f].entries : Covered(f, u)

Lookers(u) == {r \in Run : u \in run[r].look}

\* Whoever may still insert a url looked for it before there was one.
CopiesPart == \A u \in Url : copies[u] + Cardinality(Lookers(u)) <= Cardinality(Run)

\* The requests a check let pass and that have not been counted.
Requesting(x, s) == x.pc \in {"get", "store", "count"} /\ \E f \in x.cur : SourceOf[f] = s

\* The items of a social network are read after the count.
Opened(x, s) ==
    {f \in x.todo \cup (IF x.pc = "items" THEN {} ELSE x.cur) : SourceOf[f] = s}

InFlight(s) ==
    IF s \in NewsSource THEN {r \in Run : Requesting(run[r], s)}
    ELSE {p \in Run \X Feed : p[2] \in Opened(run[p[1]], s)}

QuotaPart ==
    \A s \in Source : peak[s] # 0 =>
        /\ quota[s].limit # 0 /\ quota[s].limit <= peak[s]
        /\ quota[s].used + Cardinality(InFlight(s)) < peak[s] + Cardinality(Run) * PerCheck(s)

CrawlInv ==
    CrawlTypeOK /\ RunsPart /\ VersionsPart /\ CoveragePart /\ CopiesPart /\ QuotaPart

\* What is left of a job's list of sources.
LEMMA Plans ==
    /\ <<>> \in SourcePlan /\ CommunityOrder \in SourcePlan /\ SnsOrder \in SourcePlan
    /\ <<"naver_datalab">> \in SourcePlan
    /\ \A p \in SourcePlan : p # <<>> => Tail(p) \in SourcePlan
<1> DEFINE A == {"dc_inside", "fm_korea", "reddit", "google_trends_rss", "youtube", "naver_datalab"}
<1>1. CommunityOrder \in Seq(A) /\ Len(CommunityOrder) = 2
  <2>1. <<"dc_inside", "fm_korea">> \in Seq(A) /\ Len(<<"dc_inside", "fm_korea">>) = 2
    OBVIOUS
  <2> QED BY <2>1 DEF CommunityOrder
<1>2. SnsOrder \in Seq(A) /\ Len(SnsOrder) = 4 /\ SnsOrder[4] = "naver_datalab"
  <2> DEFINE s == <<"reddit", "google_trends_rss", "youtube", "naver_datalab">>
  <2>1. s \in Seq(A) /\ Len(s) = 4 /\ s[4] = "naver_datalab"
    OBVIOUS
  <2> QED BY <2>1 DEF SnsOrder
<1> HIDE DEF A
<1>3. /\ \A i \in 1 .. 3 : SubSeq(CommunityOrder, i, 2) \in SourcePlan
      /\ \A i \in 1 .. 4 : SubSeq(SnsOrder, i, 4) \in SourcePlan
  BY Zenon DEF SourcePlan
<1>4. SubSeq(CommunityOrder, 3, 2) = <<>>
  BY SubSeqEmpty
<1>5. SubSeq(CommunityOrder, 1, 2) = CommunityOrder /\ SubSeq(SnsOrder, 1, 4) = SnsOrder
  BY <1>1, <1>2, SubSeqFull
<1>6. SubSeq(SnsOrder, 4, 4) = <<"naver_datalab">>
  <2>1. <<"naver_datalab">> \in Seq(A) /\ Len(<<"naver_datalab">>) = 1
         /\ <<"naver_datalab">>[1] = "naver_datalab"
    BY DEF A
  <2> DEFINE s == SubSeq(SnsOrder, 4, 4)
  <2>2. s \in Seq(A) /\ Len(s) = 1 /\ s[1] = "naver_datalab"
    <3>1. \A i \in 4 .. 4 : SnsOrder[i] \in A
      BY <1>2 DEF A
    <3>2. s \in Seq(A) /\ Len(s) = 1 /\ \A i \in 1 .. 1 : s[i] = SnsOrder[4 + i - 1]
      BY <3>1, SubSeqProperties
    <3> QED BY <1>2, <3>2
  <2> HIDE DEF s
  <2>3. s = <<"naver_datalab">>
    BY <2>1, <2>2, SeqEqual
  <2> QED BY <2>3 DEF s
<1>7. ASSUME NEW i \in 1 .. 3, SubSeq(CommunityOrder, i, 2) # <<>>
      PROVE  Tail(SubSeq(CommunityOrder, i, 2)) \in SourcePlan
  <2>1. i \in 1 .. 2 /\ i + 1 \in 1 .. 3
    BY <1>4, <1>7
  <2>2. Tail(SubSeq(CommunityOrder, i, 2)) = SubSeq(CommunityOrder, i + 1, 2)
    BY <1>1, <2>1, HeadTailOfSubSeq
  <2> QED BY <1>3, <2>1, <2>2
<1>8. ASSUME NEW i \in 1 .. 4
      PROVE  Tail(SubSeq(SnsOrder, i, 4)) \in SourcePlan
  <2>1. Tail(SubSeq(SnsOrder, i, 4)) = SubSeq(SnsOrder, i + 1, 4)
    BY <1>2, HeadTailOfSubSeq
  <2>2. CASE i = 4
    <3>1. SubSeq(SnsOrder, i + 1, 4) = <<>>
      BY <2>2, SubSeqEmpty
    <3>2. <<>> = SubSeq(CommunityOrder, 3, 2) /\ 3 \in 1 .. 3
      BY <1>4
    <3> QED BY <1>3, <2>1, <3>1, <3>2
  <2>3. CASE i # 4
    <3>1. i + 1 \in 1 .. 4
      BY <2>3
    <3> QED BY <1>3, <2>1, <3>1
  <2> QED BY <2>2, <2>3
<1> QED
  <2>1. 3 \in 1 .. 3 /\ 1 \in 1 .. 3 /\ 1 \in 1 .. 4 /\ 4 \in 1 .. 4
    OBVIOUS
  <2>2. \A p \in SourcePlan : \/ \E i \in 1 .. 3 : p = SubSeq(CommunityOrder, i, 2)
                              \/ \E i \in 1 .. 4 : p = SubSeq(SnsOrder, i, 4)
    BY Zenon DEF SourcePlan
  <2>3. ASSUME NEW p \in SourcePlan, p # <<>> PROVE Tail(p) \in SourcePlan
    <3>1. CASE \E i \in 1 .. 3 : p = SubSeq(CommunityOrder, i, 2)
      BY <1>7, <2>3, <3>1
    <3>2. CASE \E i \in 1 .. 4 : p = SubSeq(SnsOrder, i, 4)
      BY <1>8, <3>2
    <3> QED BY <2>2, <3>1, <3>2
  <2>4. <<>> \in SourcePlan /\ <<"naver_datalab">> \in SourcePlan
    BY <1>3, <1>4, <1>6, <2>1
  <2>5. CommunityOrder \in SourcePlan /\ SnsOrder \in SourcePlan
    BY <1>3, <1>5, <2>1
  <2> QED BY <2>3, <2>4, <2>5

\* The sources that are no news.
LEMMA Sources ==
    /\ CommunitySource = {"dc_inside", "fm_korea"}
    /\ SnsSource = {"reddit", "google_trends_rss", "youtube", "naver_datalab"}
  BY DEF CommunitySource, SnsSource, CommunityOrder, SnsOrder

\* The type invariant speaks of RunRow.
LEMMA RunsHoldRows == CrawlTypeOK => run \in [Run -> RunRow]
  BY DEF CrawlTypeOK, RunRow

\* The ranges of a row's fields.
LEMMA Fields ==
    ASSUME NEW x \in RunRow
    PROVE  /\ x.pc \in {"idle", "pick", "get", "store", "count", "parse", "items", "entries"}
           /\ x.sources \in SourcePlan /\ x.todo \subseteq Feed /\ x.cur \subseteq Feed
           /\ x.got \in Nat /\ x.left \subseteq Url /\ x.look \subseteq Url
           /\ x.items \subseteq (SnsSource \X Url \X Nat)
           /\ x.fresh \in BOOLEAN /\ x.page \in BOOLEAN
  BY DEF RunRow

\* A run that does nothing.
LEMMA IdleRow ==
    /\ Idle \in RunRow /\ Shape(Idle) /\ Answered(Idle)
    /\ Idle.look = {} /\ Idle.cur = {} /\ Idle.todo = {} /\ Idle.left = {} /\ Idle.pc = "idle"
  BY Plans DEF Idle, RunRow, Shape, Answered

(***************************************************************************)
(* Sets of runs and of what they have in flight.                           *)
(***************************************************************************)

\* Only runs look for a url, so they are finitely many.
LEMMA LookersFinite ==
    \A u : IsFiniteSet(Lookers(u)) /\ Cardinality(Lookers(u)) \in Nat
              /\ Cardinality(Lookers(u)) <= Cardinality(Run)
  BY CrawlAssumption, FS_Subset, FS_CardinalityType DEF Lookers

\* The feeds of a source are finitely many.
LEMMA PerCheckNat == \A s : PerCheck(s) \in Nat /\ IsFiniteSet(FeedsOf({s}))
<1>1. \A s : IsFiniteSet(FeedsOf({s}))
  BY CrawlAssumption, FS_Subset DEF FeedsOf
<1> QED BY <1>1, FS_CardinalityType DEF PerCheck

\* The bound of the overshoot is a number; its product is kept closed from here on.
LEMMA CapNat == \A s : Cardinality(Run) * PerCheck(s) \in Nat
<1>1. Cardinality(Run) \in Nat /\ \A s : PerCheck(s) \in Nat
  BY PerCheckNat, CrawlAssumption, FS_CardinalityType
<1>2. \A m, n \in Nat : m * n \in Nat
  OBVIOUS
<1> QED BY <1>1, <1>2

\* Never more than a check can let pass in each run.
LEMMA FlightBounded ==
    ASSUME NEW s, NEW W \in SUBSET IF s \in NewsSource THEN Run ELSE Run \X FeedsOf({s})
    PROVE  /\ IsFiniteSet(W) /\ Cardinality(W) \in Nat
           /\ Cardinality(W) <= Cardinality(Run) * PerCheck(s)
<1>1. CASE s \in NewsSource
  <2>1. W \in SUBSET Run
    BY <1>1
  <2>2. /\ IsFiniteSet(W) /\ Cardinality(W) <= Cardinality(Run)
    BY <2>1, CrawlAssumption, FS_Subset
  <2>3. Cardinality(W) \in Nat /\ Cardinality(Run) \in Nat
    BY <2>2, CrawlAssumption, FS_CardinalityType
  <2> QED BY <1>1, <2>2, <2>3 DEF PerCheck
<1>2. CASE s \notin NewsSource
  <2>1. W \in SUBSET (Run \X FeedsOf({s}))
    BY <1>2
  <2>2. /\ IsFiniteSet(Run \X FeedsOf({s}))
        /\ Cardinality(Run \X FeedsOf({s})) = Cardinality(Run) * Cardinality(FeedsOf({s}))
    BY PerCheckNat, CrawlAssumption, FS_Product
  <2>3. IsFiniteSet(W) /\ Cardinality(W) <= Cardinality(Run \X FeedsOf({s}))
    BY <2>1, <2>2, FS_Subset
  <2>4. Cardinality(W) \in Nat
    BY <2>3, FS_CardinalityType
  <2> QED BY <1>2, <2>2, <2>3, <2>4 DEF PerCheck
<1> QED BY <1>1, <1>2

\* Now and after a step.
LEMMA InFlightBounded ==
    ASSUME NEW s
    PROVE  /\ IsFiniteSet(InFlight(s)) /\ Cardinality(InFlight(s)) \in Nat
           /\ IsFiniteSet(InFlight(s)') /\ Cardinality(InFlight(s)') \in Nat
           /\ Cardinality(InFlight(s)') <= Cardinality(Run) * PerCheck(s)
<1>1. InFlight(s) \in SUBSET IF s \in NewsSource THEN Run ELSE Run \X FeedsOf({s})
  BY DEF InFlight, Opened, FeedsOf
<1>2. InFlight(s)' \in SUBSET IF s \in NewsSource THEN Run ELSE Run \X FeedsOf({s})
  BY DEF InFlight, Opened, FeedsOf
<1> QED BY <1>1, <1>2, FlightBounded

(***************************************************************************)
(* What a step of run r leaves alone, when it holds n afterwards.          *)
(***************************************************************************)

\* A step of one run keeps what the rows hold, if its own row does.
LEMMA RunsKept ==
    ASSUME CrawlInv, NEW r \in Run, NEW n \in RunRow, run' = [run EXCEPT ![r] = n],
           Shape(n), Answered(n), UNCHANGED doc
    PROVE  RunsPart' /\ run' \in [Run -> RunRow]
<1>1. run \in [Run -> RunRow]
  BY RunsHoldRows DEF CrawlInv
<1>2. ASSUME NEW q \in Run PROVE (Shape(run[q]) /\ Answered(run[q]))'
  <2>1. run'[q] = n \/ run'[q] = run[q]
    BY <1>1
  <2>2. Shape(run[q]) /\ Answered(run[q])
    BY DEF CrawlInv, RunsPart
  <2> QED BY <2>1, <2>2 DEF Shape, Answered
<1> QED BY <1>1, <1>2 DEF RunsPart

\* It keeps the bound on copies, if the run looks for nothing it did not look for.
LEMMA CopiesKept ==
    ASSUME CrawlInv, NEW r \in Run, NEW n \in RunRow, run' = [run EXCEPT ![r] = n],
           n.look \subseteq run[r].look, UNCHANGED copies
    PROVE  CopiesPart'
<1>1. run \in [Run -> RunRow] /\ copies \in [Url -> Nat]
  BY RunsHoldRows DEF CrawlInv, CrawlTypeOK
<1>2. ASSUME NEW u \in Url
      PROVE  (copies[u] + Cardinality(Lookers(u)) <= Cardinality(Run))'
  <2>1. Lookers(u)' \in SUBSET Lookers(u)
    BY <1>1 DEF Lookers
  <2>2. /\ IsFiniteSet(Lookers(u)') /\ Cardinality(Lookers(u)') <= Cardinality(Lookers(u))
        /\ Cardinality(Lookers(u)') \in Nat
    BY <2>1, LookersFinite, FS_Subset, FS_CardinalityType
  <2>3. copies[u] + Cardinality(Lookers(u)) <= Cardinality(Run) /\ Cardinality(Run) \in Nat
    BY CrawlAssumption, FS_CardinalityType DEF CrawlInv, CopiesPart
  <2> QED BY <1>1, <2>2, <2>3, LookersFinite
<1> QED BY <1>2 DEF CopiesPart

\* A run that opens nothing new has no more requests in flight.
LEMMA FlightShrinks ==
    ASSUME CrawlInv, NEW r \in Run, NEW n \in RunRow, run' = [run EXCEPT ![r] = n],
           NEW s, s \in NewsSource /\ Requesting(n, s) => Requesting(run[r], s),
           s \notin NewsSource => Opened(n, s) \subseteq Opened(run[r], s)
    PROVE  /\ IsFiniteSet(InFlight(s)') /\ Cardinality(InFlight(s)') \in Nat
           /\ InFlight(s)' \subseteq InFlight(s)
           /\ Cardinality(InFlight(s)') <= Cardinality(InFlight(s))
<1>1. run \in [Run -> RunRow]
  BY RunsHoldRows DEF CrawlInv
<1>2. InFlight(s)' \in SUBSET InFlight(s)
  <2>1. CASE s \in NewsSource
    BY <1>1, <2>1 DEF InFlight, Requesting
  <2>2. CASE s \notin NewsSource
    BY <1>1, <2>2 DEF InFlight, Opened
  <2> QED BY <2>1, <2>2
<1>3. IsFiniteSet(InFlight(s))
  BY InFlightBounded
<1> QED BY <1>2, <1>3, FS_Subset, FS_CardinalityType

\* It then keeps the bound on quotas that it does not touch.
LEMMA QuotaKept ==
    ASSUME CrawlInv, NEW r \in Run, NEW n \in RunRow, run' = [run EXCEPT ![r] = n],
           \A s \in NewsSource : Requesting(n, s) => Requesting(run[r], s),
           \A s \in Source \ NewsSource : Opened(n, s) \subseteq Opened(run[r], s),
           UNCHANGED <<quota, peak>>
    PROVE  QuotaPart'
<1>1. ASSUME NEW s \in Source, peak[s] # 0
      PROVE  (/\ quota[s].limit # 0 /\ quota[s].limit <= peak[s]
              /\ quota[s].used + Cardinality(InFlight(s)) < peak[s] + Cardinality(Run) * PerCheck(s))'
  <2>1. /\ Cardinality(InFlight(s)') \in Nat
        /\ Cardinality(InFlight(s)') <= Cardinality(InFlight(s))
    BY FlightShrinks
  <2>2. Cardinality(InFlight(s)) \in Nat
    BY InFlightBounded
  <2>3. quota[s].used \in Nat /\ peak[s] \in Nat
    BY DEF CrawlInv, CrawlTypeOK
  <2>4. /\ quota[s].limit # 0 /\ quota[s].limit <= peak[s]
        /\ quota[s].used + Cardinality(InFlight(s)) < peak[s] + Cardinality(Run) * PerCheck(s)
    BY <1>1 DEF CrawlInv, QuotaPart
  <2>5. Cardinality(Run) * PerCheck(s) \in Nat
    BY CapNat
  <2>6. PerCheck(s)' = PerCheck(s)
    BY DEF PerCheck, FeedsOf
  <2> HIDE DEF PerCheck
  <2> QED BY <2>1, <2>2, <2>3, <2>4, <2>5, <2>6
<1> QED BY <1>1 DEF QuotaPart

\* No entry in hand is dropped unless it is stored or counted as lost.
LEMMA CoveredKept ==
    ASSUME CrawlInv, NEW r \in Run, NEW n \in RunRow, run' = [run EXCEPT ![r] = n],
           lost \subseteq lost', \A u \in Url : copies[u] > 0 => copies'[u] > 0,
           \A f \in Feed, u \in Url :
              SourceOf[f] \in NewsSource /\ run[r].cur = {f} /\ u \in run[r].left \cup run[r].look =>
                  \/ n.cur = {f} /\ u \in n.left \cup n.look
                  \/ copies'[u] > 0
                  \/ <<f, u>> \in lost',
           NEW f \in Feed, SourceOf[f] \in NewsSource, NEW u \in Url, Covered(f, u)
    PROVE  Covered(f, u)'
<1>1. run \in [Run -> RunRow]
  BY RunsHoldRows DEF CrawlInv
<1>2. CASE copies[u] > 0
  BY <1>2 DEF Covered
<1>3. CASE <<f, u>> \in lost
  BY <1>3 DEF Covered
<1>4. CASE \E q \in Run : run[q].cur = {f} /\ u \in run[q].left \cup run[q].look
  <2>1. PICK q \in Run : run[q].cur = {f} /\ u \in run[q].left \cup run[q].look
    BY <1>4
  <2>2. CASE q # r
    <3>1. run'[q] = run[q]
      BY <1>1, <2>2
    <3> QED BY <2>1, <3>1 DEF Covered
  <2>3. CASE q = r
    <3>1. run'[r] = n
      BY <1>1
    <3> QED BY <2>1, <2>3, <3>1 DEF Covered
  <2> QED BY <2>2, <2>3
<1> QED BY <1>2, <1>3, <1>4 DEF Covered

\* And what is behind a validator, if it drops no entry.
LEMMA CoverageKept ==
    ASSUME CrawlInv, NEW r \in Run, NEW n \in RunRow, run' = [run EXCEPT ![r] = n],
           UNCHANGED <<doc, validator>>, lost \subseteq lost',
           \A u \in Url : copies[u] > 0 => copies'[u] > 0,
           \A f \in Feed, u \in Url :
              SourceOf[f] \in NewsSource /\ run[r].cur = {f} /\ u \in run[r].left \cup run[r].look =>
                  \/ n.cur = {f} /\ u \in n.left \cup n.look
                  \/ copies'[u] > 0
                  \/ <<f, u>> \in lost'
    PROVE  CoveragePart'
<1>1. ASSUME NEW f \in Feed, SourceOf[f] \in NewsSource, validator'[f] = doc'[f].edition,
             NEW u \in doc'[f].entries
      PROVE  Covered(f, u)'
  <2>1. doc \in [Feed -> [edition : Nat, entries : SUBSET Url]]
    BY DEF CrawlInv, CrawlTypeOK
  <2>2. u \in Url /\ Covered(f, u)
    BY <1>1, <2>1 DEF CrawlInv, CoveragePart
  <2> QED BY <1>1, <2>2, CoveredKept
<1> QED BY <1>1 DEF CoveragePart

\* A step of run r that writes none of what the parts below are about.
LEMMA QuietStep ==
    ASSUME CrawlInv, NEW r \in Run, NEW n \in RunRow, run' = [run EXCEPT ![r] = n],
           Shape(n), Answered(n),
           UNCHANGED <<doc, validator, copies, quota, peak>>, lost \subseteq lost',
           n.look \subseteq run[r].look,
           \A s \in NewsSource : Requesting(n, s) => Requesting(run[r], s),
           \A s \in Source \ NewsSource : Opened(n, s) \subseteq Opened(run[r], s),
           \A f \in Feed, u \in Url :
              SourceOf[f] \in NewsSource /\ run[r].cur = {f} /\ u \in run[r].left \cup run[r].look =>
                  \/ n.cur = {f} /\ u \in n.left \cup n.look
                  \/ copies[u] > 0
                  \/ <<f, u>> \in lost'
    PROVE  RunsPart' /\ VersionsPart' /\ CoveragePart' /\ CopiesPart' /\ QuotaPart'
              /\ run' \in [Run -> RunRow]
<1>1. RunsPart' /\ run' \in [Run -> RunRow]
  BY RunsKept
<1>2. CopiesPart'
  BY CopiesKept
<1>3. QuotaPart'
  BY QuotaKept
<1>4. CoveragePart'
  BY CoverageKept
<1>5. VersionsPart'
  BY DEF CrawlInv, VersionsPart
<1> QED BY <1>1, <1>2, <1>3, <1>4, <1>5

(***************************************************************************)
(* The steps.                                                              *)
(***************************************************************************)

\* The ranges of the variables, one by one.
LEMMA Types ==
    CrawlTypeOK <=>
      (/\ quota \in [Source -> [on : BOOLEAN, limit : Nat, used : Nat]]
       /\ peak \in [Source -> Nat]
       /\ enabled \subseteq feedRows /\ feedRows \subseteq Feed
       /\ health \in [Feed -> [seen : BOOLEAN, fails : Nat]]
       /\ doc \in [Feed -> [edition : Nat, entries : SUBSET Url]]
       /\ validator \in [Feed -> Nat]
       /\ copies \in [Url -> Nat] /\ trend \in [SnsSource \X Url -> Nat]
       /\ run \in [Run -> RunRow]
       /\ lost \subseteq Feed \X Url
       /\ crawlUsed \in [starts : Nat, disturbances : Nat])
  BY DEF CrawlTypeOK, RunRow

\* The counters of runs and disturbances.
LEMMA DisturbTypes ==
    ASSUME crawlUsed \in [starts : Nat, disturbances : Nat],
           Disturb \/ UNCHANGED crawlUsed
              \/ crawlUsed' = [crawlUsed EXCEPT !.starts = @ + 1]
    PROVE  crawlUsed' \in [starts : Nat, disturbances : Nat]
  BY DEF Disturb

\* The record of a feed's failures.
LEMMA HealthTypes ==
    ASSUME health \in [Feed -> [seen : BOOLEAN, fails : Nat]], NEW f \in Feed,
           NEW good \in BOOLEAN, Crawled(f, good)
    PROVE  health' \in [Feed -> [seen : BOOLEAN, fails : Nat]]
<1>1. [seen |-> TRUE, fails |-> IF good THEN 0 ELSE health[f].fails + 1]
         \in [seen : BOOLEAN, fails : Nat]
  OBVIOUS
<1> QED BY <1>1 DEF Crawled

\* A run that starts.
LEMMA StartKeeps ==
    ASSUME CrawlInv, NEW r \in Run, NEW job, NEW n \in RunRow, Start(r, job, n),
           Shape(n), n.cur = {}, n.look = {}, n.pc \in {"pick", "entries"},
           \A s \in Source \ NewsSource : Opened(n, s) = {}
    PROVE  CrawlInv'
<1>1. run' = [run EXCEPT ![r] = n] /\ run[r].pc = "idle"
  BY DEF Start, At
<1>2. Shape(run[r])
  BY DEF CrawlInv, RunsPart
<1>3. UNCHANGED <<doc, validator, copies, quota, peak, lost>>
  BY DEF Start
<1>4. Answered(n)
  BY DEF Answered
<1>5. /\ RunsPart' /\ VersionsPart' /\ CoveragePart' /\ CopiesPart' /\ QuotaPart'
      /\ run' \in [Run -> RunRow]
  <2>1. \A s : ~Requesting(n, s)
    BY DEF Requesting
  <2>2. run[r].cur = {}
    BY <1>1, <1>2 DEF Shape
  <2> QED BY <1>1, <1>3, <1>4, <2>1, <2>2, QuietStep
<1>6. CrawlTypeOK'
  <2>1. crawlUsed' \in [starts : Nat, disturbances : Nat]
    BY Types, DisturbTypes DEF CrawlInv, Start
  <2> QED BY <1>5, <2>1 DEF CrawlInv, Start, CrawlTypeOK, RunRow
<1> QED BY <1>5, <1>6 DEF CrawlInv

\* What a job takes up is a feed of its sources.
LEMMA CrawlableFeeds == \A S : Crawlable(S) \subseteq FeedsOf(S) /\ FeedsOf(S) \subseteq Feed
  BY DEF Crawlable, FeedsOf

\* The jobs and searches begin.
LEMMA Starting ==
    ASSUME CrawlInv, NEW r \in Run,
           \/ CrawlNews(r) \/ CrawlCommunity(r) \/ CollectSns(r) \/ CrawlNaver(r)
           \/ \E found \in SUBSET Url : SearchGoogleNews(r, found) \/ SearchReddit(r, found)
    PROVE  CrawlInv'
<1>1. CASE CrawlNews(r)
  <2> DEFINE n == [Idle EXCEPT !.pc = "pick", !.todo = Crawlable(NewsSource)]
  <2>1. n \in RunRow /\ Shape(n) /\ n.cur = {} /\ n.look = {} /\ n.pc = "pick"
            /\ n.todo = Crawlable(NewsSource)
    BY CrawlableFeeds, Plans DEF Idle, RunRow, Shape
  <2>2. Start(r, "news", n)
    BY <1>1 DEF CrawlNews
  <2> HIDE DEF n
  <2>3. \A s \in Source \ NewsSource : Opened(n, s) = {}
    BY <2>1, CrawlableFeeds DEF Opened, FeedsOf
  <2> QED BY <2>1, <2>2, <2>3, StartKeeps
<1>2. ASSUME NEW p \in SourcePlan, NEW job, Start(r, job, [Idle EXCEPT !.pc = "pick", !.sources = p])
      PROVE  CrawlInv'
  <2> DEFINE n == [Idle EXCEPT !.pc = "pick", !.sources = p]
  <2>1. n \in RunRow /\ Shape(n) /\ n.cur = {} /\ n.look = {} /\ n.pc = "pick" /\ n.todo = {}
    BY DEF Idle, RunRow, Shape
  <2>2. Start(r, job, n)
    BY <1>2
  <2> HIDE DEF n
  <2>3. \A s \in Source \ NewsSource : Opened(n, s) = {}
    BY <2>1 DEF Opened
  <2> QED BY <2>1, <2>2, <2>3, StartKeeps
<1>3. ASSUME NEW found \in SUBSET Url, NEW job,
             Start(r, job, [Idle EXCEPT !.pc = "entries", !.left = found])
      PROVE  CrawlInv'
  <2> DEFINE n == [Idle EXCEPT !.pc = "entries", !.left = found]
  <2>1. n \in RunRow /\ Shape(n) /\ n.cur = {} /\ n.look = {} /\ n.pc = "entries" /\ n.todo = {}
    BY Plans DEF Idle, RunRow, Shape
  <2>2. Start(r, job, n)
    BY <1>3
  <2> HIDE DEF n
  <2>3. \A s \in Source \ NewsSource : Opened(n, s) = {}
    BY <2>1 DEF Opened
  <2> QED BY <2>1, <2>2, <2>3, StartKeeps
<1> QED BY <1>1, <1>2, <1>3, Plans
        DEF CrawlCommunity, CollectSns, CrawlNaver, SearchGoogleNews, SearchReddit

(***************************************************************************)
(* A source or a feed is opened: the check finds the quota not used up.    *)
(***************************************************************************)

\* check_quota passed: what the run opens fits under the bound.
LEMMA QuotaChecked ==
    ASSUME CrawlInv, NEW r \in Run, NEW n \in RunRow, run' = [run EXCEPT ![r] = n],
           NEW t \in Source, Allowed(t),
           \A s \in NewsSource \ {t} : Requesting(n, s) => Requesting(run[r], s),
           \A s \in Source \ (NewsSource \cup {t}) : Opened(n, s) \subseteq Opened(run[r], s),
           UNCHANGED <<quota, peak>>
    PROVE  QuotaPart'
<1>1. ASSUME NEW s \in Source, peak[s] # 0
      PROVE  (/\ quota[s].limit # 0 /\ quota[s].limit <= peak[s]
              /\ quota[s].used + Cardinality(InFlight(s)) < peak[s] + Cardinality(Run) * PerCheck(s))'
  <2>1. /\ quota[s].limit # 0 /\ quota[s].limit <= peak[s]
        /\ quota[s].used + Cardinality(InFlight(s)) < peak[s] + Cardinality(Run) * PerCheck(s)
    BY <1>1 DEF CrawlInv, QuotaPart
  <2>2. quota[s].used \in Nat /\ quota[s].limit \in Nat /\ peak[s] \in Nat
    BY Types DEF CrawlInv
  <2>3. Cardinality(Run) * PerCheck(s) \in Nat
    BY CapNat
  <2>4. /\ Cardinality(InFlight(s)) \in Nat /\ Cardinality(InFlight(s)') \in Nat
        /\ Cardinality(InFlight(s)') <= Cardinality(Run) * PerCheck(s)
    BY InFlightBounded
  <2>5. PerCheck(s)' = PerCheck(s)
    BY DEF PerCheck, FeedsOf
  <2>6. CASE s = t
    <3>1. quota[s].used < quota[s].limit
      BY <2>1, <2>6 DEF Allowed
    <3> HIDE DEF PerCheck
    <3> QED BY <2>1, <2>2, <2>3, <2>4, <2>5, <3>1
  <2>7. CASE s # t
    <3>1. Cardinality(InFlight(s)') <= Cardinality(InFlight(s))
      BY <2>7, FlightShrinks
    <3> HIDE DEF PerCheck
    <3> QED BY <2>1, <2>2, <2>3, <2>4, <2>5, <3>1
  <2> QED BY <2>6, <2>7
<1> QED BY <1>1 DEF QuotaPart

\* A source of a list is opened: its quota is checked once for all of its feeds.
LEMMA OpenKeeps ==
    ASSUME CrawlInv, NEW r \in Run, NEW s \in Source \ NewsSource, OpenSource(r, s)
    PROVE  CrawlInv'
<1> DEFINE x == run[r]
           n == [x EXCEPT !.sources = Tail(@), !.todo = IF Allowed(s) THEN Crawlable({s}) ELSE {}]
<1>1. x \in RunRow /\ Shape(x) /\ Answered(x) /\ x.pc = "pick" /\ x.sources # <<>>
  BY Types DEF CrawlInv, RunsPart, OpenSource, Step, At
<1>2. run' = [run EXCEPT ![r] = n]
  BY DEF OpenSource, Step
<1> HIDE DEF x
<1>3. /\ n \in RunRow /\ n.pc = "pick" /\ n.cur = x.cur /\ n.left = x.left /\ n.look = x.look
      /\ n.todo = IF Allowed(s) THEN Crawlable({s}) ELSE {}
  BY <1>1, CrawlableFeeds, Plans DEF RunRow
<1> HIDE DEF n
<1>4. Shape(n) /\ Answered(n) /\ n.cur = {} /\ x.cur = {} /\ n.look = {} /\ x.look = {} /\ x.left = {}
  BY <1>1, <1>3 DEF Shape, Answered
<1>5. UNCHANGED <<quota, peak, feedRows, enabled, health, doc, validator, copies, trend, lost, crawlUsed>>
  BY DEF OpenSource
<1>6. RunsPart' /\ run' \in [Run -> RunRow]
  BY <1>2, <1>3, <1>4, <1>5, RunsKept
<1>7. CopiesPart'
  BY <1>2, <1>3, <1>4, <1>5, CopiesKept DEF x
<1>8. CoveragePart'
  BY <1>2, <1>3, <1>4, <1>5, CoverageKept DEF x
<1>9. QuotaPart'
  <2>1. \A t : ~Requesting(n, t)
    BY <1>4 DEF Requesting
  <2>2. \A t \in Source \ {s} : Opened(n, t) = {}
    BY <1>3, <1>4, CrawlableFeeds DEF Opened, FeedsOf
  <2>3. CASE Allowed(s)
    BY <1>2, <1>3, <1>5, <2>1, <2>2, <2>3, QuotaChecked
  <2>4. CASE ~Allowed(s)
    <3>1. \A t \in Source : Opened(n, t) = {}
      BY <1>3, <1>4, <2>4 DEF Opened
    <3> QED BY <1>2, <1>3, <1>5, <2>1, <3>1, QuotaKept
  <2> QED BY <2>3, <2>4
<1>10. VersionsPart'
  BY <1>5 DEF CrawlInv, VersionsPart
<1>11. CrawlTypeOK'
  BY <1>5, <1>6 DEF CrawlInv, CrawlTypeOK, RunRow
<1> QED BY <1>6, <1>7, <1>8, <1>9, <1>10, <1>11 DEF CrawlInv

\* A news feed is picked, and its source's quota checked.
LEMMA CheckKeeps ==
    ASSUME CrawlInv, NEW r \in Run, NEW f \in Feed, CheckFeed(r, f)
    PROVE  CrawlInv'
<1> DEFINE x == run[r]
           s == SourceOf[f]
<1>1. x \in RunRow /\ Shape(x) /\ x.pc = "pick" /\ f \in x.todo /\ s \in NewsSource /\ s \in Source
  BY Types, CrawlAssumption DEF CrawlInv, RunsPart, CheckFeed, Step, At
<1>2. UNCHANGED <<quota, peak, feedRows, enabled, health, doc, validator, copies, trend, lost, crawlUsed>>
  BY DEF CheckFeed
<1>3. validator[f] \in Nat
  BY Types DEF CrawlInv
<1>4. CASE Allowed(s)
  <2> DEFINE n == [x EXCEPT !.pc = "get", !.todo = @ \ {f}, !.cur = {f}, !.got = validator[f]]
  <2>1. run' = [run EXCEPT ![r] = n] /\ UNCHANGED health
    BY <1>4 DEF CheckFeed, Step
  <2> HIDE DEF x
  <2>2. /\ n \in RunRow /\ n.pc = "get" /\ n.cur = {f} /\ n.left = x.left /\ n.look = x.look
        /\ n.todo = x.todo \ {f}
    BY <1>1, <1>3 DEF RunRow
  <2> HIDE DEF n
  <2>3. /\ Shape(n) /\ Answered(n) /\ x.cur = {} /\ n.look = {} /\ x.look = {} /\ x.left = {}
    BY <1>1, <2>2 DEF Shape, Answered
  <2>4. RunsPart' /\ run' \in [Run -> RunRow]
    BY <1>2, <2>1, <2>2, <2>3, RunsKept
  <2>5. CopiesPart'
    BY <1>2, <2>1, <2>2, <2>3, CopiesKept DEF x
  <2>6. CoveragePart'
    BY <1>2, <2>1, <2>2, <2>3, CoverageKept DEF x
  <2>7. QuotaPart'
    <3>1. \A t \in NewsSource \ {s} : ~Requesting(n, t)
      BY <2>2 DEF Requesting
    <3>2. \A t \in Source \ NewsSource : Opened(n, t) \subseteq Opened(x, t)
      BY <1>1, <2>2 DEF Opened
    <3> QED BY <1>1, <1>2, <1>4, <2>1, <2>2, <3>1, <3>2, QuotaChecked DEF x
  <2>8. VersionsPart'
    BY <1>2 DEF CrawlInv, VersionsPart
  <2>9. CrawlTypeOK'
    BY <1>2, <2>1, <2>4 DEF CrawlInv, CrawlTypeOK, RunRow
  <2> QED BY <2>4, <2>5, <2>6, <2>7, <2>8, <2>9 DEF CrawlInv
<1>5. CASE ~Allowed(s)
  <2> DEFINE n == [x EXCEPT !.pc = "entries", !.todo = @ \ {f}, !.cur = {f}, !.got = validator[f]]
  <2>1. run' = [run EXCEPT ![r] = n] /\ UNCHANGED health
    BY <1>5 DEF CheckFeed, Step
  <2> HIDE DEF x
  <2>2. /\ n \in RunRow /\ n.pc = "entries" /\ n.cur = {f} /\ n.left = x.left /\ n.look = x.look
        /\ n.todo = x.todo \ {f}
    BY <1>1, <1>3 DEF RunRow
  <2> HIDE DEF n
  <2>3. Shape(n) /\ Answered(n) /\ x.cur = {} /\ x.left = {} /\ x.look = {} /\ n.look = {}
    BY <1>1, <2>2 DEF Shape, Answered
  <2>4. /\ \A t : ~Requesting(n, t)
        /\ \A t \in Source \ NewsSource : Opened(n, t) \subseteq Opened(x, t)
    BY <1>1, <2>2 DEF Requesting, Opened
  <2>5. /\ RunsPart' /\ VersionsPart' /\ CoveragePart' /\ CopiesPart' /\ QuotaPart'
        /\ run' \in [Run -> RunRow]
    BY <1>2, <2>1, <2>2, <2>3, <2>4, QuietStep DEF x
  <2>6. CrawlTypeOK'
    BY <1>2, <2>1, <2>5 DEF CrawlInv, CrawlTypeOK, RunRow
  <2> QED BY <2>5, <2>6 DEF CrawlInv
<1> QED BY <1>4, <1>5

(***************************************************************************)
(* Steps that open nothing.                                                *)
(***************************************************************************)

\* A step of a run that opens nothing and drops no entry.
LEMMA QuietTurn ==
    ASSUME CrawlInv, NEW r \in Run, NEW n \in RunRow, run' = [run EXCEPT ![r] = n],
           Shape(n), Answered(n),
           UNCHANGED <<doc, validator, copies, quota, peak, feedRows, enabled>>,
           health' \in [Feed -> [seen : BOOLEAN, fails : Nat]],
           trend' \in [SnsSource \X Url -> Nat],
           crawlUsed' \in [starts : Nat, disturbances : Nat],
           lost \subseteq lost', lost' \subseteq Feed \X Url,
           n.look \subseteq run[r].look,
           \A s \in NewsSource : Requesting(n, s) => Requesting(run[r], s),
           \A s \in Source \ NewsSource : Opened(n, s) \subseteq Opened(run[r], s),
           \A f \in Feed, u \in Url :
              SourceOf[f] \in NewsSource /\ run[r].cur = {f} /\ u \in run[r].left \cup run[r].look =>
                  \/ n.cur = {f} /\ u \in n.left \cup n.look
                  \/ copies[u] > 0
                  \/ <<f, u>> \in lost'
    PROVE  CrawlInv'
<1>1. /\ RunsPart' /\ VersionsPart' /\ CoveragePart' /\ CopiesPart' /\ QuotaPart'
      /\ run' \in [Run -> RunRow]
  BY QuietStep
<1>2. CrawlTypeOK'
  BY <1>1 DEF CrawlInv, CrawlTypeOK, RunRow
<1> QED BY <1>1, <1>2 DEF CrawlInv

\* A feed of an opened source is picked.
LEMMA TakeKeeps ==
    ASSUME CrawlInv, NEW r \in Run, NEW f \in Feed, TakeFeed(r, f)
    PROVE  CrawlInv'
<1> DEFINE x == run[r]
           n == [x EXCEPT !.pc = "get", !.todo = @ \ {f}, !.cur = {f}]
<1>1. /\ x \in RunRow /\ Shape(x) /\ x.pc = "pick" /\ f \in x.todo
      /\ SourceOf[f] \notin NewsSource /\ run' = [run EXCEPT ![r] = n]
  BY Types DEF CrawlInv, RunsPart, TakeFeed, Step, At
<1> HIDE DEF x
<1>2. /\ n \in RunRow /\ n.pc = "get" /\ n.cur = {f} /\ n.left = x.left /\ n.look = x.look
      /\ n.todo = x.todo \ {f}
  BY <1>1 DEF RunRow
<1> HIDE DEF n
<1>3. Shape(n) /\ Answered(n) /\ x.cur = {} /\ x.left = {} /\ x.look = {}
  BY <1>1, <1>2 DEF Shape, Answered
<1>4. /\ \A s \in NewsSource : ~Requesting(n, s)
      /\ \A s : Opened(n, s) \subseteq Opened(x, s)
  BY <1>1, <1>2 DEF Requesting, Opened
<1>5. /\ UNCHANGED <<doc, validator, copies, quota, peak, feedRows, enabled, lost>>
      /\ health' \in [Feed -> [seen : BOOLEAN, fails : Nat]]
      /\ trend' \in [SnsSource \X Url -> Nat]
      /\ crawlUsed' \in [starts : Nat, disturbances : Nat] /\ lost' \subseteq Feed \X Url
  BY Types DEF CrawlInv, TakeFeed
<1> QED BY <1>1, <1>2, <1>3, <1>4, <1>5, QuietTurn DEF x

\* The feed in hand is done.
LEMMA DoneRow ==
    ASSUME CrawlInv, NEW r \in Run, NEW n, n = NextFeed(r), run[r].look = {}
    PROVE  /\ n \in RunRow /\ n.pc = "pick" /\ n.cur = {} /\ n.left = {} /\ n.look = {}
           /\ n.todo = run[r].todo
           /\ Shape(n) /\ Answered(n)
           /\ \A s : ~Requesting(n, s) /\ Opened(n, s) \subseteq Opened(run[r], s)
<1> DEFINE x == run[r]
<1>1. x \in RunRow /\ x.look = {}
  BY Types DEF CrawlInv
<1> DEFINE y == [x EXCEPT !.pc = "pick", !.cur = {}, !.got = 0, !.left = {}, !.fresh = FALSE, !.page = FALSE]
<1>2. n = y
  BY DEF NextFeed
<1> HIDE DEF x
<1>3. /\ y \in RunRow /\ y.pc = "pick" /\ y.cur = {} /\ y.left = {} /\ y.look = {} /\ y.todo = x.todo
  BY <1>1 DEF RunRow
<1> HIDE DEF y
<1> QED BY <1>2, <1>3 DEF Shape, Answered, Requesting, Opened, x

\* It is dropped with nothing left to read, or it is no news.
LEMMA DoneKeeps ==
    ASSUME CrawlInv, NEW r \in Run, run' = [run EXCEPT ![r] = NextFeed(r)], run[r].look = {},
           run[r].left = {} \/ \E f \in Feed : run[r].cur = {f} /\ SourceOf[f] \notin NewsSource,
           NEW f \in Feed, NEW good \in BOOLEAN, Crawled(f, good),
           Disturb \/ UNCHANGED crawlUsed,
           UNCHANGED <<doc, validator, copies, quota, peak, feedRows, enabled, trend, lost>>
    PROVE  CrawlInv'
<1> DEFINE n == NextFeed(r)
<1>1. /\ n \in RunRow /\ n.look = {} /\ Shape(n) /\ Answered(n)
      /\ \A s : ~Requesting(n, s) /\ Opened(n, s) \subseteq Opened(run[r], s)
  BY DoneRow
<1>2. run' = [run EXCEPT ![r] = n]
  OBVIOUS
<1> HIDE DEF n
<1>3. /\ health' \in [Feed -> [seen : BOOLEAN, fails : Nat]]
      /\ crawlUsed' \in [starts : Nat, disturbances : Nat]
      /\ trend' \in [SnsSource \X Url -> Nat] /\ lost' \subseteq Feed \X Url
  BY Types, HealthTypes, DisturbTypes DEF CrawlInv
<1> QED BY <1>1, <1>2, <1>3, QuietTurn

\* The request or the report of it failed: the feed is done, or its source is.
LEMMA FailureKeeps ==
    ASSUME CrawlInv, NEW r \in Run, NEW f \in Feed, NEW pc, ReportFailure(r, pc, f),
           run[r].look = {},
           run[r].left = {} \/ \E g \in Feed : run[r].cur = {g} /\ SourceOf[g] \notin NewsSource,
           UNCHANGED <<doc, validator, copies, quota, peak, feedRows, enabled, trend, lost>>
    PROVE  CrawlInv'
<1> DEFINE z == NextFeed(r)
<1>1. Disturb
  BY DEF ReportFailure, Fault
<1>2. CASE run' = [run EXCEPT ![r] = z] /\ Crawled(f, FALSE)
  BY <1>1, <1>2, DoneKeeps
<1>3. CASE run' = [run EXCEPT ![r] = Abandoned(r, f)] /\ UNCHANGED health
  <2> DEFINE n == [z EXCEPT !.todo = {}, !.items = {i \in z.items : i[1] # SourceOf[f]}]
  <2>1. run' = [run EXCEPT ![r] = n]
    BY <1>3 DEF Abandoned
  <2>2. z \in RunRow /\ z.pc = "pick" /\ z.cur = {} /\ z.left = {} /\ z.look = {}
    BY DoneRow
  <2> HIDE DEF z
  <2>3. {i \in z.items : i[1] # SourceOf[f]} \in SUBSET (SnsSource \X Url \X Nat)
    BY <2>2, Fields
  <2>4. n \in RunRow /\ n.pc = "pick" /\ n.cur = {} /\ n.left = {} /\ n.look = {} /\ n.todo = {}
    BY <2>2, <2>3 DEF RunRow
  <2> HIDE DEF n
  <2>5. /\ Shape(n) /\ Answered(n)
        /\ \A s : ~Requesting(n, s)
        /\ \A s : Opened(n, s) \subseteq Opened(run[r], s)
    BY <2>4 DEF Shape, Answered, Requesting, Opened
  <2>6. /\ health' \in [Feed -> [seen : BOOLEAN, fails : Nat]]
        /\ crawlUsed' \in [starts : Nat, disturbances : Nat]
        /\ trend' \in [SnsSource \X Url -> Nat] /\ lost' \subseteq Feed \X Url
    BY <1>1, <1>3, Types, DisturbTypes DEF CrawlInv
  <2> QED BY <2>1, <2>4, <2>5, <2>6, QuietTurn
<1> QED BY <1>2, <1>3 DEF ReportFailure, Step

\* A news feed answers: 304, with a document, or not at all.
LEMMA NewsAnswerKeeps ==
    ASSUME CrawlInv, NEW r \in Run, NEW f \in Feed, NewsAnswer(r, f)
    PROVE  CrawlInv'
<1> DEFINE x == run[r]
<1>1. /\ x \in RunRow /\ Shape(x) /\ x.pc = "get" /\ x.cur = {f} /\ SourceOf[f] \in NewsSource
      /\ x.left = {} /\ x.look = {} /\ f \notin x.todo
  BY Types DEF CrawlInv, RunsPart, NewsAnswer, Step, At, Shape
<1>2. /\ UNCHANGED <<quota, peak, feedRows, enabled, health, doc, validator, copies, trend, lost>>
      /\ Disturb \/ UNCHANGED crawlUsed
  BY DEF NewsAnswer, Fault
<1>3. doc[f].edition \in Nat /\ doc[f].entries \in SUBSET Url
  BY Types DEF CrawlInv
<1>4. /\ health' \in [Feed -> [seen : BOOLEAN, fails : Nat]]
      /\ crawlUsed' \in [starts : Nat, disturbances : Nat]
      /\ trend' \in [SnsSource \X Url -> Nat] /\ lost' \subseteq Feed \X Url
  BY <1>2, Types, DisturbTypes DEF CrawlInv
<1>5. ASSUME NEW n, n \in RunRow, run' = [run EXCEPT ![r] = n], n.pc \in {"store", "entries"},
             n.cur = x.cur, n.look = x.look, n.todo = x.todo,
             n.pc = "store" => n.got = doc[f].edition /\ n.left = doc[f].entries
      PROVE  CrawlInv'
  <2> HIDE DEF x
  <2>1. Shape(n) /\ Answered(n)
    BY <1>1, <1>3, <1>5 DEF Shape, Answered
  <2>2. /\ \A s : Requesting(n, s) => Requesting(x, s)
        /\ \A s : Opened(n, s) \subseteq Opened(x, s)
    BY <1>1, <1>5 DEF Requesting, Opened
  <2> QED BY <1>1, <1>2, <1>4, <1>5, <2>1, <2>2, QuietTurn DEF x
<1>6. CASE run' = [run EXCEPT ![r] = [x EXCEPT !.pc = "store", !.got = doc[f].edition,
                                               !.left = doc[f].entries]]
  <2> DEFINE n == [x EXCEPT !.pc = "store", !.got = doc[f].edition, !.left = doc[f].entries]
  <2>1. run' = [run EXCEPT ![r] = n]
    BY <1>6
  <2> HIDE DEF x
  <2>2. /\ n \in RunRow /\ n.pc = "store" /\ n.got = doc[f].edition /\ n.left = doc[f].entries
        /\ n.cur = x.cur /\ n.look = x.look /\ n.todo = x.todo
    BY <1>1, <1>3 DEF RunRow
  <2> HIDE DEF n
  <2> QED BY <1>5, <2>1, <2>2
<1>7. CASE run' = [run EXCEPT ![r] = [x EXCEPT !.pc = "entries"]]
  <2> DEFINE n == [x EXCEPT !.pc = "entries"]
  <2>1. run' = [run EXCEPT ![r] = n]
    BY <1>7
  <2> HIDE DEF x
  <2>2. /\ n \in RunRow /\ n.pc = "entries" /\ n.cur = x.cur /\ n.look = x.look /\ n.todo = x.todo
    BY <1>1 DEF RunRow
  <2> HIDE DEF n
  <2> QED BY <1>5, <2>1, <2>2
<1> QED BY <1>6, <1>7 DEF NewsAnswer, Step

\* A community page answers.
LEMMA CommunityAnswerKeeps ==
    ASSUME CrawlInv, NEW r \in Run, NEW f \in Feed, CommunityAnswer(r, f)
    PROVE  CrawlInv'
<1> DEFINE x == run[r]
<1>1. /\ x \in RunRow /\ Shape(x) /\ x.pc = "get" /\ x.cur = {f} /\ SourceOf[f] \notin NewsSource
      /\ x.left = {} /\ x.look = {} /\ f \notin x.todo
  <2>1. x.pc = "get" /\ x.cur = {f} /\ SourceOf[f] \in CommunitySource
    BY DEF CommunityAnswer, ReportFailure, Step, At
  <2>2. SourceOf[f] \notin NewsSource
    BY <2>1, Sources DEF NewsSource
  <2>3. x \in RunRow /\ Shape(x)
    BY Types DEF CrawlInv, RunsPart
  <2> QED BY <2>1, <2>2, <2>3 DEF Shape
<1>2. UNCHANGED <<quota, peak, feedRows, enabled, doc, validator, copies, trend, lost>>
  BY DEF CommunityAnswer
<1>3. CASE ReportFailure(r, "get", f)
  BY <1>1, <1>2, <1>3, FailureKeeps
<1>4. ASSUME NEW n, n \in {[x EXCEPT !.pc = "entries", !.left = doc[f].entries],
                           [x EXCEPT !.pc = "entries"]},
             run' = [run EXCEPT ![r] = n], UNCHANGED health, UNCHANGED crawlUsed \/ Fault
      PROVE  CrawlInv'
  <2>1. doc[f].entries \in SUBSET Url
    BY Types DEF CrawlInv
  <2> HIDE DEF x
  <2>2. /\ n \in RunRow /\ n.pc = "entries" /\ n.cur = x.cur /\ n.look = x.look /\ n.todo = x.todo
    BY <1>1, <1>4, <2>1 DEF RunRow
  <2>3. Shape(n) /\ Answered(n)
    BY <1>1, <2>2 DEF Shape, Answered
  <2>4. /\ \A s : ~Requesting(n, s)
        /\ \A s : Opened(n, s) \subseteq Opened(x, s)
    BY <1>1, <2>2 DEF Requesting, Opened
  <2>5. /\ health' \in [Feed -> [seen : BOOLEAN, fails : Nat]]
        /\ crawlUsed' \in [starts : Nat, disturbances : Nat]
        /\ trend' \in [SnsSource \X Url -> Nat] /\ lost' \subseteq Feed \X Url
    BY <1>2, <1>4, Types, DisturbTypes DEF CrawlInv, Fault
  <2> QED BY <1>1, <1>2, <1>4, <2>2, <2>3, <2>4, <2>5, QuietTurn DEF x
<1> QED BY <1>3, <1>4 DEF CommunityAnswer, Step

\* A subreddit, Google Trends or the data lab answers.
LEMMA AnswerKeeps ==
    ASSUME CrawlInv, NEW r \in Run, NEW f \in Feed, NEW s \in Source \ NewsSource, Answer(r, f, s)
    PROVE  CrawlInv'
<1> DEFINE x == run[r]
<1>1. /\ x \in RunRow /\ Shape(x) /\ x.pc = "get" /\ x.cur = {f} /\ SourceOf[f] \notin NewsSource
      /\ x.left = {} /\ x.look = {} /\ f \notin x.todo
  BY Types DEF CrawlInv, RunsPart, Answer, ReportFailure, Step, At, Shape
<1>2. UNCHANGED <<quota, peak, feedRows, enabled, doc, validator, copies, trend, lost>>
  BY DEF Answer
<1>3. CASE ReportFailure(r, "get", f)
  BY <1>1, <1>2, <1>3, FailureKeeps
<1>4. CASE /\ run' = [run EXCEPT ![r] = [x EXCEPT !.pc = "count", !.left = doc[f].entries,
                                                   !.got = doc[f].edition]]
           /\ UNCHANGED <<health, crawlUsed>>
  <2> DEFINE n == [x EXCEPT !.pc = "count", !.left = doc[f].entries, !.got = doc[f].edition]
  <2>1. run' = [run EXCEPT ![r] = n]
    BY <1>4
  <2>2. doc[f].edition \in Nat /\ doc[f].entries \in SUBSET Url
    BY Types DEF CrawlInv
  <2> HIDE DEF x
  <2>3. n \in RunRow /\ n.pc = "count" /\ n.cur = x.cur /\ n.look = x.look /\ n.todo = x.todo
    BY <1>1, <2>2 DEF RunRow
  <2> HIDE DEF n
  <2>4. Shape(n) /\ Answered(n)
    BY <1>1, <2>3 DEF Shape, Answered
  <2>5. /\ \A t \in NewsSource : ~Requesting(n, t)
        /\ \A t : Opened(n, t) \subseteq Opened(x, t)
    BY <1>1, <2>3 DEF Requesting, Opened
  <2>6. /\ health' \in [Feed -> [seen : BOOLEAN, fails : Nat]]
        /\ crawlUsed' \in [starts : Nat, disturbances : Nat]
        /\ trend' \in [SnsSource \X Url -> Nat] /\ lost' \subseteq Feed \X Url
    BY <1>2, <1>4, Types DEF CrawlInv
  <2> QED BY <1>1, <1>2, <2>1, <2>3, <2>4, <2>5, <2>6, QuietTurn DEF x
<1> QED BY <1>3, <1>4 DEF Answer, Step

\* The data lab answers, to some of the batches.
LEMMA NaverAnswerKeeps ==
    ASSUME CrawlInv, NEW r \in Run, NEW f \in Feed, FetchNaverTrends(r, f)
    PROVE  CrawlInv'
<1> DEFINE x == run[r]
<1>1. /\ x \in RunRow /\ Shape(x) /\ x.pc = "get" /\ x.cur = {f} /\ SourceOf[f] \notin NewsSource
      /\ x.left = {} /\ x.look = {} /\ f \notin x.todo
  <2>1. x.pc = "get" /\ x.cur = {f} /\ SourceOf[f] = "naver_datalab"
    BY DEF FetchNaverTrends, Step, At
  <2>2. x \in RunRow /\ Shape(x) /\ SourceOf[f] \notin NewsSource
    BY <2>1, Types DEF CrawlInv, RunsPart, NewsSource
  <2> QED BY <2>1, <2>2 DEF Shape
<1>2. UNCHANGED <<quota, peak, feedRows, enabled, health, doc, validator, copies, trend, lost>>
  BY DEF FetchNaverTrends
<1>3. PICK found \in SUBSET doc[f].entries :
         /\ run' = [run EXCEPT ![r] = IF found = {} THEN NextFeed(r)
                                      ELSE [x EXCEPT !.pc = "count", !.left = found,
                                                     !.got = doc[f].edition]]
         /\ Disturb \/ UNCHANGED crawlUsed
  BY DEF FetchNaverTrends, Step, Fault
<1>4. doc[f].edition \in Nat /\ found \in SUBSET Url
  BY Types DEF CrawlInv
<1>5. /\ health' \in [Feed -> [seen : BOOLEAN, fails : Nat]]
      /\ crawlUsed' \in [starts : Nat, disturbances : Nat]
      /\ trend' \in [SnsSource \X Url -> Nat] /\ lost' \subseteq Feed \X Url
  BY <1>2, <1>3, Types, DisturbTypes DEF CrawlInv
<1>6. CASE found = {}
  <2> DEFINE n == NextFeed(r)
  <2>1. run' = [run EXCEPT ![r] = n]
    BY <1>3, <1>6
  <2>2. /\ n \in RunRow /\ n.look = {} /\ Shape(n) /\ Answered(n)
        /\ \A s : ~Requesting(n, s) /\ Opened(n, s) \subseteq Opened(x, s)
    BY <1>1, DoneRow
  <2> HIDE DEF n
  <2> QED BY <1>1, <1>2, <1>5, <2>1, <2>2, QuietTurn
<1>7. CASE found # {}
  <2> DEFINE n == [x EXCEPT !.pc = "count", !.left = found, !.got = doc[f].edition]
  <2>1. run' = [run EXCEPT ![r] = n]
    BY <1>3, <1>7
  <2> HIDE DEF x
  <2>2. n \in RunRow /\ n.pc = "count" /\ n.cur = x.cur /\ n.look = x.look /\ n.todo = x.todo
    BY <1>1, <1>4 DEF RunRow
  <2> HIDE DEF n
  <2>3. Shape(n) /\ Answered(n)
    BY <1>1, <2>2 DEF Shape, Answered
  <2>4. /\ \A t \in NewsSource : ~Requesting(n, t)
        /\ \A t : Opened(n, t) \subseteq Opened(x, t)
    BY <1>1, <2>2 DEF Requesting, Opened
  <2> QED BY <1>1, <1>2, <1>5, <2>1, <2>2, <2>3, <2>4, QuietTurn DEF x
<1> QED BY <1>6, <1>7

\* The items of an answer are kept, or dropped with a failure.
LEMMA ItemsKeeps ==
    ASSUME CrawlInv, NEW r \in Run, NEW f \in Feed, ReadItems(r, f)
    PROVE  CrawlInv'
<1> DEFINE x == run[r]
           z == NextFeed(r)
           I == {SourceOf[f]} \X x.left \X {x.got}
<1>1. /\ x \in RunRow /\ x.pc = "items" /\ x.cur = {f} /\ x.look = {}
      /\ SourceOf[f] \in SnsSource /\ SourceOf[f] \notin NewsSource
  <2>1. x \in RunRow /\ Shape(x) /\ x.pc = "items" /\ x.cur = {f}
    BY Types DEF CrawlInv, RunsPart, ReadItems, ReportFailure, Step, At
  <2>2. SourceOf[f] \in SnsSource /\ SourceOf[f] \notin NewsSource
    BY Sources DEF ReadItems, NewsSource
  <2> QED BY <2>1, <2>2 DEF Shape
<1>2. UNCHANGED <<quota, peak, feedRows, enabled, doc, validator, copies, trend, lost>>
  BY DEF ReadItems
<1>3. CASE ReportFailure(r, "items", f)
  BY <1>1, <1>2, <1>3, FailureKeeps
<1>4. CASE run' = [run EXCEPT ![r] = [z EXCEPT !.items = @ \cup I]] /\ Crawled(f, TRUE) /\ UNCHANGED crawlUsed
  <2> DEFINE n == [z EXCEPT !.items = @ \cup I]
  <2>1. run' = [run EXCEPT ![r] = n]
    BY <1>4
  <2>2. /\ z \in RunRow /\ z.pc = "pick" /\ z.cur = {} /\ z.left = {} /\ z.look = {}
        /\ z.todo = x.todo
    BY <1>1, DoneRow
  <2>3. I \in SUBSET (SnsSource \X Url \X Nat)
    BY <1>1, Fields
  <2> HIDE DEF x, z, I
  <2>4. /\ n \in RunRow /\ n.pc = "pick" /\ n.cur = {} /\ n.left = {} /\ n.look = {}
        /\ n.todo = x.todo
    BY <2>2, <2>3 DEF RunRow
  <2> HIDE DEF n
  <2>5. /\ Shape(n) /\ Answered(n)
        /\ \A s : ~Requesting(n, s)
        /\ \A s : Opened(n, s) \subseteq Opened(x, s)
    BY <1>1, <2>4 DEF Shape, Answered, Requesting, Opened
  <2>6. /\ health' \in [Feed -> [seen : BOOLEAN, fails : Nat]]
        /\ crawlUsed' \in [starts : Nat, disturbances : Nat]
        /\ trend' \in [SnsSource \X Url -> Nat] /\ lost' \subseteq Feed \X Url
    BY <1>2, <1>4, Types, HealthTypes DEF CrawlInv
  <2> QED BY <1>1, <1>2, <2>1, <2>4, <2>5, <2>6, QuietTurn DEF x
<1> QED BY <1>3, <1>4 DEF ReadItems, Step

\* The document is parsed, or its entries are lost.
LEMMA ParseKeeps ==
    ASSUME CrawlInv, NEW r \in Run, NEW f \in Feed, ParseFeed(r, f)
    PROVE  CrawlInv'
<1> DEFINE x == run[r]
<1>1. x \in RunRow /\ Shape(x) /\ x.pc = "parse" /\ x.cur = {f} /\ x.look = {}
  BY Types DEF CrawlInv, RunsPart, ParseFeed, Step, At, Shape
<1>2. /\ UNCHANGED <<quota, peak, feedRows, enabled, health, doc, validator, copies, trend>>
      /\ Disturb \/ UNCHANGED crawlUsed
  BY DEF ParseFeed, Fault
<1>3. x.left \subseteq Url /\ lost \subseteq Feed \X Url
  BY <1>1, Types, Fields DEF CrawlInv
<1>4. /\ health' \in [Feed -> [seen : BOOLEAN, fails : Nat]]
      /\ crawlUsed' \in [starts : Nat, disturbances : Nat]
      /\ trend' \in [SnsSource \X Url -> Nat]
  BY <1>2, Types, DisturbTypes DEF CrawlInv
<1>5. ASSUME NEW n, n \in RunRow, run' = [run EXCEPT ![r] = n], n.pc = "entries", n.cur = x.cur,
             n.look = x.look, n.todo = x.todo,
             \/ n.left = x.left /\ lost' = lost
             \/ lost' = lost \cup ({f} \X x.left)
      PROVE  CrawlInv'
  <2> HIDE DEF x
  <2>1. Shape(n) /\ Answered(n)
    BY <1>1, <1>5 DEF Shape, Answered
  <2>2. /\ \A s : ~Requesting(n, s)
        /\ \A s : Opened(n, s) \subseteq Opened(x, s)
    BY <1>1, <1>5 DEF Requesting, Opened
  <2>3. lost \subseteq lost' /\ lost' \subseteq Feed \X Url
    BY <1>3, <1>5
  <2>4. \A g \in Feed, u \in Url :
           x.cur = {g} /\ u \in x.left \cup x.look =>
              (n.cur = {g} /\ u \in n.left \cup n.look) \/ <<g, u>> \in lost'
    BY <1>1, <1>5
  <2> QED BY <1>1, <1>2, <1>4, <1>5, <2>1, <2>2, <2>3, <2>4, QuietTurn DEF x
<1>6. CASE run' = [run EXCEPT ![r] = [x EXCEPT !.pc = "entries"]] /\ lost' = lost
  <2> DEFINE n == [x EXCEPT !.pc = "entries"]
  <2>1. run' = [run EXCEPT ![r] = n]
    BY <1>6
  <2> HIDE DEF x
  <2>2. /\ n \in RunRow /\ n.pc = "entries" /\ n.cur = x.cur /\ n.look = x.look /\ n.todo = x.todo
        /\ n.left = x.left
    BY <1>1 DEF RunRow
  <2> HIDE DEF n
  <2> QED BY <1>5, <1>6, <2>1, <2>2
<1>7. CASE /\ run' = [run EXCEPT ![r] = [x EXCEPT !.pc = "entries", !.left = {}]]
           /\ lost' = lost \cup ({f} \X x.left)
  <2> DEFINE n == [x EXCEPT !.pc = "entries", !.left = {}]
  <2>1. run' = [run EXCEPT ![r] = n]
    BY <1>7
  <2> HIDE DEF x
  <2>2. /\ n \in RunRow /\ n.pc = "entries" /\ n.cur = x.cur /\ n.look = x.look /\ n.todo = x.todo
    BY <1>1 DEF RunRow
  <2> HIDE DEF n
  <2> QED BY <1>5, <1>7, <2>1, <2>2
<1> QED BY <1>6, <1>7 DEF ParseFeed, Step

\* A run that reads entries has no request in flight.
LEMMA EntriesTypes ==
    ASSUME CrawlInv, NEW r \in Run, run[r].pc = "entries"
    PROVE  /\ run[r] \in RunRow /\ Shape(run[r])
           /\ \A s : ~Requesting(run[r], s)
  BY Types DEF CrawlInv, RunsPart, Requesting

\* An entry is looked up: it is stored, or the run is one more that may insert it.
LEMMA LookUpKeeps ==
    ASSUME CrawlInv, NEW r \in Run, NEW u \in Url, LookUp(r, u)
    PROVE  CrawlInv'
<1> DEFINE x == run[r]
<1>1. /\ x \in RunRow /\ Shape(x) /\ x.pc = "entries" /\ u \in x.left /\ x.look = {}
      /\ \A s : ~Requesting(x, s)
  BY EntriesTypes DEF LookUp, Step, At
<1>2. UNCHANGED <<quota, peak, feedRows, enabled, health, doc, validator, copies, trend>>
  BY DEF LookUp
<1>3. /\ health' \in [Feed -> [seen : BOOLEAN, fails : Nat]]
      /\ trend' \in [SnsSource \X Url -> Nat] /\ copies \in [Url -> Nat] /\ lost \subseteq Feed \X Url
  BY <1>2, Types DEF CrawlInv
<1>4. crawlUsed' \in [starts : Nat, disturbances : Nat]
  BY Types, DisturbTypes DEF CrawlInv, LookUp, Fault
<1>5. CASE copies[u] = 0 /\ run' = [run EXCEPT ![r] = [x EXCEPT !.left = @ \ {u}, !.look = {u}]]
              /\ UNCHANGED lost
  <2> DEFINE n == [x EXCEPT !.left = @ \ {u}, !.look = {u}]
  <2>1. run' = [run EXCEPT ![r] = n]
    BY <1>5
  <2> HIDE DEF x
  <2>2. /\ n \in RunRow /\ n.pc = "entries" /\ n.cur = x.cur /\ n.left = x.left \ {u}
        /\ n.look = {u} /\ n.todo = x.todo
    BY <1>1 DEF RunRow
  <2> HIDE DEF n
  <2>3. Shape(n) /\ Answered(n)
    BY <1>1, <2>2 DEF Shape, Answered
  <2>4. /\ \A s : ~Requesting(n, s)
        /\ \A s : Opened(n, s) \subseteq Opened(x, s)
    BY <1>1, <2>2 DEF Requesting, Opened
  <2>5. RunsPart' /\ run' \in [Run -> RunRow]
    BY <1>2, <2>1, <2>2, <2>3, RunsKept
  <2>6. QuotaPart'
    BY <1>2, <2>1, <2>2, <2>4, QuotaKept DEF x
  <2>7. CoveragePart'
    <3>1. \A f \in Feed, v \in Url :
             x.cur = {f} /\ v \in x.left \cup x.look => n.cur = {f} /\ v \in n.left \cup n.look
      BY <1>1, <2>2
    <3> QED BY <1>2, <1>5, <2>1, <2>2, <3>1, CoverageKept DEF x
  <2>8. CopiesPart'
    <3>1. ASSUME NEW v \in Url
          PROVE  (copies[v] + Cardinality(Lookers(v)) <= Cardinality(Run))'
      <4>1. copies'[v] \in Nat /\ copies'[v] = copies[v]
        BY <1>2, <1>3
      <4>2. /\ Lookers(v) \in SUBSET Run /\ Lookers(v)' \in SUBSET Run
            /\ v # u => Lookers(v)' \in SUBSET Lookers(v)
        BY <1>1, <2>1, <2>2, RunsHoldRows DEF Lookers, CrawlInv, x
      <4>3. /\ Cardinality(Lookers(v)) \in Nat /\ Cardinality(Lookers(v)') \in Nat
            /\ Cardinality(Lookers(v)') <= Cardinality(Run)
            /\ v # u => Cardinality(Lookers(v)') <= Cardinality(Lookers(v))
        BY <4>2, CrawlAssumption, FS_Subset, FS_CardinalityType
      <4>4. /\ copies[v] + Cardinality(Lookers(v)) <= Cardinality(Run)
            /\ Cardinality(Run) \in Nat
        BY CrawlAssumption, FS_CardinalityType DEF CrawlInv, CopiesPart
      <4> QED BY <1>5, <4>1, <4>3, <4>4
    <3> QED BY <3>1 DEF CopiesPart
  <2>9. VersionsPart'
    BY <1>2 DEF CrawlInv, VersionsPart
  <2>10. CrawlTypeOK'
    BY <1>2, <1>3, <1>4, <1>5, <2>5 DEF CrawlInv, CrawlTypeOK, RunRow
  <2> QED BY <2>5, <2>6, <2>7, <2>8, <2>9, <2>10 DEF CrawlInv
<1>6. CASE /\ run' = [run EXCEPT ![r] = [x EXCEPT !.left = @ \ {u}]]
           /\ \/ lost' = lost \cup (x.cur \X {u})
              \/ UNCHANGED lost /\ copies[u] # 0
  <2> DEFINE n == [x EXCEPT !.left = @ \ {u}]
  <2>1. run' = [run EXCEPT ![r] = n]
    BY <1>6
  <2> HIDE DEF x
  <2>2. /\ n \in RunRow /\ n.pc = "entries" /\ n.cur = x.cur /\ n.left = x.left \ {u}
        /\ n.look = x.look /\ n.todo = x.todo
    BY <1>1 DEF RunRow
  <2> HIDE DEF n
  <2>3. Shape(n) /\ Answered(n)
    BY <1>1, <2>2 DEF Shape, Answered
  <2>4. /\ \A s : ~Requesting(n, s)
        /\ \A s : Opened(n, s) \subseteq Opened(x, s)
    BY <1>1, <2>2 DEF Requesting, Opened
  <2>5. x.cur \subseteq Feed
    BY <1>1, Fields
  <2>6. lost \subseteq lost' /\ lost' \subseteq Feed \X Url
    BY <1>3, <1>6, <2>5
  <2>7. \A f \in Feed, v \in Url :
           x.cur = {f} /\ v \in x.left \cup x.look =>
              (n.cur = {f} /\ v \in n.left \cup n.look) \/ copies[v] > 0 \/ <<f, v>> \in lost'
    BY <1>3, <1>6, <2>2
  <2> QED BY <1>2, <1>3, <1>4, <2>1, <2>2, <2>3, <2>4, <2>6, <2>7, QuietTurn DEF x
<1>7. CASE copies[u] = 0
  <2>1. \/ run' = [run EXCEPT ![r] = [x EXCEPT !.left = @ \ {u}, !.look = {u}]] /\ UNCHANGED lost
        \/ /\ run' = [run EXCEPT ![r] = [x EXCEPT !.left = @ \ {u}]]
           /\ lost' = lost \cup (x.cur \X {u})
    BY <1>7 DEF LookUp, Step
  <2> QED BY <1>5, <1>6, <1>7, <2>1
<1>8. CASE copies[u] # 0
  <2> DEFINE n == [x EXCEPT !.left = @ \ {u}]
  <2> HIDE DEF x
  <2>1. [x EXCEPT !.left = @ \ {u}, !.look = {}] = n
    BY <1>1 DEF RunRow
  <2>2. \/ run' = [run EXCEPT ![r] = [x EXCEPT !.left = @ \ {u}, !.look = {}]] /\ UNCHANGED lost
        \/ run' = [run EXCEPT ![r] = n] /\ lost' = lost \cup (x.cur \X {u})
    BY <1>8 DEF LookUp, Step, x
  <2> QED BY <1>6, <1>8, <2>1, <2>2
<1> QED BY <1>7, <1>8

\* It is inserted, or the insert fails and the entry is lost.
LEMMA InsertKeeps ==
    ASSUME CrawlInv, NEW r \in Run, NEW u \in Url, InsertArticle(r, u)
    PROVE  CrawlInv'
<1> DEFINE x == run[r]
<1>1. /\ x \in RunRow /\ Shape(x) /\ x.pc = "entries" /\ x.look = {u}
      /\ \A s : ~Requesting(x, s)
  BY EntriesTypes DEF InsertArticle, Step, At
<1>2. UNCHANGED <<quota, peak, feedRows, enabled, health, doc, validator, trend>>
  BY DEF InsertArticle
<1>3. /\ health' \in [Feed -> [seen : BOOLEAN, fails : Nat]]
      /\ trend' \in [SnsSource \X Url -> Nat] /\ copies \in [Url -> Nat] /\ lost \subseteq Feed \X Url
  BY <1>2, Types DEF CrawlInv
<1>4. crawlUsed' \in [starts : Nat, disturbances : Nat]
  BY Types, DisturbTypes DEF CrawlInv, InsertArticle, Fault
<1>5. CASE /\ run' = [run EXCEPT ![r] = [x EXCEPT !.look = {}, !.fresh = TRUE]]
           /\ copies' = [copies EXCEPT ![u] = @ + 1] /\ UNCHANGED lost
  <2> DEFINE n == [x EXCEPT !.look = {}, !.fresh = TRUE]
  <2>1. run' = [run EXCEPT ![r] = n]
    BY <1>5
  <2> HIDE DEF x
  <2>2. /\ n \in RunRow /\ n.pc = "entries" /\ n.cur = x.cur /\ n.left = x.left
        /\ n.look = {} /\ n.todo = x.todo
    BY <1>1 DEF RunRow
  <2> HIDE DEF n
  <2>3. Shape(n) /\ Answered(n)
    BY <1>1, <2>2 DEF Shape, Answered
  <2>4. /\ \A s : ~Requesting(n, s)
        /\ \A s : Opened(n, s) \subseteq Opened(x, s)
    BY <1>1, <2>2 DEF Requesting, Opened
  <2>5. RunsPart' /\ run' \in [Run -> RunRow]
    BY <1>2, <2>1, <2>2, <2>3, RunsKept
  <2>6. QuotaPart'
    BY <1>2, <2>1, <2>2, <2>4, QuotaKept DEF x
  <2>7. copies' \in [Url -> Nat] /\ copies'[u] = copies[u] + 1
          /\ \A v \in Url \ {u} : copies'[v] = copies[v]
    BY <1>3, <1>5
  <2>8. CoveragePart'
    <3>1. /\ \A v \in Url : copies[v] > 0 => copies'[v] > 0
          /\ copies'[u] > 0
      BY <1>3, <2>7
    <3>2. \A f \in Feed, v \in Url :
             SourceOf[f] \in NewsSource /\ run[r].cur = {f} /\ v \in run[r].left \cup run[r].look =>
                 \/ n.cur = {f} /\ v \in n.left \cup n.look
                 \/ copies'[v] > 0
                 \/ <<f, v>> \in lost'
      BY <1>1, <2>2, <3>1 DEF x
    <3>3. lost \subseteq lost' /\ UNCHANGED <<doc, validator>>
      BY <1>2, <1>5
    <3>4. n \in RunRow /\ run' = [run EXCEPT ![r] = n]
      BY <2>1, <2>2
    <3>5. \A v \in Url : copies[v] > 0 => copies'[v] > 0
      BY <3>1
    <3>6. UNCHANGED <<doc, validator>> /\ lost \subseteq lost'
      BY <3>3
    <3> QED BY <3>2, <3>4, <3>5, <3>6, CoverageKept
  <2>9. CopiesPart'
    <3>1. ASSUME NEW v \in Url
          PROVE  (copies[v] + Cardinality(Lookers(v)) <= Cardinality(Run))'
      <4>1. run \in [Run -> RunRow]
        BY Types DEF CrawlInv
      <4>2. /\ IsFiniteSet(Lookers(v)) /\ Lookers(v)' = Lookers(v) \ {r}
            /\ v = u => r \in Lookers(v)
        BY <1>1, <2>1, <2>2, <4>1, LookersFinite DEF Lookers, x
      <4>3. /\ Cardinality(Lookers(v)) \in Nat /\ Cardinality(Lookers(v)') \in Nat
            /\ Cardinality(Lookers(v)') <= Cardinality(Lookers(v))
            /\ v = u => Cardinality(Lookers(v)') = Cardinality(Lookers(v)) - 1
        <5> DEFINE W == Lookers(v)
        <5>1. IsFiniteSet(W) /\ (v = u => r \in W)
          BY <4>2
        <5> HIDE DEF W
        <5>2. /\ Cardinality(W) \in Nat /\ Cardinality(W \ {r}) \in Nat
              /\ Cardinality(W \ {r}) = IF r \in W THEN Cardinality(W) - 1 ELSE Cardinality(W)
          BY <5>1, FS_RemoveElement, FS_CardinalityType
        <5> QED BY <4>2, <5>1, <5>2 DEF W
      <4>4. copies[v] + Cardinality(Lookers(v)) <= Cardinality(Run) /\ Cardinality(Run) \in Nat
        BY CrawlAssumption, FS_CardinalityType DEF CrawlInv, CopiesPart
      <4>5. copies[v] \in Nat
        BY <1>3
      <4> QED BY <2>7, <4>3, <4>4, <4>5
    <3> QED BY <3>1 DEF CopiesPart
  <2>10. VersionsPart'
    BY <1>2 DEF CrawlInv, VersionsPart
  <2>11. CrawlTypeOK'
    BY <1>2, <1>3, <1>4, <1>5, <2>5, <2>7 DEF CrawlInv, CrawlTypeOK, RunRow
  <2> QED BY <2>5, <2>6, <2>8, <2>9, <2>10, <2>11 DEF CrawlInv
<1>6. CASE /\ run' = [run EXCEPT ![r] = [x EXCEPT !.look = {}]]
           /\ lost' = lost \cup (x.cur \X {u}) /\ UNCHANGED copies
  <2> DEFINE n == [x EXCEPT !.look = {}]
  <2>1. run' = [run EXCEPT ![r] = n]
    BY <1>6
  <2> HIDE DEF x
  <2>2. /\ n \in RunRow /\ n.pc = "entries" /\ n.cur = x.cur /\ n.left = x.left
        /\ n.look = {} /\ n.todo = x.todo
    BY <1>1 DEF RunRow
  <2> HIDE DEF n
  <2>3. Shape(n) /\ Answered(n)
    BY <1>1, <2>2 DEF Shape, Answered
  <2>4. /\ \A s : ~Requesting(n, s)
        /\ \A s : Opened(n, s) \subseteq Opened(x, s)
    BY <1>1, <2>2 DEF Requesting, Opened
  <2>5. x.cur \subseteq Feed
    BY <1>1, Fields
  <2>6. lost \subseteq lost' /\ lost' \subseteq Feed \X Url
    BY <1>3, <1>6, <2>5
  <2>7. \A f \in Feed, v \in Url :
           x.cur = {f} /\ v \in x.left \cup x.look =>
              (n.cur = {f} /\ v \in n.left \cup n.look) \/ copies[v] > 0 \/ <<f, v>> \in lost'
    BY <1>1, <1>6, <2>2
  <2> QED BY <1>2, <1>3, <1>4, <1>6, <2>1, <2>2, <2>3, <2>4, <2>6, <2>7, QuietTurn DEF x
<1> QED BY <1>5, <1>6 DEF InsertArticle, Step

\* A page is read again, the items of a social network are saved: nothing is opened.
LEMMA RowKeeps ==
    ASSUME CrawlInv, NEW r \in Run, NEW n \in RunRow, run' = [run EXCEPT ![r] = n],
           run[r].pc \in {"pick", "entries"}, n.pc = run[r].pc, n.cur = run[r].cur,
           n.todo = run[r].todo, n.look = run[r].look, run[r].left \subseteq n.left,
           n.pc = "pick" => n.left = {},
           UNCHANGED <<doc, validator, copies, quota, peak, feedRows, enabled, health, lost>>,
           trend' \in [SnsSource \X Url -> Nat], Disturb \/ UNCHANGED crawlUsed
    PROVE  CrawlInv'
<1> DEFINE x == run[r]
<1>1. x \in RunRow /\ Shape(x)
  BY Types DEF CrawlInv, RunsPart
<1>2. Shape(n) /\ Answered(n)
  BY <1>1 DEF Shape, Answered
<1>3. (\A s : ~Requesting(n, s)) /\ (\A s : Opened(n, s) \subseteq Opened(x, s))
  BY DEF Requesting, Opened
<1>4. /\ health' \in [Feed -> [seen : BOOLEAN, fails : Nat]] /\ lost' \subseteq Feed \X Url
      /\ crawlUsed' \in [starts : Nat, disturbances : Nat]
  BY Types, DisturbTypes DEF CrawlInv
<1> QED BY <1>2, <1>3, <1>4, QuietTurn

\* A page of fm_korea is read for a feed that brought nothing.
LEMMA ReadPageKeeps ==
    ASSUME CrawlInv, NEW r \in Run, ReadPage(r)
    PROVE  CrawlInv'
<1> DEFINE x == run[r]
<1>1. PICK f \in x.cur, L \in SUBSET Url : Step(r, "entries", [x EXCEPT !.page = TRUE, !.left = L])
  <2>1. PICK f \in x.cur, readable \in BOOLEAN :
           Step(r, "entries", [x EXCEPT !.page = TRUE,
                                        !.left = IF readable THEN doc[f].entries ELSE {}])
    BY DEF ReadPage
  <2>2. x \in RunRow
    BY Types DEF CrawlInv
  <2>3. f \in Feed
    BY <2>1, <2>2, Fields
  <2>4. (IF readable THEN doc[f].entries ELSE {}) \in SUBSET Url
    BY <2>3, Types DEF CrawlInv
  <2> QED BY <2>1, <2>4
<1> DEFINE n == [x EXCEPT !.page = TRUE, !.left = L]
<1>2. /\ x \in RunRow /\ x.pc = "entries" /\ x.left = {} /\ run' = [run EXCEPT ![r] = n]
  BY <1>1, Types DEF CrawlInv, ReadPage, Step, At
<1> HIDE DEF x
<1>3. /\ n \in RunRow /\ n.pc = x.pc /\ n.cur = x.cur /\ n.look = x.look /\ n.todo = x.todo
  BY <1>2 DEF RunRow
<1> HIDE DEF n
<1>4. trend' \in [SnsSource \X Url -> Nat]
  BY Types DEF CrawlInv, ReadPage
<1> QED BY <1>2, <1>3, <1>4, RowKeeps DEF ReadPage, x

\* A trend of a social network or of the data lab is saved.
LEMMA SaveKeeps ==
    ASSUME CrawlInv, NEW r \in Run, NEW u \in Url, NEW v \in Nat,
           SaveDatalab(r, u, v) \/ \E s \in SnsSource : SaveSnsTrend(r, s, u, v)
    PROVE  CrawlInv'
<1> DEFINE x == run[r]
<1>1. PICK I \in SUBSET x.items : Step(r, "pick", [x EXCEPT !.items = I])
  <2>1. CASE SaveDatalab(r, u, v)
    <3>1. \/ Step(r, "pick", [x EXCEPT !.items = x.items \ {<<"naver_datalab", u, v>>}])
          \/ Step(r, "pick", [x EXCEPT !.items = {i \in x.items : i[1] # "naver_datalab"}])
      BY <2>1 DEF SaveDatalab
    <3> QED BY <3>1
  <2>2. ASSUME NEW s \in SnsSource, SaveSnsTrend(r, s, u, v)
        PROVE  Step(r, "pick", [x EXCEPT !.items = x.items \ {<<s, u, v>>}])
    BY <2>2 DEF SaveSnsTrend
  <2> QED BY <2>1, <2>2
<1> DEFINE n == [x EXCEPT !.items = I]
<1>2. /\ x \in RunRow /\ x.pc = "pick" /\ x.left = {} /\ run' = [run EXCEPT ![r] = n]
  BY <1>1, Types DEF CrawlInv, RunsPart, Shape, Step, At
<1> HIDE DEF x
<1>3. /\ n \in RunRow /\ n.pc = x.pc /\ n.cur = x.cur /\ n.look = x.look /\ n.todo = x.todo
      /\ n.left = x.left
  BY <1>1, <1>2 DEF RunRow
<1> HIDE DEF n
<1>4. trend' \in [SnsSource \X Url -> Nat]
  <2>1. trend \in [SnsSource \X Url -> Nat]
    BY Types DEF CrawlInv
  <2>2. CASE SaveDatalab(r, u, v)
    BY <2>1, <2>2 DEF SaveDatalab
  <2>3. ASSUME NEW s \in SnsSource, SaveSnsTrend(r, s, u, v)
        PROVE  trend' \in [SnsSource \X Url -> Nat]
    BY <2>1, <2>3 DEF SaveSnsTrend
  <2> QED BY <2>2, <2>3
<1>5. /\ UNCHANGED <<doc, validator, copies, quota, peak, feedRows, enabled, health, lost>>
      /\ Disturb \/ UNCHANGED crawlUsed
  BY DEF SaveDatalab, SaveSnsTrend, Fault
<1> QED BY <1>2, <1>3, <1>4, <1>5, RowKeeps DEF x

\* The feed is left, with no entry in hand.
LEMMA EndFeedKeeps ==
    ASSUME CrawlInv, NEW r \in Run, NEW f \in Feed, EndFeed(r, f)
    PROVE  CrawlInv'
<1> DEFINE x == run[r]
<1>1. /\ x \in RunRow /\ Shape(x) /\ x.pc = "entries" /\ x.cur = {f} /\ x.left = {} /\ x.look = {}
  BY EntriesTypes DEF EndFeed, ReportFailure, Step, At
<1>2. UNCHANGED <<quota, peak, feedRows, enabled, doc, validator, copies, trend, lost>>
  BY DEF EndFeed
<1>5. CASE ReportFailure(r, "entries", f)
  BY <1>1, <1>2, <1>5, FailureKeeps
<1>3. CASE /\ SourceOf[f] \in NewsSource /\ run' = [run EXCEPT ![r] = NextFeed(r)]
           /\ Crawled(f, TRUE) /\ UNCHANGED crawlUsed
  BY <1>1, <1>2, <1>3, DoneKeeps
<1>4. CASE /\ SourceOf[f] \notin NewsSource /\ run' = [run EXCEPT ![r] = [x EXCEPT !.pc = "count"]]
           /\ Crawled(f, TRUE) /\ UNCHANGED crawlUsed
  <2> DEFINE n == [x EXCEPT !.pc = "count"]
  <2>1. run' = [run EXCEPT ![r] = n]
    BY <1>4
  <2> HIDE DEF x
  <2>2. /\ n \in RunRow /\ n.pc = "count" /\ n.cur = x.cur /\ n.look = x.look /\ n.todo = x.todo
    BY <1>1 DEF RunRow
  <2> HIDE DEF n
  <2>3. Shape(n) /\ Answered(n)
    BY <1>1, <2>2 DEF Shape, Answered
  <2>4. /\ \A s \in NewsSource : ~Requesting(n, s)
        /\ \A s : Opened(n, s) \subseteq Opened(x, s)
    BY <1>1, <1>4, <2>2 DEF Requesting, Opened
  <2>5. /\ health' \in [Feed -> [seen : BOOLEAN, fails : Nat]]
        /\ crawlUsed' \in [starts : Nat, disturbances : Nat]
        /\ trend' \in [SnsSource \X Url -> Nat] /\ lost' \subseteq Feed \X Url
    BY <1>2, <1>4, Types, HealthTypes DEF CrawlInv
  <2> QED BY <1>1, <1>2, <2>1, <2>2, <2>3, <2>4, <2>5, QuietTurn DEF x
<1> QED BY <1>3, <1>4, <1>5 DEF EndFeed, Step

\* The job ends with its list.
LEMMA EndJobKeeps ==
    ASSUME CrawlInv, NEW r \in Run, EndJob(r)
    PROVE  CrawlInv'
<1>1. /\ run[r].cur = {} /\ run[r].left = {} /\ run[r].look = {}
      /\ run' = [run EXCEPT ![r] = Idle]
      /\ UNCHANGED <<quota, peak, feedRows, enabled, health, doc, validator, copies, trend, lost,
                     crawlUsed>>
  BY DEF EndJob
<1>2. /\ \A s : ~Requesting(Idle, s)
      /\ \A s : Opened(Idle, s) = {}
  BY IdleRow DEF Requesting, Opened
<1>3. /\ health' \in [Feed -> [seen : BOOLEAN, fails : Nat]]
      /\ crawlUsed' \in [starts : Nat, disturbances : Nat]
      /\ trend' \in [SnsSource \X Url -> Nat] /\ lost' \subseteq Feed \X Url
  BY <1>1, Types DEF CrawlInv
<1> QED BY <1>1, <1>2, <1>3, IdleRow, QuietTurn

(***************************************************************************)
(* The validator is stored, and the request is counted.                    *)
(***************************************************************************)

\* The validator of an answer is stored, its entries still in hand.
LEMMA StoreKeeps ==
    ASSUME CrawlInv, NEW r \in Run, NEW f \in Feed, StoreValidator(r, f)
    PROVE  CrawlInv'
<1> DEFINE x == run[r]
           n == [x EXCEPT !.pc = "count"]
<1>1. /\ x \in RunRow /\ Shape(x) /\ Answered(x) /\ x.pc = "store" /\ x.cur = {f}
      /\ run' = [run EXCEPT ![r] = n]
  BY Types DEF CrawlInv, RunsPart, StoreValidator, Step, At
<1>2. UNCHANGED <<quota, peak, feedRows, enabled, health, doc, copies, trend, lost>>
  BY DEF StoreValidator
<1>3. validator' = [validator EXCEPT ![f] = x.got] \/ UNCHANGED validator
  BY DEF StoreValidator
<1>4. crawlUsed' \in [starts : Nat, disturbances : Nat]
  BY Types, DisturbTypes DEF CrawlInv, StoreValidator, Fault
<1> HIDE DEF x
<1>5. /\ n \in RunRow /\ n.pc = "count" /\ n.cur = x.cur /\ n.look = x.look /\ n.todo = x.todo
      /\ n.left = x.left
  BY <1>1 DEF RunRow
<1> HIDE DEF n
<1>6. /\ x.got \in Nat /\ x.got <= doc[f].edition /\ SourceOf[f] \in NewsSource
      /\ x.got = doc[f].edition => doc[f].entries \subseteq x.left
  BY <1>1, Fields DEF Answered
<1>7. Shape(n) /\ Answered(n)
  BY <1>1, <1>5 DEF Shape, Answered
<1>8. /\ \A s : Requesting(n, s) => Requesting(x, s)
      /\ \A s : Opened(n, s) \subseteq Opened(x, s)
  BY <1>1, <1>5 DEF Requesting, Opened
<1>9. RunsPart' /\ run' \in [Run -> RunRow]
  BY <1>1, <1>2, <1>5, <1>7, RunsKept
<1>10. QuotaPart'
  BY <1>1, <1>2, <1>5, <1>8, QuotaKept DEF x
<1>11. CopiesPart'
  BY <1>1, <1>2, <1>5, CopiesKept DEF x
<1>12. validator \in [Feed -> Nat] /\ doc \in [Feed -> [edition : Nat, entries : SUBSET Url]]
  BY Types DEF CrawlInv
<1>13. validator' \in [Feed -> Nat]
  BY <1>3, <1>6, <1>12
<1>14. VersionsPart'
  BY <1>2, <1>3, <1>6, <1>12 DEF CrawlInv, VersionsPart
<1>15. CoveragePart'
  <2>1. ASSUME NEW g \in Feed, SourceOf[g] \in NewsSource, validator'[g] = doc'[g].edition,
               NEW u \in doc'[g].entries
        PROVE  Covered(g, u)'
    <3>1. u \in Url /\ u \in doc[g].entries
      BY <1>2, <1>12, <2>1
    <3>2. CASE validator[g] = doc[g].edition
      <4>1. Covered(g, u)
        BY <2>1, <3>1, <3>2 DEF CrawlInv, CoveragePart
      <4>2. \A h \in Feed, v \in Url :
               SourceOf[h] \in NewsSource /\ run[r].cur = {h} /\ v \in run[r].left \cup run[r].look =>
                   n.cur = {h} /\ v \in n.left \cup n.look
        BY <1>5 DEF x
      <4>3. lost \subseteq lost' /\ \A v \in Url : copies[v] > 0 => copies'[v] > 0
        BY <1>2
      <4> QED BY <1>1, <1>5, <2>1, <3>1, <4>1, <4>2, <4>3, CoveredKept
    <3>3. CASE validator[g] # doc[g].edition
      <4>1. g = f /\ x.got = doc[f].edition
        BY <1>2, <1>3, <1>12, <2>1, <3>3
      <4>2. run'[r] = n
        BY <1>1, Types DEF CrawlInv
      <4>3. n.cur = {g} /\ u \in n.left
        BY <1>1, <1>5, <1>6, <3>1, <4>1
      <4> QED BY <4>2, <4>3 DEF Covered
    <3> QED BY <3>2, <3>3
  <2> QED BY <2>1 DEF CoveragePart
<1>16. CrawlTypeOK'
  BY <1>2, <1>4, <1>9, <1>13 DEF CrawlInv, CrawlTypeOK, RunRow
<1> QED BY <1>9, <1>10, <1>11, <1>14, <1>15, <1>16 DEF CrawlInv

\* The increment takes the place of what the run had in flight.
LEMMA QuotaCounted ==
    ASSUME CrawlInv, NEW r \in Run, NEW n \in RunRow, run' = [run EXCEPT ![r] = n],
           NEW f \in Feed, run[r].pc = "count", run[r].cur = {f},
           n.todo = run[r].todo, n.pc \notin {"get", "store", "count"},
           SourceOf[f] \in NewsSource \/ n.cur = {} \/ n.pc = "items", n.cur \subseteq run[r].cur,
           Increment(SourceOf[f]), UNCHANGED peak
    PROVE  QuotaPart' /\ quota' \in [Source -> [on : BOOLEAN, limit : Nat, used : Nat]]
<1> DEFINE x == run[r]
           t == SourceOf[f]
<1>1. /\ run \in [Run -> RunRow] /\ quota \in [Source -> [on : BOOLEAN, limit : Nat, used : Nat]]
      /\ peak \in [Source -> Nat] /\ t \in Source
  BY Types, CrawlAssumption DEF CrawlInv
<1>2. f \notin x.todo
  BY DEF CrawlInv, RunsPart, Shape
<1>3. quota' = [quota EXCEPT ![t].used = @ + 1] \/ quota' = quota
  BY DEF Increment
<1>4. /\ quota' \in [Source -> [on : BOOLEAN, limit : Nat, used : Nat]]
      /\ \A s \in Source : /\ quota'[s].limit = quota[s].limit
                           /\ s # t => quota'[s].used = quota[s].used
                           /\ quota'[s].used <= quota[s].used + 1
  BY <1>1, <1>3
<1>5. ASSUME NEW s \in Source, peak[s] # 0
      PROVE  (/\ quota[s].limit # 0 /\ quota[s].limit <= peak[s]
              /\ quota[s].used + Cardinality(InFlight(s)) < peak[s] + Cardinality(Run) * PerCheck(s))'
  <2>1. /\ quota[s].limit # 0 /\ quota[s].limit <= peak[s]
        /\ quota[s].used + Cardinality(InFlight(s)) < peak[s] + Cardinality(Run) * PerCheck(s)
    BY <1>5 DEF CrawlInv, QuotaPart
  <2>2. /\ quota[s].used \in Nat /\ quota'[s].used \in Nat /\ peak[s] \in Nat
        /\ Cardinality(Run) * PerCheck(s) \in Nat
        /\ Cardinality(InFlight(s)) \in Nat /\ Cardinality(InFlight(s)') \in Nat
    BY <1>1, <1>4, CapNat, InFlightBounded
  <2>3. /\ ~Requesting(n, s)
        /\ s \notin NewsSource => Opened(n, s) \subseteq Opened(x, s)
    BY DEF Requesting, Opened
  <2>4. Cardinality(InFlight(s)') <= Cardinality(InFlight(s))
    BY <2>3, FlightShrinks
  <2>5. CASE s = t
    <3> DEFINE W == InFlight(s)
               e == IF s \in NewsSource THEN r ELSE <<r, f>>
    <3>1. e \in W /\ W' \in SUBSET (W \ {e})
      <4>1. CASE s \in NewsSource
        <5>1. W = {q \in Run : Requesting(run[q], s)} /\ W' = {q \in Run : Requesting(run'[q], s)}
          BY <4>1 DEF InFlight, Requesting
        <5>2. Requesting(run[r], s)
          BY <2>5 DEF Requesting
        <5>3. run'[r] = n /\ \A q \in Run \ {r} : run'[q] = run[q]
          BY <1>1
        <5> QED BY <2>3, <4>1, <5>1, <5>2, <5>3
      <4>2. CASE s \notin NewsSource
        <5>1. /\ W = {p \in Run \X Feed : p[2] \in Opened(run[p[1]], s)}
              /\ W' = {p \in Run \X Feed : p[2] \in Opened(run'[p[1]], s)}
          BY <4>2 DEF InFlight, Opened
        <5>2. f \in Opened(run[r], s)
          BY <2>5 DEF Opened
        <5>3. run'[r] = n /\ \A q \in Run \ {r} : run'[q] = run[q]
          BY <1>1
        <5>4. f \notin Opened(n, s) /\ Opened(n, s) \subseteq Opened(run[r], s)
          BY <1>2, <2>3, <2>5, <4>2 DEF Opened
        <5> QED BY <4>2, <5>1, <5>2, <5>3, <5>4
      <4> QED BY <4>1, <4>2
    <3>2. IsFiniteSet(W)
      BY InFlightBounded
    <3>3. Cardinality(W') <= Cardinality(W) - 1
      <4> HIDE DEF W, e
      <4>1. /\ IsFiniteSet(W \ {e}) /\ Cardinality(W \ {e}) = Cardinality(W) - 1
        BY <3>1, <3>2, FS_RemoveElement
      <4>2. Cardinality(W') <= Cardinality(W \ {e})
        BY <3>1, <4>1, FS_Subset
      <4> QED BY <4>1, <4>2
    <3>4. quota'[s].used <= quota[s].used + 1 /\ quota'[s].limit = quota[s].limit
      BY <1>4
    <3>5. PerCheck(s)' = PerCheck(s)
      BY DEF PerCheck, FeedsOf
    <3> HIDE DEF PerCheck
    <3> QED BY <2>1, <2>2, <3>3, <3>4, <3>5
  <2>6. CASE s # t
    <3>1. PerCheck(s)' = PerCheck(s)
      BY DEF PerCheck, FeedsOf
    <3>2. quota'[s].used = quota[s].used /\ quota'[s].limit = quota[s].limit
      BY <1>4, <2>6
    <3> HIDE DEF PerCheck
    <3> QED BY <2>1, <2>2, <2>4, <3>1, <3>2
  <2> QED BY <2>5, <2>6
<1> QED BY <1>4, <1>5 DEF QuotaPart

\* The requests made are counted.
LEMMA CountKeeps ==
    ASSUME CrawlInv, NEW r \in Run, NEW f \in Feed, Count(r, f)
    PROVE  CrawlInv'
<1> DEFINE x == run[r]
<1>1. /\ x \in RunRow /\ Shape(x) /\ x.pc = "count" /\ x.cur = {f} /\ x.look = {}
  BY Types DEF CrawlInv, RunsPart, Count, Step, At, Shape
<1>2. UNCHANGED <<peak, feedRows, enabled, health, doc, validator, copies, trend, lost>>
  BY DEF Count
<1>3. PICK n : /\ run' = [run EXCEPT ![r] = n]
               /\ SourceOf[f] \in NewsSource => n = [x EXCEPT !.pc = "parse"]
               /\ SourceOf[f] \in CommunitySource => n = NextFeed(r)
               /\ SourceOf[f] \in SnsSource => n = [x EXCEPT !.pc = "items"]
  <2>1. SourceOf[f] \in CommunitySource => SourceOf[f] \notin NewsSource
    BY Sources DEF NewsSource
  <2>2. SourceOf[f] \in SnsSource => SourceOf[f] \notin NewsSource \cup CommunitySource
    BY Sources DEF NewsSource
  <2> QED BY <2>1, <2>2 DEF Count, Step
<1>4. /\ n \in RunRow /\ n.todo = x.todo /\ n.look = {} /\ Shape(n) /\ Answered(n)
      /\ n.pc \in {"pick", "parse", "items"} /\ n.cur \subseteq x.cur
      /\ SourceOf[f] \in NewsSource => n.cur = x.cur /\ n.left = x.left
      /\ SourceOf[f] \notin NewsSource => n.cur = {} \/ n.pc = "items"
  <2>1. ASSUME NEW p \in {"parse", "items"}, n = [x EXCEPT !.pc = p]
        PROVE  /\ n \in RunRow /\ n.todo = x.todo /\ n.look = {} /\ Shape(n) /\ Answered(n)
               /\ n.pc = p /\ n.cur = x.cur /\ n.left = x.left
    <3> HIDE DEF x
    <3>1. /\ n \in RunRow /\ n.pc = p /\ n.cur = x.cur /\ n.left = x.left /\ n.look = x.look
          /\ n.todo = x.todo
      BY <1>1, <2>1 DEF RunRow
    <3> QED BY <1>1, <3>1 DEF Shape, Answered
  <2>2. CASE SourceOf[f] \in NewsSource
    BY <1>3, <2>1, <2>2
  <2>3. CASE SourceOf[f] \in CommunitySource
    <3>1. SourceOf[f] \notin NewsSource
      BY <2>3, Sources DEF NewsSource
    <3> QED BY <1>1, <1>3, <2>3, <3>1, DoneRow
  <2>4. CASE SourceOf[f] \in SnsSource
    <3>1. SourceOf[f] \notin NewsSource
      BY <2>4, Sources DEF NewsSource
    <3> QED BY <1>3, <2>1, <2>4, <3>1
  <2>5. SourceOf[f] \in NewsSource \cup CommunitySource \cup SnsSource
    BY CrawlAssumption DEF Source
  <2> QED BY <2>2, <2>3, <2>4, <2>5
<1>5. RunsPart' /\ run' \in [Run -> RunRow]
  BY <1>2, <1>3, <1>4, RunsKept
<1>6. CopiesPart'
  BY <1>2, <1>3, <1>4, CopiesKept
<1>7. CoveragePart'
  <2>1. \A g \in Feed, u \in Url :
           SourceOf[g] \in NewsSource /\ run[r].cur = {g} /\ u \in run[r].left \cup run[r].look =>
               n.cur = {g} /\ u \in n.left \cup n.look
    BY <1>1, <1>4 DEF x
  <2> QED BY <1>2, <1>3, <1>4, <2>1, CoverageKept
<1>8. QuotaPart' /\ quota' \in [Source -> [on : BOOLEAN, limit : Nat, used : Nat]]
  <2>1. Increment(SourceOf[f])
    BY DEF Count
  <2> QED BY <1>1, <1>2, <1>3, <1>4, <2>1, QuotaCounted
<1>9. VersionsPart'
  BY <1>2 DEF CrawlInv, VersionsPart
<1>10. health' \in [Feed -> [seen : BOOLEAN, fails : Nat]]
  BY <1>2, Types DEF CrawlInv
<1>11. crawlUsed' \in [starts : Nat, disturbances : Nat]
  BY Types, DisturbTypes DEF CrawlInv, Count, Increment, Fault
<1>12. CrawlTypeOK'
  BY <1>2, <1>5, <1>8, <1>10, <1>11 DEF CrawlInv, CrawlTypeOK, RunRow
<1> QED BY <1>5, <1>6, <1>7, <1>8, <1>9, <1>12 DEF CrawlInv

(***************************************************************************)
(* The rest: no run moves, or all of them stop.                            *)
(***************************************************************************)

\* The process dies: what its runs had in hand is lost.
LEMMA CrashKeeps ==
    ASSUME CrawlInv, CrashCrawler
    PROVE  CrawlInv'
<1>1. /\ run' = [r \in Run |-> Idle]
      /\ lost' = lost \cup UNION {run[r].cur \X (run[r].left \cup run[r].look) : r \in Run}
      /\ Disturb
      /\ UNCHANGED <<quota, peak, feedRows, enabled, health, doc, validator, copies, trend>>
  BY DEF CrashCrawler, Fault
<1>2. run \in [Run -> RunRow] /\ run' \in [Run -> RunRow] /\ \A r \in Run : run'[r] = Idle
  BY <1>1, IdleRow, Types DEF CrawlInv
<1>3. RunsPart'
  <2>1. ASSUME NEW r \in Run PROVE (Shape(run[r]) /\ Answered(run[r]))'
    BY <1>2, <2>1, IdleRow DEF Shape, Answered
  <2> QED BY <2>1 DEF RunsPart
<1>4. VersionsPart'
  BY <1>1 DEF CrawlInv, VersionsPart
<1>5. CopiesPart'
  <2>1. ASSUME NEW u \in Url
        PROVE  (copies[u] + Cardinality(Lookers(u)) <= Cardinality(Run))'
    <3>1. Lookers(u)' = {}
      BY <1>2, IdleRow DEF Lookers
    <3>2. copies[u] + Cardinality(Lookers(u)) <= Cardinality(Run) /\ copies[u] \in Nat
      BY Types DEF CrawlInv, CopiesPart
    <3>3. Cardinality(Lookers(u)) \in Nat /\ Cardinality(Run) \in Nat
      BY LookersFinite, CrawlAssumption, FS_CardinalityType
    <3>4. Cardinality(Lookers(u)') = 0
      BY <3>1, FS_EmptySet
    <3> QED BY <1>1, <3>2, <3>3, <3>4
  <2> QED BY <2>1 DEF CopiesPart
<1>6. QuotaPart'
  <2>1. ASSUME NEW s \in Source, peak[s] # 0
        PROVE  (/\ quota[s].limit # 0 /\ quota[s].limit <= peak[s]
                /\ quota[s].used + Cardinality(InFlight(s)) < peak[s] + Cardinality(Run) * PerCheck(s))'
    <3>1. InFlight(s)' = {}
      <4>1. CASE s \in NewsSource
        BY <1>2, <4>1, IdleRow DEF InFlight, Requesting
      <4>2. CASE s \notin NewsSource
        BY <1>2, <4>2, IdleRow DEF InFlight, Opened
      <4> QED BY <4>1, <4>2
    <3>2. Cardinality(InFlight(s)') = 0
      BY <3>1, FS_EmptySet
    <3>3. /\ quota[s].limit # 0 /\ quota[s].limit <= peak[s]
          /\ quota[s].used + Cardinality(InFlight(s)) < peak[s] + Cardinality(Run) * PerCheck(s)
      BY <2>1 DEF CrawlInv, QuotaPart
    <3>4. /\ quota[s].used \in Nat /\ peak[s] \in Nat /\ Cardinality(InFlight(s)) \in Nat
          /\ Cardinality(Run) * PerCheck(s) \in Nat
      BY Types, InFlightBounded, CapNat DEF CrawlInv
    <3>5. PerCheck(s)' = PerCheck(s)
      BY DEF PerCheck, FeedsOf
    <3> HIDE DEF PerCheck
    <3> QED BY <1>1, <3>2, <3>3, <3>4, <3>5
  <2> QED BY <1>1, <2>1 DEF QuotaPart
<1>7. CoveragePart'
  <2>1. ASSUME NEW f \in Feed, SourceOf[f] \in NewsSource, validator[f] = doc[f].edition,
               NEW u \in doc[f].entries
        PROVE  Covered(f, u)'
    <3>1. Covered(f, u)
      BY <2>1 DEF CrawlInv, CoveragePart
    <3>2. ASSUME NEW r \in Run, run[r].cur = {f}, u \in run[r].left \cup run[r].look
          PROVE  <<f, u>> \in lost'
      BY <1>1, <3>2
    <3> QED BY <1>1, <3>1, <3>2 DEF Covered
  <2> QED BY <1>1, <2>1 DEF CoveragePart
<1>8. lost' \subseteq Feed \X Url
  <2>1. ASSUME NEW r \in Run
        PROVE  run[r].cur \X (run[r].left \cup run[r].look) \subseteq Feed \X Url
    <3>1. run[r].cur \subseteq Feed /\ run[r].left \subseteq Url /\ run[r].look \subseteq Url
      BY <1>2, Fields
    <3> QED BY <3>1
  <2>2. lost \subseteq Feed \X Url
    BY Types DEF CrawlInv
  <2> QED BY <1>1, <2>1, <2>2
<1>9. crawlUsed' \in [starts : Nat, disturbances : Nat]
  BY <1>1, Types, DisturbTypes DEF CrawlInv
<1>10. CrawlTypeOK'
  BY <1>1, <1>2, <1>8, <1>9 DEF CrawlInv, CrawlTypeOK, RunRow
<1> QED BY <1>3, <1>4, <1>5, <1>6, <1>7, <1>10 DEF CrawlInv

\* The parts that are about the runs and the copies alone.
LEMMA NoRunMoves ==
    ASSUME CrawlInv, UNCHANGED <<run, copies>>
    PROVE  /\ UNCHANGED doc => RunsPart'
           /\ CopiesPart'
           /\ UNCHANGED <<quota, peak>> => QuotaPart'
           /\ UNCHANGED <<doc, validator, lost>> => VersionsPart' /\ CoveragePart'
<1>1. UNCHANGED doc => RunsPart'
  BY DEF CrawlInv, RunsPart, Shape, Answered
<1>2. CopiesPart'
  BY DEF CrawlInv, CopiesPart, Lookers
<1>3. UNCHANGED <<quota, peak>> => QuotaPart'
  BY DEF CrawlInv, QuotaPart, InFlight, Requesting, Opened, PerCheck, FeedsOf
<1>4. UNCHANGED <<doc, validator, lost>> => VersionsPart' /\ CoveragePart'
  BY DEF CrawlInv, VersionsPart, CoveragePart, Covered
<1> QED BY <1>1, <1>2, <1>3, <1>4

\* A feed changes: its validator no longer answers 304.
LEMMA PublishKeeps ==
    ASSUME CrawlInv, NEW f \in Feed, Publish(f)
    PROVE  CrawlInv'
<1>1. PICK E \in SUBSET Url : doc' = [doc EXCEPT ![f] = [edition |-> @.edition + 1, entries |-> E]]
  BY DEF Publish
<1>2. /\ lost' = {l \in lost : l[1] # f} /\ Disturb
      /\ UNCHANGED <<quota, peak, feedRows, enabled, health, validator, copies, trend, run>>
  BY DEF Publish
<1>3. /\ doc \in [Feed -> [edition : Nat, entries : SUBSET Url]]
      /\ run \in [Run -> RunRow] /\ validator \in [Feed -> Nat] /\ lost \subseteq Feed \X Url
  BY Types DEF CrawlInv
<1>4. /\ doc' \in [Feed -> [edition : Nat, entries : SUBSET Url]]
      /\ doc'[f].edition = doc[f].edition + 1
      /\ \A g \in Feed \ {f} : doc'[g] = doc[g]
  BY <1>1, <1>3
<1>5. CopiesPart' /\ QuotaPart'
  BY <1>2, NoRunMoves
<1>6. RunsPart'
  <2>1. ASSUME NEW r \in Run PROVE (Shape(run[r]) /\ Answered(run[r]))'
    <3>1. Shape(run[r]) /\ Answered(run[r]) /\ run[r].got \in Nat
      BY <1>3, Fields DEF CrawlInv, RunsPart
    <3>2. Shape(run[r])'
      BY <1>2, <3>1 DEF Shape
    <3>3. ASSUME run[r].pc = "store"
          PROVE  \E g \in Feed :
                    /\ run[r].cur = {g} /\ SourceOf[g] \in NewsSource /\ run[r].got <= doc'[g].edition
                    /\ run[r].got = doc'[g].edition => doc'[g].entries \subseteq run[r].left
      <4>1. PICK g \in Feed :
               /\ run[r].cur = {g} /\ SourceOf[g] \in NewsSource /\ run[r].got <= doc[g].edition
               /\ run[r].got = doc[g].edition => doc[g].entries \subseteq run[r].left
        BY <3>1, <3>3 DEF Answered
      <4>2. doc[g].edition \in Nat
        BY <1>3
      <4> QED BY <1>4, <3>1, <4>1, <4>2
    <3> QED BY <1>2, <3>2, <3>3 DEF Answered
  <2> QED BY <2>1 DEF RunsPart
<1>7. VersionsPart'
  <2>1. ASSUME NEW g \in Feed PROVE (1 <= doc[g].edition /\ validator[g] <= doc[g].edition)'
    <3>1. 1 <= doc[g].edition /\ validator[g] <= doc[g].edition
      BY DEF CrawlInv, VersionsPart
    <3>2. doc[g].edition \in Nat /\ validator[g] \in Nat
      BY <1>3
    <3>3. doc'[g].edition = doc[g].edition + 1 \/ doc'[g].edition = doc[g].edition
      BY <1>4
    <3> QED BY <1>2, <3>1, <3>2, <3>3
  <2> QED BY <2>1 DEF VersionsPart
<1>8. CoveragePart'
  <2>1. ASSUME NEW g \in Feed, SourceOf[g] \in NewsSource, validator'[g] = doc'[g].edition,
               NEW u \in doc'[g].entries
        PROVE  Covered(g, u)'
    <3>1. g # f
      <4>1. validator[f] <= doc[f].edition /\ doc[f].edition \in Nat /\ validator[f] \in Nat
        BY <1>3 DEF CrawlInv, VersionsPart
      <4> QED BY <1>2, <1>4, <2>1, <4>1
    <3>2. Covered(g, u)
      BY <1>2, <1>4, <2>1, <3>1 DEF CrawlInv, CoveragePart
    <3> QED BY <1>2, <3>1, <3>2 DEF Covered
  <2> QED BY <2>1 DEF CoveragePart
<1>9. CrawlTypeOK'
  <2>1. crawlUsed' \in [starts : Nat, disturbances : Nat] /\ lost' \subseteq Feed \X Url
    BY <1>2, <1>3, Types, DisturbTypes DEF CrawlInv
  <2> QED BY <1>2, <1>4, <2>1 DEF CrawlInv, CrawlTypeOK, RunRow
<1> QED BY <1>5, <1>6, <1>7, <1>8, <1>9 DEF CrawlInv

\* A validator expires.
LEMMA ExpireKeeps ==
    ASSUME CrawlInv, NEW f \in Feed, ExpireValidator(f)
    PROVE  CrawlInv'
<1>1. /\ validator' = [validator EXCEPT ![f] = 0]
      /\ UNCHANGED <<quota, peak, feedRows, enabled, health, doc, copies, trend, run, lost, crawlUsed>>
  BY DEF ExpireValidator
<1>2. validator \in [Feed -> Nat] /\ doc \in [Feed -> [edition : Nat, entries : SUBSET Url]]
  BY Types DEF CrawlInv
<1>3. RunsPart' /\ CopiesPart' /\ QuotaPart'
  BY <1>1, NoRunMoves
<1>4. \A g \in Feed : /\ 1 <= doc[g].edition /\ doc[g].edition \in Nat
                      /\ validator[g] <= doc[g].edition
                      /\ validator'[g] = IF g = f THEN 0 ELSE validator[g]
  BY <1>1, <1>2 DEF CrawlInv, VersionsPart
<1>5. VersionsPart'
  BY <1>1, <1>4 DEF VersionsPart
<1>6. CoveragePart'
  <2>1. ASSUME NEW g \in Feed, SourceOf[g] \in NewsSource, validator'[g] = doc'[g].edition,
               NEW u \in doc'[g].entries
        PROVE  Covered(g, u)'
    <3>1. validator[g] = doc[g].edition /\ u \in doc[g].entries
      BY <1>1, <1>4, <2>1
    <3>2. Covered(g, u)
      BY <2>1, <3>1 DEF CrawlInv, CoveragePart
    <3> QED BY <1>1, <3>2 DEF Covered
  <2> QED BY <2>1 DEF CoveragePart
<1>7. CrawlTypeOK'
  BY <1>1, <1>2 DEF CrawlInv, CrawlTypeOK
<1> QED BY <1>3, <1>5, <1>6, <1>7 DEF CrawlInv

\* Midnight and the administrator set the counter back: whatever is in flight then is
\* within what one check per run can let pass.
LEMMA ResetKeeps ==
    ASSUME CrawlInv, NEW S, ResetQuotas(S), Disturb \/ UNCHANGED crawlUsed
    PROVE  CrawlInv'
<1>1. /\ quota' = [s \in Source |-> IF s \in S THEN [quota[s] EXCEPT !.used = 0] ELSE quota[s]]
      /\ peak' = [s \in Source |-> IF s \in S THEN quota[s].limit ELSE peak[s]]
      /\ UNCHANGED <<feedRows, enabled, health, doc, validator, copies, trend, run, lost>>
  BY DEF ResetQuotas
<1>2. /\ quota \in [Source -> [on : BOOLEAN, limit : Nat, used : Nat]] /\ peak \in [Source -> Nat]
      /\ crawlUsed' \in [starts : Nat, disturbances : Nat]
  BY Types, DisturbTypes DEF CrawlInv
<1>3. RunsPart' /\ CopiesPart' /\ VersionsPart' /\ CoveragePart'
  BY <1>1, NoRunMoves
<1>4. /\ quota' \in [Source -> [on : BOOLEAN, limit : Nat, used : Nat]] /\ peak' \in [Source -> Nat]
      /\ \A s \in Source : quota'[s].limit = quota[s].limit
      /\ \A s \in Source \cap S : quota'[s].used = 0 /\ peak'[s] = quota[s].limit
      /\ \A s \in Source \ S : quota'[s] = quota[s] /\ peak'[s] = peak[s]
  BY <1>1, <1>2
<1>5. QuotaPart'
  <2>1. ASSUME NEW s \in Source, peak'[s] # 0
        PROVE  (/\ quota[s].limit # 0 /\ quota[s].limit <= peak[s]
                /\ quota[s].used + Cardinality(InFlight(s)) < peak[s] + Cardinality(Run) * PerCheck(s))'
    <3>1. InFlight(s)' = InFlight(s)
      BY <1>1 DEF InFlight, Requesting, Opened
    <3>2. /\ Cardinality(InFlight(s)') \in Nat
          /\ Cardinality(InFlight(s)') <= Cardinality(Run) * PerCheck(s)
          /\ Cardinality(Run) * PerCheck(s) \in Nat
      BY InFlightBounded, CapNat
    <3>3. PerCheck(s)' = PerCheck(s)
      BY DEF PerCheck, FeedsOf
    <3>4. quota[s].limit \in Nat
      BY <1>2
    <3>5. CASE s \in S
      <4> HIDE DEF PerCheck
      <4> QED BY <1>4, <2>1, <3>2, <3>3, <3>4, <3>5
    <3>6. CASE s \notin S
      <4>1. /\ quota[s].limit # 0 /\ quota[s].limit <= peak[s]
            /\ quota[s].used + Cardinality(InFlight(s)) < peak[s] + Cardinality(Run) * PerCheck(s)
        BY <1>4, <2>1, <3>6 DEF CrawlInv, QuotaPart
      <4>2. quota'[s] = quota[s] /\ peak'[s] = peak[s]
        BY <1>4, <3>6
      <4> QED BY <3>1, <3>3, <4>1, <4>2
    <3> QED BY <3>5, <3>6
  <2> QED BY <2>1 DEF QuotaPart
<1>6. CrawlTypeOK'
  BY <1>1, <1>2, <1>4 DEF CrawlInv, CrawlTypeOK
<1> QED BY <1>3, <1>5, <1>6 DEF CrawlInv

\* An administrator changes a limit, which counts as the highest if it is.
LEMMA UpdateSourceKeeps ==
    ASSUME CrawlInv, NEW s \in Source, NEW on \in BOOLEAN, NEW limit \in Limit,
           UpdateSource(s, on, limit)
    PROVE  CrawlInv'
<1>1. /\ quota' = [quota EXCEPT ![s].on = on, ![s].limit = limit]
      /\ peak' = [peak EXCEPT ![s] = IF @ = 0 \/ limit = 0 THEN 0 ELSE IF limit > @ THEN limit ELSE @]
      /\ UNCHANGED <<feedRows, enabled, health, doc, validator, copies, trend, run, lost>> /\ Disturb
  BY DEF UpdateSource, SetSource
<1>2. /\ quota \in [Source -> [on : BOOLEAN, limit : Nat, used : Nat]] /\ peak \in [Source -> Nat]
      /\ crawlUsed' \in [starts : Nat, disturbances : Nat] /\ limit \in Nat
  BY <1>1, Types, DisturbTypes, CrawlAssumption DEF CrawlInv
<1>3. RunsPart' /\ CopiesPart' /\ VersionsPart' /\ CoveragePart'
  BY <1>1, NoRunMoves
<1>4. /\ quota' \in [Source -> [on : BOOLEAN, limit : Nat, used : Nat]]
      /\ quota'[s].limit = limit /\ quota'[s].used = quota[s].used
      /\ \A t \in Source \ {s} : quota'[t] = quota[t]
  BY <1>1, <1>2
<1>5. /\ peak' \in [Source -> Nat]
      /\ peak'[s] # 0 => peak[s] # 0 /\ limit # 0 /\ limit <= peak'[s] /\ peak[s] <= peak'[s]
      /\ \A t \in Source \ {s} : peak'[t] = peak[t]
  BY <1>1, <1>2
<1>6. QuotaPart'
  <2>1. ASSUME NEW t \in Source, peak'[t] # 0
        PROVE  (/\ quota[t].limit # 0 /\ quota[t].limit <= peak[t]
                /\ quota[t].used + Cardinality(InFlight(t)) < peak[t] + Cardinality(Run) * PerCheck(t))'
    <3>1. InFlight(t)' = InFlight(t) /\ PerCheck(t)' = PerCheck(t)
      BY <1>1 DEF InFlight, Requesting, Opened, PerCheck, FeedsOf
    <3>2. peak[t] # 0
      BY <1>5, <2>1
    <3>3. /\ quota[t].limit # 0 /\ quota[t].limit <= peak[t]
          /\ quota[t].used + Cardinality(InFlight(t)) < peak[t] + Cardinality(Run) * PerCheck(t)
      BY <3>2 DEF CrawlInv, QuotaPart
    <3>4. /\ Cardinality(InFlight(t)) \in Nat /\ Cardinality(Run) * PerCheck(t) \in Nat
          /\ quota[t].used \in Nat /\ peak[t] \in Nat /\ peak'[t] \in Nat
      BY <1>2, <1>5, InFlightBounded, CapNat
    <3> HIDE DEF PerCheck
    <3>5. CASE t = s
      BY <1>4, <1>5, <2>1, <3>1, <3>3, <3>4, <3>5
    <3>6. CASE t # s
      BY <1>4, <1>5, <3>1, <3>3, <3>6
    <3> QED BY <3>5, <3>6
  <2> QED BY <2>1 DEF QuotaPart
<1>7. CrawlTypeOK'
  BY <1>1, <1>2, <1>4, <1>5 DEF CrawlInv, CrawlTypeOK
<1> QED BY <1>3, <1>6, <1>7 DEF CrawlInv

\* An administrator edits the feeds, which no run reads again.
LEMMA AdminKeeps ==
    ASSUME CrawlInv, NEW f \in Feed, NEW on \in BOOLEAN, NEW F \in SUBSET Feed,
           CreateFeed(f, on) \/ UpdateFeed(f, on) \/ DeleteFeed(f) \/ ToggleFeeds(F, on)
    PROVE  CrawlInv'
<1>1. UNCHANGED <<quota, peak, doc, validator, copies, trend, run, lost>> /\ Disturb
  BY DEF CreateFeed, UpdateFeed, DeleteFeed, ToggleFeeds
<1>2. /\ enabled \subseteq feedRows /\ feedRows \subseteq Feed
      /\ health \in [Feed -> [seen : BOOLEAN, fails : Nat]]
      /\ crawlUsed' \in [starts : Nat, disturbances : Nat]
  BY <1>1, Types, DisturbTypes DEF CrawlInv
<1>3. RunsPart' /\ CopiesPart' /\ QuotaPart' /\ VersionsPart' /\ CoveragePart'
  BY <1>1, NoRunMoves
<1>4. enabled' \subseteq feedRows' /\ feedRows' \subseteq Feed
  BY <1>2 DEF CreateFeed, UpdateFeed, DeleteFeed, ToggleFeeds, InsertFeed, SetActiveFeed,
              RemoveFeed, SetActiveFeeds
<1>5. health' \in [Feed -> [seen : BOOLEAN, fails : Nat]]
  <2>1. UNCHANGED health \/ health' = [health EXCEPT ![f] = [seen |-> FALSE, fails |-> 0]]
    BY DEF CreateFeed, UpdateFeed, DeleteFeed, ToggleFeeds
  <2>2. [seen |-> FALSE, fails |-> 0] \in [seen : BOOLEAN, fails : Nat]
    OBVIOUS
  <2> QED BY <1>2, <2>1, <2>2
<1>6. CrawlTypeOK'
  BY <1>1, <1>2, <1>4, <1>5 DEF CrawlInv, CrawlTypeOK
<1> QED BY <1>3, <1>6 DEF CrawlInv

(***************************************************************************)
(* The theorems.                                                           *)
(***************************************************************************)

\* The initial states satisfy the invariant.
LEMMA CrawlInit == InitCrawl => CrawlInv
<1> SUFFICES ASSUME InitCrawl PROVE CrawlInv
  OBVIOUS
<1> USE DEF InitCrawl
<1>1. Limit \ {0} \subseteq Nat \ {0}
  BY CrawlAssumption
<1>2. \A s \in Source : /\ quota[s] \in [on : BOOLEAN, limit : Nat, used : Nat]
                        /\ quota[s].limit \in Nat \ {0} /\ quota[s].used = 0
                        /\ peak[s] = quota[s].limit
  <2>1. ASSUME NEW s \in Source
        PROVE  /\ quota[s] \in [on : BOOLEAN, limit : Nat, used : Nat]
               /\ quota[s].limit \in Nat \ {0} /\ quota[s].used = 0
               /\ peak[s] = quota[s].limit
    <3>1. PICK l \in Limit \ {0} : quota[s] = [on |-> TRUE, limit |-> l, used |-> 0]
      OBVIOUS
    <3> QED BY <1>1, <3>1
  <2> QED BY <2>1
<1>3. run \in [Run -> RunRow] /\ \A r \in Run : run[r] = Idle
  BY IdleRow
<1>4. CrawlTypeOK
  <2>1. quota \in [Source -> [on : BOOLEAN, limit : Nat, used : Nat]] /\ peak \in [Source -> Nat]
    BY <1>2
  <2>2. health \in [Feed -> [seen : BOOLEAN, fails : Nat]]
    <3>1. [seen |-> FALSE, fails |-> 0] \in [seen : BOOLEAN, fails : Nat]
      OBVIOUS
    <3> QED BY <3>1
  <2>3. /\ doc \in [Feed -> [edition : Nat, entries : SUBSET Url]]
        /\ crawlUsed \in [starts : Nat, disturbances : Nat] /\ copies \in [Url -> Nat]
        /\ trend \in [SnsSource \X Url -> Nat] /\ validator \in [Feed -> Nat]
    OBVIOUS
  <2> QED BY <1>3, <2>1, <2>2, <2>3, Types
<1>5. RunsPart
  BY <1>3, IdleRow DEF RunsPart
<1>6. VersionsPart
  BY DEF VersionsPart
<1>7. CoveragePart
  BY DEF CoveragePart
<1>8. CopiesPart
  <2>1. ASSUME NEW u \in Url PROVE copies[u] + Cardinality(Lookers(u)) <= Cardinality(Run)
    <3>1. copies[u] = 0
      OBVIOUS
    <3> QED BY <3>1, LookersFinite
  <2> QED BY <2>1 DEF CopiesPart
<1>9. QuotaPart
  <2>1. ASSUME NEW s \in Source
        PROVE  quota[s].used + Cardinality(InFlight(s)) < peak[s] + Cardinality(Run) * PerCheck(s)
    <3>1. InFlight(s) = {}
      <4>1. CASE s \in NewsSource
        BY <1>3, <4>1, IdleRow DEF InFlight, Requesting
      <4>2. CASE s \notin NewsSource
        BY <1>3, <4>2, IdleRow DEF InFlight, Opened
      <4> QED BY <4>1, <4>2
    <3>2. Cardinality(InFlight(s)) = 0
      BY <3>1, FS_EmptySet
    <3>3. Cardinality(Run) * PerCheck(s) \in Nat
      BY CapNat
    <3>4. quota[s].used = 0 /\ peak[s] \in Nat \ {0}
      BY <1>2
    <3> HIDE DEF PerCheck, InFlight, InitCrawl
    <3> QED BY <3>2, <3>3, <3>4
  <2>2. \A s \in Source : quota[s].limit # 0 /\ quota[s].limit <= peak[s]
    BY <1>2
  <2> QED BY <2>1, <2>2 DEF QuotaPart
<1> QED BY <1>4, <1>5, <1>6, <1>7, <1>8, <1>9 DEF CrawlInv

\* Every step keeps the invariant.
LEMMA CrawlStepKeeps == CrawlInv /\ [NextCrawl]_crawlVars => CrawlInv'
<1> SUFFICES ASSUME CrawlInv, [NextCrawl]_crawlVars PROVE CrawlInv'
  OBVIOUS
<1>1. CASE UNCHANGED crawlVars
  <2>1. RunsPart' /\ CopiesPart' /\ QuotaPart' /\ VersionsPart' /\ CoveragePart'
    BY <1>1, NoRunMoves DEF crawlVars
  <2>2. CrawlTypeOK'
    BY <1>1 DEF CrawlInv, CrawlTypeOK, crawlVars
  <2> QED BY <2>1, <2>2 DEF CrawlInv
<1>2. ASSUME NEW r \in Run,
             \/ CrawlNews(r) \/ CrawlCommunity(r) \/ CollectSns(r) \/ CrawlNaver(r)
             \/ \E found \in SUBSET Url : SearchGoogleNews(r, found) \/ SearchReddit(r, found)
      PROVE  CrawlInv'
  BY <1>2, Starting
<1>3. ASSUME NEW r \in Run,
             CrawlDcInside(r) \/ CrawlFmKorea(r) \/ CrawlReddit(r) \/ CrawlGoogleTrends(r)
                \/ CrawlYoutube(r) \/ CrawlNaverDatalab(r)
      PROVE  CrawlInv'
  <2>1. {"dc_inside", "fm_korea", "reddit", "google_trends_rss", "youtube", "naver_datalab"}
           \subseteq Source \ NewsSource
    BY Sources DEF Source, NewsSource
  <2> QED BY <1>3, <2>1, OpenKeeps DEF CrawlDcInside, CrawlFmKorea, CrawlReddit, CrawlGoogleTrends,
                                     CrawlYoutube, CrawlNaverDatalab
<1>4. ASSUME NEW r \in Run, NEW f \in Feed,
             \/ CheckFeed(r, f) \/ TakeFeed(r, f) \/ NewsAnswer(r, f) \/ StoreValidator(r, f)
             \/ CommunityAnswer(r, f) \/ FetchSubreddit(r, f) \/ FetchGoogleTrends(r, f)
             \/ FetchNaverTrends(r, f) \/ Count(r, f) \/ ParseFeed(r, f) \/ ReadItems(r, f)
             \/ EndFeed(r, f)
      PROVE  CrawlInv'
  <2>1. {"reddit", "google_trends_rss"} \subseteq Source \ NewsSource
    BY Sources DEF Source, NewsSource
  <2>2. CASE FetchSubreddit(r, f) \/ FetchGoogleTrends(r, f)
    BY <2>1, <2>2, AnswerKeeps DEF FetchSubreddit, FetchGoogleTrends
  <2> QED BY <1>4, <2>2, CheckKeeps, TakeKeeps, NewsAnswerKeeps, StoreKeeps, CommunityAnswerKeeps,
             NaverAnswerKeeps, CountKeeps, ParseKeeps, ItemsKeeps, EndFeedKeeps
<1>5. ASSUME NEW r \in Run, NEW u \in Url, NEW v \in 1 .. MaxDisturbances + 1,
             \/ LookUp(r, u) \/ InsertArticle(r, u) \/ SaveDatalab(r, u, v)
             \/ \E s \in SnsSource : SaveSnsTrend(r, s, u, v)
      PROVE  CrawlInv'
  <2>1. v \in Nat
    BY CrawlAssumption
  <2> QED BY <1>5, <2>1, LookUpKeeps, InsertKeeps, SaveKeeps
<1>6. ASSUME NEW r \in Run, ReadPage(r) \/ EndJob(r)
      PROVE  CrawlInv'
  BY <1>6, ReadPageKeeps, EndJobKeeps
<1>7. CASE CrashCrawler
  BY <1>7, CrashKeeps
<1>8. CASE DailyReset
  BY <1>8, ResetKeeps DEF DailyReset
<1>9. ASSUME NEW s \in Source,
             (\E on \in BOOLEAN, l \in Limit : UpdateSource(s, on, l)) \/ ResetSource(s)
      PROVE  CrawlInv'
  BY <1>9, UpdateSourceKeeps, ResetKeeps DEF ResetSource
<1>10. ASSUME NEW f \in Feed,
              \/ Publish(f) \/ ExpireValidator(f) \/ DeleteFeed(f)
              \/ \E on \in BOOLEAN : CreateFeed(f, on) \/ UpdateFeed(f, on)
       PROVE  CrawlInv'
  <2>1. TRUE \in BOOLEAN /\ {} \in SUBSET Feed
    OBVIOUS
  <2> QED BY <1>10, <2>1, PublishKeeps, ExpireKeeps, AdminKeeps
<1>11. ASSUME NEW F \in SUBSET Feed, NEW on \in BOOLEAN, ToggleFeeds(F, on)
       PROVE  CrawlInv'
  <2>1. CASE Feed = {}
    <3>1. UNCHANGED <<quota, peak, feedRows, doc, validator, copies, trend, run, lost, health>> /\ Disturb
      BY <1>11 DEF ToggleFeeds
    <3>2. RunsPart' /\ CopiesPart' /\ QuotaPart' /\ VersionsPart' /\ CoveragePart'
      BY <3>1, NoRunMoves
    <3>3. enabled' \subseteq feedRows'
      BY <1>11, Types DEF ToggleFeeds, SetActiveFeeds, CrawlInv
    <3>4. crawlUsed' \in [starts : Nat, disturbances : Nat]
      BY <3>1, Types, DisturbTypes DEF CrawlInv
    <3>5. CrawlTypeOK'
      BY <3>1, <3>3, <3>4 DEF CrawlInv, CrawlTypeOK
    <3> QED BY <3>2, <3>5 DEF CrawlInv
  <2>2. ASSUME NEW f \in Feed PROVE CrawlInv'
    BY <1>11, AdminKeeps
  <2> QED BY <2>1, <2>2
<1>12. FeedsOf(Source) \subseteq Feed
  BY DEF FeedsOf
<1>13. ASSUME NEW r \in Run, NEW f \in FeedsOf(Source),
              \/ CheckFeed(r, f) \/ TakeFeed(r, f) \/ NewsAnswer(r, f) \/ StoreValidator(r, f)
              \/ CommunityAnswer(r, f) \/ FetchSubreddit(r, f) \/ FetchGoogleTrends(r, f)
              \/ FetchNaverTrends(r, f) \/ Count(r, f) \/ ParseFeed(r, f) \/ ReadItems(r, f)
              \/ EndFeed(r, f)
       PROVE  CrawlInv'
  BY <1>4, <1>12, <1>13
<1>14. ASSUME NEW f \in FeedsOf(Source),
              \/ Publish(f) \/ ExpireValidator(f) \/ DeleteFeed(f)
              \/ \E on \in BOOLEAN : CreateFeed(f, on) \/ UpdateFeed(f, on)
       PROVE  CrawlInv'
  BY <1>10, <1>12, <1>14
<1>15. ASSUME NEW F \in SUBSET FeedsOf(Source), NEW on \in BOOLEAN, ToggleFeeds(F, on)
       PROVE  CrawlInv'
  BY <1>11, <1>12, <1>15
<1>16. ASSUME NEW r \in Run, NEW u \in Url,
              \/ LookUp(r, u) \/ InsertArticle(r, u)
              \/ \E v \in 1 .. MaxDisturbances + 1 :
                    SaveDatalab(r, u, v) \/ \E s \in SnsSource : SaveSnsTrend(r, s, u, v)
       PROVE  CrawlInv'
  <2>1. CASE LookUp(r, u) \/ InsertArticle(r, u)
    <3>1. 1 \in 1 .. MaxDisturbances + 1
      BY CrawlAssumption
    <3> QED BY <1>5, <2>1, <3>1
  <2> QED BY <1>5, <1>16, <2>1
<1>17. CASE NextCrawl
  BY <1>2, <1>3, <1>6, <1>7, <1>8, <1>9, <1>13, <1>14, <1>15, <1>16, <1>17, Zenon
     DEF NextCrawl, CrawlStep
<1> QED BY <1>1, <1>17

\* So it always holds.
LEMMA CrawlInvariance == SpecCrawl => []CrawlInv
  BY CrawlInit, CrawlStepKeeps, PTL DEF SpecCrawl

\* The variables of the crawler hold what its code stores in them.
THEOREM CrawlTypes == SpecCrawl => []CrawlTypeOK
<1>1. CrawlInv => CrawlTypeOK
  BY DEF CrawlInv
<1> QED BY <1>1, CrawlInvariance, PTL

\* However many runs overlap and whatever the feeds and administrators do, check_quota and
\* increment_quota let a source go over the highest limit it had by less than one check's
\* requests per run.
THEOREM QuotaOvershoot == SpecCrawl => []QuotaOvershootBounded
<1>1. CrawlInv => QuotaOvershootBounded
  <2>1. ASSUME CrawlInv, NEW s \in Spent
        PROVE  quota[s].used < peak[s] + Cardinality(Run) * PerCheck(s)
    <3>1. s \in Source /\ peak[s] # 0
      BY DEF Spent
    <3>2. quota[s].used + Cardinality(InFlight(s)) < peak[s] + Cardinality(Run) * PerCheck(s)
      BY <2>1, <3>1 DEF CrawlInv, QuotaPart
    <3>3. /\ quota[s].used \in Nat /\ peak[s] \in Nat /\ Cardinality(InFlight(s)) \in Nat
          /\ Cardinality(Run) * PerCheck(s) \in Nat
      BY <2>1, <3>1, Types, InFlightBounded, CapNat DEF CrawlInv
    <3> QED BY <3>2, <3>3
  <2> QED BY <2>1 DEF QuotaOvershootBounded
<1> QED BY <1>1, CrawlInvariance, PTL

\* news_article has no key on the url: the look-up before the insert lets a url in once per
\* run that looked before there was a row, and never again.
THEOREM CopiesBounded == SpecCrawl => []CopiesAtMostRuns
<1>1. CrawlInv => CopiesAtMostRuns
  <2>1. ASSUME CrawlInv, NEW u \in Url PROVE copies[u] <= Cardinality(Run)
    <3>1. copies[u] + Cardinality(Lookers(u)) <= Cardinality(Run)
      BY <2>1 DEF CrawlInv, CopiesPart
    <3>2. copies[u] \in Nat /\ Cardinality(Lookers(u)) \in Nat /\ Cardinality(Run) \in Nat
      BY <2>1, Types, LookersFinite, CrawlAssumption, FS_CardinalityType DEF CrawlInv
    <3> QED BY <3>1, <3>2
  <2> QED BY <2>1 DEF CopiesAtMostRuns
<1> QED BY <1>1, CrawlInvariance, PTL

\* crawl_feed stores the validator before it parses the document: what it stands for is
\* stored, was lost to a failure there or later, or is in the hands of the run that stored it.
THEOREM ValidatorSound == SpecCrawl => []ValidatorCoversFeed
<1>1. CrawlInv => ValidatorCoversFeed
  BY DEF CrawlInv, CoveragePart, Covered, ValidatorCoversFeed
<1> QED BY <1>1, CrawlInvariance, PTL

=============================================================================
