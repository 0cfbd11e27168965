----------------------------- MODULE MCServices -----------------------------
(***************************************************************************)
(* The components that share no variable, each in a small instance of its  *)
(* own: accounts, subscriptions, the items a user keeps, the crawler,      *)
(* alerts, the cached configuration, paging, the migrations, the clusters  *)
(* and the scores. What one reads of another's writes is an action of its  *)
(* own.                                                                    *)
(* One of them runs in each behaviour, chosen in the initial state, while  *)
(* the others stay as they are: their interleavings show nothing more.     *)
(***************************************************************************)
EXTENDS Accounts, Subscription, UserItems, Crawl, Alerts, ConfigCache, FeedPaging,
        Migrations, Clustering, Scoring, TLC

CONSTANTS ann, bob, gid, kid, secretA, secretB, cid, dan

VARIABLE active  \* the component that runs

servicesVars == <<accountVars, subscriptionVars, userItemsVars, crawlVars, alertsVars,
                  configVars, pagingVars, migrationsVars, clusteringVars, scoringVars, active>>

MCProviderOf == gid :> "google" @@ kid :> "kakao"

MCEmailOf == gid :> "x" @@ kid :> "x"

MCLimitOf == [kind \in Kind |-> 1]

\* APScheduler runs a job at most once at a time, and the searches are the processor's.
MCJobs ==
    1 :> {"news", "community", "sns"} @@ 2 :> {"naver", "search_google_news", "search_reddit"}

MCSourceOf == "n" :> "rss_ko" @@ "d" :> "dc_inside" @@ "e" :> "dc_inside" @@ "f" :> "fm_korea"
              @@ "r" :> "reddit" @@ "t" :> "google_trends_rss" @@ "v" :> "naver_datalab"

\* Published at one time.
MCTimeOf == 1 :> 7 @@ 2 :> 7

\* What a save writes: two scores alike, which the jobs then part, and in the other column
\* the other of two values, so that one order is the reverse of the other.
MCScored == {to \in [Column -> TrendScore] : to["early"] = to["score"] /\ to["other"] # to["score"]}

MCEarlyWeights == {[burst |-> 0, velocity |-> 9, diversity |-> 9, recency |-> 0]}

\* With the decay of most categories, 0.05 a minute.
MCFreshness(age) == CASE age = 0 -> 100 [] age = 20 -> 37 [] OTHER -> 0

MCArticleRatio(n) == <<0, 29, 46, 58, 67>>[n + 1]

MCOutletRatio(n) == <<0, 39, 61, 77, 90>>[n + 1]

Init ==
    /\ InitAccounts /\ InitSubscription /\ InitUserItems /\ InitCrawl
    /\ InitAlerts /\ InitConfig /\ InitPaging /\ InitMigrations /\ InitClustering
    /\ InitScoring
    /\ active \in {"accounts", "oauth", "subscription", "items", "personalization", "news",
                   "community", "sns", "alerts", "brands", "config", "paging", "migrations",
                   "clustering", "meta", "scoring"}
    \* The choices of a component that does not run are one.
    /\ active \notin {"news", "community", "sns"} => \A x \in Source : quota[x].limit = 1
    /\ active # "config" => configRows = {}
    \* One word is as good as another.
    /\ \A r \in configRows : r.word = "w"

Next ==
    \/ /\ \/ active = "accounts" /\ NextAccounts /\ linked' = linked /\ made' = made
          \/ active = "oauth" /\ NextAccounts /\ usedSecret' = usedSecret /\ proven' = proven
       /\ UNCHANGED <<subscriptionVars, userItemsVars, crawlVars, alertsVars, configVars,
                      pagingVars, migrationsVars, clusteringVars, scoringVars, active>>
    \/ /\ active = "subscription" /\ NextSubscription
       /\ UNCHANGED <<accountVars, userItemsVars, crawlVars, alertsVars, configVars,
                      pagingVars, migrationsVars, clusteringVars, scoringVars, active>>
    \/ /\ \/ active = "items" /\ NextUserItems /\ UNCHANGED prefVars
          \/ active = "personalization" /\ NextUserItems /\ UNCHANGED itemVars
       /\ UNCHANGED <<accountVars, subscriptionVars, crawlVars, alertsVars, configVars,
                      pagingVars, migrationsVars, clusteringVars, scoringVars, active>>
    \/ /\ \/ /\ active = "news"
             /\ CrawlStep({"news", "search_google_news", "search_reddit"}, NewsSource)
          \/ active = "community" /\ CrawlStep({"community", "search_reddit"}, CommunitySource)
          \/ active = "sns" /\ CrawlStep({"sns", "naver"}, SnsSource)
       /\ UNCHANGED <<accountVars, subscriptionVars, userItemsVars, alertsVars, configVars,
                      pagingVars, migrationsVars, clusteringVars, scoringVars, active>>
    \/ /\ \/ active = "alerts" /\ NextAlerts /\ UNCHANGED brandVars
          \/ active = "brands" /\ NextAlerts /\ UNCHANGED quotaAlertVars
       /\ UNCHANGED <<accountVars, subscriptionVars, userItemsVars, crawlVars, configVars,
                      pagingVars, migrationsVars, clusteringVars, scoringVars, active>>
    \/ /\ active = "config" /\ NextConfig
       /\ UNCHANGED <<accountVars, subscriptionVars, userItemsVars, crawlVars, alertsVars,
                      pagingVars, migrationsVars, clusteringVars, scoringVars, active>>
    \/ /\ active = "paging" /\ NextPaging
       /\ UNCHANGED <<accountVars, subscriptionVars, userItemsVars, crawlVars, alertsVars,
                      configVars, migrationsVars, clusteringVars, scoringVars, active>>
    \/ /\ active = "migrations" /\ NextMigrations
       /\ UNCHANGED <<accountVars, subscriptionVars, userItemsVars, crawlVars, alertsVars,
                      configVars, pagingVars, clusteringVars, scoringVars, active>>
    \* A batch has nothing from the one before, so one is enough.
    \/ /\ \/ active = "clustering" /\ batchVars = <<{}, {}, [i \in Article |-> i]>> /\ NextBatch
          \/ active = "meta" /\ NextMeta
       /\ UNCHANGED <<accountVars, subscriptionVars, userItemsVars, crawlVars, alertsVars,
                      configVars, pagingVars, migrationsVars, scoringVars, active>>
    \/ /\ active = "scoring" /\ NextScoring
       /\ UNCHANGED <<accountVars, subscriptionVars, userItemsVars, crawlVars, alertsVars,
                      configVars, pagingVars, migrationsVars, clusteringVars, active>>

Spec == Init /\ [][Next]_servicesVars

\* The variables of the others have one value each, so a state is what the component that
\* runs makes of it, but for what nothing is computed from and for names that are as good
\* as others. Which request, customer or outlet is which of two matters to nothing; nor do
\* the mails sent and dismissed, the health of a feed, the scores of sns_trend, which group
\* it is that articles share, and what a page or a client has shown of rows written since
\* or in no order. Of a trend's row nothing but score is computed from score, and nothing
\* from growth; of a cluster that is saved only the numbers are read.
MCView ==
    CASE active \in {"accounts", "oauth"} ->
            <<rows, tokens, twofa, failures, {<<req[a], seen[a]>> : a \in Actor}, active>>
      [] active = "subscription" ->
            <<{<<{<<s.id, s.plan, s.status>> : s \in {t \in subs : t.user = c}}, plan[c],
                 c \in expiry, c \in due, c \in spared>> : c \in Customer},
              overdue, events, emitted, cancel, crashes, active>>
      [] active \in {"items", "personalization"} ->
            <<items, lastItem, {<<create[c], Cardinality({d \in Create : create[d] = create[c]})>> : c \in Create},
              limited, everFree, changes, prefVars, active>>
      [] active \in {"news", "community", "sns"} ->
            <<quota, peak, feedRows, enabled, doc, validator, copies, run, lost, crawlUsed, active>>
      [] active \in {"alerts", "brands"} ->
            <<{<<a.id, a.service, a.recent, a.queued>> : a \in alerts}, {recorder[r] : r \in Recorder},
              mailTasks, brandVars, active>>
      [] active = "config" -> <<configVars, active>>
      [] active = "paging" ->
            <<rank, hidden, rescores,
              [a \in ArticleRow |-> <<groupOf[a] = 0, {b \in ArticleRow : SameEntry(a, b)}>>],
              {IF p.inOrder THEN <<p.rows \ p.changed, p.next, p.changed>> ELSE <<p.next>> : p \in firstPages},
              paging,
              IF paging.inOrder /\ paging.list # "news"
              THEN <<shown \ changed, repeated \ changed, changed>> ELSE <<>>, active>>
      [] active = "migrations" -> <<migrationsVars, active>>
      [] active \in {"clustering", "meta"} -> <<clusteringVars, active>>
      [] active = "scoring" ->
            <<clock, saving,
              {<<SizeOf(A), Cardinality(Outlets(A))>> : A \in {ArticlesBehind(r) : r \in trendRow}},
              {[t \in Moment |-> <<grouped[<<o, t>>], IF saving \in {"saved", "cut"} THEN 0
                                                    ELSE cluster[<<o, t>>]>>] : o \in Outlet},
              {<<r.early, r.burst, r.created, r.by>> : r \in trendRow \cup scored},
              earlyJob, earlySetting, earlyCopy, platforms, active>>

\* The variables of the component that runs hold what its code stores in them.
ServicesTypeOK ==
    CASE active \in {"accounts", "oauth"} -> AccountsTypeOK
      [] active = "subscription" -> SubscriptionTypeOK
      [] active \in {"items", "personalization"} -> UserItemsTypeOK
      [] active \in {"news", "community", "sns"} -> CrawlTypeOK
      [] active \in {"alerts", "brands"} -> AlertsTypeOK
      [] active = "config" -> ConfigTypeOK
      [] active = "paging" -> PagingTypeOK
      [] active = "migrations" -> MigrationsTypeOK
      [] active \in {"clustering", "meta"} -> ClusteringTypeOK
      [] active = "scoring" -> ScoringTypeOK

=============================================================================
