SPECIFICATION Spec
CONSTANTS
    ann = ann
    bob = bob
    gid = gid
    kid = kid
    secretA = secretA
    secretB = secretB
    cid = cid
    dan = dan
    \* Accounts
    Actor = {ann, bob}
    Email = {"x"}
    Uid = {gid, kid}
    ProviderOf <- MCProviderOf
    EmailOf <- MCEmailOf
    Password = {"p"}
    Secret = {secretA, secretB}
    None = None
    MaxUsers = 1
    MaxTokens = 1
    MaxAuthFaults = 1
    \* Subscription
    Customer = {cid, dan}
    PaidPlan = {"pro"}
    Caller = {1}
    MaxSubs = 2
    MaxEvents = 1
    MaxCrashes = 1
    \* UserItems
    Member = {"m"}
    Kind = {"scrap", "keyword", "brand"}
    Item = {"x"}
    Create = {1, 2, 3}
    LimitOf <- MCLimitOf
    Ratio = {0, 1}
    Applier = {1, 2}
    MaxItems = 3
    MaxChanges = 1
    \* Crawl
    Run = {1, 2}
    Jobs <- MCJobs
    SourceOf <- MCSourceOf
    Feed = {"n", "d", "e", "f", "r", "t", "v"}
    Url = {"u"}
    Limit = {0, 1}
    MaxStarts = 3
    MaxDisturbances = 1
    \* Alerts
    Service = {"reddit"}
    Recorder = {1, 2, 3}
    MaxAlerts = 4
    Monitor = {"m"}
    Mention = {1, 2}
    MaxBrandRuns = 2
    \* ConfigCache
    Word = {"v", "w"}
    ListKey = {"ko", "ad", "category", "setting"}
    Reader = {1}
    MaxConfigEdits = 2
    MaxConfigFaults = 1
    \* FeedPaging
    TrendRow = {1, 2}
    Recent = {1}
    TrendScore = {25, 26}
    ArticleRow = {1, 2}
    TimeOf <- MCTimeOf
    Scored <- MCScored
    Colon = {26}
    PageSize = {1, 2}
    MaxFirstPages = 1
    MaxRescores = 3
    \* Migrations
    LastMigration = 3
    Standalone = {2}
    Runner = {1, 2}
    MaxRunnerFaults = 2
    \* Clustering
    BatchLength = 3
    Level = {0, 1, 2}
    Threshold = 1
    Sigma = 1
    MetaLength = 4
    MetaLimit = {1, 2}
    \* Scoring
    Outlet = {"rss_ko", "burst_gnews"}
    Moment = {0, 300, 3000}
    MaxInGroup = 3
    MinBurstSeries = 3
    BurstPart = {100}
    PlatformCount = {0, 2}
    Importance = {0}
    EarlyWeights <- MCEarlyWeights
    Freshness <- MCFreshness
    ArticleRatio <- MCArticleRatio
    OutletRatio <- MCOutletRatio
VIEW MCView
INVARIANTS
    ServicesTypeOK
    EnabledSecretProven
    LoginlessOnlyHalfway
    IssuedOnlyIfActive
    ExpiredPlanTaken
    ValidatorCoversFeed
    QuotaOvershootBounded
    CopiesAtMostRuns
    AtMostOneQueuedPerWindow
    LimitOvershootBounded
    PutRatioKept
    ReloadHoldsUnlessRaced
    StableRowsPagedOnce
    MigrationsInOrder
    ClustersSound
    EarlyTrendEarned
PROPERTIES
    OnlyProviderReopens
    UpgradesInOrder
CHECK_DEADLOCK FALSE
