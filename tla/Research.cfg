\* Sizing, series on bars, kline cache, strategy library, screener, judgments and contracts.
SPECIFICATION Spec
CONSTANTS
    Proposals <- MCProposals
    RuleSets <- MCRuleSets
    Marks <- MCMarks
    Equities <- MCEquities
    RiskPcts <- MCRiskPcts
    Situations <- MCSituations
    min_stop_pct <- MCMinStop
    max_stop_pct <- MCMaxStop
    max_notional_multiple <- MCMultiple
    max_opens_per_day = 2
    MinConfidence <- MCConfidence
    RiskTolerance <- MCRiskTolerance
    CapTolerance <- MCCapTolerance
    Nothing = Nothing
    Bars <- MCBars
    MaxBars = 6
    Span <- MCSpan
    MinRanked = 2
    NA = NA
    Level = 2
    Warm = 1
    Fundings <- MCFundings
    Thresholds <- MCThresholds
    Horizon = 2
    Fetched = 4
    PerH1 = 1
    PerH4 = 2
    Specs <- MCSpecs
    Cooldown = 2
    Loaders = {a, b}
    BarSpan = 2
    Listed = 1
    Lookbacks = {4, 9}
    PageSize = 2
    MaxPages = 2
    EndOfTime = 11
    MaxLoads = 3
    Strategies = {"br"}
    Params = {"win", "vol"}
    NewParam = "win"
    Values = {1, 2}
    Relaxed <- MCRelaxed
    BuiltIn <- MCBuiltIn
    None = None
    MaxVersions = 3
    MaxRuns = 2
    Horizons = {"short"}
    Symbols <- MCSymbols
    Tradable = {"A", "B", "C"}
    Perpetuals = {"A", "B", "Z"}
    Heads = {"x", "y"}
    CardFits <- MCCardFits
    Answers <- MCAnswers
    Whitelist <- MCWhitelist
    MaxSymbols = 2
    TopCards = 2
    Picks <- MCPicks
    Ttl = 0
    Earlier <- MCEarlier
    NoCard = NoCard
    Absent = Absent
    LastTick = 1
    MaxScreens = 2
    MaxFrame = 2
    MaxBytes = 6
    MaxChunk = 3
    Null = Null
    Malformed = Malformed
    Symbol = "A"
    Watch <- MCWatch
    Mark = 100
    Offers <- MCOffers
    Replies <- MCReplies
    Summaries <- MCSummaries
    Feeds <- MCFeeds
    Views <- MCViews
    MaxAge <- MCMaxAge
    PerSource = 2
    TotalNews = 3
    StaleAfter = 1
    BriefStaleAfter = 1
    NewsStaleAfter = 2
    LastMoment = 4
INVARIANTS
    SentWithinBudget
    KlinesHonest
    JudgmentsGrounded
    WireAgrees
PROPERTIES
    SeriesCausal
    BarsAgree
    LiveIsEarned
    PicksAreBacked
CHECK_DEADLOCK FALSE
