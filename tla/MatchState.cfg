SPECIFICATION Spec
CONSTANTS
    None = None
    \* the treasure
    Keys = {"a", "b", "d"}
    PosOf <- MCPosOf
    ItemsOf <- MCItemsOf
    DaysOf <- MCDaysOf
    Rumors <- MCRumors
    Attempt = 85
    LastWindow = 65
    Penalty = 25
    MaxCandidates = 2
    MaxNews = 3
    MaxNegative = 1
    RetrySettings = {TRUE, FALSE}
    TruePos = "shop"
    TrueItems = {"i", "j"}
    TrueDays = {2, 3, 4, 5, 6}
    RoundsPerDay = 1
    LastSummonRound = 6
    MayReviseSummon = FALSE
    MayLoseSummon = TRUE
    \* memory
    Enemies = {"s", "w", "p"}
    RoleOf <- MCRoleOf
    Canonical <- MCCanonical
    Mirror <- MCMirror
    MaxRecords = 2
    Sites = {"a", "b"}
    BuildSites = {"a"}
    Sights <- MCSights
    Decay = 40
    FailureTtl = 1
    MaxFailures = 2
    MaxWaves = 2
    DayLength = 1
    NightLength = 3
    RevisesBroken = FALSE
    Observations = 3
    \* the market
    Minerals = {"iron"}
    News <- MCNews
    Prices = {1, 2, None}
    MaxSnapshots = 2
    MaxSignals = 2
    MaxNewsItems = 3
    MaxDuration = 5
    RoundsPerMarketDay = 1
    LastMarketRound = 4
    \* the director
    Loadout = {"gatling", "rocket"}
    Gain <- MCGain
    WeaponCost = 25
    Healths = {None, 1, 2}
    Golds = {25, 75}
    Forecasts <- MCForecasts
    EnemyHealths = {None, 1}
    LivingRoles = {0, 1}
    Raids <- MCRaids
    WaveResults <- MCWaves
    Desperate = 1
    ScoreFloor = 75
    PressureHealth = 1
    RequiredRoles = 1
    IntervalSettings <- MCIntervals
    PressureSettings = {TRUE}
    NextViews <- MCNextViews
    MoreViews = 3
    \* the SOP file
    SopIds = {"m", "n", "o"}
    SopAnswers = {"short", "long"}
    SopBytes <- MCSopBytes
    MaxSops = 2
    MaxSopFileBytes = 4
    LastLearning = 4
INVARIANTS
    MatchTypeOK VerdictsAreHeeded HalvesAreNotMixed TicksCountOnce
    AdviceIsEarned FileIsSound
PROPERTIES
    SummonsAreEarned BuildsRestOnFacts DirectorHeedsTheNight NothingSavedIsForgotten
