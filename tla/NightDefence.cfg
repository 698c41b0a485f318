SPECIFICATION Spec
CONSTANTS
    None = None
    \* the forecast
    Estimates <- MCEstimates
    Robots = {"r"}
    Power <- MCPower
    MaxFar = 1
    Assets = {"wall"}
    MaxHealth = 2
    PowerStep = 2
    ForecastDay = 1
    ForecastNight = 2
    MaxEvents = 1
    FullSettings = {TRUE, FALSE}
    LastForecastRound = 6
    \* the validator
    Absent = Absent
    BoardWidth = 5
    BoardHeight = 5
    Boards <- MCBoards
    Commands <- MCCommands
    \* rays
    NoRay = NoRay
    RaySpan = 5
    \* the simulation
    Nothing = Nothing
    SimWidth = 4
    SimHeight = 3
    Nights <- MCNights
    GatlingDamage = 1
    CenterDamage = 2
    SplashDamage = 1
    RocketCooldown = 1
    \* the search
    Outcomes <- MCOutcomes
    Tails <- MCTails
    Losses = {0, 20}
    WeightFloor <- MCFloor
    Roots = 2
    Scenarios = 2
    SearchTicks = 2
    SlowestStep = 1
    SearchRounds = 2
    NoTail = NoTail
INVARIANTS
    NightTypeOK DamageSpentOnce ForecastIsHonest LegalPartIsSent RaysAreStraight SearchIsSound WinnerIsNotBeaten
PROPERTIES
    TurnsAreResolved ShotsAreAccounted
CHECK_DEADLOCK FALSE
