SPECIFICATION PromptSpec
CONSTANTS
    r1 = r1
    r2 = r2
    r3 = r3
    Requests = {r1, r2, r3}
    Teams = {"alpha"}
    Blank = "blank"
    Rounds = {71}
    NightRounds = {71}
    Prints = {"p"}
    Signatures = {"s"}
    NoSession = NoSession
    Malformed = Malformed
    None = None
    ResponseBudget = 6
    ComputeBudget = 5
    Reserve = 3
    FireBudget = 1
    Guard = 1
    LastArrival = 1
    MaxTime = 7
    Cooldown = 1
    SlowLimit = 2
SYMMETRY Symmetry
INVARIANTS LosersKeepGuard FireIsDelivered
PROPERTY TimedOutNightFires
