SPECIFICATION FairSpec
CONSTANTS
    r1 = r1
    r2 = r2
    r3 = r3
    Requests = {r1, r2}
    Teams = {"alpha"}
    Blank = "blank"
    Rounds = {70, 71}
    NightRounds = {71}
    Prints = {"p"}
    Signatures = {"s"}
    NoSession = NoSession
    Malformed = Malformed
    None = None
    ResponseBudget = 5
    ComputeBudget = 4
    Reserve = 3
    FireBudget = 1
    Guard = 1
    LastArrival = 0
    MaxTime = 5
    Cooldown = 1
    SlowLimit = 2
PROPERTIES EveryRequestAnswered WedgeIsIsolated
