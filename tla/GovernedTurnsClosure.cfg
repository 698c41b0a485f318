SPECIFICATION Spec
CONSTANTS
    Teams = {"alpha"}
    Team = "alpha"
    Blank = "blank"
    Rounds = {1, 2, 3, 4}
    NightRounds = {2, 3, 4}
    Prints = {"p"}
    Signatures = {"s"}
    NoSession = NoSession
    NoPlan = NoPlan
    Cooldown = 1
    SlowLimit = 2
    ShareNum = 4
    ShareDen = 5
    Base <- DefaultBase
    Chains = {35}
    Costs = {1, 24}
INVARIANT WatchdogClosesOnlyItsCooldown
