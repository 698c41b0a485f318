SPECIFICATION Spec
CONSTANTS
    Teams = {"alpha"}
    Team = "alpha"
    Blank = "blank"
    Rounds = {1, 2, 3, 4}
    NightRounds = {2, 3, 4}
    Prints = {"p", "q"}
    Signatures = {"s", "t"}
    NoSession = NoSession
    NoPlan = NoPlan
    Cooldown = 1
    SlowLimit = 2
    ShareNum = 4
    ShareDen = 5
    Base <- DefaultBase
    Chains = {0, 10, 35}
    Costs = {1, 24}
INVARIANTS TypeOK BarredExactlyAfterWatchdog HalvedExactlyAfterSlow BudgetIsLargestThatFits
