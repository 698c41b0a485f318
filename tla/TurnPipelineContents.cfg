SPECIFICATION Spec
CONSTANTS
    r1 = r1
    r2 = r2
    r3 = r3
    Requests = {r1, r2}
    Teams = {"alpha", "blank"}
    Blank = "blank"
    Rounds = {70, 71}
    NightRounds = {71}
    Prints = {p, q}
    Signatures = {s, t}
    NoSession = NoSession
    Malformed = Malformed
    None = None
    ResponseBudget = 5
    ComputeBudget = 4
    Reserve = 3
    FireBudget = 1
    Guard = 1
    LastArrival = 0
    MaxTime = 5
    Cooldown = 1
    SlowLimit = 2
SYMMETRY ContentSymmetry
INVARIANTS TypeOK LockDiscipline NoStaleSession AnswersOwnObservation
INVARIANT BarFollowsSession
PROPERTIES PlannedOnce ImplementsAtomicTurns
