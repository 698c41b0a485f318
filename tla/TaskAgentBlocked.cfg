SPECIFICATION Spec
CONSTANTS
    Points = {"x", "y"}
    Texts = {"tx", "ux", "ty"}
    TextsAt <- TwoPoints
    Template <- Templates
    Answers = {"short", "long"}
    Correct <- RightAnswers
    Coverage <- MoreFields
    Exec = "exec"
    None = None
    Timeout = 8
    Refresh = 2
    Cooldown = 3
    Retry = 1
    MaxSteps = 1
    Latency <- ShortLatencies
    ReviseSettings = {FALSE}
    MayLose = FALSE
    LastRound = 10
INVARIANT FailedAnswersNeverBlock
