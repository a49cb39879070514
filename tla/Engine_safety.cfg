SPECIFICATION ESpec
CONSTANTS
    Run = {r1}
    Step = {1, 2, 3}
    Needs <- ForkNeeds
    Budget <- RetryFirst
    Owner = {o1}
    Actor = {a1}
    Key = {}
    Code <- ReasonCodes
    NULL = NULL
    TTL = 3
    Times <- AllTimes
    MaxTime = 4
    Exec = {e1, e2}
    OwnerOf <- SameName
    JobTimeout = 2
    StepTimeout = 2
    Delays = {0, 1}
    MayDie = TRUE
    SlowStore = TRUE
SYMMETRY ExecSymmetry
INVARIANTS
    ExecutorsAgreeWithRows
    StartsAreOrderly
    VerdictIsExplained
PROPERTIES
    BackoffRespected
\* executors return, and then nothing may be left to do
CHECK_DEADLOCK FALSE
