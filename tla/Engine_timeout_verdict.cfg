SPECIFICATION ESpec
CONSTANTS
    Run = {r1}
    Step = {1, 2}
    Needs <- ChainNeeds
    Budget <- RetryFirst
    Owner = {o1}
    Actor = {a1}
    Key = {}
    Code <- ReasonCodes
    NULL = NULL
    TTL = 99
    Times <- AllTimes
    MaxTime = 4
    Exec = {e1}
    OwnerOf <- SameName
    JobTimeout = 2
    StepTimeout = 3
    Delays = {0, 1}
    MayDie = FALSE
    SlowStore = FALSE
INVARIANT TimedOutRunFailed
\* executors return, and then nothing may be left to do
CHECK_DEADLOCK FALSE
