SPECIFICATION Spec
CONSTANTS
    Run = {r1}
    Step = {1, 2}
    Needs <- ChainNeeds
    Budget <- RetryFirst
    Owner = {o1, o2}
    Actor = {a1, a2}
    Key = {}
    Code = {why}
    NULL = NULL
    TTL = 1
    Times <- AllTimes
    MaxTime = 2
SYMMETRY Symmetry
INVARIANTS
    TypeOK
    HistoryExplainsRows
    VerdictMatchesSteps
    LeaseTellsOwnership
    AttemptsWithinBudget
PROPERTIES
    EndedIsFinal
    Lifecycle
\* every run and step may be terminal, and the clock at its bound
CHECK_DEADLOCK FALSE
