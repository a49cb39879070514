SPECIFICATION Spec
CONSTANTS
    Run = {r1, r2}
    Step = {1}
    Needs <- ChainNeeds
    Budget <- OneAttempt
    Owner = {o1}
    Actor = {a1}
    Key = {k1}
    Code = {why}
    NULL = NULL
    TTL = 1
    Times <- AllTimes
    MaxTime = 1
SYMMETRY TwoRuns
INVARIANTS
    OneActiveRunPerKey
\* every run and step may be terminal, and the clock at its bound
CHECK_DEADLOCK FALSE
