SPECIFICATION FairRSpec
CONSTANTS
    Call = {c1}
    Timeout = 2
    Grace = 2
    MaxTime = 7
    NULL = NULL
INVARIANTS
    RTypeOK
    VerdictHasEvidence
    TermThenKill
    NothingLeftBehind
PROPERTY RunReturns
\* calls return, and then nothing may be left to do
CHECK_DEADLOCK FALSE
