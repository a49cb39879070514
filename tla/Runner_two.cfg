SPECIFICATION PromptRSpec
CONSTANTS
    Call = {c1, c2}
    Timeout = 1
    Grace = 1
    MaxTime = 1
    NULL = NULL
CONSTRAINT NoDetachedHelper
SYMMETRY CallSymmetry
INVARIANT CoreLimitComesBack
\* calls return, and then nothing may be left to do
CHECK_DEADLOCK FALSE
