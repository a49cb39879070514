SPECIFICATION PromptRSpec
CONSTANTS
    Call = {c1}
    Timeout = 2
    Grace = 2
    MaxTime = 4
    NULL = NULL
INVARIANT SignalWasOurs
\* calls return, and then nothing may be left to do
CHECK_DEADLOCK FALSE
