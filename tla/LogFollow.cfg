SPECIFICATION FairLFSpec
CONSTANTS
    Stream <- Streams2
    MaxFragment = 2
    MaxPiece = 1
    Wrap = 1
    Escape = {0, 1}
    HeadLimit = 3
    RingLimit = 3
    MaxSeq = 4
    MaxAttempt = 2
    Mode = {"newest", "all", "step", "none"}
    MaxFollowed = 2
INVARIANTS
    EveryByteIsAccountedFor
    TruncationIsTold
    GapsAreLosses
    FollowerMissesNothing
PROPERTIES
    FollowerEnds
\* the step has ended and the follower with it
CHECK_DEADLOCK FALSE
