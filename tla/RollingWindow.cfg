SPECIFICATION Spec
CONSTANTS
    Sizes = {20, 100, 140, 380}
    MaxMessages = 4
    MaxContext = 105
INVARIANTS
    LongestTailThatFits
    RejectedOnlyIfIrreducible
    AcceptedLeavesHeadroom
CHECK_DEADLOCK FALSE
