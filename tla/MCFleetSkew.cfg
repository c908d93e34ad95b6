SPECIFICATION Spec
CONSTANTS
    Beats = {b1}
    DegradedAfter = 1
    OfflineAfter = 2
    StuckAfter = 1
    Refresh = 1
    Skew <- Late
    Never = Never
    MaxLag = 1
    MaxPairs = 1
    MaxUpsets = 0
    Prompt = TRUE
INVARIANT SkewIsNotTheVerdict
CHECK_DEADLOCK FALSE
