SPECIFICATION FairSpec
CONSTANTS
    Machines = {m1, m2}
    Closed = Closed
    MaxCodes = 3
    MaxTokens = 2
    MaxFaults = 1
INVARIANTS TypeOK CodeIsSingleUse EndedStaysEnded RevokeNeedsNewCode PairedIsHeld
PROPERTY CutOffIsLearned
CHECK_DEADLOCK FALSE
