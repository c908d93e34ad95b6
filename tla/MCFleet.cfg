SPECIFICATION FairSpec
CONSTANTS
    Beats = {b1}
    DegradedAfter = 1
    OfflineAfter = 2
    StuckAfter = 1
    Refresh = 1
    Skew = 0
    Never = Never
    MaxLag = 1
    MaxPairs = 1
    MaxUpsets = 1
    Prompt = TRUE
INVARIANTS TypeOK LogIsAChain
PROPERTIES SilenceIsNoticed StuckIsNoticed RevokedReadsUnknown EvidenceFollows
CHECK_DEADLOCK FALSE
