SPECIFICATION FairSpec
CONSTANTS
    Files = {f1}
    Uploads = {u1, u2}
    Aliases = {own, alt1, alt2}
    Own = own
    NoFile = NoFile
    MaxVersion = 2
    MaxFaults = 1
    MaxRedo = 0
PROPERTIES LedgerConverges EveryFileJudged
CHECK_DEADLOCK FALSE
