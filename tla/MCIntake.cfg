SPECIFICATION FairSpec
CONSTANTS
    f1 = f1
    f2 = f2
    l1 = l1
    Files = {f1, f2}
    Links = {l1}
    LinkOf <- OneStation
    Day <- OldAndNew
    MaxDay = 2
    Versions = {1, 2, 3}
    Blocks = {1, 2}
    Content <- ThreeContents
    Cap = 1
    PageLimits = {1, 2}
    Raws <- Configured
    Default = 1
    Most = 2
    MaxWrites = 2
    MaxMoves = 2
    MaxFaults = 1
INVARIANTS TypeOK StagedAsPromised SilenceMeansHeld
PROPERTY FolderConverges
