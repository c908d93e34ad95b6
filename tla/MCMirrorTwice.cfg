SPECIFICATION Spec
CONSTANTS
    MaxRelease = 2
    MaxBuild = 2
    LocalPackages <- OwnMsi
    Kinds = {"msi", "velopack_full"}
    Entries <- AnyEntry
    Unlisted = Unlisted
    Aliases = {own, alt1, alt2}
    Own = own
    NoFile = NoFile
    MirrorLimit = 2
    MaxMoves = 1
    MaxUpsets = 0
    Devices = {d1}
    Tier <- ServiceTier
    Nothing = Nothing
INVARIANT LeavesNothingBehind
CHECK_DEADLOCK FALSE
