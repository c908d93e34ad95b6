SPECIFICATION FairSpec
CONSTANTS
    MaxRelease = 2
    MaxBuild = 2
    LocalPackages <- OwnMsi
    Kinds = {"msi", "velopack_full"}
    Entries <- AnyEntry
    Unlisted = Unlisted
    Aliases = {own, alt1, alt2}
    Own = own
    NoFile = NoFile
    MirrorLimit = 2
    MaxMoves = 2
    MaxUpsets = 2
    Devices = {d1}
    Tier <- ServiceTier
    Nothing = Nothing
INVARIANTS TypeOK BytesAreStated MirroredIsWhole CleanupIsComplete
PROPERTIES MirrorMovesNoMachine ShelfIsKept UpstreamArrives FleetFollows
CHECK_DEADLOCK FALSE
