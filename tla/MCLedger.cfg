SPECIFICATION Spec
CONSTANTS
    Files = {f1}
    Uploads = {u1, u2}
    Aliases = {own, alt1, alt2, alt3}
    Own = own
    NoFile = NoFile
    MaxVersion = 2
    MaxFaults = 1
    MaxRedo = 1
SYMMETRY Symmetry
CONSTRAINT SomeRowUntainted
INVARIANTS TypeOK VerdictIsTrue BytesAreTheRows NothingLost NoOrphanBytes
PROPERTIES PruneOnlyRedundant DeliveryIsKept
CHECK_DEADLOCK FALSE
