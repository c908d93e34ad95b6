SPECIFICATION Spec
CONSTANTS
    Files = {f1}
    Uploads = {u1}
    Aliases = {own, alt1, alt2}
    Own = own
    NoFile = NoFile
    MaxVersion = 2
    MaxFaults = 0
    MaxRedo = 0
INVARIANT ProcessedMeansPersisted
CHECK_DEADLOCK FALSE
