SPECIFICATION FairSpec
CONSTANTS
    Devices = {d1, d2}
    Connections = {c1}
    Nobody = Nobody
    Writers = {w1, w2}
    MaxEdits = 2
    MaxForms = 1
INVARIANTS TypeOK NumberTellsAll
PROPERTY EveryMachineCatchesUp
CHECK_DEADLOCK FALSE
