SPECIFICATION BeatSpec
CONSTANTS
    Stations = {s1}
    PerStation = 3
    Beat = Beat
    Free = Free
    MaxFaults = 1
    MaxPauses = 1
INVARIANTS TypeOK DrainedOnce NudgeSuffices
PROPERTY ScheduleIsTheNet
CHECK_DEADLOCK FALSE
