SPECIFICATION Spec
CONSTANTS
    Machines = {m1}
    Closed = Closed
    MaxCodes = 1
    MaxTokens = 1
    MaxFaults = 0
INVARIANT RevokedStaysOut
CHECK_DEADLOCK FALSE
