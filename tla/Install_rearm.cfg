SPECIFICATION Spec
CONSTANTS
    MaxSessions = 3
    MaxFaults = 2
    Faults = {}
INVARIANT NoSilentRearm
CHECK_DEADLOCK FALSE
