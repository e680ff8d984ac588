SPECIFICATION FairSpec
CONSTANTS
    MaxSessions = 2
    MaxFaults = 2
    Faults = {"crash", "detach", "daemon", "power", "late"}
INVARIANT NoSilentReset
INVARIANT SourceNeverOverridesIder
INVARIANT DaemonIsOnFile
INVARIANT ConfirmedMeansBooted
PROPERTY ResetBootsWhatWasChosen
PROPERTY MediaReleased
CHECK_DEADLOCK FALSE
