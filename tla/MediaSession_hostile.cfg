SPECIFICATION FairSpec
CONSTANTS
    Pids = {p1}
    Callers = {c1}
    NoPid = NoPid
    ConnectErrors = {"authentication"}
    Serial = FALSE
    PromptStop = FALSE
    Crashes = TRUE
    Interrupts = TRUE
    PidReuse = TRUE
INVARIANT AttachedIsConfirmed
PROPERTY CallReturns
PROPERTY RefusalEnds
PROPERTY ToggleDecided
PROPERTY StopObeyed
