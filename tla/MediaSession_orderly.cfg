SPECIFICATION Spec
CONSTANTS
    Pids = {p1, p2}
    Callers = {c1}
    NoPid = NoPid
    ConnectErrors = {"authentication"}
    Serial = TRUE
    PromptStop = TRUE
    Crashes = TRUE
    Interrupts = FALSE
    PidReuse = TRUE
SYMMETRY Symmetry
INVARIANT SingleDaemon
INVARIANT ReceiptIsOwn
INVARIANT VerdictSticks
INVARIANT FailureClassIsDaemons
PROPERTY CleanDetach
PROPERTY CheckModeHarmless
