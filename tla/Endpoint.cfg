SPECIFICATION Spec
CONSTANTS
    Callers = {k1, k2}
    Tasks <- SomeTasks
    Endpoints <- SomeEndpoints
    PollCount = 2
SYMMETRY Symmetry
INVARIANT LedgerMatches
INVARIANT ReceiptIsReal
INVARIANT ArmedAsPlanned
