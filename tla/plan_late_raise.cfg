\* A handler raises after it committed.
CONSTANTS
    Actions = {p1}
    MaxActions = 1
    Calls = 2
    NoPlan = NoPlan
    LateRaise = TRUE
    AuditMayFail = FALSE
    Requests = {q1, q2}
    Operations = {"submit", "cancel"}
    MaxTracked = 1
    MaxDoc = 1
SPECIFICATION Spec
INVARIANTS
    StatusTellsDocument
