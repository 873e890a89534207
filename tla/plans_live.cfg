\* Automatic approval; a handler may raise after its commit.
CONSTANTS
    Actions = {p1, p2}
    MaxActions = 2
    Calls = 2
    NoPlan = NoPlan
    LateRaise = TRUE
    AuditMayFail = FALSE
    Requests = {q1, q2}
    Operations = {"submit"}
    MaxTracked = 1
    MaxDoc = 0
SPECIFICATION AutomaticSpec
INVARIANTS
    RollbackIsVerified
PROPERTIES
    EveryPlanEnds
