\* One plan, edits around it, and audit saves that may raise, also after writing.
CONSTANTS
    Actions = {p1}
    MaxActions = 1
    Calls = 2
    NoPlan = NoPlan
    LateRaise = FALSE
    AuditMayFail = TRUE
    Requests = {q1, q2}
    Operations = {"submit", "status", "cancel"}
    MaxTracked = 1
    MaxDoc = 2
SPECIFICATION Spec
SYMMETRY Symmetry
INVARIANTS
    ToldStaysTrue
    AppliedOnItsBase
PROPERTIES
    EndIsFinal
    StartsNeedApproval
