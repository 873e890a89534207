\* Two plans compete for the slot; no disk failure.
CONSTANTS
    Actions = {p1, p2}
    MaxActions = 2
    Calls = 2
    NoPlan = NoPlan
    LateRaise = FALSE
    AuditMayFail = FALSE
    Requests = {q1, q2}
    Operations = {"submit", "cancel"}
    MaxTracked = 1
    MaxDoc = 0
SPECIFICATION Spec
SYMMETRY Symmetry
INVARIANTS
    TypeOK
    NoPlanLost
    RunningHoldsSlot
    SlotCanBeDecided
    StatusTellsDocument
    EvidenceAddsUp
    AuditAgreesWithStatus
PROPERTIES
    KeepsPlanContract
