\* Three requests, two places in the table, no disk failure.
CONSTANTS
    Actions = {r1, r2, r3}
    Workers = {w1, w2}
    NoRequest = NoRequest
    Reads = {read}
    Mutations = {edit}
    NoCall = NoCall
    MaxTracked = 2
    MaxActions = 3
    AuditMayFail = FALSE
SPECIFICATION Spec
SYMMETRY Symmetry
INVARIANTS
    TypeOK
    NoRequestStranded
    SlotHoldsPendingMutation
    ExclusiveExecution
    HonestSafeState
    AuditAgreesWithAnswers
