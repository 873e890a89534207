\* Violation: the confirmation slot keeps a request the table has forgotten.
CONSTANTS
    Actions = {r1, r2}
    Workers = {w1, w2}
    NoRequest = NoRequest
    Reads = {read}
    Mutations = {edit}
    NoCall = NoCall
    MaxTracked = 1
    MaxActions = 2
    AuditMayFail = TRUE
SPECIFICATION Spec
SYMMETRY Symmetry
INVARIANTS
    SlotCanBeResolved
