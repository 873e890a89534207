\* Retention keeps fewer audit files than the table has places.
CONSTANTS
    Actions = {r1, r2}
    Workers = {w1, w2}
    NoRequest = NoRequest
    Reads = {read}
    Mutations = {edit}
    NoCall = NoCall
    MaxTracked = 2
    MaxActions = 1
    AuditMayFail = TRUE
SPECIFICATION Spec
SYMMETRY Symmetry
INVARIANTS
    AtMostOnce
PROPERTIES
    AuditFilesAdvance
