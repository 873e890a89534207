\* Progress under the GUI timer.  No symmetry: it is unsound for liveness.
CONSTANTS
    Actions = {r1, r2}
    Workers = {w1, w2}
    NoRequest = NoRequest
    Reads = {read}
    Mutations = {edit}
    NoCall = NoCall
    MaxTracked = 1
    MaxActions = 2
    AuditMayFail = FALSE
SPECIFICATION FairSpec
PROPERTIES
    RequestsSettle
    SlotReleased
