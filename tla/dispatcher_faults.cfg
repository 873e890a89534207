\* Two requests competing for one place while any audit save may fail and the GUI
\* thread may hang.
CONSTANTS
    Actions = {r1, r2}
    Workers = {w1, w2}
    NoRequest = NoRequest
    Reads = {read}
    Mutations = {edit}
    NoCall = NoCall
    MaxTracked = 1
    MaxActions = 2
    AuditMayFail = TRUE
SPECIFICATION HungGuiSpec
INVARIANTS
    MutationKeepsSlot
    NegativeVerdictChangesNothing
PROPERTIES
    AnswersAreFinal
    KeepsContract
    CallsReturn
