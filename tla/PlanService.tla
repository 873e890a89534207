----------------------------- MODULE PlanService ------------------------------
(* orchestration/plan_service.py: a plan of several CAD calls is submitted,   *)
(* may be cancelled from any thread, and is executed on the GUI thread, which  *)
(* undoes the calls it committed when a later one fails.  Every plan has an   *)
(* audit action (AuditTrail).                                                  *)
(*                                                                            *)
(* The module has the service's state and one operator per section under its *)
(* lock or step of its executor; PlanDispatcher, its only caller, composes    *)
(* them into a specification.                                                  *)
(*                                                                            *)
(* The document is the sequence of committed transactions FreeCAD can undo,   *)
(* each marked with the plan it belongs to, "edit" when it came from elsewhere *)
(* and "touch" when a call of a plan committed without changing anything.     *)
EXTENDS AuditTrail, SequencesExt

CONSTANTS
    Calls,           \* the calls of a plan, at most MAX_COMPOSITE_CALLS
    NoPlan,          \* "no plan"
    LateRaise,       \* may a handler raise after it committed?
    AuditMayFail     \* may a save raise for a reason of the disk?

\* One audit action per plan; retention is outside the question asked here.
Plans == Actions

ASSUME PlanAssumption ==
    /\ Calls \in 2..8
    /\ NoPlan \notin Plans
    /\ LateRaise \in BOOLEAN
    /\ AuditMayFail \in BOOLEAN

VARIABLES
    snapshot,     \* _status: what clients are told of a plan
    cancelled,    \* _cancelled
    base,         \* the content of the document each plan was made for
    traces,       \* _plan_traces: how many transactions were committed, undone
    trail,        \* the audit service and its store
    doc,          \* the document
    gui           \* the GUI thread: its place and its local variables

service == <<snapshot, cancelled, base, traces>>

-------------------------------------------------------------------------------
(* Types *)

FinalStatuses == {"completed", "rolled_back", "cancelled", "failed"}

PlanStatuses == {"unknown", "awaiting_approval", "running"} \cup FinalStatuses

ErrorCodes == {"none", "cancelled", "execution_failed", "rollback_failed",
               "precondition_failed"}

Snapshots == [status : PlanStatuses, done : Nat, error : ErrorCodes]

Unsubmitted == [status |-> "unknown", done |-> 0, error |-> "none"]

Awaiting == [status |-> "awaiting_approval", done |-> 0, error |-> "none"]

Traces == [committed : Nat, undone : Nat]

Marks == Plans \cup {"edit", "touch"}

\* Ways the executor leaves execute(): it returns, or raises CompositePlanError,
\* CompositeRollbackError, or anything else.
Endings == {"none", "returned", "plan_error", "rollback_error", "other_error"}

ExecutorStages == {"check", "call", "validate", "finish", "undo", "verify",
                   "settle", "audit", "release"}

Stages == {"idle", "present", "deny", "start", "closing"} \cup ExecutorStages

\* committed: the calls in "committed"; left: those still to be undone; start: the
\* document when execution began (its content is "baseline"); todo: what close()
\* still has to cancel.
GuiStates == [stage : Stages, plan : Plans \cup {NoPlan}, committed : Nat, left : Nat,
              start : Seq(Marks), ending : Endings, todo : SUBSET Plans]

IdleGui == [stage |-> "idle", plan |-> NoPlan, committed |-> 0, left |-> 0,
            start |-> <<>>, ending |-> "none", todo |-> {}]

\* The GUI thread leaves the event loop to work on a plan.
Busy(stage, p) == [IdleGui EXCEPT !.stage = stage, !.plan = p]

\* What the document fingerprint tells apart: the transactions that changed
\* something, in their order.
Content(d) ==
    LET real == {i \in 1..Len(d) : d[i] # "touch"}
    IN  {<<Cardinality({j \in real : j <= i}), d[i]>> : i \in real}

Contents == SUBSET (Nat \X Marks)

ServiceInit ==
    /\ snapshot = [p \in Plans |-> Unsubmitted]
    /\ cancelled = {}
    /\ base = [p \in Plans |-> {}]
    /\ traces = [p \in Plans |-> [committed |-> 0, undone |-> 0]]
    /\ trail = EmptyTrail
    /\ doc = <<>>

-------------------------------------------------------------------------------
(* submit, get_status and cancel, on any thread *)

Known(p) == snapshot[p].status # "unknown"

Waiting(p) == snapshot[p].status = "awaiting_approval"

\* A new plan.  The client made it for a content the document had; if it changes
\* before execution the plan is stale.  A known plan is left as it is.  When
\* begin_plan raises nothing is left: a file it may have written belongs to no plan,
\* since every attempt draws a new action identifier.
SubmitPlan(p) ==
    /\ snapshot' = IF Known(p) THEN snapshot ELSE [snapshot EXCEPT ![p] = Awaiting]
    /\ base' = IF Known(p) THEN base ELSE [base EXCEPT ![p] = Content(doc)]
    /\ trail' = IF Known(p) THEN trail ELSE Begun(trail, p, "pending")
    /\ UNCHANGED <<cancelled, traces>>

\* cancel() of a known plan, returning.  Only a waiting plan becomes CANCELLED
\* here; a running one is only marked, for the executor to see.
CancelMarks(p) ==
    IF snapshot[p].status \in {"completed", "rolled_back", "failed"} THEN cancelled
    ELSE cancelled \cup {p}

\* Seeded bug: a plan is reported cancelled while it runs.
CancelledSnapshotAlways(p) ==
    IF snapshot[p].status \in {"awaiting_approval", "running"}
    THEN [snapshot EXCEPT ![p].status = "cancelled"]
    ELSE snapshot

CancelledSnapshot(p) ==
    IF Waiting(p) THEN [snapshot EXCEPT ![p].status = "cancelled"] ELSE snapshot

CancelPlan(p, decision) ==
    /\ Waiting(p) => CanCancel(trail, p)
    /\ cancelled' = CancelMarks(p)
    /\ trail' = IF Waiting(p) THEN Cancelled(trail, {p}, decision) ELSE trail
    /\ snapshot' = CancelledSnapshot(p)
    /\ UNCHANGED <<base, traces>>

\* Its audit call raises: the plan is marked but still waits.
CancelPlanRaises(p, decision) ==
    /\ Waiting(p)
    /\ trail' \in TornCancels(trail, p, decision, AuditMayFail)
    /\ cancelled' = CancelMarks(p)
    /\ UNCHANGED <<snapshot, base, traces>>

-------------------------------------------------------------------------------
(* execute, on the GUI thread *)

\* Seeded bug: the cancel mark is not consulted under the lock.
MayStartUnmarked(p) == snapshot[p].status # "completed"

MayStart(p) == snapshot[p].status # "completed" /\ p \notin cancelled

\* The plan is neither completed nor cancelled and its approval is on disk:
\* RUNNING, in the same section.
ExecuteBegins ==
    /\ gui.stage = "start"
    /\ MayStart(gui.plan)
    /\ CanApprove(trail, gui.plan)
    /\ trail' = Approved(trail, gui.plan)
    /\ snapshot' = [snapshot EXCEPT ![gui.plan].status = "running"]
    /\ gui' = [gui EXCEPT !.stage = "check", !.start = doc]
    /\ UNCHANGED <<cancelled, base, traces, doc>>

\* execute() raises before the plan runs; its status stays.
ExecuteRefused ==
    /\ gui.stage = "start"
    /\ \/ /\ ~MayStart(gui.plan) \/ ~CanApprove(trail, gui.plan) \/ AuditMayFail
          /\ trail' = trail
       \/ /\ MayStart(gui.plan) /\ CanApprove(trail, gui.plan) /\ AuditMayFail
          /\ trail' = ApprovedTorn(trail, gui.plan)
    /\ gui' = [gui EXCEPT !.stage = "release"]
    /\ UNCHANGED <<service, doc>>

\* Seeded bug: the baseline is not compared with the plan's.
FreshUnchecked(p) == p \in Plans

\* The state token also covers the selection and a revision, so it may differ
\* while the content is the same.
Fresh(p) == Content(doc) = base[p]

\* authorize, _prevalidate and the baseline.
Check ==
    /\ gui.stage = "check"
    /\ \/ /\ Fresh(gui.plan)
          /\ gui' = [gui EXCEPT !.stage = "call"]
       \/ gui' = [gui EXCEPT !.stage = "settle", !.ending = "other_error"]
    /\ UNCHANGED <<service, trail, doc>>

\* Seeded bug: the last committed call is not undone.
FailingShort(n) ==
    IF n <= 1 THEN [gui EXCEPT !.stage = "settle", !.ending = "plan_error"]
    ELSE [gui EXCEPT !.stage = "undo", !.committed = n, !.left = n - 1]

\* An exception in the loop: what was committed is undone, if anything was.
Failing(n) ==
    IF n = 0 THEN [gui EXCEPT !.stage = "settle", !.ending = "plan_error"]
    ELSE [gui EXCEPT !.stage = "undo", !.committed = n, !.left = n]

\* Seeded bug: the undoing is not recorded.
TracedCommitsOnly(outcome) ==
    [traces EXCEPT ![gui.plan].committed = traces[gui.plan].committed
                                            + (IF outcome = "committed" THEN 1 ELSE 0)]

Traced(outcome) ==
    [traces EXCEPT ![gui.plan] =
        [committed |-> traces[gui.plan].committed + (IF outcome = "committed" THEN 1 ELSE 0),
         undone |-> traces[gui.plan].undone + (IF outcome = "undone" THEN 1 ELSE 0)]]

\* The next call commits one transaction and its handler returns.
CallCommits ==
    /\ gui.stage = "call"
    /\ gui.plan \notin cancelled
    /\ \E m \in {gui.plan, "touch"} : doc' = Append(doc, m)
    /\ traces' = Traced("committed")
    /\ gui' = [gui EXCEPT !.stage = "validate", !.committed = gui.committed + 1]
    /\ UNCHANGED <<snapshot, cancelled, base, trail>>

\* The plan was cancelled, or the handler raises and its transaction is aborted.
CallFails ==
    /\ gui.stage = "call"
    /\ gui' = Failing(gui.committed)
    /\ UNCHANGED <<service, trail, doc>>

\* The handler commits its transaction and then raises: the call is not counted.
CallRaisesLate ==
    /\ gui.stage = "call"
    /\ LateRaise
    /\ gui.plan \notin cancelled
    /\ \E m \in {gui.plan, "touch"} : doc' = Append(doc, m)
    /\ traces' = Traced("committed")
    /\ gui' = Failing(gui.committed)
    /\ UNCHANGED <<snapshot, cancelled, base, trail>>

\* The document is validated after every call.  Progress is recorded when it is
\* valid, and reported to a callback, which may raise.
Validate ==
    /\ gui.stage = "validate"
    /\ \/ /\ snapshot' = [snapshot EXCEPT ![gui.plan].done = gui.committed]
          /\ gui' \in {[gui EXCEPT !.stage = IF gui.committed = Calls THEN "finish" ELSE "call"],
                       Failing(gui.committed)}
       \/ /\ gui' = Failing(gui.committed)
          /\ UNCHANGED snapshot
    /\ UNCHANGED <<cancelled, base, traces, trail, doc>>

\* After the last call the content must differ from the baseline's.
Finish ==
    /\ gui.stage = "finish"
    /\ \/ /\ Content(doc) # Content(gui.start)
          /\ gui' = [gui EXCEPT !.stage = "settle", !.ending = "returned"]
       \/ gui' = Failing(gui.committed)
    /\ UNCHANGED <<service, trail, doc>>

\* One cad.undo of the rollback: undone, nothing to undo, or raising before or
\* after FreeCAD's own undo.
Undo ==
    /\ gui.stage = "undo"
    /\ \/ /\ doc # <<>>
          /\ doc' = Front(doc)
          /\ traces' = Traced("undone")
          /\ gui' = [gui EXCEPT !.left = gui.left - 1,
                                !.stage = IF gui.left = 1 THEN "verify" ELSE "undo"]
       \/ /\ doc = <<>>
          /\ gui' = [gui EXCEPT !.stage = "settle", !.ending = "rollback_error"]
          /\ UNCHANGED <<doc, traces>>
       \/ /\ doc' \in {doc} \cup {Front(d) : d \in {doc} \ {<<>>}}
          /\ gui' = [gui EXCEPT !.stage = "settle", !.ending = "other_error"]
          /\ UNCHANGED traces
    /\ UNCHANGED <<snapshot, cancelled, base, trail>>

\* Seeded bug: the rollback is believed without looking at the document.
RestoredUnchecked == gui.stage = "verify"

Restored == Content(doc) = Content(gui.start)

\* The baseline must be back: its content, its selection, and a valid document.
Verify ==
    /\ gui.stage = "verify"
    /\ \/ /\ Restored
          /\ gui' = [gui EXCEPT !.stage = "settle", !.ending = "plan_error"]
       \/ gui' = [gui EXCEPT !.stage = "settle", !.ending = "rollback_error"]
       \/ gui' = [gui EXCEPT !.stage = "settle", !.ending = "other_error"]
    /\ UNCHANGED <<service, trail, doc>>

\* Seeded bug: an exception of another kind leaves the plan running.
OutcomeExpectedOnly(p) ==
    CASE gui.ending = "returned" ->
            [status |-> "completed", done |-> Calls, error |-> snapshot[p].error]
      [] gui.ending = "plan_error" ->
            [status |-> "rolled_back", done |-> snapshot[p].done, error |-> "execution_failed"]
      [] gui.ending = "rollback_error" ->
            [status |-> "failed", done |-> snapshot[p].done, error |-> "rollback_failed"]
      [] OTHER -> snapshot[p]

\* What execute() makes of each ending; a plan cancelled meanwhile is CANCELLED
\* once it is rolled back.
Outcome(p) ==
    CASE gui.ending = "returned" ->
            [status |-> "completed", done |-> Calls, error |-> snapshot[p].error]
      [] gui.ending = "plan_error" /\ p \in cancelled ->
            [status |-> "cancelled", done |-> snapshot[p].done, error |-> "cancelled"]
      [] gui.ending = "plan_error" /\ p \notin cancelled ->
            [status |-> "rolled_back", done |-> snapshot[p].done, error |-> "execution_failed"]
      [] gui.ending = "rollback_error" ->
            [status |-> "failed", done |-> snapshot[p].done, error |-> "rollback_failed"]
      [] OTHER ->
            [status |-> "failed", done |-> snapshot[p].done, error |-> "precondition_failed"]

Settle ==
    /\ gui.stage = "settle"
    /\ snapshot' = [snapshot EXCEPT ![gui.plan] = Outcome(gui.plan)]
    /\ gui' = [gui EXCEPT !.stage = "audit"]
    /\ UNCHANGED <<cancelled, base, traces, trail, doc>>

\* finish_plan_success and finish_plan_failure record the status just set.  The
\* save raises when the store refuses the revision, or before or after it reached
\* the disk.
FinalRecord(p) == Finished(trail.mem[p], snapshot[p].status)

SaveFinish ==
    LET p == gui.plan
        accepted == Accepts(trail, p, FinalRecord(p))
        stored == Stored(trail, p, FinalRecord(p))
    IN  /\ gui.stage = "audit"
        /\ \/ accepted /\ trail' = Remembered(stored, p, FinalRecord(p))
           \/ accepted /\ AuditMayFail /\ trail' \in {trail, stored}
           \/ ~accepted /\ trail' = trail
        /\ gui' = [gui EXCEPT !.stage = "release"]
        /\ UNCHANGED <<service, doc>>

ExecutorStep ==
    \/ ExecuteBegins \/ ExecuteRefused \/ Check
    \/ CallCommits \/ CallFails \/ CallRaisesLate \/ Validate \/ Finish
    \/ Undo \/ Verify \/ Settle \/ SaveFinish

=============================================================================
