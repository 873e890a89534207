-------------------------- MODULE PlanDispatcherProofs -------------------------
(* Theorems about PlanDispatcher for any number of plans, calls and requests, *)
(* whether or not audit saves fail and handlers raise late.                    *)
EXTENDS PlanDispatcher, FiniteSetTheorems, TLAPS

(* The inductive invariant: the types the argument needs; that the GUI thread  *)
(* works on the plan in the slot; that a plan about to start is still waiting  *)
(* unless a client has cancelled it; and that a plan is running exactly while  *)
(* the executor has not settled how it ended.                                  *)

Types ==
    /\ snapshot \in [Plans -> Snapshots]
    /\ doc \in Seq(Marks)
    /\ gui \in GuiStates
    /\ queue \in Seq(Plans)
    /\ queued \subseteq Plans
    /\ active \in Plans \cup {NoPlan}
    /\ shown \subseteq Plans

GuiHoldsSlot == gui.stage \notin {"idle", "closing"} => gui.plan \in Plans /\ active = gui.plan

StartIsWaiting == gui.stage = "start" => Waiting(gui.plan) \/ gui.plan \in cancelled

RunningStages == ExecutorStages \ {"audit", "release"}

RunsWhileExecuted ==
    \A p \in Plans : snapshot[p].status = "running" <=>
        gui.plan = p /\ gui.stage \in RunningStages

UndosAreLeft == gui.stage = "undo" => gui.left > 0

IInv ==
    /\ Types
    /\ GuiHoldsSlot
    /\ StartIsWaiting
    /\ RunsWhileExecuted
    /\ UndosAreLeft

\* No step of the table or the service revises the end of a plan.
KeepsEnds ==
    \A p \in Plans : snapshot[p].status \in FinalStatuses => snapshot'[p] = snapshot[p]

-------------------------------------------------------------------------------

\* The GUI thread in the event loop, and on its way out of it.
LEMMA IdleGuiType == IdleGui \in GuiStates /\ IdleGui.stage = "idle"
<1>1. <<>> \in Seq(Marks)
    OBVIOUS
<1>. QED  BY <1>1 DEF IdleGui, GuiStates, Stages, Endings

LEMMA BusyType ==
    \A s \in Stages, p \in Plans \cup {NoPlan} :
        Busy(s, p) \in GuiStates /\ Busy(s, p).stage = s /\ Busy(s, p).plan = p
BY IdleGuiType DEF GuiStates, Busy

\* The document after an undo.
LEMMA FrontType ==
    ASSUME NEW d \in Seq(Marks), d # <<>>
    PROVE  Front(d) \in Seq(Marks)
<1>1. Len(d) - 1 \in Nat
    OBVIOUS
<1>2. \A i \in 1..(Len(d) - 1) : d[i] \in Marks
    OBVIOUS
<1>. QED  BY <1>1, <1>2 DEF Front

\* cancel(), whether it returns or raises, ends waiting plans only.
LEMMA CancelOK ==
    ASSUME IInv, NEW p \in Plans, NEW d, CancelPlan(p, d) \/ CancelPlanRaises(p, d)
    PROVE  /\ snapshot' \in [Plans -> Snapshots]
           /\ cancelled \subseteq cancelled'
           /\ KeepsEnds
           /\ \A q \in Plans : snapshot'[q].status = "running" <=> snapshot[q].status = "running"
           /\ \A q \in Plans : Waiting(q) => Waiting(q)' \/ q \in cancelled'
<1>. USE DEF IInv, Types, KeepsEnds, Waiting, Snapshots, PlanStatuses, FinalStatuses
<1>1. CASE CancelPlan(p, d)
    BY <1>1 DEF CancelPlan, CancelledSnapshot, CancelMarks
<1>2. CASE CancelPlanRaises(p, d)
    BY <1>2 DEF CancelPlanRaises, CancelMarks
<1>. QED  BY <1>1, <1>2

\* submit() of the service adds a waiting plan.
LEMMA SubmitOK ==
    ASSUME IInv, NEW p \in Plans, SubmitPlan(p)
    PROVE  /\ snapshot' \in [Plans -> Snapshots]
           /\ KeepsEnds
           /\ \A q \in Plans : snapshot'[q].status = "running" <=> snapshot[q].status = "running"
           /\ \A q \in Plans : Waiting(q) => Waiting(q)'
BY DEF SubmitPlan, IInv, Types, KeepsEnds, Waiting, Known, Awaiting, Snapshots,
       PlanStatuses, FinalStatuses, ErrorCodes

\* Requests of clients, on any thread and at any time.
LEMMA ClientCallOK ==
    ASSUME IInv, ClientCall
    PROVE  IInv' /\ KeepsEnds
<1>. PICK r \in Requests, p \in Plans :
        \/ \E op \in Operations : Repeat(r, op, p) \/ RefuseClosed(r, op, p)
        \/ HandleSubmit(r, p) \/ HandleStatus(r, p) \/ HandleCancel(r, p)
    BY DEF ClientCall
<1>1. CASE UNCHANGED <<service, doc, gui, queue, queued, active, shown>>
    BY <1>1 DEF IInv, Types, GuiHoldsSlot, StartIsWaiting, RunsWhileExecuted, UndosAreLeft,
                KeepsEnds, Waiting, service
<1>2. CASE HandleSubmit(r, p)
    <2>1. queue' \in Seq(Plans) /\ queued' \subseteq Plans
        BY <1>2 DEF HandleSubmit, IInv, Types
    <2>2. UNCHANGED <<cancelled, doc, gui, active, shown>>
        BY <1>2 DEF HandleSubmit, SubmitPlan
    <2>. QED  BY <1>2, <2>1, <2>2, SubmitOK DEF HandleSubmit, IInv, Types, GuiHoldsSlot,
                StartIsWaiting, RunsWhileExecuted, UndosAreLeft
<1>3. CASE HandleCancel(r, p)
    <2>1. CASE CancelPlan(p, "cancelled") \/ CancelPlanRaises(p, "cancelled")
        BY <1>3, <2>1, CancelOK DEF HandleCancel, IInv, Types, GuiHoldsSlot,
                StartIsWaiting, RunsWhileExecuted, UndosAreLeft, Waiting
    <2>2. CASE ~Known(p)
        BY <1>1, <1>3, <2>1, <2>2 DEF HandleCancel
    <2>. QED  BY <1>3, <2>1, <2>2 DEF HandleCancel
<1>4. CASE HandleStatus(r, p)
    BY <1>1, <1>4 DEF HandleStatus
<1>5. CASE \E op \in Operations : Repeat(r, op, p) \/ RefuseClosed(r, op, p)
    BY <1>1, <1>5 DEF Repeat, RefuseClosed
<1>. QED  BY <1>2, <1>3, <1>4, <1>5

-------------------------------------------------------------------------------
(* The GUI thread, outside the executor *)

\* Presenting the next plan: it takes the slot.
LEMMA ProcessNextOK ==
    ASSUME IInv, ProcessNext
    PROVE  IInv' /\ KeepsEnds
<1>. UNCHANGED <<service, doc, shown>> /\ gui.stage = "idle"
    BY DEF ProcessNext
<1>. USE DEF IInv, Types
<1>1. CASE \E k \in 1..Len(queue) :
            /\ queue' = SubSeq(queue, k + 1, Len(queue))
            /\ queued' = queued \ {queue[j] : j \in 1..k}
            /\ active' = queue[k]
            /\ gui' = Busy("present", queue[k])
    <2>. PICK k \in 1..Len(queue) :
            /\ queue' = SubSeq(queue, k + 1, Len(queue))
            /\ queued' = queued \ {queue[j] : j \in 1..k}
            /\ active' = queue[k]
            /\ gui' = Busy("present", queue[k])
        BY <1>1
    <2>1. queue[k] \in Plans /\ "present" \in Stages
        BY DEF Stages
    <2>2. gui' \in GuiStates /\ gui'.stage = "present" /\ gui'.plan = active'
        BY <2>1, BusyType
    <2>3. queue' \in Seq(Plans) /\ queued' \subseteq Plans
        OBVIOUS
    <2>. QED  BY <2>1, <2>2, <2>3 DEF GuiHoldsSlot, StartIsWaiting, RunsWhileExecuted,
                UndosAreLeft, KeepsEnds, service, RunningStages, ExecutorStages
<1>2. CASE queue' = <<>> /\ queued' = queued \ ToSet(queue) /\ UNCHANGED <<active, gui>>
    BY <1>2 DEF GuiHoldsSlot, StartIsWaiting, RunsWhileExecuted, UndosAreLeft, KeepsEnds,
                service, Waiting
<1>. QED  BY <1>1, <1>2 DEF ProcessNext

\* Back to the event loop, from a stage in which no plan runs.
LEMMA IdleOK ==
    ASSUME IInv, gui.stage \notin RunningStages, gui' = IdleGui,
           UNCHANGED <<doc, queue, queued>>,
           snapshot' \in [Plans -> Snapshots],
           active' \in Plans \cup {NoPlan}, shown' \subseteq Plans,
           \A q \in Plans : snapshot'[q].status = "running" <=> snapshot[q].status = "running"
    PROVE  IInv'
<1>1. gui' \in GuiStates /\ gui'.stage = "idle"
    BY IdleGuiType
<1>. QED  BY <1>1 DEF IInv, Types, GuiHoldsSlot, StartIsWaiting, RunsWhileExecuted,
            UndosAreLeft, RunningStages, ExecutorStages

\* The confirmation callback returns or raises.
LEMMA PresentOK ==
    ASSUME IInv, PresentShown \/ PresentRaises
    PROVE  IInv' /\ KeepsEnds
<1>. USE DEF RunningStages, ExecutorStages
<1>1. gui.stage = "present" /\ gui.plan \in Plans
    BY DEF PresentShown, PresentRaises, IInv, GuiHoldsSlot
<1>2. CASE PresentShown
    BY <1>1, <1>2, IdleOK DEF PresentShown, service, IInv, Types, KeepsEnds
<1>3. CASE PresentRaises
    BY <1>1, <1>3, IdleOK, CancelOK DEF PresentRaises, IInv, Types
<1>. QED  BY <1>2, <1>3

\* The user's decision, and a denial.
LEMMA DecisionOK ==
    ASSUME IInv, (\E p \in Plans : DecideStale(p) \/ Decide(p, "deny") \/ Decide(p, "start"))
                 \/ Deny
    PROVE  IInv' /\ KeepsEnds
<1>. USE DEF RunningStages, ExecutorStages
<1>1. CASE \E p \in Plans : DecideStale(p)
    BY <1>1 DEF DecideStale, service, IInv, Types, GuiHoldsSlot, StartIsWaiting,
                RunsWhileExecuted, UndosAreLeft, KeepsEnds
<1>2. ASSUME NEW p \in Plans, NEW stage \in {"deny", "start"}, Decide(p, stage)
      PROVE  IInv' /\ KeepsEnds
    <2>1. gui' \in GuiStates /\ gui'.stage = stage /\ gui'.plan = p
        BY <1>2, BusyType DEF Decide, Stages
    <2>. QED  BY <1>2, <2>1 DEF Decide, dispatcher, service, IInv, Types, GuiHoldsSlot,
                StartIsWaiting, RunsWhileExecuted, UndosAreLeft, KeepsEnds, Waiting
<1>3. CASE Deny
    <2>1. gui.stage = "deny" /\ gui.plan \in Plans
        BY <1>3 DEF Deny, IInv, GuiHoldsSlot
    <2>. QED  BY <1>3, <2>1, IdleOK, CancelOK DEF Deny, IInv, Types
<1>. QED  BY <1>1, <1>2, <1>3

\* The end of an execution.
LEMMA ReleaseOK ==
    ASSUME IInv, Release
    PROVE  IInv' /\ KeepsEnds
BY IdleOK DEF Release, ReleasedActive, service, IInv, Types, KeepsEnds, RunningStages,
              ExecutorStages

\* Closing the bridge.
LEMMA ClosingOK ==
    ASSUME IInv, Close \/ CloseCancels \/ CloseEnds
    PROVE  IInv' /\ KeepsEnds
<1>. USE DEF RunningStages, ExecutorStages
<1>1. CASE Close
    <2>1. "closing" \in Stages /\ active \in Plans \cup {NoPlan}
          /\ queued \cup ({active} \ {NoPlan}) \in SUBSET Plans
        BY DEF Stages, IInv, Types
    <2>2. gui' \in GuiStates /\ gui'.stage = "closing"
        BY <1>1, <2>1, BusyType DEF Close, GuiStates
    <2>. QED  BY <1>1, <2>2 DEF Close, service, IInv, Types, GuiHoldsSlot, StartIsWaiting,
                RunsWhileExecuted, UndosAreLeft, KeepsEnds
<1>2. CASE CloseCancels
    <2>. PICK p \in gui.todo :
            \/ CancelPlan(p, "cancelled") /\ gui' = [gui EXCEPT !.todo = gui.todo \ {p}]
            \/ CancelPlanRaises(p, "cancelled") /\ gui' = IdleGui
        BY <1>2 DEF CloseCancels
    <2>1. p \in Plans /\ gui.stage = "closing" /\ UNCHANGED <<doc, dispatcher>>
        BY <1>2 DEF CloseCancels, IInv, Types, GuiStates
    <2>2. CASE gui' = IdleGui
        BY <2>1, <2>2, IdleOK, CancelOK DEF dispatcher, IInv, Types
    <2>3. CASE gui' = [gui EXCEPT !.todo = gui.todo \ {p}]
        <3>1. gui' \in GuiStates /\ gui'.stage = "closing"
            BY <2>1, <2>3 DEF IInv, Types, GuiStates
        <3>. QED  BY <2>1, <3>1, CancelOK DEF dispatcher, IInv, Types, GuiHoldsSlot,
                StartIsWaiting, RunsWhileExecuted, UndosAreLeft
    <2>. QED  BY <2>2, <2>3
<1>3. CASE CloseEnds
    BY <1>3, IdleOK DEF CloseEnds, dispatcher, service, IInv, Types, KeepsEnds
<1>. QED  BY <1>1, <1>2, <1>3

\* Edits of the document between the executions.
LEMMA EditOK ==
    ASSUME IInv, Edit
    PROVE  IInv' /\ KeepsEnds
<1>1. doc' \in Seq(Marks)
    <2>1. "edit" \in Marks /\ doc \in Seq(Marks)
        BY DEF Marks, IInv, Types
    <2>2. Append(doc, "edit") \in Seq(Marks)
        BY <2>1
    <2>3. doc # <<>> => Front(doc) \in Seq(Marks)
        BY <2>1, FrontType
    <2>. QED  BY <2>2, <2>3 DEF Edit
<1>. QED  BY <1>1 DEF Edit, dispatcher, service, IInv, Types, GuiHoldsSlot, StartIsWaiting,
            RunsWhileExecuted, UndosAreLeft, KeepsEnds, Waiting

-------------------------------------------------------------------------------
(* The executor *)

\* The executor's ways on from one of its stages while the plan runs.
LEMMA RunningGoesOn ==
    ASSUME IInv, gui.stage \in RunningStages, gui' \in GuiStates, gui'.plan = gui.plan,
           gui'.stage \in RunningStages, gui'.stage = "undo" => gui'.left > 0,
           doc' \in Seq(Marks),
           \/ UNCHANGED snapshot
           \/ \E n \in Nat : snapshot' = [snapshot EXCEPT ![gui.plan].done = n],
           UNCHANGED <<cancelled, dispatcher>>
    PROVE  IInv' /\ KeepsEnds
<1>. USE DEF RunningStages, ExecutorStages
<1>1. gui.plan \in Plans /\ active = gui.plan /\ snapshot[gui.plan].status = "running"
    BY DEF IInv, GuiHoldsSlot, RunsWhileExecuted
<1>2. /\ snapshot' \in [Plans -> Snapshots]
      /\ \A q \in Plans : snapshot'[q].status = snapshot[q].status
      /\ \A q \in Plans : q # gui.plan => snapshot'[q] = snapshot[q]
    BY <1>1 DEF IInv, Types, Snapshots
<1>3. KeepsEnds
    BY <1>1, <1>2 DEF KeepsEnds, FinalStatuses
<1>4. Types'
    BY <1>2 DEF IInv, Types, dispatcher
<1>5. GuiHoldsSlot' /\ StartIsWaiting' /\ UndosAreLeft'
    BY <1>1 DEF GuiHoldsSlot, StartIsWaiting, UndosAreLeft, dispatcher
<1>6. RunsWhileExecuted'
    BY <1>1, <1>2 DEF IInv, RunsWhileExecuted
<1>. QED  BY <1>3, <1>4, <1>5, <1>6 DEF IInv

\* An exception in the loop leads to the undoing or to the end.
LEMMA FailingType ==
    ASSUME gui \in GuiStates, NEW n \in Nat
    PROVE  /\ Failing(n) \in GuiStates
           /\ Failing(n).plan = gui.plan
           /\ Failing(n).stage \in {"undo", "settle"}
           /\ Failing(n).stage = "undo" => Failing(n).left > 0
<1>1. CASE n = 0
    <2>1. "settle" \in Stages /\ "plan_error" \in Endings
        BY DEF Stages, ExecutorStages, Endings
    <2>. QED  BY <1>1, <2>1 DEF Failing, GuiStates
<1>2. CASE n # 0
    <2>1. "undo" \in Stages
        BY DEF Stages, ExecutorStages
    <2>2. Failing(n) = [gui EXCEPT !.stage = "undo", !.committed = n, !.left = n]
        BY <1>2 DEF Failing
    <2>3. Failing(n) \in GuiStates
        BY <2>1, <2>2 DEF GuiStates
    <2>4. Failing(n).plan = gui.plan /\ Failing(n).stage = "undo" /\ Failing(n).left = n
        BY <2>2 DEF GuiStates
    <2>. QED  BY <1>2, <2>3, <2>4
<1>. QED  BY <1>1, <1>2

\* The approval starts a plan only if it waits in the slot, uncancelled.
LEMMA BeginsOK ==
    ASSUME IInv, ExecuteBegins, UNCHANGED dispatcher
    PROVE  /\ IInv' /\ KeepsEnds
           /\ Waiting(gui.plan) /\ gui.plan \notin cancelled /\ active = gui.plan
<1>. USE DEF RunningStages, ExecutorStages
<1>1. gui.plan \in Plans /\ active = gui.plan /\ gui.stage = "start"
    BY DEF ExecuteBegins, IInv, GuiHoldsSlot
<1>2. Waiting(gui.plan) /\ gui.plan \notin cancelled
    BY <1>1 DEF ExecuteBegins, MayStart, IInv, StartIsWaiting
<1>3. /\ snapshot' \in [Plans -> Snapshots]
      /\ snapshot'[gui.plan].status = "running"
      /\ \A q \in Plans : q # gui.plan => snapshot'[q] = snapshot[q]
    BY <1>1 DEF ExecuteBegins, IInv, Types, Snapshots, PlanStatuses
<1>4. gui' \in GuiStates /\ gui'.stage = "check" /\ gui'.plan = gui.plan
    BY DEF ExecuteBegins, IInv, Types, GuiStates, Stages
<1>5. KeepsEnds
    BY <1>2, <1>3 DEF KeepsEnds, Waiting, FinalStatuses
<1>6. Types'
    BY <1>3, <1>4 DEF ExecuteBegins, IInv, Types, dispatcher
<1>7. GuiHoldsSlot' /\ StartIsWaiting' /\ UndosAreLeft'
    BY <1>1, <1>4 DEF GuiHoldsSlot, StartIsWaiting, UndosAreLeft, dispatcher
<1>8. RunsWhileExecuted'
    BY <1>1, <1>3, <1>4 DEF IInv, RunsWhileExecuted
<1>. QED  BY <1>1, <1>2, <1>5, <1>6, <1>7, <1>8 DEF IInv

\* execute() raises before the plan runs, or its end has been recorded.
LEMMA AuditEndsOK ==
    ASSUME IInv, ExecuteRefused \/ SaveFinish, UNCHANGED dispatcher
    PROVE  IInv' /\ KeepsEnds
<1>. USE DEF RunningStages, ExecutorStages
<1>1. /\ gui.stage \in {"start", "audit"}
      /\ gui' = [gui EXCEPT !.stage = "release"]
      /\ UNCHANGED <<snapshot, cancelled, doc>>
    BY DEF ExecuteRefused, SaveFinish, service
<1>2. gui' \in GuiStates /\ gui'.stage = "release" /\ gui'.plan = gui.plan
    BY <1>1 DEF IInv, Types, GuiStates, Stages
<1>. QED  BY <1>1, <1>2 DEF IInv, Types, GuiHoldsSlot, StartIsWaiting, RunsWhileExecuted,
            UndosAreLeft, KeepsEnds, dispatcher

\* The steps between the first check and the last verification.
LEMMA LoopOK ==
    ASSUME IInv, UNCHANGED dispatcher,
           \/ Check \/ CallCommits \/ CallFails \/ CallRaisesLate
           \/ Validate \/ Finish \/ Undo \/ Verify
    PROVE  IInv' /\ KeepsEnds
<1>. USE DEF RunningStages, ExecutorStages
<1>1. gui \in GuiStates /\ doc \in Seq(Marks) /\ gui.committed \in Nat /\ gui.left \in Nat
    BY DEF IInv, Types, GuiStates
<1>2. gui.stage \in RunningStages
    BY DEF Check, CallCommits, CallFails, CallRaisesLate, Validate, Finish, Undo, Verify
<1>3. gui.plan \in Plans
    BY <1>2 DEF IInv, GuiHoldsSlot
<1>4. \A m \in {gui.plan, "touch"} : Append(doc, m) \in Seq(Marks)
    BY <1>1, <1>3 DEF Marks
<1>5. CASE Check \/ Verify
    BY <1>1, <1>2, <1>5, RunningGoesOn DEF Check, Verify, service, GuiStates, Stages, Endings
<1>6. CASE CallCommits
    <2>1. doc' \in Seq(Marks)
        BY <1>4, <1>6 DEF CallCommits
    <2>2. gui' \in GuiStates /\ gui'.plan = gui.plan /\ gui'.stage = "validate"
        <3>1. gui' = [gui EXCEPT !.stage = "validate", !.committed = gui.committed + 1]
            BY <1>6 DEF CallCommits
        <3>2. gui.committed + 1 \in Nat /\ "validate" \in Stages
            BY <1>1 DEF Stages
        <3>. QED  BY <1>1, <3>1, <3>2 DEF GuiStates
    <2>. QED  BY <1>2, <1>6, <2>1, <2>2, RunningGoesOn DEF CallCommits
<1>7. CASE CallFails \/ CallRaisesLate
    BY <1>1, <1>2, <1>4, <1>7, FailingType, RunningGoesOn DEF CallFails, CallRaisesLate, service
<1>8. CASE Validate
    <2>1. [gui EXCEPT !.stage = IF gui.committed = Calls THEN "finish" ELSE "call"] \in GuiStates
        BY <1>1 DEF GuiStates, Stages
    <2>. QED  BY <1>1, <1>2, <1>8, <2>1, FailingType, RunningGoesOn DEF Validate, GuiStates
<1>9. CASE Finish
    <2>1. [gui EXCEPT !.stage = "settle", !.ending = "returned"] \in GuiStates
        BY <1>1 DEF GuiStates, Stages, Endings
    <2>. QED  BY <1>1, <1>2, <1>9, <2>1, FailingType, RunningGoesOn DEF Finish, service, GuiStates
<1>10. CASE Undo
    <2>1. gui.left > 0
        BY <1>10 DEF Undo, IInv, UndosAreLeft
    <2>2. doc' \in Seq(Marks)
        BY <1>1, <1>10, FrontType DEF Undo
    <2>3. /\ gui' \in GuiStates /\ gui'.plan = gui.plan /\ gui'.stage \in RunningStages
          /\ gui'.stage = "undo" => gui'.left > 0
        <3>1. {"undo", "verify", "settle"} \subseteq Stages
              /\ {"rollback_error", "other_error"} \subseteq Endings
            BY DEF Stages, Endings
        <3>2. gui.left - 1 \in Nat /\ (gui.left # 1 => gui.left - 1 > 0)
            BY <1>1, <2>1
        <3>. QED  BY <1>1, <1>10, <3>1, <3>2 DEF Undo, GuiStates
    <2>. QED  BY <1>2, <1>10, <2>2, <2>3, RunningGoesOn DEF Undo
<1>. QED  BY <1>5, <1>6, <1>7, <1>8, <1>9, <1>10

\* A plan's end is set once, by the execution that ran it.
LEMMA SettleOK ==
    ASSUME IInv, Settle, UNCHANGED dispatcher
    PROVE  IInv' /\ KeepsEnds
<1>. USE DEF RunningStages, ExecutorStages
<1>1. gui.stage = "settle" /\ gui.plan \in Plans /\ active = gui.plan
      /\ snapshot[gui.plan].status = "running"
    BY DEF Settle, IInv, GuiHoldsSlot, RunsWhileExecuted
<1>2. Outcome(gui.plan) \in Snapshots /\ Outcome(gui.plan).status # "running"
    <2>1. snapshot[gui.plan] \in Snapshots /\ Calls \in Nat
        BY <1>1, PlanAssumption DEF IInv, Types
    <2>. QED  BY <2>1 DEF Outcome, Snapshots, PlanStatuses, FinalStatuses, ErrorCodes
<1>3. /\ snapshot' \in [Plans -> Snapshots]
      /\ snapshot'[gui.plan].status # "running"
      /\ \A q \in Plans : q # gui.plan => snapshot'[q] = snapshot[q]
    BY <1>1, <1>2 DEF Settle, IInv, Types
<1>4. gui' \in GuiStates /\ gui'.stage = "audit" /\ gui'.plan = gui.plan
    BY DEF Settle, IInv, Types, GuiStates, Stages
<1>5. KeepsEnds
    BY <1>1, <1>3 DEF KeepsEnds, FinalStatuses
<1>6. Types'
    BY <1>3, <1>4 DEF Settle, IInv, Types, dispatcher
<1>7. GuiHoldsSlot' /\ StartIsWaiting' /\ UndosAreLeft'
    BY <1>1, <1>4 DEF GuiHoldsSlot, StartIsWaiting, UndosAreLeft, dispatcher
<1>8. RunsWhileExecuted'
    BY <1>1, <1>3, <1>4 DEF IInv, RunsWhileExecuted
<1>. QED  BY <1>5, <1>6, <1>7, <1>8 DEF IInv

LEMMA ExecuteOK ==
    ASSUME IInv, Execute
    PROVE  IInv' /\ KeepsEnds
BY BeginsOK, AuditEndsOK, LoopOK, SettleOK DEF Execute, ExecutorStep

-------------------------------------------------------------------------------
(* The theorems *)

LEMMA InitOK == Init => IInv
BY IdleGuiType DEF Init, ServiceInit, IInv, Types, GuiHoldsSlot, StartIsWaiting,
   RunsWhileExecuted, UndosAreLeft, Unsubmitted, Snapshots, PlanStatuses, ErrorCodes,
   RunningStages, ExecutorStages

LEMMA NextOK ==
    ASSUME IInv, [Next]_vars
    PROVE  IInv' /\ KeepsEnds
<1>1. CASE UNCHANGED vars
    BY <1>1 DEF vars, service, dispatcher, IInv, Types, GuiHoldsSlot, StartIsWaiting,
                RunsWhileExecuted, UndosAreLeft, KeepsEnds, Waiting
<1>2. CASE GuiStep
    BY <1>2, PresentOK, DecisionOK, ExecuteOK, ReleaseOK, ClosingOK DEF GuiStep
<1>. QED  BY <1>1, <1>2, ClientCallOK, ProcessNextOK, DecisionOK, ClosingOK, EditOK DEF Next

THEOREM InductiveInvariant == Spec => []IInv
BY InitOK, NextOK, PTL DEF Spec

\* No two plans run together, and the running one holds the slot, whatever clients
\* submit and cancel and whichever steps fail.
THEOREM SlotIsExclusive == Spec => []RunningHoldsSlot
<1>1. IInv => RunningHoldsSlot
    BY DEF IInv, GuiHoldsSlot, RunsWhileExecuted, RunningHoldsSlot, RunningStages, ExecutorStages
<1>. QED  BY <1>1, InductiveInvariant, PTL

\* What a client was told about the end of a plan is never revised.
THEOREM EndsAreFinal == Spec => EndIsFinal
<1>1. IInv /\ [Next]_vars => [KeepsEnds]_snapshot
    BY NextOK
<1>. QED  BY <1>1, InductiveInvariant, PTL DEF Spec, EndIsFinal, KeepsEnds

-------------------------------------------------------------------------------
(* The books: what the status of a plan says about the document.  The second  *)
(* inductive invariant relates what the executor keeps while it commits and   *)
(* undoes to the document; the contract of composite plans follows from it.   *)

(* The document has n transactions more than when the execution began.         *)
Grown(n) ==
    /\ Len(doc) = Len(gui.start) + n
    /\ \A i \in 1..Len(gui.start) : doc[i] = gui.start[i]

\* A call of the plan in the slot is in the part that has grown.
Marked == \E i \in (Len(gui.start) + 1)..Len(doc) : doc[i] = gui.plan

Unchanged == Content(doc) = Content(gui.start)

OnItsBase == base[gui.plan] = Content(gui.start)

BooksTyped == base \in [Plans -> Contents] /\ traces \in [Plans -> Traces]

\* Nothing is on the books of a plan that was not started.
BlankBefore ==
    \A p \in Plans : snapshot[p].status \in {"unknown", "awaiting_approval"} =>
        traces[p] = [committed |-> 0, undone |-> 0] /\ snapshot[p].error = "none"

WhileChecking ==
    /\ gui.stage \in {"start", "check"} => gui.committed = 0
    /\ gui.stage = "check" => doc = gui.start

\* Between the calls every transaction since the start is a committed call.
WhileCalling ==
    gui.stage \in {"call", "validate", "finish"} =>
        /\ Grown(gui.committed)
        /\ Marked \/ Unchanged
        /\ OnItsBase
        /\ gui.committed <= Calls
        /\ gui.stage = "call" => gui.committed < Calls
        /\ gui.stage = "finish" => gui.committed = Calls

\* What is left to be undone is what is left of the plan, unless a handler raised
\* after its commit.
WhileUndoing ==
    /\ gui.stage = "undo" => gui.left <= gui.committed /\ gui.committed <= Calls
    /\ ~LateRaise /\ gui.stage = "undo" => Grown(gui.left)
    /\ ~LateRaise /\ gui.stage = "verify" => Grown(0)

WhenSettled ==
    gui.stage \in {"settle", "audit"} =>
        /\ gui.ending = "returned" => Grown(Calls) /\ Marked /\ OnItsBase
        /\ gui.ending = "plan_error" =>
            /\ gui.committed > 0 => Unchanged
            /\ ~LateRaise => Grown(0)

\* The status a plan was given is the one its ending calls for.
ToldByEnding ==
    gui.stage = "audit" =>
        /\ snapshot[gui.plan].status \in FinalStatuses
        /\ snapshot[gui.plan].status = "completed" => gui.ending = "returned"
        /\ snapshot[gui.plan].status \in {"rolled_back", "cancelled"} => gui.ending = "plan_error"

\* What the audit was told of the plan in the slot, and that it explains the length
\* of the document.
Committed == traces[gui.plan].committed

Undone == traces[gui.plan].undone

Balanced == Len(doc) + Undone = Len(gui.start) + Committed

BooksAddUp ==
    gui.stage \in ExecutorStages \ {"release"} =>
        \/ gui.stage \in {"settle", "audit"} /\ gui.ending = "other_error"
        \/ Balanced

Books == WhileChecking /\ WhileCalling /\ WhileUndoing /\ WhenSettled /\ BooksAddUp

DInv == BooksTyped /\ BlankBefore /\ Books /\ ToldByEnding

-------------------------------------------------------------------------------
(* Sequences and contents *)

LEMMA FrontFacts ==
    ASSUME NEW d \in Seq(Marks), d # <<>>
    PROVE  /\ Front(d) \in Seq(Marks)
           /\ Len(Front(d)) = Len(d) - 1
           /\ \A i \in 1..(Len(d) - 1) : Front(d)[i] = d[i]
<1>1. Len(d) - 1 \in Nat /\ Len(d) \in Nat
    OBVIOUS
<1>2. \A i \in 1..(Len(d) - 1) : d[i] \in Marks
    OBVIOUS
<1>3. Front(d) = [i \in 1..(Len(d) - 1) |-> d[i]]
    BY <1>1 DEF Front
<1>. QED  BY <1>1, <1>2, <1>3

LEMMA AppendFacts ==
    ASSUME NEW d \in Seq(Marks), NEW m \in Marks
    PROVE  /\ Append(d, m) \in Seq(Marks)
           /\ Len(Append(d, m)) = Len(d) + 1
           /\ \A i \in 1..Len(d) : Append(d, m)[i] = d[i]
           /\ Append(d, m)[Len(d) + 1] = m
OBVIOUS

\* A transaction that changes nothing is not in the content.
LEMMA TouchUnseen ==
    ASSUME NEW d \in Seq(Marks)
    PROVE  Content(Append(d, "touch")) = Content(d)
<1>. DEFINE e == Append(d, "touch")
            Real(s) == {i \in 1..Len(s) : s[i] # "touch"}
<1>1. /\ Len(e) = Len(d) + 1 /\ Len(d) \in Nat
      /\ \A i \in 1..Len(d) : e[i] = d[i]
      /\ e[Len(d) + 1] = "touch"
    BY AppendFacts DEF Marks
<1>. HIDE DEF e
<1>2. Real(e) = Real(d)
    BY <1>1
<1>3. \A i \in Real(d) : e[i] = d[i]
    BY <1>1
<1>. HIDE DEF Real
<1>4. {<<Cardinality({j \in Real(e) : j <= i}), e[i]>> : i \in Real(e)}
      = {<<Cardinality({j \in Real(d) : j <= i}), d[i]>> : i \in Real(d)}
    BY <1>2, <1>3
<1>. QED  BY <1>4 DEF Content, Real, e

LEMMA ContentType ==
    ASSUME NEW d \in Seq(Marks)
    PROVE  Content(d) \in Contents
<1>. DEFINE real == {k \in 1..Len(d) : d[k] # "touch"}
<1>1. \A i \in real : Cardinality({j \in real : j <= i}) \in Nat
    <2>. TAKE i \in real
    <2>. DEFINE upto == {j \in real : j <= i}
    <2>1. IsFiniteSet(1..Len(d)) /\ upto \subseteq 1..Len(d)
        BY FS_Interval
    <2>2. IsFiniteSet(upto)
        BY <2>1, FS_Subset
    <2>. QED  BY <2>2, FS_CardinalityType
<1>2. \A i \in real : d[i] \in Marks
    OBVIOUS
<1>3. \A i \in real : <<Cardinality({j \in real : j <= i}), d[i]>> \in Nat \X Marks
    BY <1>1, <1>2
<1>. HIDE DEF real
<1>4. ASSUME NEW c \in {<<Cardinality({j \in real : j <= i}), d[i]>> : i \in real}
      PROVE  c \in Nat \X Marks
    <2>. PICK i \in real : c = <<Cardinality({j \in real : j <= i}), d[i]>>
        OBVIOUS
    <2>. QED  BY <1>3
<1>5. Content(d) = {<<Cardinality({j \in real : j <= i}), d[i]>> : i \in real}
    BY DEF Content, real
<1>. QED  BY <1>4, <1>5 DEF Contents

-------------------------------------------------------------------------------
(* The steps outside the executor *)

\* What clients, the event loop and the user may do to the books: nothing of a
\* plan that is executed.
KeepsBooks ==
    /\ base' \in [Plans -> Contents]
    /\ \A p \in Plans : Known(p) => base'[p] = base[p]
    /\ \A p \in Plans : snapshot'[p].status \in {"unknown", "awaiting_approval"} =>
            /\ snapshot[p].status \in {"unknown", "awaiting_approval"}
            /\ snapshot'[p].error \in {snapshot[p].error, "none"}
    /\ UNCHANGED traces

LEMMA OutsideOK ==
    ASSUME IInv, DInv, KeepsEnds, KeepsBooks,
           \/ UNCHANGED <<gui, doc>>
           \/ /\ gui'.stage \notin ExecutorStages \ {"release"}
              /\ gui'.stage = "start" => gui'.committed = 0
    PROVE  DInv'
<1>. USE DEF ExecutorStages
<1>1. BooksTyped' /\ BlankBefore'
    BY DEF KeepsBooks, DInv, BooksTyped, BlankBefore
<1>2. CASE gui'.stage \notin ExecutorStages \ {"release"} /\ (gui'.stage = "start" => gui'.committed = 0)
    BY <1>1, <1>2 DEF DInv, Books, ToldByEnding, WhileChecking, WhileCalling, WhileUndoing,
                      WhenSettled, BooksAddUp
<1>3. CASE UNCHANGED <<gui, doc>>
    <2>1. ASSUME gui.stage \in ExecutorStages \ {"release"}
          PROVE  /\ gui.plan \in Plans /\ base'[gui.plan] = base[gui.plan]
                 /\ gui.stage = "audit" => snapshot'[gui.plan] = snapshot[gui.plan]
        <3>1. gui.plan \in Plans
            BY <2>1 DEF IInv, GuiHoldsSlot
        <3>2. Known(gui.plan)
            BY <2>1, <3>1 DEF IInv, RunsWhileExecuted, RunningStages, DInv, ToldByEnding,
                              FinalStatuses, Known
        <3>. QED  BY <2>1, <3>1, <3>2 DEF KeepsBooks, KeepsEnds, DInv, ToldByEnding
    <2>2. UNCHANGED <<gui, doc, traces>>
        BY <1>3 DEF KeepsBooks
    <2>3. WhileChecking' /\ WhileUndoing' /\ BooksAddUp'
        BY <2>2 DEF DInv, Books, WhileChecking, WhileUndoing, BooksAddUp, Balanced, Committed,
                    Undone, Grown
    <2>4. WhileCalling' /\ WhenSettled'
        BY <2>1, <2>2 DEF DInv, Books, WhileCalling, WhenSettled, Grown, Marked, Unchanged, OnItsBase
    <2>5. ToldByEnding'
        BY <2>1, <2>2 DEF DInv, ToldByEnding
    <2>. QED  BY <1>1, <2>3, <2>4, <2>5 DEF DInv, Books
<1>. QED  BY <1>2, <1>3

\* Nothing but submit() writes what a plan is made for.
LEMMA CallsKeepBooks ==
    ASSUME IInv, DInv, NEW p \in Plans, NEW d,
           SubmitPlan(p) \/ CancelPlan(p, d) \/ CancelPlanRaises(p, d)
    PROVE  KeepsBooks
<1>. USE DEF IInv, Types, DInv, BooksTyped, KeepsBooks
<1>1. CASE SubmitPlan(p)
    <2>1. Content(doc) \in Contents
        BY ContentType
    <2>2. base' \in [Plans -> Contents] /\ \A q \in Plans : Known(q) => base'[q] = base[q]
        BY <1>1, <2>1 DEF SubmitPlan
    <2>3. \A q \in Plans : snapshot'[q].status \in {"unknown", "awaiting_approval"} =>
            /\ snapshot[q].status \in {"unknown", "awaiting_approval"}
            /\ snapshot'[q].error \in {snapshot[q].error, "none"}
        BY <1>1 DEF SubmitPlan, Awaiting, Known
    <2>. QED  BY <1>1, <2>2, <2>3 DEF SubmitPlan
<1>2. CASE CancelPlan(p, d)
    BY <1>2 DEF CancelPlan, CancelledSnapshot, Waiting
<1>3. CASE CancelPlanRaises(p, d)
    BY <1>3 DEF CancelPlanRaises
<1>. QED  BY <1>1, <1>2, <1>3

LEMMA UnchangedKeepsBooks ==
    ASSUME DInv, UNCHANGED <<snapshot, base, traces>>
    PROVE  KeepsBooks
BY DEF DInv, BooksTyped, KeepsBooks

\* Back in the event loop no plan is executed.
LEMMA IdleStage == IdleGui.stage \notin ExecutorStages /\ IdleGui.stage # "start"
BY DEF IdleGui, ExecutorStages

LEMMA ClientBooks ==
    ASSUME IInv, DInv, KeepsEnds, ClientCall
    PROVE  DInv'
<1>. PICK r \in Requests, p \in Plans :
        \/ \E op \in Operations : Repeat(r, op, p) \/ RefuseClosed(r, op, p)
        \/ HandleSubmit(r, p) \/ HandleStatus(r, p) \/ HandleCancel(r, p)
    BY DEF ClientCall
<1>1. UNCHANGED <<gui, doc>>
    BY DEF Repeat, RefuseClosed, HandleSubmit, HandleStatus, HandleCancel
<1>2. \/ SubmitPlan(p) \/ CancelPlan(p, "cancelled") \/ CancelPlanRaises(p, "cancelled")
      \/ UNCHANGED <<snapshot, base, traces>>
    BY DEF Repeat, RefuseClosed, HandleSubmit, HandleStatus, HandleCancel, service
<1>. QED  BY <1>1, <1>2, CallsKeepBooks, UnchangedKeepsBooks, OutsideOK

LEMMA EventLoopBooks ==
    ASSUME IInv, DInv, KeepsEnds,
           \/ ProcessNext \/ PresentShown \/ PresentRaises
           \/ \E p \in Plans : DecideStale(p) \/ Decide(p, "deny") \/ Decide(p, "start")
           \/ Deny \/ Release \/ Close \/ CloseCancels \/ CloseEnds \/ Edit
    PROVE  DInv'
<1>. USE DEF service, dispatcher
<1>1. CASE ProcessNext \/ Close \/ \E p \in Plans : Decide(p, "deny") \/ Decide(p, "start")
    <2>1. gui'.stage \notin ExecutorStages /\ (gui'.stage = "start" => gui'.committed = 0)
        BY <1>1 DEF ProcessNext, Close, Decide, Busy, IdleGui, ExecutorStages
    <2>2. UNCHANGED <<snapshot, base, traces>>
        BY <1>1 DEF ProcessNext, Close, Decide
    <2>. QED  BY <2>1, <2>2, UnchangedKeepsBooks, OutsideOK
<1>2. CASE PresentShown \/ Release \/ CloseEnds
    <2>1. gui' = IdleGui /\ UNCHANGED <<snapshot, base, traces>>
        BY <1>2 DEF PresentShown, Release, CloseEnds
    <2>. QED  BY <2>1, IdleStage, UnchangedKeepsBooks, OutsideOK
<1>3. CASE PresentRaises \/ Deny
    <2>1. gui.plan \in Plans
        BY <1>3 DEF PresentRaises, Deny, IInv, GuiHoldsSlot
    <2>2. gui' = IdleGui /\ \E d : CancelPlan(gui.plan, d) \/ CancelPlanRaises(gui.plan, d)
        BY <1>3 DEF PresentRaises, Deny
    <2>. QED  BY <2>1, <2>2, IdleStage, CallsKeepBooks, OutsideOK
<1>4. CASE CloseCancels
    <2>1. PICK p \in gui.todo :
            \/ CancelPlan(p, "cancelled") /\ gui' = [gui EXCEPT !.todo = gui.todo \ {p}]
            \/ CancelPlanRaises(p, "cancelled") /\ gui' = IdleGui
        BY <1>4 DEF CloseCancels
    <2>2. p \in Plans /\ gui.stage = "closing"
        BY <1>4 DEF CloseCancels, IInv, Types, GuiStates
    <2>3. gui'.stage \notin ExecutorStages /\ gui'.stage # "start"
        BY <2>1, <2>2, IdleStage DEF IInv, Types, GuiStates, ExecutorStages
    <2>. QED  BY <2>1, <2>2, <2>3, CallsKeepBooks, OutsideOK
<1>5. CASE Edit \/ \E p \in Plans : DecideStale(p)
    <2>1. gui.stage = "idle" /\ UNCHANGED <<gui, snapshot, base, traces>>
        BY <1>5 DEF Edit, DecideStale
    <2>2. gui'.stage \notin ExecutorStages /\ gui'.stage # "start"
        BY <2>1 DEF ExecutorStages
    <2>. QED  BY <2>1, <2>2, UnchangedKeepsBooks, OutsideOK
<1>. QED  BY <1>1, <1>2, <1>3, <1>4, <1>5

-------------------------------------------------------------------------------
(* The executor *)

\* A step of the executor touches the books of its own plan only, which is running.
LEMMA ExecutorKeepsOthers ==
    ASSUME IInv, DInv, gui.stage \in RunningStages,
           UNCHANGED base, traces' \in [Plans -> Traces],
           snapshot'[gui.plan].status \notin {"unknown", "awaiting_approval"},
           \A q \in Plans : q # gui.plan => traces'[q] = traces[q] /\ snapshot'[q] = snapshot[q]
    PROVE  BooksTyped' /\ BlankBefore'
BY DEF DInv, BooksTyped, BlankBefore

\* The next transaction of the plan.
LEMMA TracedFacts ==
    ASSUME IInv, DInv, gui.plan \in Plans, gui'.plan = gui.plan,
           NEW o \in {"committed", "undone"}, traces' = Traced(o)
    PROVE  /\ traces' \in [Plans -> Traces]
           /\ \A q \in Plans : q # gui.plan => traces'[q] = traces[q]
           /\ Committed \in Nat /\ Undone \in Nat
           /\ Committed' = Committed + (IF o = "committed" THEN 1 ELSE 0)
           /\ Undone' = Undone + (IF o = "undone" THEN 1 ELSE 0)
<1>1. traces \in [Plans -> Traces] /\ traces[gui.plan].committed \in Nat
      /\ traces[gui.plan].undone \in Nat
    BY DEF DInv, BooksTyped, Traces
<1>. QED  BY <1>1 DEF Traced, Traces, Committed, Undone

LEMMA BeginsBooks ==
    ASSUME IInv, DInv, ExecuteBegins, UNCHANGED dispatcher
    PROVE  DInv'
<1>. USE DEF ExecutorStages
<1>1. gui.plan \in Plans /\ Waiting(gui.plan) /\ gui.stage = "start"
    BY BeginsOK DEF ExecuteBegins, IInv, GuiHoldsSlot
<1>2. /\ gui'.stage = "check" /\ gui'.plan = gui.plan /\ gui'.start = doc
      /\ gui'.committed = gui.committed
    BY DEF ExecuteBegins, IInv, Types, GuiStates
<1>3. UNCHANGED <<base, traces, doc>>
    BY DEF ExecuteBegins
<1>4. /\ snapshot'[gui.plan].status = "running"
      /\ \A q \in Plans : q # gui.plan => snapshot'[q] = snapshot[q]
    BY <1>1 DEF ExecuteBegins, IInv, Types, Snapshots
<1>5. BooksTyped' /\ BlankBefore'
    BY <1>1, <1>3, <1>4 DEF DInv, BooksTyped, BlankBefore
<1>6. traces[gui.plan] = [committed |-> 0, undone |-> 0]
    BY <1>1 DEF DInv, BlankBefore, Waiting
<1>7. WhileChecking' /\ WhileCalling' /\ WhileUndoing' /\ WhenSettled' /\ ToldByEnding'
    BY <1>1, <1>2, <1>3 DEF DInv, Books, WhileChecking, WhileCalling, WhileUndoing,
                            WhenSettled, ToldByEnding
<1>8. BooksAddUp'
    <2>1. Len(doc) \in Nat
        BY DEF IInv, Types
    <2>. QED  BY <1>2, <1>3, <1>6, <2>1 DEF BooksAddUp, Balanced, Committed, Undone
<1>. QED  BY <1>5, <1>7, <1>8 DEF DInv, Books

\* Refused before it runs, or recorded after it ended: nothing of it is claimed.
LEMMA LeavesBooks ==
    ASSUME IInv, DInv, KeepsEnds, ExecuteRefused \/ SaveFinish
    PROVE  DInv'
<1>1. gui'.stage = "release" /\ UNCHANGED <<snapshot, base, traces>>
    BY DEF ExecuteRefused, SaveFinish, service, IInv, Types, GuiStates
<1>. QED  BY <1>1, UnchangedKeepsBooks, OutsideOK

LEMMA CheckBooks ==
    ASSUME IInv, DInv, Check
    PROVE  DInv'
<1>. USE DEF ExecutorStages
<1>1. /\ gui.stage = "check" /\ gui.plan \in Plans /\ snapshot[gui.plan].status = "running"
      /\ UNCHANGED <<snapshot, base, traces, doc>>
    BY DEF Check, service, IInv, GuiHoldsSlot, RunsWhileExecuted, RunningStages
<1>2. doc = gui.start /\ gui.committed = 0
    BY <1>1 DEF DInv, Books, WhileChecking
<1>3. BooksTyped' /\ BlankBefore'
    BY <1>1 DEF DInv, BooksTyped, BlankBefore
<1>4. Len(doc) \in Nat /\ Calls \in Nat /\ 0 < Calls /\ gui \in GuiStates
    BY PlanAssumption DEF IInv, Types
<1>5. CASE Fresh(gui.plan) /\ gui' = [gui EXCEPT !.stage = "call"]
    <2>1. gui'.stage = "call" /\ gui'.plan = gui.plan /\ gui'.start = gui.start
          /\ gui'.committed = 0
        BY <1>2, <1>4, <1>5 DEF GuiStates
    <2>2. WhileCalling'
        BY <1>1, <1>2, <1>4, <1>5, <2>1 DEF WhileCalling, Grown, Unchanged, OnItsBase, Fresh
    <2>3. BooksAddUp'
        BY <1>1, <1>2, <2>1 DEF DInv, Books, BooksAddUp, Balanced, Committed, Undone
    <2>. QED  BY <1>3, <2>1, <2>2, <2>3 DEF DInv, Books, WhileChecking, WhileUndoing,
                    WhenSettled, ToldByEnding
<1>6. CASE gui' = [gui EXCEPT !.stage = "settle", !.ending = "other_error"]
    <2>1. gui'.stage = "settle" /\ gui'.ending = "other_error"
        BY <1>4, <1>6 DEF GuiStates
    <2>. QED  BY <1>3, <2>1 DEF DInv, Books, WhileChecking, WhileCalling, WhileUndoing,
                    WhenSettled, ToldByEnding, BooksAddUp
<1>. QED  BY <1>5, <1>6 DEF Check

LEMMA FailingKeeps ==
    ASSUME gui \in GuiStates, NEW n \in Nat
    PROVE  Failing(n).plan = gui.plan /\ Failing(n).start = gui.start
BY DEF Failing, GuiStates

\* An exception in the loop: what is left to be undone is what was counted.
LEMMA FailingBooks ==
    ASSUME gui \in GuiStates, gui' = Failing(gui.committed), gui.committed <= Calls,
           ~LateRaise => /\ Len(doc') = Len(gui.start) + gui.committed
                         /\ \A i \in 1..Len(gui.start) : doc'[i] = gui.start[i],
           Balanced'
    PROVE  Books' /\ ToldByEnding'
<1>. USE DEF Books, WhileChecking, WhileCalling, WhileUndoing, WhenSettled, BooksAddUp,
             ToldByEnding, Grown, ExecutorStages
<1>1. gui.committed \in Nat
    BY DEF GuiStates
<1>2. CASE gui.committed = 0
    <2>1. /\ gui'.stage = "settle" /\ gui'.ending = "plan_error" /\ gui'.committed = 0
          /\ gui'.plan = gui.plan /\ gui'.start = gui.start
        BY <1>2 DEF Failing, GuiStates
    <2>. QED  BY <1>2, <2>1
<1>3. CASE gui.committed # 0
    <2>1. /\ gui'.stage = "undo" /\ gui'.committed = gui.committed /\ gui'.left = gui.committed
          /\ gui'.plan = gui.plan /\ gui'.start = gui.start
        BY <1>3 DEF Failing, GuiStates
    <2>. QED  BY <1>1, <2>1
<1>. QED  BY <1>2, <1>3

\* What holds between the calls.
LEMMA CallingFacts ==
    ASSUME IInv, DInv, gui.stage \in {"call", "validate", "finish"}
    PROVE  /\ gui.plan \in Plans /\ snapshot[gui.plan].status = "running"
           /\ gui \in GuiStates /\ gui.committed \in Nat /\ gui.committed <= Calls
           /\ doc \in Seq(Marks) /\ Len(doc) \in Nat /\ Len(gui.start) \in Nat
           /\ Grown(gui.committed)
           /\ Marked \/ Unchanged
           /\ OnItsBase
           /\ Balanced
<1>. USE DEF ExecutorStages
<1>1. gui.plan \in Plans /\ snapshot[gui.plan].status = "running"
    BY DEF IInv, GuiHoldsSlot, RunsWhileExecuted, RunningStages
<1>2. gui \in GuiStates /\ gui.committed \in Nat /\ gui.start \in Seq(Marks) /\ doc \in Seq(Marks)
    BY DEF IInv, Types, GuiStates
<1>3. Len(doc) \in Nat /\ Len(gui.start) \in Nat
    BY <1>2
<1>. QED  BY <1>1, <1>2, <1>3 DEF DInv, Books, WhileCalling, BooksAddUp

LEMMA CommitBooks ==
    ASSUME IInv, DInv, CallCommits
    PROVE  DInv'
<1>. USE DEF ExecutorStages
<1>1. gui.stage = "call" /\ gui.committed < Calls /\ UNCHANGED <<snapshot, base>>
    BY DEF CallCommits, DInv, Books, WhileCalling
<1>2. PICK m \in {gui.plan, "touch"} : doc' = Append(doc, m)
    BY DEF CallCommits
<1>3. /\ gui'.stage = "validate" /\ gui'.committed = gui.committed + 1
      /\ gui'.plan = gui.plan /\ gui'.start = gui.start
    BY <1>1, CallingFacts DEF CallCommits, GuiStates
<1>4. m \in Marks
    BY <1>1, CallingFacts DEF Marks
<1>5. /\ Len(doc') = Len(doc) + 1
      /\ \A i \in 1..Len(doc) : doc'[i] = doc[i]
      /\ doc'[Len(doc) + 1] = m
    BY <1>1, <1>2, <1>4, CallingFacts, AppendFacts
<1>6. BooksTyped' /\ BlankBefore'
    BY <1>1, CallingFacts, TracedFacts, ExecutorKeepsOthers DEF CallCommits, RunningStages
<1>7. Grown(gui.committed)' /\ gui'.committed <= Calls
    <2>1. Calls \in Nat
        BY PlanAssumption
    <2>2. /\ Len(doc') = Len(gui.start) + gui'.committed
          /\ Len(gui.start) <= Len(doc)
        <3>. DEFINE before == Len(gui.start)
                    n == gui.committed
        <3>1. before \in Nat /\ n \in Nat /\ Len(doc) = before + n
            BY <1>1, CallingFacts DEF Grown
        <3>. HIDE DEF before, n
        <3>2. (before + n) + 1 = before + (n + 1) /\ before <= before + n
            BY <3>1
        <3>. QED  BY <1>3, <1>5, <3>1, <3>2, Zenon DEF before, n
    <2>3. \A i \in 1..Len(gui.start) : doc'[i] = gui.start[i]
        BY <1>1, <1>5, <2>2, CallingFacts DEF Grown
    <2>. QED  BY <1>1, <1>3, <2>1, <2>2, <2>3, CallingFacts DEF Grown
<1>8. (Marked \/ Unchanged)'
    <2>1. CASE m = gui.plan
        <3>1. Len(doc) + 1 \in (Len(gui.start) + 1)..Len(doc')
            BY <1>1, <1>5, CallingFacts DEF Grown
        <3>. QED  BY <1>3, <1>5, <2>1, <3>1 DEF Marked
    <2>2. CASE m = "touch" /\ Unchanged
        BY <1>1, <1>2, <1>3, <2>2, CallingFacts, TouchUnseen DEF Unchanged
    <2>3. CASE Marked
        <3>1. PICK i \in (Len(gui.start) + 1)..Len(doc) : doc[i] = gui.plan
            BY <2>3 DEF Marked
        <3>2. i \in 1..Len(doc) /\ i \in (Len(gui.start) + 1)..Len(doc')
            BY <1>1, <1>5, CallingFacts
        <3>. QED  BY <1>3, <1>5, <3>1, <3>2 DEF Marked
    <2>. QED  BY <1>1, <2>1, <2>2, <2>3, CallingFacts
<1>9. WhileCalling'
    BY <1>1, <1>3, <1>7, <1>8, CallingFacts DEF WhileCalling, OnItsBase
<1>10. Balanced'
    <2>1. /\ Committed' = Committed + 1 /\ Undone' = Undone
          /\ Committed \in Nat /\ Undone \in Nat
        BY <1>1, <1>3, CallingFacts, TracedFacts DEF CallCommits
    <2>. DEFINE now == Len(doc)
                before == Len(gui.start)
    <2>2. now + Undone = before + Committed /\ now \in Nat /\ before \in Nat
        BY <1>1, CallingFacts DEF Balanced
    <2>. HIDE DEF now, before
    <2>3. (now + 1) + Undone = before + (Committed + 1)
        BY <2>1, <2>2
    <2>. QED  BY <1>3, <1>5, <2>1, <2>3, Zenon DEF Balanced, now, before
<1>. QED  BY <1>3, <1>6, <1>9, <1>10 DEF DInv, Books, WhileChecking, WhileUndoing, WhenSettled,
            ToldByEnding, BooksAddUp

LEMMA CallFailsBooks ==
    ASSUME IInv, DInv, CallFails \/ CallRaisesLate
    PROVE  DInv'
<1>. USE DEF ExecutorStages
<1>1. gui.stage = "call" /\ gui' = Failing(gui.committed) /\ UNCHANGED <<snapshot, base>>
    BY DEF CallFails, CallRaisesLate, service
<1>2. CASE CallFails
    <2>1. UNCHANGED <<doc, traces>>
        BY <1>2 DEF CallFails, service
    <2>0. Balanced'
        BY <1>1, <2>1, CallingFacts, FailingKeeps DEF Balanced, Committed, Undone
    <2>2. Books' /\ ToldByEnding'
        BY <1>1, <2>1, <2>0, CallingFacts, FailingBooks DEF Grown
    <2>3. BooksTyped' /\ BlankBefore'
        BY <1>1, <2>1 DEF DInv, BooksTyped, BlankBefore
    <2>. QED  BY <2>2, <2>3 DEF DInv
<1>3. CASE CallRaisesLate
    <2>1. PICK m \in {gui.plan, "touch"} : doc' = Append(doc, m)
        BY <1>3 DEF CallRaisesLate
    <2>2. Len(doc') = Len(doc) + 1
        <3>1. m \in Marks
            BY <1>1, CallingFacts DEF Marks
        <3>. QED  BY <1>1, <2>1, <3>1, CallingFacts, AppendFacts
    <2>3. Balanced'
        <3>1. gui'.plan = gui.plan /\ gui'.start = gui.start
            BY <1>1, CallingFacts, FailingKeeps
        <3>2. /\ Committed' = Committed + 1 /\ Undone' = Undone
              /\ Committed \in Nat /\ Undone \in Nat
            BY <1>1, <1>3, <3>1, CallingFacts, TracedFacts DEF CallRaisesLate
        <3>. DEFINE now == Len(doc)
                    before == Len(gui.start)
        <3>3. now + Undone = before + Committed /\ now \in Nat /\ before \in Nat
            BY <1>1, CallingFacts DEF Balanced
        <3>. HIDE DEF now, before
        <3>4. (now + 1) + Undone = before + (Committed + 1)
            BY <3>2, <3>3
        <3>. QED  BY <2>2, <3>1, <3>2, <3>4, Zenon DEF Balanced, now, before
    <2>5. Books' /\ ToldByEnding'
        BY <1>1, <1>3, <2>3, CallingFacts, FailingBooks DEF CallRaisesLate
    <2>6. BooksTyped' /\ BlankBefore'
        BY <1>1, <1>3, FailingKeeps, CallingFacts, TracedFacts, ExecutorKeepsOthers DEF CallRaisesLate, RunningStages
    <2>. QED  BY <2>5, <2>6 DEF DInv
<1>. QED  BY <1>2, <1>3

\* The document is not touched by the validation, nor by the last check.
LEMMA ValidateFinishBooks ==
    ASSUME IInv, DInv, Validate \/ Finish
    PROVE  DInv'
<1>. USE DEF ExecutorStages
<1>1. gui.stage \in {"validate", "finish"} /\ UNCHANGED <<base, traces, doc>>
    BY DEF Validate, Finish, service
<1>2. BooksTyped' /\ BlankBefore'
    <2>1. /\ snapshot'[gui.plan].status = "running"
          /\ \A q \in Plans : q # gui.plan => snapshot'[q] = snapshot[q]
        BY <1>1, CallingFacts DEF Validate, Finish, service, IInv, Types, Snapshots
    <2>. QED  BY <1>1, <2>1, ExecutorKeepsOthers DEF RunningStages, DInv, BooksTyped
<1>3. CASE gui' = Failing(gui.committed)
    <2>0. Balanced'
        BY <1>1, <1>3, CallingFacts, FailingKeeps DEF Balanced, Committed, Undone
    <2>1. Books' /\ ToldByEnding'
        BY <1>1, <1>3, <2>0, CallingFacts, FailingBooks DEF Grown
    <2>. QED  BY <1>2, <2>1 DEF DInv
<1>4. CASE Validate /\ gui' = [gui EXCEPT !.stage = IF gui.committed = Calls THEN "finish" ELSE "call"]
    <2>1. /\ gui'.stage = IF gui.committed = Calls THEN "finish" ELSE "call"
          /\ gui'.committed = gui.committed /\ gui'.plan = gui.plan /\ gui'.start = gui.start
        BY <1>1, <1>4, CallingFacts DEF GuiStates
    <2>2. gui.committed # Calls => gui.committed < Calls
        BY <1>1, CallingFacts, PlanAssumption
    <2>3. WhileCalling'
        BY <1>1, <2>1, <2>2, CallingFacts DEF WhileCalling, Grown, Marked, Unchanged, OnItsBase
    <2>4. BooksAddUp'
        BY <1>1, <2>1, CallingFacts DEF BooksAddUp, Balanced, Committed, Undone
    <2>. QED  BY <1>2, <2>1, <2>3, <2>4 DEF DInv, Books, WhileChecking, WhileUndoing,
                    WhenSettled, ToldByEnding
<1>5. CASE /\ Finish /\ Content(doc) # Content(gui.start)
           /\ gui' = [gui EXCEPT !.stage = "settle", !.ending = "returned"]
    <2>1. /\ gui'.stage = "settle" /\ gui'.ending = "returned"
          /\ gui'.plan = gui.plan /\ gui'.start = gui.start
        BY <1>1, <1>5, CallingFacts DEF GuiStates
    <2>2. gui.committed = Calls /\ Marked
        BY <1>1, <1>5, CallingFacts DEF Finish, DInv, Books, WhileCalling, Unchanged
    <2>3. WhenSettled'
        BY <1>1, <2>1, <2>2, CallingFacts DEF WhenSettled, Grown, Marked, OnItsBase
    <2>4. BooksAddUp'
        BY <1>1, <2>1, CallingFacts DEF BooksAddUp, Balanced, Committed, Undone
    <2>. QED  BY <1>2, <2>1, <2>3, <2>4 DEF DInv, Books, WhileChecking, WhileCalling,
                    WhileUndoing, ToldByEnding
<1>. QED  BY <1>3, <1>4, <1>5 DEF Validate, Finish

\* Undoing takes the plan's own transactions back, the last one first.
LEMMA UndoBooks ==
    ASSUME IInv, IInv', DInv, Undo
    PROVE  DInv'
<1>. USE DEF ExecutorStages
<1>1. /\ gui.stage = "undo" /\ gui.plan \in Plans /\ snapshot[gui.plan].status = "running"
      /\ UNCHANGED <<snapshot, base>>
    BY DEF Undo, IInv, GuiHoldsSlot, RunsWhileExecuted, RunningStages
<1>2. /\ gui \in GuiStates /\ gui.left \in Nat /\ gui.committed \in Nat /\ gui.left > 0
      /\ gui.left <= gui.committed /\ gui.committed <= Calls /\ Calls \in Nat
      /\ doc \in Seq(Marks) /\ gui.start \in Seq(Marks)
    BY <1>1, PlanAssumption DEF IInv, Types, GuiStates, UndosAreLeft, DInv, Books, WhileUndoing
<1>3. Balanced /\ (~LateRaise => Grown(gui.left))
    BY <1>1 DEF DInv, Books, WhileUndoing, BooksAddUp
<1>4. CASE /\ doc # <<>> /\ doc' = Front(doc) /\ traces' = Traced("undone")
           /\ gui' = [gui EXCEPT !.left = gui.left - 1,
                                 !.stage = IF gui.left = 1 THEN "verify" ELSE "undo"]
    <2>1. /\ gui'.stage = (IF gui.left = 1 THEN "verify" ELSE "undo")
          /\ gui'.left = gui.left - 1 /\ gui'.plan = gui.plan /\ gui'.start = gui.start
          /\ gui'.committed = gui.committed
        BY <1>2, <1>4 DEF GuiStates
    <2>2. /\ Len(doc') = Len(doc) - 1
          /\ \A i \in 1..(Len(doc) - 1) : doc'[i] = doc[i]
        BY <1>2, <1>4, FrontFacts
    <2>3. /\ traces' \in [Plans -> Traces]
          /\ \A q \in Plans : q # gui.plan => traces'[q] = traces[q]
          /\ Committed' = Committed /\ Undone' = Undone + 1
          /\ Committed \in Nat /\ Undone \in Nat
        BY <1>1, <1>4, <2>1, TracedFacts
    <2>4. BooksTyped' /\ BlankBefore'
        BY <1>1, <2>3, ExecutorKeepsOthers DEF RunningStages
    <2>5. Balanced'
        <3>. DEFINE now == Len(doc)
                    before == Len(gui.start)
        <3>1. now + Undone = before + Committed /\ now \in Nat /\ before \in Nat
            BY <1>2, <1>3 DEF Balanced
        <3>. HIDE DEF now, before
        <3>2. (now - 1) + (Undone + 1) = before + Committed
            BY <2>3, <3>1
        <3>. QED  BY <2>1, <2>2, <2>3, <3>2, Zenon DEF Balanced, now, before
    <2>6. ~LateRaise => Grown(gui.left)'
        <3>. SUFFICES ASSUME ~LateRaise
                      PROVE  Grown(gui.left)'
            OBVIOUS
        <3>. DEFINE before == Len(gui.start)
                    n == gui.left
        <3>1. /\ before \in Nat /\ n \in Nat /\ n > 0 /\ Len(doc) = before + n
              /\ \A i \in 1..before : doc[i] = gui.start[i]
            BY <1>2, <1>3 DEF Grown
        <3>. HIDE DEF before, n
        <3>2. (before + n) - 1 = before + (n - 1) /\ 1..before \subseteq 1..((before + n) - 1)
            BY <3>1
        <3>3. Len(doc') = before + (n - 1)
            BY <2>2, <3>1, <3>2
        <3>4. \A i \in 1..before : doc'[i] = gui.start[i]
            BY <2>2, <3>1, <3>2
        <3>. QED  BY <2>1, <3>3, <3>4 DEF Grown, before, n
    <2>7. CASE gui.left = 1
        <3>1. gui'.stage = "verify" /\ gui'.left = 0
            BY <2>1, <2>7
        <3>2. WhileUndoing'
            BY <2>6, <3>1 DEF WhileUndoing
        <3>. QED  BY <2>4, <2>5, <3>1, <3>2 DEF DInv, Books, WhileChecking, WhileCalling,
                    WhenSettled, BooksAddUp, ToldByEnding
    <2>8. CASE gui.left # 1
        <3>1. gui'.stage = "undo" /\ gui'.left <= gui'.committed /\ gui'.committed <= Calls
            BY <1>2, <2>1, <2>8
        <3>2. WhileUndoing'
            BY <2>6, <3>1 DEF WhileUndoing
        <3>. QED  BY <2>4, <2>5, <3>1, <3>2 DEF DInv, Books, WhileChecking, WhileCalling,
                    WhenSettled, BooksAddUp, ToldByEnding
    <2>. QED  BY <2>7, <2>8
<1>5. CASE \E e \in {"rollback_error", "other_error"} :
            /\ gui' = [gui EXCEPT !.stage = "settle", !.ending = e]
            /\ UNCHANGED traces
            /\ e = "rollback_error" => UNCHANGED doc
    <2>. PICK e \in {"rollback_error", "other_error"} :
            /\ gui' = [gui EXCEPT !.stage = "settle", !.ending = e]
            /\ UNCHANGED traces
            /\ e = "rollback_error" => UNCHANGED doc
        BY <1>5
    <2>1. /\ gui'.stage = "settle" /\ gui'.ending = e
          /\ gui'.plan = gui.plan /\ gui'.start = gui.start
        BY <1>2 DEF GuiStates
    <2>2. BooksTyped' /\ BlankBefore'
        BY <1>1 DEF DInv, BooksTyped, BlankBefore
    <2>3. BooksAddUp'
        BY <1>3, <2>1 DEF BooksAddUp, Balanced, Committed, Undone
    <2>. QED  BY <2>1, <2>2, <2>3 DEF DInv, Books, WhileChecking, WhileCalling, WhileUndoing,
                WhenSettled, ToldByEnding
<1>. QED  BY <1>4, <1>5 DEF Undo

LEMMA VerifyBooks ==
    ASSUME IInv, DInv, Verify
    PROVE  DInv'
<1>. USE DEF ExecutorStages
<1>1. gui.stage = "verify" /\ gui \in GuiStates /\ UNCHANGED <<snapshot, base, traces, doc>>
    BY DEF Verify, service, IInv, Types
<1>2. Balanced /\ (~LateRaise => Grown(0))
    BY <1>1 DEF DInv, Books, WhileUndoing, BooksAddUp
<1>3. BooksTyped' /\ BlankBefore'
    BY <1>1 DEF DInv, BooksTyped, BlankBefore
<1>4. /\ gui'.stage = "settle" /\ gui'.plan = gui.plan /\ gui'.start = gui.start
      /\ gui'.ending \in {"plan_error", "rollback_error", "other_error"}
      /\ gui'.ending = "plan_error" => Restored
    BY <1>1 DEF Verify, GuiStates
<1>5. WhenSettled'
    BY <1>1, <1>2, <1>4 DEF WhenSettled, Grown, Unchanged, Restored
<1>6. BooksAddUp'
    BY <1>1, <1>2, <1>4 DEF BooksAddUp, Balanced, Committed, Undone
<1>. QED  BY <1>3, <1>4, <1>5, <1>6 DEF DInv, Books, WhileChecking, WhileCalling, WhileUndoing,
            ToldByEnding

\* A plan is told what its ending calls for.
LEMMA SettleBooks ==
    ASSUME IInv, DInv, Settle
    PROVE  DInv'
<1>. USE DEF ExecutorStages
<1>1. gui.stage = "settle" /\ gui.plan \in Plans /\ gui \in GuiStates
      /\ UNCHANGED <<base, traces, doc>>
    BY DEF Settle, IInv, GuiHoldsSlot, Types
<1>2. /\ gui'.stage = "audit" /\ gui'.plan = gui.plan /\ gui'.start = gui.start
      /\ gui'.ending = gui.ending /\ gui'.committed = gui.committed
    BY <1>1 DEF Settle, GuiStates
<1>3. /\ Outcome(gui.plan).status \in FinalStatuses
      /\ Outcome(gui.plan).status = "completed" => gui.ending = "returned"
      /\ Outcome(gui.plan).status \in {"rolled_back", "cancelled"} => gui.ending = "plan_error"
    BY DEF Outcome, FinalStatuses
<1>4. /\ snapshot'[gui.plan] = Outcome(gui.plan)
      /\ \A q \in Plans : q # gui.plan => snapshot'[q] = snapshot[q]
    BY <1>1 DEF Settle, IInv, Types
<1>5. BooksTyped' /\ BlankBefore'
    BY <1>1, <1>3, <1>4, ExecutorKeepsOthers DEF RunningStages, DInv, BooksTyped, FinalStatuses
<1>6. ToldByEnding'
    BY <1>2, <1>3, <1>4 DEF ToldByEnding
<1>7. WhenSettled'
    BY <1>1, <1>2 DEF DInv, Books, WhenSettled, Grown, Marked, Unchanged, OnItsBase
<1>8. BooksAddUp'
    BY <1>1, <1>2 DEF DInv, Books, BooksAddUp, Balanced, Committed, Undone
<1>. QED  BY <1>2, <1>5, <1>6, <1>7, <1>8 DEF DInv, Books, WhileChecking, WhileCalling, WhileUndoing

LEMMA BooksInit == Init => DInv
BY DEF Init, ServiceInit, IdleGui, DInv, BooksTyped, BlankBefore, Books, WhileChecking,
       WhileCalling, WhileUndoing, WhenSettled, BooksAddUp, ToldByEnding, Contents, Traces,
       Unsubmitted, ExecutorStages

LEMMA BooksKept ==
    ASSUME IInv, DInv, [Next]_vars
    PROVE  DInv'
<1>1. IInv' /\ KeepsEnds
    BY NextOK
<1>2. CASE UNCHANGED vars
    BY <1>1, <1>2, UnchangedKeepsBooks, OutsideOK DEF vars, service
<1>3. CASE Execute
    BY <1>1, <1>3, BeginsBooks, LeavesBooks, CheckBooks, CommitBooks, CallFailsBooks,
       ValidateFinishBooks, UndoBooks, VerifyBooks, SettleBooks DEF Execute, ExecutorStep
<1>4. CASE Next /\ ~Execute
    BY <1>1, <1>4, ClientBooks, EventLoopBooks DEF Next, GuiStep
<1>. QED  BY <1>2, <1>3, <1>4

THEOREM BooksInvariant == Spec => []DInv
BY InductiveInvariant, BooksInit, BooksKept, PTL DEF Spec

-------------------------------------------------------------------------------
(* What the status of a plan says about the document *)

\* The part of the document that was there when the execution began, and the rest.
LEMMA GrownParts ==
    ASSUME NEW d \in Seq(Marks), NEW s \in Seq(Marks), NEW n \in Nat,
           Len(d) = Len(s) + n, \A i \in 1..Len(s) : d[i] = s[i]
    PROVE  /\ SubSeq(d, 1, Len(s)) = s
           /\ SubSeq(d, 1, Len(d) - n) = s
           /\ \A i \in (Len(s) + 1)..Len(d) : d[i] \in ToSet(SubSeq(d, Len(s) + 1, Len(d)))
<1>1. Len(s) \in Nat /\ Len(d) \in Nat /\ Len(d) - n = Len(s) /\ Len(s) <= Len(d)
    OBVIOUS
<1>2. SubSeq(d, 1, Len(s)) = s
    <2>1. SubSeq(d, 1, Len(s)) = [i \in 1..Len(s) |-> d[i]]
        BY <1>1
    <2>. QED  BY <1>1, <2>1
<1>3. ASSUME NEW i \in (Len(s) + 1)..Len(d)
      PROVE  d[i] \in ToSet(SubSeq(d, Len(s) + 1, Len(d)))
    <2>. DEFINE rest == SubSeq(d, Len(s) + 1, Len(d))
                k == i - Len(s)
    <2>1. k \in 1..Len(rest) /\ rest[k] = d[i]
        BY <1>1
    <2>. HIDE DEF rest, k
    <2>2. d[i] \in ToSet(rest)
        BY <2>1 DEF ToSet
    <2>. QED  BY <2>2 DEF rest
<1>. QED  BY <1>1, <1>2, <1>3

LEMMA AuditStage ==
    ASSUME IInv, DInv, gui.stage = "audit"
    PROVE  /\ doc \in Seq(Marks) /\ gui.start \in Seq(Marks) /\ Calls \in Nat
           /\ gui.plan \in Plans /\ gui.committed \in Nat
           /\ snapshot[gui.plan].status = "completed" =>
                gui.ending = "returned" /\ Grown(Calls) /\ Marked /\ OnItsBase
           /\ snapshot[gui.plan].status \in {"rolled_back", "cancelled"} => gui.ending = "plan_error"
           /\ gui.ending = "plan_error" =>
                /\ gui.committed > 0 => Unchanged
                /\ ~LateRaise => Grown(0)
BY PlanAssumption DEF IInv, Types, GuiStates, GuiHoldsSlot, DInv, Books, WhenSettled, ToldByEnding

\* A document that has not grown is the one the execution began with.
LEMMA GrownZero ==
    ASSUME NEW d \in Seq(Marks), NEW s \in Seq(Marks),
           Len(d) = Len(s), \A i \in 1..Len(s) : d[i] = s[i]
    PROVE  d = s
OBVIOUS

\* COMPLETED tells that all calls of the plan are on top of what was there,
\* ROLLED_BACK and CANCELLED that nothing of it is left; only a handler that raises
\* after its commit can make them lie.
THEOREM StatusIsTrue ==
    ASSUME LateRaise = FALSE
    PROVE  Spec => []StatusTellsDocument
<1>1. IInv /\ DInv => StatusTellsDocument
    <2>. SUFFICES ASSUME IInv, DInv, gui.stage = "audit"
                  PROVE  StatusTellsDocument
        BY DEF StatusTellsDocument
    <2>. DEFINE told == snapshot[gui.plan].status
    <2>1. CASE told = "completed"
        <3>1. /\ Len(doc) = Len(gui.start) + Calls
              /\ SubSeq(doc, 1, Len(gui.start)) = gui.start
              /\ \A i \in (Len(gui.start) + 1)..Len(doc) :
                    doc[i] \in ToSet(SubSeq(doc, Len(gui.start) + 1, Len(doc)))
            BY <2>1, AuditStage, GrownParts DEF Grown
        <3>2. gui.plan \in ToSet(SubSeq(doc, Len(gui.start) + 1, Len(doc)))
            BY <2>1, <3>1, AuditStage DEF Marked
        <3>. QED  BY <2>1, <3>1, <3>2 DEF StatusTellsDocument
    <2>2. CASE told \in {"rolled_back", "cancelled"}
        <3>1. Grown(0) /\ doc \in Seq(Marks) /\ gui.start \in Seq(Marks)
            BY <2>2, AuditStage
        <3>2. Len(doc) = Len(gui.start) /\ \A i \in 1..Len(gui.start) : doc[i] = gui.start[i]
            BY <3>1 DEF Grown
        <3>3. doc = gui.start
            BY <3>1, <3>2, GrownZero
        <3>. QED  BY <2>2, <3>3 DEF StatusTellsDocument
    <2>. QED  BY <2>1, <2>2 DEF StatusTellsDocument
<1>. QED  BY <1>1, InductiveInvariant, BooksInvariant, PTL

\* A rollback that had something to undo is reported only when the document was
\* seen to be back, even if a handler raised after its commit.
THEOREM RollbacksAreVerified == Spec => []RollbackIsVerified
<1>1. IInv /\ DInv => RollbackIsVerified
    BY AuditStage DEF RollbackIsVerified, Unchanged
<1>. QED  BY <1>1, InductiveInvariant, BooksInvariant, PTL

\* A completed plan stands on the content its client made it for.
THEOREM PlansApplyOnTheirBase == Spec => []AppliedOnItsBase
<1>1. IInv /\ DInv => AppliedOnItsBase
    BY AuditStage, GrownParts DEF AppliedOnItsBase, Grown, OnItsBase
<1>. QED  BY <1>1, InductiveInvariant, BooksInvariant, PTL

\* The transactions recorded for the audit account for the document.
THEOREM EvidenceIsComplete == Spec => []EvidenceAddsUp
<1>1. DInv => EvidenceAddsUp
    BY DEF DInv, Books, BooksAddUp, Balanced, Committed, Undone, EvidenceAddsUp, ExecutorStages
<1>. QED  BY <1>1, BooksInvariant, PTL

-------------------------------------------------------------------------------
(* The dispatcher implements the contract of composite plans *)

View == [p \in Plans |-> ContractView(p)]

\* Only the plan p moves in the contract.
LEMMA ViewMoves ==
    ASSUME NEW p \in Plans, NEW moved, ContractView(p)' = moved,
           \A q \in Plans : q # p => ContractView(q)' = ContractView(q)
    PROVE  View' = [View EXCEPT ![p] = moved]
BY DEF View

LEMMA ViewStays ==
    ASSUME \A q \in Plans : ContractView(q)' = ContractView(q)
    PROVE  View' = View
BY DEF View

\* The view of a plan that is not running depends on its status alone.
LEMMA ViewOfOthers ==
    ASSUME NEW q \in Plans, snapshot[q].status # "running",
           snapshot'[q].status = snapshot[q].status, snapshot'[q].error = snapshot[q].error
    PROVE  ContractView(q)' = ContractView(q)
BY DEF ContractView

\* What clients and the event loop do is submitting a plan, dropping one that waits,
\* or nothing the contract speaks of.
LEMMA ServiceKeepsContract ==
    ASSUME IInv, DInv, NEW p \in Plans, NEW d, gui.stage \notin RunningStages \/ UNCHANGED <<gui, doc>>,
           SubmitPlan(p) \/ CancelPlan(p, d) \/ CancelPlanRaises(p, d)
    PROVE  [Contract!Next]_View
<1>. USE DEF IInv, Types
<1>1. ASSUME NEW q \in Plans, q # p
      PROVE  ContractView(q)' = ContractView(q)
    <2>1. snapshot'[q] = snapshot[q]
        BY <1>1 DEF SubmitPlan, CancelPlan, CancelPlanRaises, CancelledSnapshot
    <2>2. snapshot[q].status = "running" => UNCHANGED <<gui, doc>>
        BY DEF RunsWhileExecuted
    <2>. QED  BY <2>1, <2>2 DEF ContractView
<1>2. CASE SubmitPlan(p) /\ ~Known(p)
    <2>1. ContractView(p) = [phase |-> "unknown", applied |-> 0]
        BY <1>2 DEF ContractView, Known
    <2>2. ContractView(p)' = [phase |-> "waiting", applied |-> 0]
        BY <1>2 DEF SubmitPlan, Known, Awaiting, ContractView
    <2>3. Contract!Submit(p)
        BY <1>1, <2>1, <2>2, ViewMoves DEF View, Contract!Submit, Contract!Moves
    <2>. QED  BY <2>3 DEF Contract!Next
<1>3. CASE CancelPlan(p, d) /\ Waiting(p)
    <2>1. snapshot[p].error = "none"
        BY <1>3 DEF Waiting, DInv, BlankBefore
    <2>2. ContractView(p) = [phase |-> "waiting", applied |-> 0]
        BY <1>3 DEF ContractView, Waiting
    <2>3. ContractView(p)' = [phase |-> "dropped", applied |-> 0]
        BY <1>3, <2>1 DEF CancelPlan, CancelledSnapshot, ContractView, Snapshots
    <2>4. Contract!Drop(p)
        BY <1>1, <2>2, <2>3, ViewMoves DEF View, Contract!Drop, Contract!Moves
    <2>. QED  BY <2>4 DEF Contract!Next
<1>4. CASE UNCHANGED snapshot
    <2>1. snapshot[p].status = "running" => UNCHANGED <<gui, doc>>
        BY DEF RunsWhileExecuted
    <2>2. ContractView(p)' = ContractView(p)
        BY <1>4, <2>1 DEF ContractView
    <2>. QED  BY <1>1, <2>2, ViewStays
<1>. QED  BY <1>2, <1>3, <1>4 DEF SubmitPlan, CancelPlan, CancelPlanRaises, CancelledSnapshot

\* Without a plan running, the GUI thread and the document do not matter.
LEMMA IdleKeepsContract ==
    ASSUME IInv, DInv, gui.stage \notin RunningStages, UNCHANGED snapshot
    PROVE  [Contract!Next]_View
<1>1. \A q \in Plans : snapshot[q].status # "running"
    BY DEF IInv, RunsWhileExecuted
<1>. QED  BY <1>1, ViewOfOthers, ViewStays

LEMMA StillKeepsContract ==
    ASSUME UNCHANGED <<snapshot, gui, doc>>
    PROVE  [Contract!Next]_View
BY DEF View, ContractView

\* Outside the executor.
LEMMA OutsideKeepsContract ==
    ASSUME IInv, DInv, Next, ~Execute
    PROVE  [Contract!Next]_View
<1>. USE DEF service, dispatcher, RunningStages, ExecutorStages
<1>1. CASE ClientCall
    <2>. PICK r \in Requests, p \in Plans :
            \/ \E op \in Operations : Repeat(r, op, p) \/ RefuseClosed(r, op, p)
            \/ HandleSubmit(r, p) \/ HandleStatus(r, p) \/ HandleCancel(r, p)
        BY <1>1 DEF ClientCall
    <2>1. UNCHANGED <<gui, doc>>
        BY DEF Repeat, RefuseClosed, HandleSubmit, HandleStatus, HandleCancel
    <2>2. \/ SubmitPlan(p) \/ CancelPlan(p, "cancelled") \/ CancelPlanRaises(p, "cancelled")
          \/ UNCHANGED snapshot
        BY DEF Repeat, RefuseClosed, HandleSubmit, HandleStatus, HandleCancel
    <2>. QED  BY <2>1, <2>2, ServiceKeepsContract, StillKeepsContract
<1>2. CASE PresentRaises \/ Deny
    <2>1. gui.plan \in Plans /\ gui.stage \notin RunningStages
        BY <1>2 DEF PresentRaises, Deny, IInv, GuiHoldsSlot
    <2>2. \E d : CancelPlan(gui.plan, d) \/ CancelPlanRaises(gui.plan, d)
        BY <1>2 DEF PresentRaises, Deny
    <2>. QED  BY <2>1, <2>2, ServiceKeepsContract
<1>3. CASE CloseCancels
    <2>1. PICK p \in gui.todo : CancelPlan(p, "cancelled") \/ CancelPlanRaises(p, "cancelled")
        BY <1>3 DEF CloseCancels
    <2>2. p \in Plans /\ gui.stage \notin RunningStages
        BY <1>3 DEF CloseCancels, IInv, Types, GuiStates
    <2>. QED  BY <2>1, <2>2, ServiceKeepsContract
<1>4. CASE \/ ProcessNext \/ PresentShown \/ Release \/ CloseEnds \/ Close \/ Edit
           \/ \E p \in Plans : DecideStale(p) \/ Decide(p, "deny") \/ Decide(p, "start")
    <2>1. gui.stage \notin RunningStages /\ UNCHANGED snapshot
        BY <1>4 DEF ProcessNext, PresentShown, Release, CloseEnds, Close, Edit, DecideStale, Decide
    <2>. QED  BY <2>1, IdleKeepsContract
<1>. QED  BY <1>1, <1>2, <1>3, <1>4 DEF Next, GuiStep

-------------------------------------------------------------------------------

\* A running plan is seen with the transactions it has in the document.
LEMMA RunningView ==
    ASSUME IInv, gui.stage \in RunningStages
    PROVE  /\ gui.plan \in Plans
           /\ ContractView(gui.plan) = [phase |-> "running", applied |-> Len(doc) - Len(gui.start)]
           /\ \A q \in Plans : q # gui.plan => snapshot[q].status # "running"
<1>1. gui.plan \in Plans /\ snapshot[gui.plan].status = "running"
    BY DEF IInv, GuiHoldsSlot, RunsWhileExecuted, RunningStages, ExecutorStages
<1>. QED  BY <1>1 DEF ContractView, IInv, RunsWhileExecuted

\* Steps of the contract, from how the view of one plan changes.
LEMMA ContractSteps ==
    ASSUME NEW p \in Plans, \A q \in Plans : q # p => ContractView(q)' = ContractView(q),
           NEW phase, NEW a, ContractView(p) = [phase |-> "running", applied |-> a],
           NEW b, ContractView(p)' = [phase |-> phase, applied |-> b],
           \/ phase = "running" /\ a < Calls /\ b = a + 1
           \/ phase = "running" /\ a > 0 /\ b = a - 1
           \/ phase = "running" /\ a = b
           \/ phase = "applied" /\ a = Calls /\ b = Calls
           \/ phase = "undone" /\ a = 0 /\ b = 0
           \/ phase = "unclear" /\ b = 0
    PROVE  [Contract!Next]_View
<1>1. View' = [View EXCEPT ![p] = [phase |-> phase, applied |-> b]]
    BY ViewMoves
<1>2. View[p].phase = "running" /\ View[p].applied = a
    BY DEF View
<1>3. CASE phase = "running" /\ a < Calls /\ b = a + 1
    BY <1>1, <1>2, <1>3 DEF View, Contract!Next, Contract!Apply, Contract!Running
<1>4. CASE phase = "running" /\ a > 0 /\ b = a - 1
    BY <1>1, <1>2, <1>4 DEF View, Contract!Next, Contract!Revert, Contract!Running
<1>5. CASE phase = "running" /\ a = b
    BY <1>5, ViewStays
<1>6. CASE phase = "applied" /\ a = Calls /\ b = Calls
    <2>1. View' = [View EXCEPT ![p] = [phase |-> "applied", applied |-> View[p].applied]]
        BY <1>1, <1>2, <1>6
    <2>. QED  BY <1>2, <1>6, <2>1 DEF View, Contract!Next, Contract!Complete, Contract!Running, Contract!Moves
<1>7. CASE phase = "undone" /\ a = 0 /\ b = 0
    <2>1. View' = [View EXCEPT ![p] = [phase |-> "undone", applied |-> View[p].applied]]
        BY <1>1, <1>2, <1>7
    <2>. QED  BY <1>2, <1>7, <2>1 DEF View, Contract!Next, Contract!RollBack, Contract!Running, Contract!Moves
<1>8. CASE phase = "unclear" /\ b = 0
    BY <1>1, <1>2, <1>8 DEF View, Contract!Next, Contract!GiveUp, Contract!Running
<1>. QED  BY <1>3, <1>4, <1>5, <1>6, <1>7, <1>8

\* While it runs, a plan moves in the contract as the document grows and shrinks.
LEMMA RunningKeepsContract ==
    ASSUME IInv, IInv', gui.stage \in RunningStages, gui'.stage \in RunningStages,
           gui'.plan = gui.plan, gui'.start = gui.start,
           \A q \in Plans : /\ snapshot'[q].status = snapshot[q].status
                            /\ snapshot'[q].error = snapshot[q].error,
           NEW n \in Nat, Calls \in Nat,
           \/ Len(doc') = Len(doc)
           \/ n < Calls /\ Len(doc) = Len(gui.start) + n /\ Len(doc') = Len(doc) + 1
           \/ n > 0 /\ Len(doc) = Len(gui.start) + n /\ Len(doc') = Len(doc) - 1
    PROVE  [Contract!Next]_View
<1>1. PICK p \in Plans : p = gui.plan
    BY RunningView
<1>2. PICK before \in Nat : before = Len(gui.start)
    BY DEF IInv, Types, GuiStates
<1>3. PICK a : a = Len(doc) - before
    OBVIOUS
<1>4. PICK b : b = Len(doc') - before
    OBVIOUS
<1>5. /\ ContractView(p) = [phase |-> "running", applied |-> a]
      /\ ContractView(p)' = [phase |-> "running", applied |-> b]
      /\ \A q \in Plans : q # p => ContractView(q)' = ContractView(q)
    <2>1. snapshot'[p].status = "running"
        BY <1>1 DEF RunsWhileExecuted, IInv
    <2>2. ContractView(p)' = [phase |-> "running", applied |-> b]
        BY <1>1, <1>2, <1>4, <2>1 DEF ContractView
    <2>3. ContractView(p) = [phase |-> "running", applied |-> a]
        BY <1>1, <1>2, <1>3, RunningView
    <2>. QED  BY <1>1, <2>2, <2>3, RunningView, ViewOfOthers
<1>6. a = b \/ (a < Calls /\ b = a + 1) \/ (a > 0 /\ b = a - 1)
    <2>1. CASE Len(doc') = Len(doc)
        BY <1>3, <1>4, <2>1
    <2>2. CASE n < Calls /\ Len(doc) = before + n /\ Len(doc') = Len(doc) + 1
        <3>1. a = (before + n) - before /\ b = ((before + n) + 1) - before
            BY <1>3, <1>4, <2>2
        <3>. QED  BY <2>2, <3>1
    <2>3. CASE n > 0 /\ Len(doc) = before + n /\ Len(doc') = Len(doc) - 1
        <3>1. a = (before + n) - before /\ b = ((before + n) - 1) - before
            BY <1>3, <1>4, <2>3
        <3>. QED  BY <2>3, <3>1
    <2>. QED  BY <1>2, <2>1, <2>2, <2>3
<1>. QED  BY <1>5, <1>6, ContractSteps

\* The approved plan starts when no other one runs.
LEMMA BeginsContract ==
    ASSUME IInv, DInv, ExecuteBegins, UNCHANGED dispatcher
    PROVE  [Contract!Next]_View
<1>1. PICK p \in Plans : p = gui.plan
    BY DEF ExecuteBegins, IInv, GuiHoldsSlot
<1>2. Waiting(p) /\ gui.stage = "start" /\ \A q \in Plans : snapshot[q].status # "running"
    BY <1>1, BeginsOK DEF ExecuteBegins, IInv, RunsWhileExecuted, RunningStages, ExecutorStages
<1>3. /\ snapshot'[p].status = "running"
      /\ \A q \in Plans : q # p => snapshot'[q] = snapshot[q]
      /\ gui'.start = doc /\ doc' = doc
    BY <1>1 DEF ExecuteBegins, IInv, Types, Snapshots, GuiStates
<1>4. \A q \in Plans : q # p => ContractView(q)' = ContractView(q)
    BY <1>2, <1>3, ViewOfOthers
<1>5. ContractView(p) = [phase |-> "waiting", applied |-> 0]
    BY <1>2 DEF ContractView, Waiting
<1>6. ContractView(p)' = [phase |-> "running", applied |-> 0]
    <2>1. Len(doc) - Len(doc) = 0
        BY DEF IInv, Types
    <2>. QED  BY <1>3, <2>1 DEF ContractView
<1>7. View' = [View EXCEPT ![p] = [phase |-> "running", applied |-> 0]]
    BY <1>4, <1>6, ViewMoves
<1>8. \A q \in Plans : View[q].phase # "running"
    <2>1. \A q \in Plans : snapshot[q].status \in PlanStatuses \ {"running"}
        BY <1>2 DEF IInv, Types, Snapshots
    <2>. QED  BY <2>1 DEF View, ContractView, PlanStatuses, FinalStatuses
<1>9. View[p] = [phase |-> "waiting", applied |-> 0]
    BY <1>5 DEF View
<1>10. Contract!Start(p)
    <2>1. View' = [View EXCEPT ![p] = [phase |-> "running", applied |-> View[p].applied]]
        BY <1>7, <1>9
    <2>. QED  BY <1>8, <1>9, <2>1 DEF View, Contract!Start, Contract!Running, Contract!Moves
<1>. QED  BY <1>10 DEF Contract!Next

\* The calls and the undoing.
LEMMA LoopContract ==
    ASSUME LateRaise = FALSE, IInv, IInv', DInv,
           \/ Check \/ CallCommits \/ CallFails \/ CallRaisesLate
           \/ Validate \/ Finish \/ Undo \/ Verify
    PROVE  [Contract!Next]_View
<1>. USE DEF RunningStages, ExecutorStages
<1>1. gui.stage \in RunningStages /\ gui \in GuiStates /\ doc \in Seq(Marks)
      /\ gui.plan \in Plans /\ Calls \in Nat
    BY RunningView, PlanAssumption DEF Check, CallCommits, CallFails, CallRaisesLate, Validate,
                Finish, Undo, Verify, IInv, Types
<1>2. gui.committed \in Nat /\ gui.left \in Nat
    BY <1>1 DEF GuiStates
<1>3. gui'.stage \in RunningStages /\ gui'.plan = gui.plan /\ gui'.start = gui.start
    <2>1. CASE gui' = Failing(gui.committed)
        BY <1>1, <1>2, <2>1, FailingType, FailingKeeps
    <2>2. CASE Check \/ Verify
        BY <1>1, <2>2 DEF Check, Verify, GuiStates
    <2>3. CASE CallCommits
        BY <1>1, <2>3 DEF CallCommits, GuiStates
    <2>4. CASE Undo
        BY <1>1, <2>4 DEF Undo, GuiStates
    <2>5. CASE Validate \/ Finish
        BY <1>1, <2>1, <2>5 DEF Validate, Finish, GuiStates
    <2>. QED  BY <2>1, <2>2, <2>3, <2>4, <2>5 DEF CallFails, CallRaisesLate
<1>4. \A q \in Plans : /\ snapshot'[q].status = snapshot[q].status
                       /\ snapshot'[q].error = snapshot[q].error
    <2>1. CASE Validate
        <3>1. snapshot \in [Plans -> Snapshots]
            BY DEF IInv, Types
        <3>2. UNCHANGED snapshot \/ snapshot' = [snapshot EXCEPT ![gui.plan].done = gui.committed]
            BY <2>1 DEF Validate
        <3>. QED  BY <1>1, <3>1, <3>2 DEF Snapshots
    <2>2. CASE UNCHANGED snapshot
        BY <2>2
    <2>. QED  BY <2>1, <2>2 DEF Check, CallCommits, CallFails, CallRaisesLate, Finish, Undo,
                Verify, service
<1>5. CASE UNCHANGED doc
    BY <1>1, <1>3, <1>4, <1>5, RunningKeepsContract
<1>6. CASE CallCommits
    <2>1. PICK m \in {gui.plan, "touch"} : doc' = Append(doc, m)
        BY <1>6 DEF CallCommits
    <2>2. Len(doc') = Len(doc) + 1
        <3>1. m \in Marks
            BY <1>1 DEF Marks
        <3>. QED  BY <1>1, <2>1, <3>1, AppendFacts
    <2>3. PICK n \in Nat : n = gui.committed
        BY <1>2
    <2>4. Len(doc) = Len(gui.start) + n /\ n < Calls
        BY <1>6, <2>3 DEF CallCommits, DInv, Books, WhileCalling, Grown
    <2>. QED  BY <1>1, <1>3, <1>4, <2>2, <2>4, RunningKeepsContract
<1>7. CASE Undo /\ doc # <<>> /\ doc' = Front(doc)
    <2>1. Len(doc') = Len(doc) - 1
        BY <1>1, <1>7, FrontFacts
    <2>2. PICK n \in Nat : n = gui.left
        BY <1>2
    <2>3. Len(doc) = Len(gui.start) + n /\ n > 0
        BY <1>7, <2>2 DEF Undo, DInv, Books, WhileUndoing, Grown, IInv, UndosAreLeft
    <2>. QED  BY <1>1, <1>3, <1>4, <2>1, <2>3, RunningKeepsContract
<1>. QED  BY <1>5, <1>6, <1>7 DEF Check, CallFails, CallRaisesLate, Validate, Finish, Undo,
            Verify, service

\* A plan's end, as the document justifies it.
LEMMA SettleContract ==
    ASSUME LateRaise = FALSE, IInv, DInv, Settle
    PROVE  [Contract!Next]_View
<1>1. gui.stage = "settle" /\ gui.stage \in RunningStages
    BY DEF Settle, RunningStages, ExecutorStages
<1>2. PICK p \in Plans : p = gui.plan
    BY <1>1, RunningView
<1>3. PICK a : a = Len(doc) - Len(gui.start)
    OBVIOUS
<1>4. /\ ContractView(p) = [phase |-> "running", applied |-> a]
      /\ snapshot'[p] = Outcome(p)
      /\ \A q \in Plans : q # p => snapshot'[q] = snapshot[q] /\ snapshot[q].status # "running"
    BY <1>1, <1>2, <1>3, RunningView DEF Settle, IInv, Types
<1>5. \A q \in Plans : q # p => ContractView(q)' = ContractView(q)
    BY <1>4, ViewOfOthers
<1>6. Len(doc) \in Nat /\ Len(gui.start) \in Nat /\ Calls \in Nat
    BY PlanAssumption DEF IInv, Types, GuiStates
<1>7. CASE gui.ending = "returned"
    <2>1. Len(doc) = Len(gui.start) + Calls
        BY <1>1, <1>7 DEF DInv, Books, WhenSettled, Grown
    <2>2. a = Calls
        BY <1>3, <1>6, <2>1
    <2>3. ContractView(p)' = [phase |-> "applied", applied |-> Calls]
        BY <1>4, <1>7 DEF Outcome, ContractView
    <2>. QED  BY <1>4, <1>5, <2>2, <2>3, ContractSteps
<1>8. CASE gui.ending = "plan_error"
    <2>1. Len(doc) = Len(gui.start) + 0
        BY <1>1, <1>8 DEF DInv, Books, WhenSettled, Grown
    <2>2. a = 0
        BY <1>3, <1>6, <2>1
    <2>3. ContractView(p)' = [phase |-> "undone", applied |-> 0]
        BY <1>4, <1>8 DEF Outcome, ContractView
    <2>. QED  BY <1>4, <1>5, <2>2, <2>3, ContractSteps
<1>9. CASE gui.ending \notin {"returned", "plan_error"}
    <2>1. ContractView(p)' = [phase |-> "unclear", applied |-> 0]
        BY <1>4, <1>9 DEF Outcome, ContractView
    <2>. QED  BY <1>4, <1>5, <2>1, ContractSteps
<1>. QED  BY <1>7, <1>8, <1>9

\* Every behaviour of the dispatcher, its clients, the user and close() is one the
\* contract of composite plans allows, unless a handler raises after its commit.
THEOREM ImplementsContract ==
    ASSUME LateRaise = FALSE
    PROVE  Spec => KeepsPlanContract
<1>1. Init => Contract!Init
    BY DEF Init, ServiceInit, Unsubmitted, ContractView, Contract!Init, Contract!Unknown
<1>2. IInv /\ DInv /\ IInv' /\ [Next]_vars => [Contract!Next]_View
    <2>. SUFFICES ASSUME IInv, DInv, IInv', [Next]_vars
                  PROVE  [Contract!Next]_View
        OBVIOUS
    <2>1. CASE UNCHANGED vars
        BY <2>1, StillKeepsContract DEF vars, service
    <2>2. CASE Next /\ ~Execute
        BY <2>2, OutsideKeepsContract
    <2>3. CASE Execute
        <3>1. CASE ExecuteRefused \/ SaveFinish
            <4>1. gui.stage \notin RunningStages /\ UNCHANGED snapshot
                BY <3>1 DEF ExecuteRefused, SaveFinish, service, RunningStages, ExecutorStages
            <4>. QED  BY <4>1, IdleKeepsContract
        <3>. QED  BY <2>3, <3>1, BeginsContract, LoopContract, SettleContract
                DEF Execute, ExecutorStep
    <2>. QED  BY <2>1, <2>2, <2>3
<1>3. IInv /\ DInv /\ IInv' /\ [Next]_vars => [Contract!Next]_[p \in Plans |-> ContractView(p)]
    BY <1>2 DEF View
<1>. QED  BY <1>1, <1>3, InductiveInvariant, BooksInvariant, PTL DEF Spec, KeepsPlanContract, Contract!Spec

=============================================================================
