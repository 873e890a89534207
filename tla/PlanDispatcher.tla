---------------------------- MODULE PlanDispatcher ----------------------------
(* bridge/plan_dispatcher.py: clients submit, poll and cancel plans on the    *)
(* transport's worker threads; the GUI thread presents one waiting plan at a  *)
(* time, denies it or has PlanService execute it, and cancels what is left    *)
(* when the bridge closes.                                                    *)
(*                                                                            *)
(* A client's call is one section under the dispatcher's lock.  The GUI       *)
(* thread reads a plan's status and acts on it in different steps, and holds  *)
(* no lock while it executes a plan, so clients interleave with every step.   *)
EXTENDS PlanService

CONSTANTS
    Requests,        \* request identifiers
    Operations,      \* what clients ask for
    MaxTracked,      \* max_tracked_requests
    MaxDoc           \* bound of the model: edits stop at this many transactions

ASSUME PlanDispatcherAssumption ==
    /\ Operations \subseteq {"submit", "status", "cancel"}
    /\ MaxTracked \in Nat \ {0}
    /\ MaxDoc \in Nat

VARIABLES
    queue,        \* _queue
    queued,       \* _queued
    active,       \* _active_confirmation
    closed,       \* _closed
    responses,    \* _responses, oldest first
    shown         \* plans handed to the confirmation callback, not resolved yet

dispatcher == <<queue, queued, active, closed, responses, shown>>

vars == <<service, trail, doc, gui, dispatcher>>

\* What a remembered response says: a plan's status, or an error.
Responses == [id : Requests, op : Operations, plan : Plans,
              says : PlanStatuses \cup {"error"}]

TypeOK ==
    /\ snapshot \in [Plans -> Snapshots]
    /\ cancelled \subseteq Plans
    /\ base \in [Plans -> Contents]
    /\ traces \in [Plans -> Traces]
    /\ trail \in Trails
    /\ doc \in Seq(Marks)
    /\ gui \in GuiStates
    /\ gui.stage \notin {"idle", "closing"} => gui.plan \in Plans
    /\ queue \in Seq(Plans)
    /\ queued \subseteq Plans
    /\ active \in Plans \cup {NoPlan}
    /\ closed \in BOOLEAN
    /\ responses \in Seq(Responses)
    /\ Len(responses) <= MaxTracked
    /\ shown \subseteq Plans

Init ==
    /\ ServiceInit
    /\ gui = IdleGui
    /\ queue = <<>>
    /\ queued = {}
    /\ active = NoPlan
    /\ closed = FALSE
    /\ responses = <<>>
    /\ shown = {}

-------------------------------------------------------------------------------
(* submit, on a worker thread *)

\* Seeded bug: the bound of the remembered responses is off by one.
RoomLeftOffByOne == Len(responses) <= MaxTracked

RoomLeft == Len(responses) < MaxTracked

\* _remember forgets the oldest response when there are too many.
Remember(r, op, p, says) ==
    responses' = Append(IF RoomLeft THEN responses ELSE Tail(responses),
                        [id |-> r, op |-> op, plan |-> p, says |-> says])

Repeated(r) == \E i \in 1..Len(responses) : responses[i].id = r

\* A repeated identifier: the remembered response is returned, or an error when
\* the content differs; only a status is read again.
Repeat(r, op, p) ==
    /\ \E i \in 1..Len(responses) :
        /\ responses[i].id = r
        /\ responses' = IF op = "status" /\ responses[i].op = op /\ responses[i].plan = p
                        THEN [responses EXCEPT ![i].says =
                                IF Known(p) THEN snapshot[p].status ELSE "error"]
                        ELSE responses
    /\ UNCHANGED <<service, trail, doc, gui, queue, queued, active, closed, shown>>

RefuseClosed(r, op, p) ==
    /\ ~Repeated(r)
    /\ closed
    /\ Remember(r, op, p, "error")
    /\ UNCHANGED <<service, trail, doc, gui, queue, queued, active, closed, shown>>

\* Seeded bug: a plan the user is looking at is queued again.
NeedsQueueAgain(p) == (~Known(p) \/ Waiting(p)) /\ p \notin queued

\* A submitted plan that waits is queued unless it is queued or presented.
NeedsQueue(p) == (~Known(p) \/ Waiting(p)) /\ p \notin queued /\ active # p

\* (When begin_plan raises, the exception leaves submit and nothing changed.)
HandleSubmit(r, p) ==
    /\ ~Repeated(r)
    /\ ~closed
    /\ SubmitPlan(p)
    /\ queue' = IF NeedsQueue(p) THEN Append(queue, p) ELSE queue
    /\ queued' = IF NeedsQueue(p) THEN queued \cup {p} ELSE queued
    /\ Remember(r, "submit", p, snapshot'[p].status)
    /\ UNCHANGED <<doc, gui, active, closed, shown>>

HandleStatus(r, p) ==
    /\ ~Repeated(r)
    /\ ~closed
    /\ Remember(r, "status", p, IF Known(p) THEN snapshot[p].status ELSE "error")
    /\ UNCHANGED <<service, trail, doc, gui, queue, queued, active, closed, shown>>

\* When the audit raises the exception leaves submit and nothing is remembered.
HandleCancel(r, p) ==
    /\ ~Repeated(r)
    /\ ~closed
    /\ \/ /\ Known(p)
          /\ CancelPlan(p, "cancelled")
          /\ Remember(r, "cancel", p, snapshot'[p].status)
       \/ /\ Known(p)
          /\ CancelPlanRaises(p, "cancelled")
          /\ UNCHANGED responses
       \/ /\ ~Known(p)
          /\ Remember(r, "cancel", p, "error")
          /\ UNCHANGED <<service, trail>>
    /\ UNCHANGED <<doc, gui, queue, queued, active, closed, shown>>

-------------------------------------------------------------------------------
(* process_next, on the GUI timer *)

Presentable(k) ==
    /\ k \in 1..Len(queue)
    /\ Waiting(queue[k])
    /\ \A j \in 1..(k - 1) : ~Waiting(queue[j])

\* The first queued plan that still waits is presented; those before it are dropped.
ProcessNext ==
    /\ gui.stage = "idle"
    /\ active = NoPlan
    /\ \/ \E k \in 1..Len(queue) :
            /\ Presentable(k)
            /\ queue' = SubSeq(queue, k + 1, Len(queue))
            /\ queued' = queued \ {queue[j] : j \in 1..k}
            /\ active' = queue[k]
            /\ gui' = Busy("present", queue[k])
       \/ /\ \A k \in 1..Len(queue) : ~Presentable(k)
          /\ queue' = <<>>
          /\ queued' = queued \ ToSet(queue)
          /\ UNCHANGED <<active, gui>>
    /\ UNCHANGED <<service, trail, doc, closed, responses, shown>>

PresentShown ==
    /\ gui.stage = "present"
    /\ shown' = shown \cup {gui.plan}
    /\ gui' = IdleGui
    /\ UNCHANGED <<service, trail, doc, queue, queued, active, closed, responses>>

\* The callback raises: the plan is cancelled and the slot released.  If the
\* cancellation raises as well, process_next is abandoned.
PresentRaises ==
    /\ gui.stage = "present"
    /\ \/ /\ CancelPlan(gui.plan, "cancelled")
          /\ active' = NoPlan
       \/ /\ CancelPlanRaises(gui.plan, "cancelled")
          /\ UNCHANGED active
    /\ gui' = IdleGui
    /\ UNCHANGED <<doc, queue, queued, closed, responses, shown>>

-------------------------------------------------------------------------------
(* resolve_confirmation, for a plan the user was shown *)

\* The plan is over: the user's decision only releases the slot.
DecideStale(p) ==
    /\ gui.stage = "idle"
    /\ p \in shown
    /\ ~Waiting(p)
    /\ active' = IF active = p THEN NoPlan ELSE active
    /\ shown' = shown \ {p}
    /\ UNCHANGED <<service, trail, doc, gui, queue, queued, closed, responses>>

\* The plan waits: deny or start it.  (A waiting plan that lost the slot raises.)
Decide(p, stage) ==
    /\ gui.stage = "idle"
    /\ p \in shown
    /\ Waiting(p)
    /\ active = p
    /\ gui' = Busy(stage, p)
    /\ UNCHANGED <<service, trail, doc, dispatcher>>

\* When the audit raises the decision is abandoned and the panel keeps the plan.
Deny ==
    /\ gui.stage = "deny"
    /\ \/ /\ CancelPlan(gui.plan, "denied")
          /\ active' = NoPlan
          /\ shown' = shown \ {gui.plan}
       \/ /\ CancelPlanRaises(gui.plan, "denied")
          /\ UNCHANGED <<active, shown>>
    /\ gui' = IdleGui
    /\ UNCHANGED <<doc, queue, queued, closed, responses>>

\* PlanService.execute, step by step.
Execute == ExecutorStep /\ UNCHANGED dispatcher

\* Seeded bug: a plan that was executed keeps the slot.
ReleasedActiveKept == IF Waiting(gui.plan) THEN NoPlan ELSE active

ReleasedActive == IF gui.stage = "release" THEN NoPlan ELSE active

Release ==
    /\ gui.stage = "release"
    /\ active' = ReleasedActive
    /\ shown' = shown \ {gui.plan}
    /\ gui' = IdleGui
    /\ UNCHANGED <<service, trail, doc, queue, queued, closed, responses>>

-------------------------------------------------------------------------------
(* close, on the GUI thread *)

\* Queued plans and the presented one are taken out under the lock and cancelled
\* after it, the presented one last.
Close ==
    /\ gui.stage = "idle"
    /\ ~closed
    /\ closed' = TRUE
    /\ gui' = [Busy("closing", active) EXCEPT !.todo = queued \cup ({active} \ {NoPlan})]
    /\ queue' = <<>>
    /\ queued' = {}
    /\ active' = NoPlan
    /\ UNCHANGED <<service, trail, doc, responses, shown>>

CloseCancels ==
    /\ gui.stage = "closing"
    /\ \E p \in gui.todo :
        /\ p = gui.plan => gui.todo = {p}
        /\ \/ /\ CancelPlan(p, "cancelled")
              /\ gui' = [gui EXCEPT !.todo = gui.todo \ {p}]
           \/ /\ CancelPlanRaises(p, "cancelled")
              /\ gui' = IdleGui
    /\ UNCHANGED <<doc, dispatcher>>

CloseEnds ==
    /\ gui.stage = "closing"
    /\ gui.todo = {}
    /\ gui' = IdleGui
    /\ UNCHANGED <<service, trail, doc, dispatcher>>

-------------------------------------------------------------------------------

\* The user, or a request of the other dispatcher, changes the document while no
\* plan is executing: a new transaction, or an undo.
Edit ==
    /\ gui.stage = "idle"
    /\ \/ Len(doc) < MaxDoc /\ doc' = Append(doc, "edit")
       \/ doc # <<>> /\ doc' = Front(doc)
    /\ UNCHANGED <<service, trail, gui, dispatcher>>

ClientCall ==
    \E r \in Requests, p \in Plans :
        \/ \E op \in Operations : Repeat(r, op, p) \/ RefuseClosed(r, op, p)
        \/ "submit" \in Operations /\ HandleSubmit(r, p)
        \/ "status" \in Operations /\ HandleStatus(r, p)
        \/ "cancel" \in Operations /\ HandleCancel(r, p)

GuiStep ==
    \/ PresentShown \/ PresentRaises
    \/ Deny \/ Execute \/ Release
    \/ CloseCancels \/ CloseEnds

Next ==
    \/ ClientCall
    \/ ProcessNext
    \/ \E p \in Plans : DecideStale(p) \/ Decide(p, "deny") \/ Decide(p, "start")
    \/ GuiStep
    \/ Close
    \/ Edit

Spec == Init /\ [][Next]_vars

\* The GUI timer fires and the GUI thread finishes what it began.  Clients, the
\* user and close owe nothing.
FairSpec == Spec /\ WF_vars(ProcessNext) /\ WF_vars(GuiStep)

\* With automatic approval (ui/talos_panel.py) the confirmation callback approves
\* the plan at once.
AutomaticSpec ==
    FairSpec /\ WF_vars(\E p \in Plans : Decide(p, "start") \/ DecideStale(p))

-------------------------------------------------------------------------------
(* Safety *)

\* No waiting plan is lost: it is queued, once, or it is presented, or close() is
\* about to cancel it.  The set _queued and the list _queue agree.
NoPlanLost ==
    /\ queued = ToSet(queue)
    /\ \A i, j \in 1..Len(queue) : queue[i] = queue[j] => i = j
    /\ \A p \in Plans : Waiting(p) =>
        \/ p \in queued /\ active # p
        \/ p \notin queued /\ active = p
        \/ closed /\ p \in gui.todo

\* A running plan holds the slot and is the one the GUI thread executes, so that
\* no two plans run together, whatever clients cancel meanwhile.
RunningHoldsSlot ==
    \A p \in Plans : snapshot[p].status = "running" =>
        active = p /\ gui.plan = p /\ gui.stage \in ExecutorStages

\* The plan in the slot is one the user was shown, so that a decision can release
\* it; otherwise the GUI thread is still busy with it.
SlotCanBeDecided ==
    active # NoPlan => active \in shown \/ (gui.plan = active /\ gui.stage # "idle")

\* When a plan's status is final, it tells what is left of it in the document:
\* COMPLETED all of its calls on top of what was there, ROLLED_BACK and CANCELLED
\* nothing.
StatusTellsDocument ==
    gui.stage = "audit" =>
        LET told == snapshot[gui.plan].status
        IN  /\ told = "completed" =>
                /\ Len(doc) = Len(gui.start) + Calls
                /\ SubSeq(doc, 1, Len(gui.start)) = gui.start
                /\ gui.plan \in ToSet(SubSeq(doc, Len(gui.start) + 1, Len(doc)))
            /\ told \in {"rolled_back", "cancelled"} => Content(doc) = Content(gui.start)

\* Once a call was counted as committed, a rollback is reported only when the
\* document is back where it was, even if a handler raised after its commit.
RollbackIsVerified ==
    gui.stage = "audit" /\ gui.ending = "plan_error" /\ gui.committed > 0 =>
        Content(doc) = Content(gui.start)

\* A plan is completed only on top of the content its client made it for, whatever
\* was edited, undone or executed between its submission and its approval.
AppliedOnItsBase ==
    gui.stage = "audit" /\ snapshot[gui.plan].status = "completed" =>
        Content(SubSeq(doc, 1, Len(doc) - Calls)) = base[gui.plan]

\* The transactions recorded for the audit account for the document, unless an
\* unexpected exception interrupted the undoing itself.
EvidenceAddsUp ==
    gui.stage \in {"settle", "audit"} /\ gui.ending # "other_error" =>
        Len(doc) + traces[gui.plan].undone = Len(gui.start) + traces[gui.plan].committed

\* Once a plan is over and the GUI thread has recorded it, its audit file says how
\* it ended and is what the service remembers.
AuditAgreesWithStatus ==
    \A p \in Plans :
        snapshot[p].status \in FinalStatuses /\ ~(gui.plan = p /\ gui.stage = "audit") =>
            /\ trail.disk[p].status = snapshot[p].status
            /\ trail.mem[p] = trail.disk[p]

\* A remembered response that told a client how its plan ended stays true.
ToldStaysTrue ==
    \A i \in 1..Len(responses) :
        responses[i].says \in FinalStatuses =>
            snapshot[responses[i].plan].status = responses[i].says

\* The end of a plan is never revised: not by late cancellations, nor by a second
\* decision of the user, nor by close().
EndIsFinal ==
    [][\A p \in Plans :
        snapshot[p].status \in FinalStatuses => snapshot'[p] = snapshot[p]]_snapshot

\* A plan starts only from waiting, while it holds the slot, when no client has
\* cancelled it, and with its approval on disk, even when audit saves fail.
StartsNeedApproval ==
    [][\A p \in Plans :
        snapshot'[p].status = "running" /\ snapshot[p].status # "running" =>
            /\ Waiting(p)
            /\ active = p
            /\ p \notin cancelled
            /\ trail'.disk[p].decision = "approved"]_snapshot

-------------------------------------------------------------------------------
(* The dispatcher keeps the contract of composite plans. *)

Executing(p) == gui.plan = p /\ gui.stage \in ExecutorStages

ContractView(p) ==
    LET told == snapshot[p]
    IN  [phase |->
            CASE told.status = "unknown" -> "unknown"
              [] told.status = "awaiting_approval" -> "waiting"
              [] told.status = "running" -> "running"
              [] told.status = "completed" -> "applied"
              [] told.status = "cancelled" /\ told.error = "none" -> "dropped"
              [] told.status = "cancelled" /\ told.error # "none" -> "undone"
              [] told.status = "rolled_back" -> "undone"
              [] told.status = "failed" -> "unclear",
         applied |->
            CASE told.status = "running" -> Len(doc) - Len(gui.start)
              [] told.status = "completed" -> Calls
              [] OTHER -> 0]

Contract == INSTANCE PlanContract WITH plan <- [p \in Plans |-> ContractView(p)]

\* Every behaviour of the dispatcher is one the contract of plans allows.
KeepsPlanContract == Contract!Spec

(* Liveness *)

\* Under AutomaticSpec every plan that waits ends, whatever is submitted, cancelled,
\* undone or edited meanwhile: the slot is given back and the queue moves.
EveryPlanEnds ==
    \A p \in Plans : Waiting(p) ~> snapshot[p].status \in FinalStatuses

=============================================================================
