---------------------------- MODULE PlanAuditProofs ----------------------------
(* The audit trail of composite plans, and the queue: what a plan's audit file *)
(* says of it, that no plan is lost, and that what clients are told stays true. *)
EXTENDS PlanDispatcherProofs, AuditTrailProofs

-------------------------------------------------------------------------------
(* The trail and the remembered responses *)

\* What a client was told of the end of its plan is true.
Told(r) == r.says \in FinalStatuses => snapshot[r.plan].status = r.says

ResponsesTrue ==
    /\ responses \in Seq(Responses)
    /\ Len(responses) <= MaxTracked
    /\ \A i \in 1..Len(responses) : Told(responses[i])

RInv ==
    /\ cancelled \subseteq Plans
    /\ closed \in BOOLEAN
    /\ Sound(trail)
    /\ ResponsesTrue

LEMMA CancelTrail ==
    ASSUME RInv, NEW p \in Plans, NEW d \in Decisions, CancelPlan(p, d) \/ CancelPlanRaises(p, d)
    PROVE  Sound(trail') /\ cancelled' \subseteq Plans
<1>1. cancelled' \subseteq Plans
    BY DEF CancelPlan, CancelPlanRaises, CancelMarks, RInv
<1>2. Sound(trail')
    BY CancelledSound DEF CancelPlan, CancelPlanRaises, RInv, Plans
<1>. QED  BY <1>1, <1>2

\* Every save of the dispatcher keeps the trail sound, whether it returns or raises.
LEMMA TrailKept ==
    ASSUME IInv, DInv, RInv, [Next]_vars
    PROVE  Sound(trail') /\ cancelled' \subseteq Plans /\ closed' \in BOOLEAN
<1>. USE DEF service, dispatcher, Plans
<1>0. closed' \in BOOLEAN
    BY DEF Next, ClientCall, GuiStep, Repeat, RefuseClosed, HandleSubmit, HandleStatus,
           HandleCancel, ProcessNext, DecideStale, Decide, PresentShown, PresentRaises, Deny,
           Execute, Release, CloseCancels, CloseEnds, Close, Edit, vars, RInv
<1>1. {"pending", "cancelled", "denied"} \subseteq Decisions
    BY DEF Decisions
<1>2. CASE UNCHANGED <<trail, cancelled>>
    BY <1>0, <1>2 DEF RInv
<1>3. CASE ClientCall
    <2>. PICK r \in Requests, p \in Plans :
            \/ \E op \in Operations : Repeat(r, op, p) \/ RefuseClosed(r, op, p)
            \/ HandleSubmit(r, p) \/ HandleStatus(r, p) \/ HandleCancel(r, p)
        BY <1>3 DEF ClientCall
    <2>1. CASE HandleSubmit(r, p)
        BY <1>0, <1>1, <2>1, BegunSound DEF HandleSubmit, SubmitPlan, RInv
    <2>2. CASE HandleCancel(r, p)
        BY <1>0, <1>1, <1>2, <2>2, CancelTrail DEF HandleCancel
    <2>. QED  BY <1>2, <2>1, <2>2 DEF Repeat, RefuseClosed, HandleStatus
<1>4. CASE PresentRaises \/ Deny
    <2>1. gui.plan \in Plans
        BY <1>4 DEF PresentRaises, Deny, IInv, GuiHoldsSlot
    <2>. QED  BY <1>0, <1>1, <1>4, <2>1, CancelTrail DEF PresentRaises, Deny
<1>5. CASE CloseCancels
    <2>1. PICK p \in gui.todo : CancelPlan(p, "cancelled") \/ CancelPlanRaises(p, "cancelled")
        BY <1>5 DEF CloseCancels
    <2>2. p \in Plans
        BY DEF IInv, Types, GuiStates
    <2>. QED  BY <1>0, <1>1, <2>1, <2>2, CancelTrail
<1>6. CASE Execute
    <2>1. CASE ExecuteBegins \/ ExecuteRefused
        <3>1. gui.plan \in Plans
            BY <2>1 DEF ExecuteBegins, ExecuteRefused, IInv, GuiHoldsSlot
        <3>. QED  BY <1>0, <2>1, <3>1, ApprovedSound DEF ExecuteBegins, ExecuteRefused, RInv
    <2>2. CASE SaveFinish
        <3>1. gui.plan \in Plans
            BY <2>2 DEF SaveFinish, IInv, GuiHoldsSlot
        <3>2. PICK rec \in Records : rec.rev > 0 /\
                trail' \in {trail, Stored(trail, gui.plan, rec),
                            Remembered(Stored(trail, gui.plan, rec), gui.plan, rec)}
            <4>1. snapshot[gui.plan].status \in Statuses
                <5>1. snapshot[gui.plan].status \in FinalStatuses
                    BY <2>2 DEF SaveFinish, DInv, ToldByEnding
                <5>. QED  BY <5>1 DEF FinalStatuses, Statuses
            <4>2. trail.mem[gui.plan] \in Records
                BY <3>1 DEF RInv, Sound, Trails
            <4>3. FinalRecord(gui.plan) \in Records /\ FinalRecord(gui.plan).rev > 0
                BY <4>1, <4>2, RecordsCount DEF FinalRecord
            <4>. QED  BY <2>2, <4>3 DEF SaveFinish
        <3>3. Sound(Stored(trail, gui.plan, rec))
            BY <3>1, StoredSound DEF RInv
        <3>4. Sound(Remembered(Stored(trail, gui.plan, rec), gui.plan, rec))
            BY <3>1, <3>2, <3>3, RememberedSound
        <3>5. UNCHANGED cancelled
            BY <2>2 DEF SaveFinish
        <3>. QED  BY <1>0, <3>2, <3>3, <3>4, <3>5 DEF RInv
    <2>. QED  BY <1>2, <1>6, <2>1, <2>2 DEF Execute, ExecutorStep, Check, CallCommits, CallFails,
            CallRaisesLate, Validate, Finish, Undo, Verify, Settle
<1>. QED  BY <1>2, <1>3, <1>4, <1>5, <1>6 DEF Next, GuiStep, ProcessNext, DecideStale, Decide,
        PresentShown, Release, CloseEnds, Close, Edit, vars

\* A new response is remembered, perhaps for an old one.
LEMMA RememberTrue ==
    ASSUME RInv, KeepsEnds, NEW r \in Requests, NEW op \in Operations, NEW p \in Plans,
           NEW says \in PlanStatuses \cup {"error"}, Remember(r, op, p, says),
           says \in FinalStatuses => snapshot'[p].status = says
    PROVE  ResponsesTrue'
<1>. DEFINE new == [id |-> r, op |-> op, plan |-> p, says |-> says]
<1>1. new \in Responses /\ Told(new)'
    BY DEF Responses, Told
<1>2. PICK old : old = IF RoomLeft THEN responses ELSE Tail(responses)
    OBVIOUS
<1>3. /\ old \in Seq(Responses)
      /\ Len(old) + 1 <= MaxTracked
      /\ \A i \in 1..Len(old) : \E j \in 1..Len(responses) : old[i] = responses[j]
    <2>1. responses \in Seq(Responses) /\ Len(responses) \in Nat /\ Len(responses) <= MaxTracked
          /\ MaxTracked \in Nat \ {0}
        BY PlanDispatcherAssumption DEF RInv, ResponsesTrue
    <2>2. CASE RoomLeft
        BY <1>2, <2>1, <2>2 DEF RoomLeft
    <2>3. CASE ~RoomLeft
        <3>1. responses # <<>> /\ Len(responses) = MaxTracked /\ old = Tail(responses)
            BY <1>2, <2>1, <2>3 DEF RoomLeft
        <3>2. /\ old \in Seq(Responses)
              /\ Len(old) = Len(responses) - 1
              /\ \A i \in 1..(Len(responses) - 1) : old[i] = responses[i + 1]
            BY <2>1, <3>1
        <3>3. \A i \in 1..(Len(responses) - 1) : i + 1 \in 1..Len(responses)
            BY <2>1
        <3>. QED  BY <2>1, <3>1, <3>2, <3>3
    <2>. QED  BY <2>2, <2>3
<1>4. \A i \in 1..Len(old) : Told(old[i])'
    <2>1. \A j \in 1..Len(responses) : responses[j] \in Responses /\ Told(responses[j])
        BY DEF RInv, ResponsesTrue
    <2>2. \A q \in Responses : Told(q) => Told(q)'
        BY DEF Told, Responses, KeepsEnds
    <2>. QED  BY <1>3, <2>1, <2>2
<1>5. responses' = Append(old, new)
    BY <1>2 DEF Remember
<1>. HIDE DEF new
<1>6. /\ responses' \in Seq(Responses)
      /\ Len(responses') = Len(old) + 1
      /\ \A i \in 1..Len(old) : responses'[i] = old[i]
      /\ responses'[Len(old) + 1] = new
    BY <1>1, <1>3, <1>5
<1>7. ASSUME NEW i \in 1..Len(responses')
      PROVE  Told(responses[i])'
    <2>1. CASE i \in 1..Len(old)
        BY <1>4, <1>6, <2>1 DEF Told
    <2>2. CASE i = Len(old) + 1
        BY <1>1, <1>6, <2>2 DEF Told
    <2>. QED  BY <1>3, <1>6, <2>1, <2>2
<1>. QED  BY <1>3, <1>6, <1>7 DEF ResponsesTrue

\* The remembered responses stay as true as they were.
LEMMA ResponsesKept ==
    ASSUME RInv, KeepsEnds, UNCHANGED responses
    PROVE  ResponsesTrue'
<1>1. \A j \in 1..Len(responses) : responses[j] \in Responses /\ Told(responses[j])
    BY DEF RInv, ResponsesTrue
<1>2. \A q \in Responses : Told(q) => Told(q)'
    BY DEF Told, Responses, KeepsEnds
<1>. QED  BY <1>1, <1>2 DEF RInv, ResponsesTrue

\* A repeated status call reads the status again.
LEMMA RepeatTrue ==
    ASSUME IInv, RInv, KeepsEnds, NEW r \in Requests, NEW op \in Operations, NEW p \in Plans,
           Repeat(r, op, p)
    PROVE  ResponsesTrue'
<1>1. CASE UNCHANGED responses
    BY <1>1, ResponsesKept
<1>2. CASE \E i \in 1..Len(responses) :
            /\ responses[i].plan = p
            /\ responses' = [responses EXCEPT ![i].says =
                                IF Known(p) THEN snapshot[p].status ELSE "error"]
    <2>. PICK i \in 1..Len(responses) :
            /\ responses[i].plan = p
            /\ responses' = [responses EXCEPT ![i].says =
                                IF Known(p) THEN snapshot[p].status ELSE "error"]
        BY <1>2
    <2>1. responses \in Seq(Responses) /\ responses[i] \in Responses
        BY DEF RInv, ResponsesTrue
    <2>2. PICK says \in PlanStatuses \cup {"error"} :
            says = IF Known(p) THEN snapshot[p].status ELSE "error"
        BY DEF IInv, Types, Snapshots
    <2>3. UNCHANGED snapshot
        BY DEF Repeat, service
    <2>4. PICK new \in Responses : new = [responses[i] EXCEPT !.says = says]
        BY <2>1 DEF Responses
    <2>5. Told(new)' /\ responses' = [responses EXCEPT ![i] = new]
        BY <2>1, <2>2, <2>3, <2>4 DEF Responses, Told, FinalStatuses
    <2>6. /\ responses' \in Seq(Responses) /\ Len(responses') = Len(responses)
          /\ responses'[i] = new
          /\ \A j \in 1..Len(responses) : j # i => responses'[j] = responses[j]
        BY <2>1, <2>5
    <2>7. ASSUME NEW j \in 1..Len(responses)
          PROVE  Told(responses[j])'
        <3>1. CASE j = i
            BY <2>5, <2>6, <3>1 DEF Told
        <3>2. CASE j # i
            BY <2>3, <2>6, <3>2 DEF RInv, ResponsesTrue, Told
        <3>. QED  BY <3>1, <3>2
    <2>. QED  BY <2>6, <2>7 DEF RInv, ResponsesTrue
<1>. QED  BY <1>1, <1>2 DEF Repeat

LEMMA ResponsesStayTrue ==
    ASSUME IInv, IInv', RInv, KeepsEnds, [Next]_vars
    PROVE  ResponsesTrue'
<1>1. CASE UNCHANGED responses
    BY <1>1, ResponsesKept
<1>2. CASE ClientCall
    <2>. PICK r \in Requests, p \in Plans :
            \/ \E op \in Operations : Repeat(r, op, p) \/ RefuseClosed(r, op, p)
            \/ "submit" \in Operations /\ HandleSubmit(r, p)
            \/ "status" \in Operations /\ HandleStatus(r, p)
            \/ "cancel" \in Operations /\ HandleCancel(r, p)
        BY <1>2 DEF ClientCall
    <2>1. /\ "error" \notin FinalStatuses
          /\ snapshot[p].status \in PlanStatuses /\ snapshot'[p].status \in PlanStatuses
        BY DEF FinalStatuses, IInv, Types, Snapshots
    <2>2. CASE \E op \in Operations : Repeat(r, op, p)
        BY <2>2, RepeatTrue
    <2>3. CASE \E op \in Operations : RefuseClosed(r, op, p)
        BY <2>1, <2>3, RememberTrue DEF RefuseClosed
    <2>4. CASE "submit" \in Operations /\ HandleSubmit(r, p)
        <3>1. PICK says \in PlanStatuses : says = snapshot'[p].status
            BY <2>1
        <3>2. Remember(r, "submit", p, says)
            BY <2>4, <3>1 DEF HandleSubmit
        <3>. QED  BY <2>4, <3>1, <3>2, RememberTrue
    <2>5. CASE "status" \in Operations /\ HandleStatus(r, p)
        <3>1. PICK says \in PlanStatuses \cup {"error"} :
                says = IF Known(p) THEN snapshot[p].status ELSE "error"
            BY <2>1
        <3>2. Remember(r, "status", p, says) /\ UNCHANGED snapshot
            BY <2>5, <3>1 DEF HandleStatus, service
        <3>. QED  BY <2>1, <2>5, <3>1, <3>2, RememberTrue
    <2>6. CASE "cancel" \in Operations /\ HandleCancel(r, p)
        <3>1. CASE Remember(r, "cancel", p, snapshot'[p].status)
            <4>1. PICK says \in PlanStatuses : says = snapshot'[p].status
                BY <2>1
            <4>2. Remember(r, "cancel", p, says)
                BY <3>1, <4>1
            <4>. QED  BY <2>6, <4>1, <4>2, RememberTrue
        <3>2. CASE Remember(r, "cancel", p, "error")
            BY <2>1, <2>6, <3>2, RememberTrue
        <3>. QED  BY <1>1, <2>6, <3>1, <3>2 DEF HandleCancel
    <2>. QED  BY <2>2, <2>3, <2>4, <2>5, <2>6
<1>. QED  BY <1>1, <1>2 DEF Next, GuiStep, ProcessNext, DecideStale, Decide, PresentShown,
        PresentRaises, Deny, Execute, Release, CloseCancels, CloseEnds, Close, Edit, vars, dispatcher

-------------------------------------------------------------------------------
(* The theorems, whether or not audit saves fail and handlers raise late *)

LEMMA ReliableInit == Init => RInv
<1>. SUFFICES ASSUME Init
              PROVE  RInv
    OBVIOUS
<1>1. cancelled = {} /\ closed = FALSE /\ trail = EmptyTrail /\ responses = <<>>
    BY DEF Init, ServiceInit
<1>2. Sound(trail)
    <2>1. EmptyTrail.log = <<>> /\ \A a \in Actions : EmptyTrail.mem[a].decision = "none"
        BY DEF EmptyTrail, NoRecord
    <2>. QED  BY <1>1, <2>1, EmptyTrailType, RetentionAssumption DEF Sound
<1>3. ResponsesTrue
    BY <1>1, PlanDispatcherAssumption DEF ResponsesTrue
<1>. QED  BY <1>1, <1>2, <1>3 DEF RInv

THEOREM ReliableInvariant == Spec => []RInv
<1>1. IInv /\ DInv /\ IInv' /\ RInv /\ [Next]_vars => RInv'
    BY NextOK, TrailKept, ResponsesStayTrue DEF RInv
<1>. QED  BY <1>1, ReliableInit, InductiveInvariant, BooksInvariant, PTL DEF Spec

\* The state of the dispatcher, the service, the trail and the GUI thread is what
\* its declarations say.
THEOREM TypeCorrect == Spec => []TypeOK
<1>1. IInv /\ DInv /\ RInv => TypeOK
    BY DEF IInv, Types, GuiHoldsSlot, DInv, BooksTyped, RInv, Sound, ResponsesTrue, TypeOK
<1>. QED  BY <1>1, ReliableInvariant, InductiveInvariant, BooksInvariant, PTL

\* No client is left with a lie about the end of its plan.
THEOREM AnswersStayTrue == Spec => []ToldStaysTrue
<1>1. RInv => ToldStaysTrue
    BY DEF RInv, ResponsesTrue, Told, ToldStaysTrue
<1>. QED  BY <1>1, ReliableInvariant, PTL

\* Nothing but an approval makes a plan run.
LEMMA OnlyBeginsRuns ==
    ASSUME IInv, [Next]_vars, ~(ExecuteBegins /\ UNCHANGED dispatcher),
           NEW p \in Plans, snapshot'[p].status = "running"
    PROVE  snapshot[p].status = "running"
<1>. USE DEF service, dispatcher
<1>1. CASE UNCHANGED snapshot
    BY <1>1
<1>2. CASE \E q \in Plans : SubmitPlan(q) \/ \E d : CancelPlan(q, d) \/ CancelPlanRaises(q, d)
    BY <1>2, SubmitOK, CancelOK
<1>3. CASE ClientCall
    BY <1>1, <1>2, <1>3 DEF ClientCall, Repeat, RefuseClosed, HandleSubmit, HandleStatus, HandleCancel
<1>4. CASE PresentRaises \/ Deny
    <2>1. gui.plan \in Plans
        BY <1>4 DEF PresentRaises, Deny, IInv, GuiHoldsSlot
    <2>. QED  BY <1>2, <1>4, <2>1 DEF PresentRaises, Deny
<1>5. CASE CloseCancels
    <2>1. PICK q \in gui.todo : CancelPlan(q, "cancelled") \/ CancelPlanRaises(q, "cancelled")
        BY <1>5 DEF CloseCancels
    <2>2. q \in Plans
        BY DEF IInv, Types, GuiStates
    <2>. QED  BY <1>2, <2>1, <2>2
<1>6. CASE Validate \/ Settle
    <2>1. gui.plan \in Plans /\ snapshot[gui.plan].status = "running"
        BY <1>6 DEF Validate, Settle, IInv, GuiHoldsSlot, RunsWhileExecuted, RunningStages, ExecutorStages
    <2>2. p # gui.plan => snapshot'[p] = snapshot[p]
        BY <1>6, <2>1 DEF Validate, Settle, IInv, Types
    <2>. QED  BY <2>1, <2>2
<1>. QED  BY <1>1, <1>3, <1>4, <1>5, <1>6 DEF Next, GuiStep, ProcessNext, DecideStale, Decide,
        PresentShown, Release, CloseEnds, Close, Edit, vars, Execute, ExecutorStep, ExecuteRefused,
        Check, CallCommits, CallFails, CallRaisesLate, Finish, Undo, Verify, SaveFinish

\* A plan starts only while it waits in the slot, uncancelled, with its approval on
\* disk.
LEMMA ApprovalStarts ==
    ASSUME IInv, RInv, [Next]_vars, NEW p \in Plans,
           snapshot'[p].status = "running", snapshot[p].status # "running"
    PROVE  /\ Waiting(p) /\ active = p /\ p \notin cancelled
           /\ trail'.disk[p].decision = "approved"
<1>1. ExecuteBegins /\ UNCHANGED dispatcher
    BY OnlyBeginsRuns
<1>2. p = gui.plan
    BY <1>1 DEF ExecuteBegins, IInv, Types
<1>3. CanApprove(trail, p) /\ trail' = Approved(trail, p)
    BY <1>1, <1>2 DEF ExecuteBegins
<1>4. trail'.disk[p].decision = "approved"
    BY <1>3, ApprovedSound DEF RInv, Plans
<1>. QED  BY <1>1, <1>2, <1>4, BeginsOK

THEOREM ApprovedBeforeRunning == Spec => StartsNeedApproval
<1>. DEFINE Starts ==
        \A p \in Plans :
            snapshot'[p].status = "running" /\ snapshot[p].status # "running" =>
                /\ Waiting(p)
                /\ active = p
                /\ p \notin cancelled
                /\ trail'.disk[p].decision = "approved"
<1>1. IInv /\ RInv /\ [Next]_vars => [Starts]_snapshot
    BY ApprovalStarts
<1>. HIDE DEF Starts
<1>2. Spec => [][Starts]_snapshot
    BY <1>1, InductiveInvariant, ReliableInvariant, PTL DEF Spec
<1>. QED  BY <1>2 DEF StartsNeedApproval, Starts

-------------------------------------------------------------------------------
(* With room for every audit file and saves that do not fail *)

\* What the file of each plan says.
Filed ==
    \A p \in Plans :
        /\ ~Known(p) => trail.disk[p] = NoRecord
        /\ Waiting(p) => trail.disk[p].decision = "pending" /\ trail.disk[p].status = "pending"
        /\ snapshot[p].status \in FinalStatuses /\ ~(gui.plan = p /\ gui.stage = "audit") =>
                trail.disk[p].status = snapshot[p].status

QueueIsSet ==
    /\ queued = ToSet(queue)
    /\ \A i, j \in 1..Len(queue) : queue[i] = queue[j] => i = j
    /\ active \notin queued

\* Every waiting plan has its place, and the places hold known plans.
Placed ==
    \A p \in Plans :
        /\ Waiting(p) => p \in queued \/ active = p \/ (closed /\ p \in gui.todo)
        /\ p \in queued \/ active = p \/ p \in gui.todo \/ p \in cancelled => Known(p)
        /\ p \in cancelled => ~Waiting(p)

Released ==
    /\ gui.todo # {} => gui.stage = "closing"
    /\ gui.stage = "closing" => active = NoPlan
    /\ gui.stage = "release" => ~Waiting(gui.plan)

AInv ==
    /\ InStep(trail)
    /\ Filed
    /\ QueueIsSet
    /\ Placed
    /\ Released
    /\ SlotCanBeDecided

\* The files of the plans, when the trail and the statuses stay and the GUI thread
\* does not leave the audit stage.
LEMMA FiledKept ==
    ASSUME InStep(trail), Filed, UNCHANGED trail,
           \A p \in Plans : snapshot'[p].status = snapshot[p].status,
           gui.stage = "audit" => UNCHANGED gui
    PROVE  InStep(trail)' /\ Filed'
BY DEF InStep, Listed, Filed, Known, Waiting

\* cancel() cannot raise.
LEMMA CancelRaisesNot ==
    ASSUME RInv, InStep(trail), AuditMayFail = FALSE, NEW p \in Plans, NEW d
    PROVE  ~CancelPlanRaises(p, d)
<1>1. trail.mem = trail.disk /\ trail.mem[p] \in Records
    BY DEF RInv, Sound, Trails, InStep, Listed, Plans
<1>2. CanCancel(trail, p)
    BY <1>1 DEF CanCancel, CancelSaves, Accepts, Decided, Finished
<1>. QED  BY <1>2 DEF CancelPlanRaises, TornCancels

\* cancel() ends the plan if it waits, and files it.
LEMMA CancelFiles ==
    ASSUME IInv, RInv, InStep(trail), Filed, AuditMayFail = FALSE, gui.stage = "audit" => UNCHANGED gui,
           NEW p \in Plans, Known(p), NEW d \in {"cancelled", "denied"},
           CancelPlan(p, d) \/ CancelPlanRaises(p, d)
    PROVE  /\ CancelPlan(p, d)
           /\ InStep(trail)' /\ Filed'
           /\ \A q \in Plans : Known(q)' <=> Known(q)
           /\ \A q \in Plans : Waiting(q)' <=> Waiting(q) /\ q # p
           /\ cancelled \subseteq cancelled' /\ cancelled' \subseteq cancelled \cup {p}
<1>. USE DEF Plans
<1>1. /\ trail \in Trails /\ trail.mem = trail.disk
      /\ snapshot \in [Plans -> Snapshots]
      /\ \A q \in Actions : trail.mem[q] \in Records
    BY DEF RInv, Sound, Trails, InStep, Listed, IInv, Types
<1>3. CancelPlan(p, d)
    BY CancelRaisesNot
<1>4. /\ snapshot' = CancelledSnapshot(p)
      /\ cancelled' = CancelMarks(p)
      /\ trail' = IF Waiting(p) THEN Cancelled(trail, {p}, d) ELSE trail
    BY <1>3 DEF CancelPlan
<1>5. /\ \A q \in Plans : q # p => snapshot'[q] = snapshot[q]
      /\ Waiting(p) => snapshot'[p].status = "cancelled"
      /\ ~Waiting(p) => snapshot' = snapshot
    BY <1>1, <1>4 DEF CancelledSnapshot, Snapshots
<1>6. /\ \A q \in Plans : Known(q)' <=> Known(q)
      /\ \A q \in Plans : Waiting(q)' <=> Waiting(q) /\ q # p
    BY <1>5 DEF Known, Waiting
<1>7. cancelled \subseteq cancelled' /\ cancelled' \subseteq cancelled \cup {p}
    BY <1>4 DEF CancelMarks
<1>8. CASE ~Waiting(p)
    <2>1. UNCHANGED trail /\ \A q \in Plans : snapshot'[q].status = snapshot[q].status
        BY <1>4, <1>5, <1>8
    <2>. QED  BY <1>3, <1>6, <1>7, <2>1, FiledKept
<1>9. CASE Waiting(p)
    <2>1. trail.mem[p].decision = "pending" /\ trail.mem[p].status = "pending"
        BY <1>1, <1>9 DEF Filed
    <2>2. PICK rec \in Records :
            rec = CancelledRecord(trail.mem[p], d) /\ rec.rev > 0 /\ rec.status = "cancelled"
        <3>1. CancelledRecord(trail.mem[p], d)
                = Finished(Decided(trail.mem[p], d), "cancelled")
            BY <2>1 DEF CancelledRecord, CancelSaves
        <3>2. d \in Decisions
            BY DEF Decisions
        <3>3. CancelledRecord(trail.mem[p], d) \in Records
              /\ CancelledRecord(trail.mem[p], d).rev > 0
            BY <1>1, <3>2, RecordsCount
        <3>4. CancelledRecord(trail.mem[p], d).status = "cancelled"
            BY <3>1 DEF Finished
        <3>. QED  BY <3>3, <3>4
    <2>3. /\ trail'.log = trail.log
          /\ trail'.disk = trail'.mem
          /\ trail'.disk[p] = rec
          /\ \A q \in Actions : q # p => trail'.disk[q] = trail.disk[q]
        BY <1>1, <1>4, <1>9, <2>1, <2>2 DEF Cancelled, NeedsCancel, Trails
    <2>4. InStep(trail)'
        <3>1. \A i \in 1..Len(trail.log) : trail.log[i] \in Actions
            BY <1>1 DEF Trails
        <3>2. rec # NoRecord
            BY <2>2 DEF NoRecord
        <3>. QED  BY <2>3, <3>1, <3>2 DEF InStep, Listed
    <2>5. Filed'
        BY <1>5, <1>6, <1>9, <2>2, <2>3 DEF Filed, Known, Waiting
    <2>. QED  BY <1>3, <1>6, <1>7, <2>4, <2>5
<1>. QED  BY <1>8, <1>9

\* submit() opens the file of a new plan.
LEMMA SubmitFiles ==
    ASSUME IInv, RInv, RetentionSuffices, InStep(trail), Filed, UNCHANGED gui,
           NEW p \in Plans, SubmitPlan(p)
    PROVE  /\ InStep(trail)' /\ Filed'
           /\ \A q \in Plans : Known(q)' <=> Known(q) \/ q = p
           /\ \A q \in Plans : Waiting(q)' <=> Waiting(q) \/ (q = p /\ ~Known(p))
           /\ UNCHANGED cancelled
<1>. USE DEF Plans
<1>1. snapshot \in [Plans -> Snapshots] /\ trail \in Trails /\ UNCHANGED cancelled
    BY DEF RInv, Sound, IInv, Types, SubmitPlan
<1>2. CASE Known(p)
    <2>1. UNCHANGED <<snapshot, trail>>
        BY <1>2 DEF SubmitPlan
    <2>2. /\ \A q \in Plans : Known(q)' <=> Known(q) \/ q = p
          /\ \A q \in Plans : Waiting(q)' <=> Waiting(q) \/ (q = p /\ ~Known(p))
        BY <1>2, <2>1 DEF Known, Waiting
    <2>. QED  BY <1>1, <2>1, <2>2, FiledKept
<1>3. CASE ~Known(p)
    <2>1. /\ snapshot' = [snapshot EXCEPT ![p] = Awaiting]
          /\ trail' = Begun(trail, p, "pending")
        BY <1>3 DEF SubmitPlan
    <2>2. PICK rec \in Records :
            rec = Started("pending") /\ rec.rev > 0 /\ rec.status = "pending"
            /\ rec.decision = "pending"
        BY RecordTypes DEF Started, Decisions
    <2>3. InStep(trail') /\ trail'.disk = [trail.disk EXCEPT ![p] = rec]
        <3>1. trail' = Remembered(Stored(trail, p, rec), p, rec)
            BY <2>1, <2>2 DEF Begun
        <3>. QED  BY <1>1, <2>2, <3>1, StoredInStep
    <2>4. /\ \A q \in Plans : q # p => snapshot'[q] = snapshot[q]
          /\ snapshot'[p].status = "awaiting_approval"
        BY <1>1, <2>1 DEF Awaiting
    <2>5. /\ \A q \in Plans : Known(q)' <=> Known(q) \/ q = p
          /\ \A q \in Plans : Waiting(q)' <=> Waiting(q) \/ (q = p /\ ~Known(p))
        BY <1>3, <2>4 DEF Known, Waiting
    <2>6. /\ trail'.disk[p] = rec
          /\ \A q \in Plans : q # p => trail'.disk[q] = trail.disk[q]
        BY <1>1, <2>3 DEF Trails
    <2>7. Filed'
        BY <2>2, <2>4, <2>5, <2>6 DEF Filed, FinalStatuses
    <2>8. InStep(trail)'
        BY <2>3 DEF InStep, Listed
    <2>. QED  BY <1>1, <2>5, <2>7, <2>8
<1>. QED  BY <1>2, <1>3

\* A plan that still waits when its execution begins can be approved.
LEMMA WaitingMayStart ==
    ASSUME IInv, RInv, InStep(trail), Filed, NEW p \in Plans, Waiting(p), p \notin cancelled
    PROVE  MayStart(p) /\ CanApprove(trail, p)
<1>1. trail.mem[p] = trail.disk[p] /\ trail.mem[p] \in Records
    BY DEF RInv, Sound, Trails, InStep, Listed, Plans
<1>. QED  BY <1>1 DEF MayStart, Waiting, CanApprove, Accepts, Decided, Filed

\* The executor files the approval and the end of its plan.
LEMMA ExecutorFiles ==
    ASSUME IInv, DInv, RInv, RetentionSuffices, AuditMayFail = FALSE, InStep(trail), Filed,
           ExecutorStep, UNCHANGED dispatcher
    PROVE  InStep(trail)' /\ Filed'
<1>. USE DEF service, Plans
<1>1. trail \in Trails /\ snapshot \in [Plans -> Snapshots] /\ trail.mem = trail.disk
    BY DEF RInv, Sound, InStep, Listed, IInv, Types
<1>2. gui.plan \in Plans /\ gui \in GuiStates
    BY DEF ExecutorStep, ExecuteBegins, ExecuteRefused, Check, CallCommits, CallFails,
           CallRaisesLate, Validate, Finish, Undo, Verify, Settle, SaveFinish,
           IInv, GuiHoldsSlot, Types
<1>3. PICK p \in Plans : p = gui.plan
    BY <1>2
<1>4. trail.mem[p] \in Records
    BY <1>1 DEF Trails
<1>5. CASE ExecuteBegins
    <2>1. PICK rec \in Records :
            rec = Decided(trail.mem[p], "approved") /\ rec.rev > 0 /\ rec.status = "pending"
        <3>1. trail.mem[p].status = "pending"
            BY <1>3, <1>5 DEF ExecuteBegins, CanApprove
        <3>. QED  BY <1>4, <3>1, RecordsCount DEF Decided, Decisions
    <2>2. InStep(trail') /\ trail'.disk = [trail.disk EXCEPT ![p] = rec]
        <3>1. trail' = Remembered(Stored(trail, p, rec), p, rec)
            BY <1>3, <1>5, <2>1 DEF ExecuteBegins, Approved
        <3>. QED  BY <1>1, <2>1, <3>1, StoredInStep
    <2>3. /\ snapshot'[p].status = "running" /\ Waiting(p)
          /\ \A q \in Plans : q # p => snapshot'[q] = snapshot[q]
          /\ gui'.plan = p /\ gui'.stage = "check"
        BY <1>1, <1>2, <1>3, <1>5, BeginsOK DEF ExecuteBegins, Snapshots, GuiStates
    <2>4. \A q \in Plans : q # p => trail'.disk[q] = trail.disk[q]
        BY <1>1, <2>2 DEF Trails
    <2>5. gui.stage # "audit"
        BY <1>5 DEF ExecuteBegins
    <2>6. Filed'
        BY <2>3, <2>4, <2>5 DEF Filed, Known, Waiting, FinalStatuses
    <2>. QED  BY <2>2, <2>6 DEF InStep, Listed
<1>6. CASE Settle
    <2>1. /\ \A q \in Plans : q # p => snapshot'[q] = snapshot[q]
          /\ snapshot[p].status = "running"
          /\ gui'.plan = p /\ gui'.stage = "audit" /\ gui.stage = "settle"
        BY <1>1, <1>2, <1>3, <1>6 DEF Settle, GuiStates, IInv, RunsWhileExecuted, RunningStages,
                ExecutorStages
    <2>2. snapshot'[p].status \in FinalStatuses
        BY <1>1, <1>3, <1>6 DEF Settle, Outcome, FinalStatuses
    <2>3. UNCHANGED trail
        BY <1>6 DEF Settle
    <2>4. Filed'
        BY <1>3, <2>1, <2>2, <2>3 DEF Filed, Known, Waiting, FinalStatuses
    <2>. QED  BY <2>3, <2>4 DEF InStep, Listed
<1>7. CASE SaveFinish
    <2>1. /\ UNCHANGED snapshot
          /\ gui.stage = "audit" /\ gui'.stage = "release" /\ gui'.plan = p
        BY <1>2, <1>3, <1>7 DEF SaveFinish, GuiStates
    <2>2. PICK rec \in Records :
            rec = FinalRecord(p) /\ rec.rev = trail.disk[p].rev + 1 /\ rec.rev > 0
            /\ rec.status = snapshot[p].status
        <3>1. snapshot[p].status \in FinalStatuses
            BY <1>3, <2>1 DEF DInv, ToldByEnding
        <3>2. snapshot[p].status \in Statuses
            BY <3>1 DEF FinalStatuses, Statuses
        <3>3. FinalRecord(p) = Finished(trail.mem[p], snapshot[p].status)
            BY DEF FinalRecord
        <3>. QED  BY <1>1, <1>4, <3>2, <3>3, RecordsCount DEF Finished
    <2>3. InStep(trail') /\ trail'.disk = [trail.disk EXCEPT ![p] = rec]
        <3>1. Accepts(trail, p, FinalRecord(p))
            BY <2>2 DEF Accepts
        <3>2. trail' = Remembered(Stored(trail, p, rec), p, rec)
            BY <1>3, <1>7, <2>2, <3>1 DEF SaveFinish
        <3>. QED  BY <1>1, <2>2, <3>2, StoredInStep
    <2>4. /\ trail'.disk[p] = rec
          /\ \A q \in Plans : q # p => trail'.disk[q] = trail.disk[q]
        BY <1>1, <2>3 DEF Trails
    <2>5. snapshot[p].status \in FinalStatuses
        BY <1>3, <2>1 DEF DInv, ToldByEnding
    <2>6. Filed'
        BY <1>3, <2>1, <2>2, <2>4, <2>5 DEF Filed, Known, Waiting, FinalStatuses
    <2>. QED  BY <2>3, <2>6 DEF InStep, Listed
<1>8. CASE ExecuteRefused
    <2>1. UNCHANGED <<trail, snapshot>> /\ gui.stage = "start"
        BY <1>8 DEF ExecuteRefused
    <2>. QED  BY <2>1, FiledKept
<1>9. CASE Validate
    <2>1. UNCHANGED trail /\ gui.stage # "audit" /\ \A q \in Plans : snapshot'[q].status = snapshot[q].status
        BY <1>1, <1>9 DEF Validate, Snapshots
    <2>. QED  BY <2>1, FiledKept
<1>10. CASE Check \/ CallCommits \/ CallFails \/ CallRaisesLate \/ Finish \/ Undo \/ Verify
    <2>1. UNCHANGED <<trail, snapshot>> /\ gui.stage # "audit"
        BY <1>10 DEF Check, CallCommits, CallFails, CallRaisesLate, Finish, Undo, Verify
    <2>. QED  BY <2>1, FiledKept
<1>. QED  BY <1>5, <1>6, <1>7, <1>8, <1>9, <1>10 DEF ExecutorStep

\* Requests of clients queue what they submit and take nothing out of the queue.
LEMMA ClientPlaces ==
    ASSUME IInv, RInv, AInv, RetentionSuffices, AuditMayFail = FALSE, ClientCall
    PROVE  AInv'
<1>. USE DEF service, dispatcher, AInv
<1>. PICK r \in Requests, p \in Plans :
        \/ \E op \in Operations : Repeat(r, op, p) \/ RefuseClosed(r, op, p)
        \/ HandleSubmit(r, p) \/ HandleStatus(r, p) \/ HandleCancel(r, p)
    BY DEF ClientCall
<1>1. UNCHANGED <<gui, active, closed, shown>>
    BY DEF Repeat, RefuseClosed, HandleSubmit, HandleStatus, HandleCancel
<1>2. SlotCanBeDecided'
    BY <1>1 DEF SlotCanBeDecided
<1>3. CASE UNCHANGED <<snapshot, cancelled, trail, queue, queued>>
    <2>1. InStep(trail)' /\ Filed'
        BY <1>1, <1>3, FiledKept
    <2>. QED  BY <1>1, <1>2, <1>3, <2>1 DEF QueueIsSet, Placed, Released, Known, Waiting
<1>4. CASE HandleSubmit(r, p)
    <2>1. /\ InStep(trail)' /\ Filed'
          /\ \A q \in Plans : Known(q)' <=> Known(q) \/ q = p
          /\ \A q \in Plans : Waiting(q)' <=> Waiting(q) \/ (q = p /\ ~Known(p))
          /\ UNCHANGED cancelled
        BY <1>1, <1>4, SubmitFiles DEF HandleSubmit
    <2>2. queue \in Seq(Plans)
        BY DEF IInv, Types
    <2>3. CASE NeedsQueue(p)
        <3>1. queue' = Append(queue, p) /\ queued' = queued \cup {p}
            BY <1>4, <2>3 DEF HandleSubmit
        <3>2. /\ Len(queue') = Len(queue) + 1 /\ Len(queue) \in Nat
              /\ \A i \in 1..Len(queue) : queue'[i] = queue[i]
              /\ queue'[Len(queue) + 1] = p
            BY <2>2, <3>1
        <3>3. ToSet(queue') = ToSet(queue) \cup {p}
            BY <3>2 DEF ToSet
        <3>4. p \notin queued /\ p # active
            BY <2>3 DEF NeedsQueue
        <3>5. \A i, j \in 1..Len(queue') : queue'[i] = queue'[j] => i = j
            <4>1. \A i \in 1..Len(queue) : queue[i] # p
                BY <3>4 DEF QueueIsSet, ToSet
            <4>. QED  BY <3>2, <4>1 DEF QueueIsSet
        <3>6. QueueIsSet'
            BY <1>1, <3>1, <3>3, <3>4, <3>5 DEF QueueIsSet
        <3>7. Placed'
            BY <1>1, <2>1, <3>1 DEF Placed
        <3>8. Released'
            BY <1>1, <2>1, <1>4 DEF Released, Placed, GuiHoldsSlot, IInv
        <3>. QED  BY <1>2, <2>1, <3>6, <3>7, <3>8
    <2>4. CASE ~NeedsQueue(p)
        <3>1. UNCHANGED <<queue, queued>>
            BY <1>4, <2>4 DEF HandleSubmit
        <3>2. Placed'
            BY <1>1, <2>1, <2>4, <3>1 DEF Placed, NeedsQueue
        <3>3. Released'
            BY <1>1, <2>1, <1>4 DEF Released, Placed, GuiHoldsSlot, IInv
        <3>. QED  BY <1>1, <1>2, <2>1, <3>1, <3>2, <3>3 DEF QueueIsSet
    <2>. QED  BY <2>3, <2>4
<1>5. CASE HandleCancel(r, p)
    <2>1. CASE Known(p)
        <3>1. /\ InStep(trail)' /\ Filed'
              /\ \A q \in Plans : Known(q)' <=> Known(q)
              /\ \A q \in Plans : Waiting(q)' <=> Waiting(q) /\ q # p
              /\ cancelled' \subseteq cancelled \cup {p}
            BY <1>1, <1>5, <2>1, CancelFiles DEF HandleCancel
        <3>2. UNCHANGED <<queue, queued>>
            BY <1>5 DEF HandleCancel
        <3>3. Placed'
            BY <1>1, <2>1, <3>1, <3>2 DEF Placed
        <3>4. Released'
            BY <1>1, <3>1, <1>5 DEF Released, GuiHoldsSlot, IInv
        <3>. QED  BY <1>1, <1>2, <3>1, <3>2, <3>3, <3>4 DEF QueueIsSet
    <2>. QED  BY <1>3, <1>5, <2>1 DEF HandleCancel
<1>. QED  BY <1>3, <1>4, <1>5 DEF Repeat, RefuseClosed, HandleStatus

\* Presenting the next plan drops those that no longer wait.
LEMMA ProcessNextPlaces ==
    ASSUME IInv, AInv, ProcessNext
    PROVE  AInv'
<1>. USE DEF service, AInv
<1>1. /\ queue \in Seq(Plans) /\ gui.stage = "idle" /\ active = NoPlan
      /\ UNCHANGED <<service, trail, doc, closed, responses, shown>>
    BY DEF ProcessNext, IInv, Types
<1>2. InStep(trail)' /\ Filed'
    BY <1>1, FiledKept
<1>3. gui.todo = {}
    BY <1>1 DEF Released
<1>4. CASE \E k \in 1..Len(queue) :
            /\ Presentable(k)
            /\ queue' = SubSeq(queue, k + 1, Len(queue))
            /\ queued' = queued \ {queue[j] : j \in 1..k}
            /\ active' = queue[k]
            /\ gui' = Busy("present", queue[k])
    <2>. PICK k \in 1..Len(queue) :
            /\ Presentable(k)
            /\ queue' = SubSeq(queue, k + 1, Len(queue))
            /\ queued' = queued \ {queue[j] : j \in 1..k}
            /\ active' = queue[k]
            /\ gui' = Busy("present", queue[k])
        BY <1>4
    <2>1. /\ queue[k] \in Plans /\ gui'.stage = "present" /\ gui'.plan = queue[k]
          /\ gui'.todo = {} /\ Waiting(queue[k])
        BY <1>1 DEF Busy, IdleGui, Presentable
    <2>2. /\ queue' \in Seq(Plans) /\ Len(queue') = Len(queue) - k
          /\ \A i \in 1..(Len(queue) - k) : queue'[i] = queue[i + k]
        BY <1>1
    <2>3. \A i, j \in 1..Len(queue') : queue'[i] = queue'[j] => i = j
        BY <1>1, <2>2 DEF QueueIsSet
    <2>4. queued' = ToSet(queue')
        <3>1. \A i \in 1..Len(queue') : queue'[i] \in queued'
            <4>. TAKE i \in 1..Len(queue')
            <4>1. i + k \in 1..Len(queue) /\ i \in 1..(Len(queue) - k)
                BY <1>1, <2>2
            <4>2. \A j \in 1..k : queue[j] # queue[i + k]
                BY <1>1, <4>1 DEF QueueIsSet
            <4>. QED  BY <2>2, <4>1, <4>2 DEF QueueIsSet, ToSet
        <3>2. \A q \in queued' : \E i \in 1..Len(queue') : queue'[i] = q
            <4>. TAKE q \in queued'
            <4>0. q \in queued /\ \A j \in 1..k : queue[j] # q
                OBVIOUS
            <4>1. PICK j \in 1..Len(queue) : queue[j] = q /\ ~(j \in 1..k)
                BY <1>1, <4>0 DEF QueueIsSet, ToSet
            <4>2. PICK n \in Nat : n = Len(queue)
                BY <1>1
            <4>3. j \in 1..n /\ k \in 1..n /\ ~(j \in 1..k)
                BY <4>1, <4>2
            <4>4. j - k \in 1..(n - k) /\ (j - k) + k = j
                BY ONLY <4>2, <4>3
            <4>. QED  BY <2>2, <4>1, <4>2, <4>4
        <3>3. ToSet(queue') = {queue'[i] : i \in 1..Len(queue')}
            <4>1. DOMAIN queue' = 1..Len(queue')
                BY ONLY <2>2
            <4>. QED  BY ONLY <4>1, Zenon DEF ToSet
        <3>4. \A q : q \in queued' <=> q \in ToSet(queue')
            BY <3>1, <3>2, <3>3
        <3>. QED  BY <3>4
    <2>5. queue[k] \notin queued'
        BY <1>1
    <2>6. Placed'
        <3>1. \A q \in Plans : Waiting(q) /\ q # queue[k] /\ q \in queued => q \in queued'
            BY DEF Presentable
        <3>2. queued' \subseteq queued /\ queue[k] \in queued
            BY DEF QueueIsSet, ToSet
        <3>3. \A q \in Plans : q # active
            BY <1>1, PlanAssumption
        <3>. QED  BY <1>1, <1>3, <2>1, <3>1, <3>2, <3>3 DEF Placed, Waiting, Known
    <2>7. Released' /\ SlotCanBeDecided'
        BY <2>1 DEF Released, SlotCanBeDecided
    <2>8. QueueIsSet'
        BY <2>3, <2>4, <2>5 DEF QueueIsSet
    <2>. QED  BY <1>2, <2>6, <2>7, <2>8
<1>5. CASE /\ \A k \in 1..Len(queue) : ~Presentable(k)
           /\ queue' = <<>>
           /\ queued' = queued \ ToSet(queue)
           /\ UNCHANGED <<active, gui>>
    <2>1. \A k \in 1..Len(queue) : ~Waiting(queue[k])
        <3>. SUFFICES ASSUME NEW n \in 1..Len(queue), Waiting(queue[n])
                      PROVE  FALSE
            OBVIOUS
        <3>. DEFINE W == {j \in 1..Len(queue) : Waiting(queue[j])}
        <3>. PICK m \in W : \A j \in W : m <= j
            <4>1. W \subseteq Nat /\ W # {}
                OBVIOUS
            <4>. HIDE DEF W
            <4>. QED  BY <4>1, FirstPlace
        <3>. QED  BY <1>1, <1>5 DEF Presentable
    <2>2. queued' = {} /\ ToSet(queue') = {}
        BY <1>5 DEF QueueIsSet, ToSet
    <2>3. QueueIsSet'
        BY <1>5, <2>2 DEF QueueIsSet
    <2>4. Placed'
        BY <1>1, <1>3, <1>5, <2>1, <2>2 DEF Placed, QueueIsSet, ToSet, Waiting, Known
    <2>5. Released' /\ SlotCanBeDecided'
        BY <1>1, <1>5 DEF Released, SlotCanBeDecided
    <2>. QED  BY <1>2, <2>3, <2>4, <2>5
<1>. QED  BY <1>4, <1>5 DEF ProcessNext

\* The GUI thread outside the executor.
LEMMA GuiPlaces ==
    ASSUME IInv, RInv, AInv, AuditMayFail = FALSE,
           \/ \E p \in Plans : DecideStale(p) \/ Decide(p, "deny") \/ Decide(p, "start")
           \/ PresentShown \/ PresentRaises \/ Deny \/ Release
    PROVE  AInv'
<1>. USE DEF service, dispatcher, AInv
<1>1. /\ UNCHANGED <<queue, queued, closed>>
      /\ gui.todo = {} /\ gui.stage \notin {"audit", "closing"}
      /\ gui'.stage \notin {"release", "closing"} /\ gui'.todo = {}
    <2>1. /\ IdleGui.stage = "idle" /\ IdleGui.todo = {}
          /\ \A s, p : Busy(s, p).stage = s /\ Busy(s, p).todo = {}
        BY DEF IdleGui, Busy
    <2>2. /\ UNCHANGED <<queue, queued, closed>>
          /\ gui.stage \in {"idle", "present", "deny", "release"}
        BY DEF DecideStale, Decide, PresentShown, PresentRaises, Deny, Release
    <2>3. \/ UNCHANGED gui /\ gui.stage = "idle"
          \/ gui' = IdleGui
          \/ \E p : gui' \in {Busy("deny", p), Busy("start", p)}
        BY DEF DecideStale, Decide, PresentShown, PresentRaises, Deny, Release
    <2>. QED  BY <2>1, <2>2, <2>3 DEF Released
<1>2. CASE \/ \E p \in Plans : DecideStale(p) \/ Decide(p, "deny") \/ Decide(p, "start")
           \/ PresentShown \/ Release
    <2>1. UNCHANGED <<snapshot, cancelled, trail>>
        BY <1>2 DEF DecideStale, Decide, PresentShown, Release
    <2>2. InStep(trail)' /\ Filed'
        BY <1>1, <2>1, FiledKept
    <2>3. /\ active' \in {active, NoPlan}
          /\ active' = NoPlan /\ active \in Plans => ~Waiting(active)
        BY <1>2, PlanAssumption DEF DecideStale, Decide, PresentShown, Release, ReleasedActive,
                IInv, GuiHoldsSlot, Released
    <2>4. SlotCanBeDecided'
        BY <1>2, PlanAssumption DEF DecideStale, Decide, PresentShown, Release, ReleasedActive,
                SlotCanBeDecided, IInv, GuiHoldsSlot, IdleGui, Busy
    <2>5. QueueIsSet'
        BY <1>1, <2>3, PlanAssumption DEF QueueIsSet, IInv, Types
    <2>6. Placed'
        BY <1>1, <2>1, <2>3, PlanAssumption DEF Placed, Waiting, Known
    <2>. QED  BY <1>1, <2>2, <2>4, <2>5, <2>6 DEF Released
<1>3. CASE PresentRaises \/ Deny
    <2>1. PICK d \in {"cancelled", "denied"}, p \in Plans :
            p = gui.plan /\ (CancelPlan(p, d) \/ CancelPlanRaises(p, d)) /\ active = p
        BY <1>3 DEF PresentRaises, Deny, IInv, GuiHoldsSlot
    <2>2. Known(p) /\ (gui.stage = "audit" => UNCHANGED gui)
        BY <1>1, <2>1 DEF Placed
    <2>. HIDE DEF AInv
    <2>3. /\ CancelPlan(p, d)
          /\ InStep(trail)' /\ Filed'
          /\ \A q \in Plans : Known(q)' <=> Known(q)
          /\ \A q \in Plans : Waiting(q)' <=> Waiting(q) /\ q # p
          /\ cancelled' \subseteq cancelled \cup {p}
        <3>1. InStep(trail) /\ Filed
            BY DEF AInv
        <3>2. CancelPlan(p, d) \/ CancelPlanRaises(p, d)
            BY <2>1
        <3>. QED  BY <2>2, <3>1, <3>2, CancelFiles
    <2>. USE DEF AInv
    <2>4. active' = NoPlan
        <3>1. \A e : ~CancelPlanRaises(p, e)
            BY <2>1, <2>2, <1>1, CancelRaisesNot
        <3>. QED  BY <1>3, <2>1, <3>1 DEF PresentRaises, Deny
    <2>5. Placed'
        BY <1>1, <2>1, <2>2, <2>3, <2>4, PlanAssumption DEF Placed
    <2>6. QueueIsSet'
        BY <1>1, <2>4, PlanAssumption DEF QueueIsSet, IInv, Types
    <2>. QED  BY <1>1, <2>3, <2>4, <2>5, <2>6 DEF Released, SlotCanBeDecided
<1>. QED  BY <1>2, <1>3

\* close() takes the queue and the slot into its own list, and cancels what it holds.
LEMMA ClosePlaces ==
    ASSUME IInv, RInv, AInv, AuditMayFail = FALSE, Close \/ CloseCancels \/ CloseEnds
    PROVE  AInv'
<1>. USE DEF service, dispatcher
<1>1. CASE Close
    <2>1. /\ UNCHANGED <<snapshot, cancelled, trail>>
          /\ gui.stage = "idle" /\ gui'.stage = "closing" /\ gui'.plan = active
          /\ gui'.todo = queued \cup ({active} \ {NoPlan})
          /\ queue' = <<>> /\ queued' = {} /\ active' = NoPlan /\ closed' = TRUE
        BY <1>1 DEF Close, Busy, IdleGui
    <2>2. InStep(trail)' /\ Filed'
        BY <2>1, FiledKept DEF AInv
    <2>3. QueueIsSet'
        BY <2>1 DEF QueueIsSet, ToSet
    <2>4. Placed'
        BY <2>1, PlanAssumption DEF AInv, Released, Placed, Waiting, Known
    <2>5. Released' /\ SlotCanBeDecided'
        BY <2>1 DEF Released, SlotCanBeDecided
    <2>. QED  BY <2>2, <2>3, <2>4, <2>5 DEF AInv
<1>2. CASE CloseCancels
    <2>1. PICK p \in gui.todo : /\ CancelPlan(p, "cancelled") \/ CancelPlanRaises(p, "cancelled")
                                /\ CancelPlan(p, "cancelled") =>
                                        \/ gui' = [gui EXCEPT !.todo = gui.todo \ {p}]
                                        \/ CancelPlanRaises(p, "cancelled")
        BY <1>2 DEF CloseCancels
    <2>2. /\ p \in Plans /\ Known(p) /\ gui.stage = "closing" /\ gui \in GuiStates
          /\ active = NoPlan /\ UNCHANGED dispatcher
        BY <1>2 DEF CloseCancels, AInv, Placed, Released, IInv, Types, GuiStates
    <2>3. InStep(trail) /\ Filed
        BY DEF AInv
    <2>4. ~CancelPlanRaises(p, "cancelled")
        BY <2>2, <2>3, CancelRaisesNot
    <2>5. /\ InStep(trail)' /\ Filed'
          /\ \A q \in Plans : Known(q)' <=> Known(q)
          /\ \A q \in Plans : Waiting(q)' <=> Waiting(q) /\ q # p
          /\ cancelled' \subseteq cancelled \cup {p}
        BY <2>1, <2>2, <2>3, CancelFiles
    <2>6. gui'.stage = "closing" /\ gui'.todo = gui.todo \ {p}
        BY <2>1, <2>2, <2>4 DEF GuiStates
    <2>7. Placed'
        BY <2>2, <2>5, <2>6 DEF AInv, Placed
    <2>8. Released' /\ SlotCanBeDecided' /\ QueueIsSet'
        BY <2>2, <2>6 DEF AInv, Released, SlotCanBeDecided, QueueIsSet
    <2>. QED  BY <2>5, <2>7, <2>8 DEF AInv
<1>3. CASE CloseEnds
    <2>1. /\ UNCHANGED <<snapshot, cancelled, trail, dispatcher>>
          /\ gui.stage = "closing" /\ gui.todo = {} /\ gui'.stage = "idle" /\ gui'.todo = {}
        BY <1>3 DEF CloseEnds, IdleGui
    <2>2. InStep(trail)' /\ Filed'
        BY <2>1, FiledKept DEF AInv
    <2>3. active = NoPlan
        BY <2>1 DEF AInv, Released
    <2>. QED  BY <2>1, <2>2, <2>3 DEF AInv, QueueIsSet, Placed, Released, SlotCanBeDecided, Waiting,
                Known
<1>. QED  BY <1>1, <1>2, <1>3

\* The executor leaves the places alone; the plan it leaves behind no longer waits.
LEMMA ExecutePlaces ==
    ASSUME IInv, DInv, RInv, AInv, RetentionSuffices, AuditMayFail = FALSE, Execute
    PROVE  AInv'
<1>. USE DEF service, dispatcher
<1>1. InStep(trail)' /\ Filed'
    BY ExecutorFiles DEF Execute, AInv
<1>2. UNCHANGED <<dispatcher, cancelled>> /\ ExecutorStep
    BY DEF Execute, ExecutorStep, ExecuteBegins, ExecuteRefused, Check, CallCommits, CallFails,
           CallRaisesLate, Validate, Finish, Undo, Verify, Settle, SaveFinish
<1>3. /\ gui.plan \in Plans /\ active = gui.plan
      /\ gui.stage \in ExecutorStages \cup {"start"} /\ gui.stage # "release"
      /\ gui.todo = {} /\ gui \in GuiStates
    <2>1. gui.stage \in (ExecutorStages \ {"release"}) \cup {"start"}
        BY <1>2 DEF ExecutorStep, ExecuteBegins, ExecuteRefused, Check, CallCommits, CallFails,
                CallRaisesLate, Validate, Finish, Undo, Verify, Settle, SaveFinish, ExecutorStages
    <2>. QED  BY <2>1 DEF ExecutorStages, IInv, GuiHoldsSlot, Types, AInv, Released
<1>4. /\ gui'.plan = gui.plan /\ gui'.todo = {}
      /\ gui'.stage \in ExecutorStages
      /\ gui'.stage = "release" => ExecuteRefused \/ SaveFinish
    BY <1>2, <1>3 DEF ExecutorStep, ExecuteBegins, ExecuteRefused, Check, CallCommits, CallFails,
            CallRaisesLate, Validate, Finish, Undo, Verify, Settle, SaveFinish, Failing,
            GuiStates, ExecutorStages
<1>5. /\ \A q \in Plans : Known(q) => Known(q)'
      /\ \A q \in Plans : Waiting(q)' => Waiting(q)
    <2>1. snapshot \in [Plans -> Snapshots]
        BY DEF IInv, Types
    <2>2. Settle => Outcome(gui.plan).status \in FinalStatuses
        BY DEF Outcome, FinalStatuses
    <2>3. CASE ExecuteBegins \/ Settle
        BY <1>3, <2>1, <2>2, <2>3, BeginsOK DEF ExecuteBegins, Settle, IInv, RunsWhileExecuted,
                RunningStages, ExecutorStages, Known, Waiting, Snapshots, FinalStatuses
    <2>4. CASE Validate
        BY <1>3, <2>1, <2>4 DEF Validate, Known, Waiting, Snapshots
    <2>5. CASE UNCHANGED snapshot
        BY <2>5 DEF Known, Waiting
    <2>. QED  BY <1>2, <2>3, <2>4, <2>5 DEF ExecutorStep, ExecuteRefused, Check, CallCommits,
            CallFails, CallRaisesLate, Finish, Undo, Verify, SaveFinish
<1>6. gui'.stage = "release" => ~Waiting(gui.plan)'
    <2>. PICK p \in Plans : p = gui.plan
        BY <1>3
    <2>1. CASE ExecuteRefused
        <3>1. ~MayStart(p) \/ ~CanApprove(trail, p)
            BY <2>1 DEF ExecuteRefused
        <3>2. Waiting(p) => p \notin cancelled
            BY DEF AInv, Placed
        <3>3. ~Waiting(p)
            BY <3>1, <3>2, WaitingMayStart DEF AInv
        <3>. QED  BY <1>4, <1>5, <3>3 DEF Waiting
    <2>2. CASE SaveFinish
        <3>1. snapshot[p].status \in FinalStatuses
            BY <2>2 DEF SaveFinish, DInv, ToldByEnding
        <3>2. ~Waiting(p)
            BY <3>1 DEF FinalStatuses, Waiting
        <3>. QED  BY <1>4, <1>5, <3>2 DEF Waiting
    <2>. QED  BY <1>4, <2>1, <2>2
<1>7. Placed'
    BY <1>2, <1>3, <1>4, <1>5 DEF AInv, Placed
<1>8. Released'
    <2>1. gui'.stage # "closing"
        BY <1>4 DEF ExecutorStages
    <2>2. gui'.stage = "release" => ~Waiting(gui.plan)'
        BY <1>6
    <2>. QED  BY <1>4, <2>1, <2>2 DEF Released, Waiting
<1>9. QueueIsSet' /\ SlotCanBeDecided'
    BY <1>2, <1>3, <1>4 DEF AInv, QueueIsSet, SlotCanBeDecided, ExecutorStages
<1>. QED  BY <1>1, <1>7, <1>8, <1>9 DEF AInv

-------------------------------------------------------------------------------
(* The theorems, where audit saves do not fail and retention deletes no file *)

LEMMA PlacesInit == Init => AInv
<1>. SUFFICES ASSUME Init
              PROVE  AInv
    OBVIOUS
<1>1. /\ \A p \in Plans : snapshot[p] = Unsubmitted
      /\ cancelled = {} /\ trail = EmptyTrail /\ gui = IdleGui
      /\ queue = <<>> /\ queued = {} /\ active = NoPlan /\ closed = FALSE
    BY DEF Init, ServiceInit
<1>2. InStep(trail) /\ \A p \in Plans : trail.disk[p] = NoRecord
    <2>1. EmptyTrail.log = <<>> /\ EmptyTrail.mem = EmptyTrail.disk
          /\ \A p \in Plans : EmptyTrail.disk[p] = NoRecord
        BY DEF EmptyTrail, Plans
    <2>. QED  BY <1>1, <2>1 DEF InStep, Listed
<1>3. \A p \in Plans : ~Known(p) /\ ~Waiting(p) /\ snapshot[p].status \notin FinalStatuses
    BY <1>1 DEF Unsubmitted, Known, Waiting, FinalStatuses
<1>4. Filed
    BY <1>2, <1>3 DEF Filed
<1>5. QueueIsSet
    BY <1>1 DEF QueueIsSet, ToSet
<1>6. IdleGui.todo = {} /\ IdleGui.stage = "idle"
    BY DEF IdleGui
<1>7. Placed
    BY <1>1, <1>3, <1>6, PlanAssumption DEF Placed
<1>8. Released /\ SlotCanBeDecided
    BY <1>1, <1>6 DEF Released, SlotCanBeDecided
<1>. QED  BY <1>2, <1>4, <1>5, <1>7, <1>8 DEF AInv

LEMMA PlacesKept ==
    ASSUME IInv, DInv, RInv, AInv, RetentionSuffices, AuditMayFail = FALSE, [Next]_vars
    PROVE  AInv'
<1>1. CASE UNCHANGED <<snapshot, cancelled, trail, gui, dispatcher>>
    <2>1. InStep(trail)' /\ Filed'
        BY <1>1, FiledKept DEF AInv
    <2>. QED  BY <1>1, <2>1 DEF AInv, dispatcher, QueueIsSet, Placed, Released, SlotCanBeDecided,
                Waiting, Known
<1>2. CASE GuiStep
    BY <1>2, GuiPlaces, ClosePlaces, ExecutePlaces DEF GuiStep
<1>3. CASE Edit \/ UNCHANGED vars
    BY <1>1, <1>3 DEF Edit, vars, service
<1>. QED  BY <1>2, <1>3, ClientPlaces, ProcessNextPlaces, GuiPlaces, ClosePlaces DEF Next

LEMMA PlacesInvariant ==
    ASSUME AuditMayFail = FALSE, RetentionSuffices
    PROVE  Spec => []AInv
<1>1. IInv /\ DInv /\ RInv /\ AInv /\ [Next]_vars => AInv'
    BY PlacesKept
<1>. QED  BY <1>1, PlacesInit, InductiveInvariant, BooksInvariant, ReliableInvariant, PTL DEF Spec

\* No plan that waits for its user is lost, whatever is submitted again, cancelled
\* or closed meanwhile.
THEOREM WaitingPlansAreKept ==
    ASSUME AuditMayFail = FALSE, RetentionSuffices
    PROVE  Spec => []NoPlanLost
<1>1. AInv /\ IInv => NoPlanLost
    BY PlanAssumption DEF AInv, IInv, Types, QueueIsSet, Placed, NoPlanLost, Released
<1>. QED  BY <1>1, PlacesInvariant, InductiveInvariant, PTL

\* The dispatcher is never stuck with a plan nobody can decide.
THEOREM SlotIsDecided ==
    ASSUME AuditMayFail = FALSE, RetentionSuffices
    PROVE  Spec => []SlotCanBeDecided
<1>1. AInv => SlotCanBeDecided
    BY DEF AInv
<1>. QED  BY <1>1, PlacesInvariant, PTL

\* The audit file of a plan that is over says how it ended.
THEOREM AuditFilesAgree ==
    ASSUME AuditMayFail = FALSE, RetentionSuffices
    PROVE  Spec => []AuditAgreesWithStatus
<1>1. AInv => AuditAgreesWithStatus
    BY DEF AInv, InStep, Listed, Filed, AuditAgreesWithStatus
<1>. QED  BY <1>1, PlacesInvariant, PTL

=============================================================================
