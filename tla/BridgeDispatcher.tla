--------------------------- MODULE BridgeDispatcher ---------------------------
(* bridge/dispatcher.py: requests arrive on the transport's worker threads    *)
(* (submit), wait in a bounded table, and are executed one at a time by the   *)
(* GUI thread (process_next, resolve_confirmation, expire_requests, close).   *)
(* Reads block their worker until an answer or the deadline; mutations answer *)
(* "pending_confirmation" at once and wait for the user.  Every request is    *)
(* audited (AuditTrail), and an audit call may raise.                          *)
(*                                                                            *)
(* One action is one section under the dispatcher's lock, or one step of the  *)
(* GUI thread between two such sections.  Time is the set "due" of requests   *)
(* whose deadline has passed.                                                  *)
EXTENDS AuditTrail, SequencesExt

CONSTANTS
    Workers,         \* transport worker threads
    NoRequest,       \* "no request", for _active_confirmation and idle threads
    Reads,           \* request contents whose tool has risk READ
    Mutations,       \* request contents whose tool needs a confirmation
    NoCall,          \* the content of an untracked identifier
    MaxTracked,      \* max_tracked_requests
    AuditMayFail     \* may a save raise for a reason of the disk?

Ids == Actions       \* a request's identifier is also its audit action's

Calls == Reads \cup Mutations

ASSUME DispatcherAssumption ==
    /\ NoRequest \notin Ids
    /\ NoCall \notin Calls
    /\ Reads \cap Mutations = {}
    /\ MaxTracked \in Nat \ {0}
    /\ AuditMayFail \in BOOLEAN

VARIABLES
    order,     \* the keys of _entries in insertion order
    entry,     \* _entries: content, response, executing flag, safe-state claim
    queue,     \* _queue
    active,    \* _active_confirmation
    closed,    \* _closed
    due,       \* tracked requests whose deadline has passed
    trail,     \* the audit service and its store
    gui,       \* the GUI thread: where it is and the request it works on
    shown,     \* requests handed to the confirmation callback, not resolved yet
    worker,    \* the worker threads
    runs,      \* ghost: how often each request's handler was started (0, 1, 2+)
    changed,   \* ghost: requests whose handler changed the document
    verdict    \* ghost: the first final answer of each request

table == <<order, entry, queue, active, closed, due>>
ghosts == <<runs, changed, verdict>>
vars == <<table, trail, gui, shown, worker, ghosts>>

-------------------------------------------------------------------------------
(* Types *)

FinalAnswers == {"completed", "failed", "cancelled", "expired"}

Answers == {"absent", "none", "pending_confirmation"} \cup FinalAnswers

\* safe_state_restored: True, False, None
SafeClaims == {"yes", "no", "unknown"}

Entries == [call : Calls \cup {NoCall}, answer : Answers, executing : BOOLEAN,
            safe : SafeClaims]

NoEntry == [call |-> NoCall, answer |-> "absent", executing |-> FALSE, safe |-> "unknown"]

\* What a handler did: the outcome of its CAD transaction, and whether it
\* returned.  The adapter commits at most one transaction per mutation.
Succeeded == {"read", "committed", "undid", "exported"}
Raised == {"read_failed", "aborted", "refused", "committed_then_raised"}
Outcomes == {"none"} \cup Succeeded \cup Raised

Stages == {"idle", "present", "approve", "execute", "running", "saved", "answer"}

\* A request is executed in these stages.
Working == {"approve", "execute", "running", "saved"}

GuiStates == [stage : Stages, req : Ids \cup {NoRequest}, call : Calls \cup {NoCall},
              rec : Records, outcome : Outcomes, answer : {"none", "completed", "failed"}]

IdleGui == [stage |-> "idle", req |-> NoRequest, call |-> NoCall, rec |-> NoRecord,
            outcome |-> "none", answer |-> "none"]

WorkerStates == [stage : {"idle", "waiting", "awake"}, req : Ids \cup {NoRequest}]

IdleWorker == [stage |-> "idle", req |-> NoRequest]

TypeOK ==
    /\ order \in Seq(Ids)
    /\ entry \in [Ids -> Entries]
    /\ queue \in Seq(Ids)
    /\ active \in Ids \cup {NoRequest}
    /\ closed \in BOOLEAN
    /\ due \subseteq Ids
    /\ trail \in Trails
    /\ gui \in GuiStates
    /\ gui.stage # "idle" => gui.req \in Ids /\ gui.call \in Calls
    /\ shown \subseteq Ids
    /\ worker \in [Workers -> WorkerStates]
    /\ \A w \in Workers : worker[w].stage # "idle" => worker[w].req \in Ids
    /\ runs \in [Ids -> 0..2]
    /\ changed \subseteq Ids
    /\ verdict \in [Ids -> {"none"} \cup FinalAnswers]

Init ==
    /\ order = <<>>
    /\ entry = [r \in Ids |-> NoEntry]
    /\ queue = <<>>
    /\ active = NoRequest
    /\ closed = FALSE
    /\ due = {}
    /\ trail = EmptyTrail
    /\ gui = IdleGui
    /\ shown = {}
    /\ worker = [w \in Workers |-> IdleWorker]
    /\ runs = [r \in Ids |-> 0]
    /\ changed = {}
    /\ verdict = [r \in Ids |-> "none"]

-------------------------------------------------------------------------------
(* Answers and the expiry sweep *)

Tracked(e) == e.answer # "absent"

Terminal(e) == e.answer \in FinalAnswers

Live(e) == Tracked(e) /\ ~Terminal(e)

Answered(e, a, claim) == [e EXCEPT !.answer = a, !.executing = FALSE, !.safe = claim]

\* entry.event.set(): the threads that wait for a request wake when it is answered.
Woken(e) ==
    [w \in Workers |->
        IF worker[w].stage = "waiting" /\ Terminal(e[worker[w].req])
        THEN [worker[w] EXCEPT !.stage = "awake"]
        ELSE worker[w]]

Judged(e) ==
    [r \in Ids |-> IF verdict[r] = "none" /\ Terminal(e[r]) THEN e[r].answer ELSE verdict[r]]

\* The request table becomes e, whoever waited for a new answer wakes.
Answering(e) ==
    /\ entry' = e
    /\ verdict' = Judged(e)

\* Seeded bug: requests under execution expire too.
ExpiringEvenExecuting == {r \in Ids : Live(entry[r]) /\ r \in due}

\* Seeded bug: only requests somebody waits for expire.
ExpiringReads == {r \in Ids : entry[r].answer = "none" /\ r \in due /\ ~entry[r].executing}

\* _expire_locked expires every due request that is not executing...
Expiring == {r \in Ids : Live(entry[r]) /\ r \in due /\ ~entry[r].executing}

Expired(S) ==
    [r \in Ids |-> IF r \in S THEN Answered(entry[r], "expired", "yes") ELSE entry[r]]

\* ...and cancels its audit action.  This is the state the sweep leaves behind
\* when no audit call raises; the lock section of the caller continues from it.
SweepSucceeds == \A r \in Expiring : CanCancel(trail, r)

SweptEntry == Expired(Expiring)

\* Seeded bug: the audit action of an expired request stays pending.
SweptTrailUntouched == trail

SweptTrail == Cancelled(trail, Expiring, "cancelled")

\* Seeded bug: the slot is not released when its request expires.
SweptActiveKept == active

SweptActive == IF active \in Expiring THEN NoRequest ELSE active

Before(S, f) == {r \in S : \E i, j \in 1..Len(order) : i < j /\ order[i] = r /\ order[j] = f}

GuiInteractive ==
    \* The GUI thread handles events: between calls, or inside a read whose
    \* handler lets Qt process them (Gui.updateGui in the capture tools).
    \/ gui.stage = "idle"
    \/ gui.stage = "running" /\ gui.call \in Reads

\* The audit of some expiring request f raises: the requests before it in the
\* table are expired and cancelled, f has its answer but its audit action does
\* not, the confirmation slot is not cleared for it, and the caller (submit,
\* process_next, resolve_confirmation or expire_requests) is abandoned.
SweepRaises ==
    /\ GuiInteractive \/ \E w \in Workers : worker[w].stage = "idle"
    /\ \E f \in Expiring :
        LET earlier == Before(Expiring, f)
            swept   == Cancelled(trail, earlier, "cancelled")
        IN  /\ \A r \in earlier : CanCancel(trail, r)
            /\ trail' \in TornCancels(swept, f, "cancelled", AuditMayFail)
            /\ Answering(Expired(earlier \cup {f}))
            /\ active' = IF active \in earlier THEN NoRequest ELSE active
    /\ worker' = Woken(entry')
    /\ UNCHANGED <<order, queue, closed, due, gui, shown, runs, changed>>

-------------------------------------------------------------------------------
(* submit, on a worker thread *)

\* _make_room_locked: 0 when there is room, otherwise the position of the first
\* terminal request, which is forgotten; no position when none is terminal.
Rooms(e) ==
    IF Len(order) < MaxTracked THEN {0}
    ELSE {i \in 1..Len(order) : /\ Terminal(e[order[i]])
                                /\ \A j \in 1..(i - 1) : ~Terminal(e[order[j]])}

Evicted(i) == IF i = 0 THEN {} ELSE {order[i]}

OrderWithout(i) == IF i = 0 THEN order ELSE RemoveAt(order, i)

EntriesWithout(e, S) == [r \in Ids |-> IF r \in S THEN NoEntry ELSE e[r]]

\* A read needs no approval; the approval of a mutation is pending.
StartDecision(c) == IF c \in Reads THEN "not_required" ELSE "pending"

\* Seeded bug: a request that was answered is taken for an unknown one.
FreshOnceAnswered(r) == ~Live(SweptEntry[r])

Fresh(r) == ~Tracked(SweptEntry[r])

\* A known identifier: different content is rejected, an existing answer is
\* returned, and a further caller of a pending read waits with the first.
SubmitKnown(w, r, c) ==
    /\ worker[w].stage = "idle"
    /\ SweepSucceeds
    /\ ~Fresh(r)
    /\ Answering(SweptEntry)
    /\ trail' = SweptTrail
    /\ active' = SweptActive
    /\ worker' = IF SweptEntry[r].call = c /\ SweptEntry[r].answer = "none"
                 THEN [Woken(SweptEntry) EXCEPT ![w] = [stage |-> "waiting", req |-> r]]
                 ELSE Woken(SweptEntry)
    /\ UNCHANGED <<order, queue, closed, due, gui, shown, runs, changed>>

\* Closed, or full of requests without an answer: refused, nothing recorded.
SubmitRefused(w, r) ==
    /\ worker[w].stage = "idle"
    /\ SweepSucceeds
    /\ Fresh(r)
    /\ closed \/ Rooms(SweptEntry) = {}
    /\ Answering(SweptEntry)
    /\ trail' = SweptTrail
    /\ active' = SweptActive
    /\ worker' = Woken(SweptEntry)
    /\ UNCHANGED <<order, queue, closed, due, gui, shown, runs, changed>>

\* begin_tool raises after the room was made: the store already has a record of
\* this identifier, or the disk fails before or after the write.
SubmitNotAudited(w, r, c) ==
    /\ worker[w].stage = "idle"
    /\ SweepSucceeds
    /\ Fresh(r)
    /\ ~closed
    /\ \E i \in Rooms(SweptEntry) :
        LET e == EntriesWithout(SweptEntry, Evicted(i))
        IN  /\ order' = OrderWithout(i)
            /\ due' = due \ Evicted(i)
            /\ entry' = e
            /\ verdict' = Judged(SweptEntry)
    /\ \/ /\ ~CanBegin(SweptTrail, r) \/ AuditMayFail
          /\ trail' = SweptTrail
       \/ /\ CanBegin(SweptTrail, r) /\ AuditMayFail
          /\ trail' = BegunTorn(SweptTrail, r, StartDecision(c))
    /\ active' = SweptActive
    /\ worker' = Woken(SweptEntry)
    /\ UNCHANGED <<queue, closed, gui, shown, runs, changed>>

NewEntry(c) ==
    [call |-> c, answer |-> IF c \in Reads THEN "none" ELSE "pending_confirmation",
     executing |-> FALSE, safe |-> "unknown"]

SubmitAccepted(w, r, c) ==
    /\ worker[w].stage = "idle"
    /\ SweepSucceeds
    /\ Fresh(r)
    /\ ~closed
    /\ CanBegin(SweptTrail, r)
    /\ \E i \in Rooms(SweptEntry) :
        /\ order' = Append(OrderWithout(i), r)
        /\ due' = due \ (Evicted(i) \cup {r})
        /\ entry' = [EntriesWithout(SweptEntry, Evicted(i)) EXCEPT ![r] = NewEntry(c)]
        /\ verdict' = Judged(SweptEntry)
    /\ trail' = Begun(SweptTrail, r, StartDecision(c))
    /\ queue' = Append(queue, r)
    /\ active' = SweptActive
    /\ worker' = IF c \in Reads
                 THEN [Woken(SweptEntry) EXCEPT ![w] = [stage |-> "waiting", req |-> r]]
                 ELSE Woken(SweptEntry)
    /\ UNCHANGED <<closed, gui, shown, runs, changed>>

\* Seeded bug: wait_event.wait() without its timeout.
WaitsForAnswer(w) == FALSE /\ w \in Workers /\ UNCHANGED vars

\* wait_event.wait(remaining) gives up at the deadline.
WaitTimesOut(w) ==
    /\ worker[w].stage = "waiting"
    /\ worker[w].req \in due
    /\ worker' = [worker EXCEPT ![w].stage = "awake"]
    /\ UNCHANGED <<table, trail, gui, shown, ghosts>>

\* The waiter takes the lock again and returns what the table holds for its
\* identifier.  A request without an answer is expired here, executing or not;
\* when its audit raises, submit raises with the answer already in place.
SubmitReturns(w) ==
    LET r == worker[w].req
        e == IF entry[r].answer = "none"
             THEN [entry EXCEPT ![r] = Answered(entry[r], "expired", "yes")]
             ELSE entry
    IN  /\ worker[w].stage = "awake"
        /\ Answering(e)
        /\ \/ /\ entry[r].answer # "none"
              /\ UNCHANGED <<trail, active>>
           \/ /\ entry[r].answer = "none"
              /\ CanCancel(trail, r)
              /\ trail' = Cancelled(trail, {r}, "cancelled")
              /\ active' = IF active = r THEN NoRequest ELSE active
           \/ /\ entry[r].answer = "none"
              /\ trail' \in TornCancels(trail, r, "cancelled", AuditMayFail)
              /\ UNCHANGED active
        /\ worker' = [Woken(e) EXCEPT ![w] = IdleWorker]
        /\ UNCHANGED <<order, queue, closed, due, gui, shown, runs, changed>>

-------------------------------------------------------------------------------
(* The GUI timer: expire_requests and process_next, until the bridge stops *)

ExpireRequests ==
    /\ gui.stage = "idle"
    /\ ~closed
    /\ SweepSucceeds
    /\ Answering(SweptEntry)
    /\ trail' = SweptTrail
    /\ active' = SweptActive
    /\ worker' = Woken(SweptEntry)
    /\ UNCHANGED <<order, queue, closed, due, gui, shown, runs, changed>>

\* Seeded bug: the slot is not consulted before the queue is served.
SlotIgnored == TRUE

SlotFree == SweptActive = NoRequest

\* Seeded bug: serving one request forgets those behind it.
QueueDropped(k) == IF k \in DOMAIN queue THEN <<>> ELSE queue

QueueAfter(k) == SubSeq(queue, k + 1, Len(queue))

\* Seeded bug: the request is not copied out of the lock section.
AtStageNoRequest(stage, r, c) == [IdleGui EXCEPT !.stage = stage, !.call = c]

AtStage(stage, r, c) == [IdleGui EXCEPT !.stage = stage, !.req = r, !.call = c]

\* The first queued request that still needs work, after the sweep.
Served(k) ==
    /\ k \in 1..Len(queue)
    /\ Live(SweptEntry[queue[k]])
    /\ \A j \in 1..(k - 1) : ~Live(SweptEntry[queue[j]])

ProcessNothing ==
    /\ gui.stage = "idle"
    /\ ~closed
    /\ SweepSucceeds
    /\ SlotFree
    /\ \A k \in 1..Len(queue) : ~Served(k)
    /\ queue' = <<>>
    /\ Answering(SweptEntry)
    /\ trail' = SweptTrail
    /\ active' = SweptActive
    /\ worker' = Woken(SweptEntry)
    /\ UNCHANGED <<order, closed, due, gui, shown, runs, changed>>

\* A read leaves the queue and is executed outside the lock.
ProcessRead ==
    /\ gui.stage = "idle"
    /\ ~closed
    /\ SweepSucceeds
    /\ SlotFree
    /\ \E k \in 1..Len(queue) :
        LET r == queue[k]
        IN  /\ Served(k)
            /\ SweptEntry[r].call \in Reads
            /\ queue' = QueueAfter(k)
            /\ Answering([SweptEntry EXCEPT ![r].executing = TRUE])
            /\ gui' = AtStage("execute", r, SweptEntry[r].call)
    /\ trail' = SweptTrail
    /\ active' = SweptActive
    /\ worker' = Woken(SweptEntry)
    /\ UNCHANGED <<order, closed, due, shown, runs, changed>>

\* A mutation leaves the queue and takes the confirmation slot.
ProcessMutation ==
    /\ gui.stage = "idle"
    /\ ~closed
    /\ SweepSucceeds
    /\ SlotFree
    /\ \E k \in 1..Len(queue) :
        LET r == queue[k]
        IN  /\ Served(k)
            /\ SweptEntry[r].call \in Mutations
            /\ queue' = QueueAfter(k)
            /\ active' = r
            /\ gui' = AtStage("present", r, SweptEntry[r].call)
    /\ Answering(SweptEntry)
    /\ trail' = SweptTrail
    /\ worker' = Woken(SweptEntry)
    /\ UNCHANGED <<order, closed, due, shown, runs, changed>>

\* The confirmation callback takes the request (and may resolve it at once:
\* that is ResolveApproved as the GUI thread's next step).
PresentShown ==
    /\ gui.stage = "present"
    /\ shown' = shown \cup {gui.req}
    /\ gui' = IdleGui
    /\ UNCHANGED <<table, trail, worker, ghosts>>

\* The callback raises: the audit action is cancelled, then the request failed
\* (GuiAnswers).  If the cancellation raises too, process_next is abandoned.
PresentRaises ==
    /\ gui.stage = "present"
    /\ \/ /\ Tracked(entry[gui.req]) => CanCancel(trail, gui.req)
          /\ trail' = IF Tracked(entry[gui.req])
                      THEN Cancelled(trail, {gui.req}, "cancelled")
                      ELSE trail
          /\ gui' = [gui EXCEPT !.stage = "answer", !.answer = "failed"]
       \/ /\ Tracked(entry[gui.req])
          /\ trail' \in TornCancels(trail, gui.req, "cancelled", AuditMayFail)
          /\ gui' = IdleGui
    /\ UNCHANGED <<table, shown, worker, ghosts>>

-------------------------------------------------------------------------------
(* resolve_confirmation, for a request the user was shown *)

\* The request is unknown, not the active one, or already answered: the user's
\* decision has no effect beyond releasing the slot of an answered request.
ResolveStale(r) ==
    /\ GuiInteractive
    /\ r \in shown
    /\ SweepSucceeds
    /\ ~(SweptActive = r /\ Live(SweptEntry[r]))
    /\ active' = IF SweptActive = r /\ Terminal(SweptEntry[r]) THEN NoRequest ELSE SweptActive
    /\ shown' = shown \ {r}
    /\ Answering(SweptEntry)
    /\ trail' = SweptTrail
    /\ worker' = Woken(SweptEntry)
    /\ UNCHANGED <<order, queue, closed, due, gui, runs, changed>>

ResolveDenied(r) ==
    LET denied == [SweptEntry EXCEPT ![r] = Answered(SweptEntry[r], "cancelled", "yes")]
    IN  /\ GuiInteractive
        /\ r \in shown
        /\ SweepSucceeds
        /\ SweptActive = r /\ Live(SweptEntry[r])
        /\ \/ /\ CanCancel(SweptTrail, r)
              /\ trail' = Cancelled(SweptTrail, {r}, "denied")
              /\ Answering(denied)
              /\ active' = NoRequest
              /\ shown' = shown \ {r}
           \/ /\ trail' \in TornCancels(SweptTrail, r, "denied", AuditMayFail)
              /\ Answering(SweptEntry)
              /\ active' = SweptActive
              /\ UNCHANGED shown
        /\ worker' = Woken(entry')
        /\ UNCHANGED <<order, queue, closed, due, gui, runs, changed>>

ResolveApproved(r) ==
    /\ GuiInteractive
    /\ r \in shown
    /\ SweepSucceeds
    /\ SweptActive = r /\ Live(SweptEntry[r])
    /\ Answering([SweptEntry EXCEPT ![r].executing = TRUE])
    /\ trail' = SweptTrail
    /\ active' = SweptActive
    /\ shown' = shown \ {r}
    /\ gui' = AtStage("approve", r, SweptEntry[r].call)
    /\ worker' = Woken(SweptEntry)
    /\ UNCHANGED <<order, queue, closed, due, runs, changed>>

-------------------------------------------------------------------------------
(* Execution on the GUI thread, outside the lock *)

Failing == [gui EXCEPT !.stage = "answer", !.answer = "failed"]

\* AuditService.approve
ApproveAudit ==
    /\ gui.stage = "approve"
    /\ \/ /\ CanApprove(trail, gui.req)
          /\ trail' = Approved(trail, gui.req)
          /\ gui' = [gui EXCEPT !.stage = "execute"]
       \/ /\ ~CanApprove(trail, gui.req) \/ AuditMayFail
          /\ trail' = trail
          /\ gui' = Failing
       \/ /\ CanApprove(trail, gui.req) /\ AuditMayFail
          /\ trail' = ApprovedTorn(trail, gui.req)
          /\ gui' = Failing
    /\ UNCHANGED <<table, shown, worker, ghosts>>

\* execute_tool runs the handler only of a pending action, and a mutation's only
\* once its approval is on record.
MayRun(rec, c) == rec.status = "pending" /\ (c \in Reads \/ rec.decision = "approved")

ExecuteRefused ==
    /\ gui.stage = "execute"
    /\ ~MayRun(trail.mem[gui.req], gui.call)
    /\ gui' = Failing
    /\ UNCHANGED <<table, trail, shown, worker, ghosts>>

OutcomesOf(c) ==
    IF c \in Reads THEN {"read", "read_failed"}
    ELSE {"committed", "undid", "exported", "aborted", "refused", "committed_then_raised"}

Execute ==
    /\ gui.stage = "execute"
    /\ MayRun(trail.mem[gui.req], gui.call)
    /\ \E o \in OutcomesOf(gui.call) :
        /\ gui' = [gui EXCEPT !.stage = "running", !.rec = trail.mem[gui.req], !.outcome = o]
        /\ changed' = IF o \in {"committed", "undid", "committed_then_raised"}
                      THEN changed \cup {gui.req} ELSE changed
    /\ runs' = [runs EXCEPT ![gui.req] = IF @ = 2 THEN 2 ELSE @ + 1]
    /\ UNCHANGED <<table, trail, shown, worker, verdict>>

\* The outcome is saved on top of the record read before the handler ran; the
\* store refuses it when somebody else finished the action meanwhile.
OutcomeRecord == Finished(gui.rec, IF gui.outcome \in Succeeded THEN "completed" ELSE "failed")

SaveOutcome ==
    /\ gui.stage = "running"
    /\ \/ /\ Accepts(trail, gui.req, OutcomeRecord)
          /\ trail' = Stored(trail, gui.req, OutcomeRecord)
          /\ gui' = [gui EXCEPT !.stage = "saved"]
       \/ /\ ~Accepts(trail, gui.req, OutcomeRecord) \/ AuditMayFail
          /\ trail' = trail
          /\ gui' = Failing
       \/ /\ Accepts(trail, gui.req, OutcomeRecord) /\ AuditMayFail
          /\ trail' = Stored(trail, gui.req, OutcomeRecord)
          /\ gui' = Failing
    /\ UNCHANGED <<table, shown, worker, ghosts>>

\* The service remembers the saved record.  The audit export tool then writes
\* its file a second time, which may raise after the action was completed.
RememberOutcome ==
    /\ gui.stage = "saved"
    /\ trail' = Remembered(trail, gui.req, OutcomeRecord)
    /\ \E a \in {"completed", "failed"} :
        /\ a = "completed" => gui.outcome \in Succeeded
        /\ a = "failed" => gui.outcome \in Raised \cup {"exported"}
        /\ gui' = [gui EXCEPT !.stage = "answer", !.answer = a]
    /\ UNCHANGED <<table, shown, worker, ghosts>>

\* Seeded bug: any failed handler is taken for one that was rolled back.
SafeClaimOptimistic ==
    IF gui.answer = "failed" /\ gui.outcome # "none" THEN "yes" ELSE "unknown"

\* _safe_state_after_failure reads the outcome of the last transaction trace;
\* a presentation failure claims nothing.
SafeClaim ==
    IF gui.answer = "completed" THEN "unknown"
    ELSE IF gui.call \in Reads THEN "yes"
    ELSE IF gui.outcome \in {"aborted", "undid"} THEN "yes"
    ELSE IF gui.outcome \in {"committed", "committed_then_raised"} THEN "no"
    ELSE "unknown"

\* Seeded bug: _finish without the check for an existing answer.
AnswerableTwice(r) == Tracked(entry[r])

Answerable(r) == Live(entry[r])

\* _finish: the answer is dropped when the request was answered or forgotten
\* meanwhile.
GuiAnswers ==
    /\ gui.stage = "answer"
    /\ LET r == gui.req
           e == IF Answerable(r)
                THEN [entry EXCEPT ![r] = Answered(entry[r], gui.answer, SafeClaim)]
                ELSE entry
       IN  /\ Answering(e)
           /\ active' = IF Answerable(r) /\ active = r THEN NoRequest ELSE active
           /\ worker' = Woken(e)
    /\ gui' = IdleGui
    /\ UNCHANGED <<order, queue, closed, due, trail, shown, runs, changed>>

-------------------------------------------------------------------------------
(* close, on the GUI thread: every request without an answer is cancelled *)

Unanswered == {r \in Ids : Live(entry[r])}

ClosedEntries(S) ==
    [r \in Ids |-> IF r \in S THEN Answered(entry[r], "cancelled", "yes") ELSE entry[r]]

Close ==
    /\ GuiInteractive
    /\ ~closed
    /\ closed' = TRUE
    /\ queue' = <<>>
    /\ active' = NoRequest
    /\ \/ /\ \A r \in Unanswered : CanCancel(trail, r)
          /\ trail' = Cancelled(trail, Unanswered, "cancelled")
          /\ Answering(ClosedEntries(Unanswered))
       \/ \E f \in Unanswered :
            LET earlier == Before(Unanswered, f)
            IN  /\ \A r \in earlier : CanCancel(trail, r)
                /\ trail' \in TornCancels(Cancelled(trail, earlier, "cancelled"), f,
                                          "cancelled", AuditMayFail)
                /\ Answering(ClosedEntries(earlier \cup {f}))
    /\ worker' = Woken(entry')
    /\ UNCHANGED <<order, due, gui, shown, runs, changed>>

DeadlinePasses(r) ==
    /\ Live(entry[r])
    /\ r \notin due
    /\ due' = due \cup {r}
    /\ UNCHANGED <<order, entry, queue, active, closed, trail, gui, shown, worker, ghosts>>

-------------------------------------------------------------------------------

Submit(w) ==
    \E r \in Ids, c \in Calls :
        \/ SubmitKnown(w, r, c)
        \/ SubmitRefused(w, r)
        \/ SubmitNotAudited(w, r, c)
        \/ SubmitAccepted(w, r, c)

Tick == ExpireRequests \/ ProcessNothing \/ ProcessRead \/ ProcessMutation

GuiStep ==
    \/ PresentShown \/ PresentRaises
    \/ ApproveAudit \/ ExecuteRefused \/ Execute \/ SaveOutcome \/ RememberOutcome
    \/ GuiAnswers

Resolve(r) == ResolveStale(r) \/ ResolveDenied(r) \/ ResolveApproved(r)

Next ==
    \/ \E w \in Workers : Submit(w) \/ WaitTimesOut(w) \/ SubmitReturns(w)
    \/ SweepRaises
    \/ Tick
    \/ GuiStep
    \/ \E r \in Ids : Resolve(r) \/ DeadlinePasses(r)
    \/ Close

Spec == Init /\ [][Next]_vars

\* The GUI timer fires again and again, the GUI thread and the workers keep
\* running and deadlines pass.  Nothing makes a user decide, a client call or a
\* bridge stop, and nothing makes a disk fail.
Fairness ==
    /\ WF_vars(ExpireRequests)
    /\ WF_vars(ProcessNothing \/ ProcessRead \/ ProcessMutation)
    /\ WF_vars(GuiStep)
    /\ \A w \in Workers : WF_vars(WaitTimesOut(w)) /\ WF_vars(SubmitReturns(w))
    /\ \A r \in Ids : WF_vars(DeadlinePasses(r))

FairSpec == Spec /\ Fairness

\* The GUI thread may hang for ever; only the workers and the clock are fair.
HungGuiSpec ==
    /\ Spec
    /\ \A w \in Workers : WF_vars(WaitTimesOut(w)) /\ WF_vars(SubmitReturns(w))
    /\ \A r \in Ids : WF_vars(DeadlinePasses(r))

-------------------------------------------------------------------------------
(* Safety *)

\* The request table is bounded, and its order lists exactly the tracked
\* requests, each once: eviction (_make_room_locked) and insertion agree.
OrderTracksEntries ==
    /\ Len(order) <= MaxTracked
    /\ \A r \in Ids : Tracked(entry[r]) <=> \E i \in 1..Len(order) : order[i] = r
    /\ \A i, j \in 1..Len(order) : order[i] = order[j] => i = j

\* The handler of a request identifier is started at most once, however often
\* the identifier is submitted, expired, evicted and submitted again, as long as
\* retention has not deleted its audit record.
AtMostOnce == \A r \in Ids : runs[r] <= 1

\* No request is lost: until it is answered it is queued, or it is the active
\* confirmation, or it is the one the GUI thread is executing.
NoRequestStranded ==
    \A r \in Ids : Live(entry[r]) =>
        \/ closed
        \/ entry[r].executing /\ gui.req = r
        \/ ~entry[r].executing /\ (active = r \/ \E k \in 1..Len(queue) : queue[k] = r)

\* The confirmation slot holds a mutation that still waits for its answer, so
\* the queue behind it is never blocked by a request that is over.
SlotHoldsPendingMutation ==
    active # NoRequest => Live(entry[active]) /\ entry[active].call \in Mutations

\* Between the approval of a mutation and its answer, whatever the workers, the
\* clock, the user and the disk do, it stays the active confirmation, tracked,
\* unanswered and protected from expiry.
MutationKeepsSlot ==
    gui.stage \in Working /\ gui.call \in Mutations =>
        /\ active = gui.req
        /\ entry[gui.req].answer = "pending_confirmation"
        /\ entry[gui.req].executing

\* While the GUI thread works on a request no other one waits for the user, and
\* a mutation keeps the slot from its approval to its answer.
ExclusiveExecution ==
    gui.stage \in Working =>
        active = IF gui.call \in Reads THEN NoRequest ELSE gui.req

\* A client told that the safe state was restored (expired, cancelled, denied, or
\* failed with safe_state_restored true) finds the document as it was.
HonestSafeState == \A r \in Ids : entry[r].safe = "yes" => r \notin changed

\* Once a request is answered and the GUI thread has left it, its audit file is
\* final, is what the service remembers, says "completed" when the client was
\* told so, and never says "cancelled" of a request that changed the document.
AuditAgreesWithAnswers ==
    \A r \in Ids : verdict[r] # "none" /\ gui.req # r =>
        /\ trail.disk[r].status \in {"completed", "failed", "cancelled"}
        /\ trail.mem[r] = trail.disk[r]
        /\ verdict[r] = "completed" => trail.disk[r].status = "completed"
        /\ trail.disk[r].status = "cancelled" => r \notin changed

\* An answer given is never replaced by another one: late results of the GUI
\* thread, late expiries of the workers and close() leave it alone.
AnswersAreFinal ==
    [][\A r \in Ids : Terminal(entry[r]) => entry'[r] \in {entry[r], NoEntry}]_entry

\* An audit file only advances: a final status and a decision are never
\* rewritten, and a file disappears only to retention.
AuditFilesAdvance ==
    [][\A r \in Ids :
        LET old == trail.disk[r]
            new == trail'.disk[r]
        IN  new # old =>
            \/ /\ new.rev > old.rev
               /\ old.status \in {"none", "pending"}
               /\ old.decision \notin {"none", "pending"} => new.decision = old.decision
            \/ new = NoRecord /\ Len(trail.log) = MaxActions]_trail

\* A client told "expired" or "cancelled" finds the document as it was, even when
\* audit saves fail.
NegativeVerdictChangesNothing ==
    \A r \in Ids : verdict[r] \in {"expired", "cancelled"} => r \notin changed

\* The request holding the confirmation slot is one the dispatcher still knows,
\* so that the user's decision in the panel can release the slot.
SlotCanBeResolved == active # NoRequest => Tracked(entry[active])

-------------------------------------------------------------------------------
(* The dispatcher keeps the contract of every request.  Evicted requests have no
   entry, so a request's kind and approval are read from its audit file.      *)

ContractView(r) ==
    LET file == trail.disk[r]
    IN  [kind |-> IF file.decision = "none" THEN "unknown"
                  ELSE IF file.decision = "not_required" THEN "read" ELSE "mutation",
         approved |-> file.decision = "approved",
         runs |-> runs[r],
         verdict |-> verdict[r]]

Contract == INSTANCE RequestContract
                WITH Requests <- Ids, request <- [r \in Ids |-> ContractView(r)]

\* Every behaviour of the dispatcher is one the contract allows.
KeepsContract == Contract!Spec

(* Liveness *)

\* Every call of submit returns, under HungGuiSpec: a read is answered or expires
\* even when the GUI thread is stuck and audit saves fail.
CallsReturn == \A w \in Workers : worker[w].stage # "idle" ~> worker[w].stage = "idle"

\* Every accepted request is answered, under FairSpec.
RequestsSettle == \A r \in Ids : Live(entry[r]) ~> ~Live(entry[r])

\* No request keeps the confirmation slot for ever, even when the user never
\* decides, under FairSpec.
SlotReleased == \A r \in Ids : active = r ~> active # r

=============================================================================
