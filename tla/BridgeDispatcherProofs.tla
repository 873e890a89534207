------------------------ MODULE BridgeDispatcherProofs ------------------------
(* Theorems about BridgeDispatcher for any number of requests, workers and    *)
(* places, whether or not audit saves fail and whatever retention deletes.    *)
EXTENDS BridgeDispatcher, AuditTrailProofs

(* The inductive invariant: the kind of content an answer goes with, that the  *)
(* GUI thread brings an answer when it comes to answer, and that a mutation    *)
(* under execution is the active confirmation, unanswered and marked executing.*)

EntryOK(e) ==
    /\ e \in Entries
    /\ Tracked(e) => e.call \in Calls
    /\ e.answer = "none" => e.call \in Reads
    /\ e.answer = "pending_confirmation" => e.call \in Mutations

TableOK(t) == t \in [Ids -> Entries] /\ \A r \in Ids : EntryOK(t[r])

AnswerIsKnown == gui.stage = "answer" => gui.answer # "none"

IInv ==
    /\ TypeOK
    /\ TableOK(entry)
    /\ AnswerIsKnown
    /\ MutationKeepsSlot

-------------------------------------------------------------------------------
(* The operators of the model *)

\* An entry that is answered is a sound entry.
LEMMA AnsweredOK ==
    ASSUME NEW e, EntryOK(e), Tracked(e), NEW a \in FinalAnswers, NEW claim \in SafeClaims
    PROVE  EntryOK(Answered(e, a, claim))
BY DEF EntryOK, Answered, Entries, FinalAnswers, Answers, Tracked

\* An untracked identifier has a sound entry.
LEMMA NoEntryOK == EntryOK(NoEntry)
BY DEF EntryOK, NoEntry, Entries, Answers, SafeClaims, Tracked

\* Marking an unanswered entry as executing keeps it sound.
LEMMA ExecutingOK ==
    ASSUME NEW e, EntryOK(e)
    PROVE  EntryOK([e EXCEPT !.executing = TRUE])
BY DEF EntryOK, Entries, Tracked

\* Expiring any tracked requests, and the sweep in particular.
LEMMA ExpiredOK ==
    ASSUME IInv, NEW S, S \subseteq Expiring
    PROVE  TableOK(Expired(S))
<1>1. \A r \in Ids : EntryOK(Expired(S)[r])
    <2>. SUFFICES ASSUME NEW r \in Ids PROVE EntryOK(Expired(S)[r])
        OBVIOUS
    <2>1. EntryOK(entry[r])
        BY DEF IInv, TableOK
    <2>2. r \in S => Tracked(entry[r])
        BY DEF Expiring, Live
    <2>. QED  BY <2>1, <2>2, AnsweredOK DEF Expired, FinalAnswers, SafeClaims
<1>. QED  BY <1>1 DEF TableOK, EntryOK, Expired

\* What the sweep leaves behind.
LEMMA SweptOK ==
    ASSUME IInv
    PROVE  /\ TableOK(SweptEntry)
           /\ SweptActive \in Ids \cup {NoRequest}
           /\ SweptTrail \in Trails
<1>1. TableOK(SweptEntry)
    BY ExpiredOK DEF SweptEntry
<1>2. SweptActive \in Ids \cup {NoRequest}
    BY DEF SweptActive, IInv, TypeOK
<1>3. SweptTrail \in Trails
    BY CancelledType DEF SweptTrail, IInv, TypeOK, Decisions
<1>. QED  BY <1>1, <1>2, <1>3

\* The type of the worker threads, kept by every wake-up.
WorkersOK(ws) ==
    /\ ws \in [Workers -> WorkerStates]
    /\ \A w \in Workers : ws[w].stage # "idle" => ws[w].req \in Ids

LEMMA WokenOK ==
    ASSUME IInv, NEW e
    PROVE  WorkersOK(Woken(e))
BY DEF IInv, TypeOK, WorkersOK, WorkerStates, Woken

\* Recording the first answers.
LEMMA JudgedOK ==
    ASSUME IInv, NEW e, TableOK(e)
    PROVE  Judged(e) \in [Ids -> {"none"} \cup FinalAnswers]
BY DEF IInv, TypeOK, TableOK, Judged, Terminal

\* Making room keeps the order a sequence of identifiers and the table sound.
LEMMA RoomOK ==
    ASSUME IInv, NEW e, TableOK(e), NEW i \in Rooms(e)
    PROVE  /\ OrderWithout(i) \in Seq(Ids)
           /\ TableOK(EntriesWithout(e, Evicted(i)))
<1>1. order \in Seq(Ids)
    BY DEF IInv, TypeOK
<1>2. i \in 0..Len(order)
    BY <1>1 DEF Rooms
<1>3. OrderWithout(i) \in Seq(Ids)
    BY <1>1, <1>2 DEF OrderWithout, RemoveAt
<1>4. TableOK(EntriesWithout(e, Evicted(i)))
    BY NoEntryOK DEF TableOK, EntriesWithout, EntryOK
<1>. QED  BY <1>3, <1>4

-------------------------------------------------------------------------------
(* The inductive invariant holds *)

LEMMA InitIInv == Init => IInv
<1>. SUFFICES ASSUME Init PROVE IInv
    OBVIOUS
<1>1. \A r \in Ids : EntryOK(NoEntry)
    BY NoEntryOK
<1>2. TableOK(entry)
    BY <1>1 DEF Init, TableOK, EntryOK
<1>3. gui \in GuiStates
    BY RecordTypes DEF Init, GuiStates, IdleGui, Stages, Outcomes
<1>4. WorkersOK(worker)
    BY DEF Init, WorkersOK, WorkerStates, IdleWorker
<1>5. TypeOK
    <2>1. order \in Seq(Ids) /\ queue \in Seq(Ids) /\ runs \in [Ids -> 0..2]
        BY DEF Init
    <2>2. verdict \in [Ids -> {"none"} \cup FinalAnswers] /\ closed \in BOOLEAN
        BY DEF Init
    <2>. QED  BY <1>2, <1>3, <1>4, <2>1, <2>2, EmptyTrailType
              DEF Init, TypeOK, TableOK, IdleGui, WorkersOK
<1>6. AnswerIsKnown /\ MutationKeepsSlot
    BY DEF Init, IdleGui, Working, AnswerIsKnown, MutationKeepsSlot
<1>. QED  BY <1>2, <1>5, <1>6 DEF IInv

\* The worker threads' steps keep the types.
LEMMA WorkerStepTypes ==
    ASSUME IInv, NEW w \in Workers, Submit(w) \/ WaitTimesOut(w) \/ SubmitReturns(w)
    PROVE  (TypeOK /\ TableOK(entry))'
<1>. USE DEF table, ghosts
<1>1. TypeOK /\ TableOK(entry)
    BY DEF IInv
<1>2. ASSUME NEW r \in Ids, NEW c \in Calls, SubmitKnown(w, r, c)
      PROVE  (TypeOK /\ TableOK(entry))'
    <2>1. WorkersOK(worker')
        BY <1>1, <1>2, WokenOK DEF SubmitKnown, WorkersOK, WorkerStates
    <2>2. TableOK(entry')
        BY <1>2, SweptOK DEF SubmitKnown, Answering
    <2>3. verdict' \in [Ids -> {"none"} \cup FinalAnswers]
        BY <1>2, SweptOK, JudgedOK DEF SubmitKnown, Answering
    <2>. QED  BY <1>1, <1>2, <2>1, <2>2, <2>3, SweptOK
              DEF SubmitKnown, TypeOK, TableOK, WorkersOK
<1>3. ASSUME NEW r \in Ids, SubmitRefused(w, r)
      PROVE  (TypeOK /\ TableOK(entry))'
    <2>1. WorkersOK(worker')
        BY <1>3, WokenOK DEF SubmitRefused
    <2>2. TableOK(entry')
        BY <1>3, SweptOK DEF SubmitRefused, Answering
    <2>3. verdict' \in [Ids -> {"none"} \cup FinalAnswers]
        BY <1>3, SweptOK, JudgedOK DEF SubmitRefused, Answering
    <2>. QED  BY <1>1, <1>3, <2>1, <2>2, <2>3, SweptOK
              DEF SubmitRefused, TypeOK, TableOK, WorkersOK
<1>4. ASSUME NEW r \in Ids, NEW c \in Calls, SubmitNotAudited(w, r, c)
      PROVE  (TypeOK /\ TableOK(entry))'
    <2>1. WorkersOK(worker')
        BY <1>4, WokenOK DEF SubmitNotAudited
    <2>2. PICK i \in Rooms(SweptEntry) :
            /\ order' = OrderWithout(i)
            /\ due' = due \ Evicted(i)
            /\ entry' = EntriesWithout(SweptEntry, Evicted(i))
            /\ verdict' = Judged(SweptEntry)
        BY <1>4 DEF SubmitNotAudited
    <2>3. TableOK(entry') /\ order' \in Seq(Ids)
        BY <2>2, SweptOK, RoomOK
    <2>4. verdict' \in [Ids -> {"none"} \cup FinalAnswers]
        BY <2>2, SweptOK, JudgedOK
    <2>5. due' \subseteq Ids
        BY <1>1, <2>2 DEF TypeOK
    <2>6. StartDecision(c) \in Decisions
        BY DEF StartDecision, Decisions
    <2>7. trail' \in Trails
        BY <1>4, <2>6, SweptOK, BegunType DEF SubmitNotAudited, Ids
    <2>. QED  BY <1>1, <1>4, <2>1, <2>3, <2>4, <2>5, <2>7, SweptOK
              DEF SubmitNotAudited, TypeOK, TableOK, WorkersOK
<1>5. ASSUME NEW r \in Ids, NEW c \in Calls, SubmitAccepted(w, r, c)
      PROVE  (TypeOK /\ TableOK(entry))'
    <2>1. WorkersOK(worker')
        BY <1>1, <1>5, WokenOK DEF SubmitAccepted, WorkersOK, WorkerStates
    <2>2. PICK i \in Rooms(SweptEntry) :
            /\ order' = Append(OrderWithout(i), r)
            /\ due' = due \ (Evicted(i) \cup {r})
            /\ entry' = [EntriesWithout(SweptEntry, Evicted(i)) EXCEPT ![r] = NewEntry(c)]
            /\ verdict' = Judged(SweptEntry)
        BY <1>5 DEF SubmitAccepted
    <2>3. EntryOK(NewEntry(c))
        BY DispatcherAssumption
           DEF NewEntry, EntryOK, Entries, Answers, SafeClaims, Tracked, Calls
    <2>4. TableOK(entry') /\ order' \in Seq(Ids)
        BY <2>2, <2>3, SweptOK, RoomOK DEF TableOK, EntryOK
    <2>5. verdict' \in [Ids -> {"none"} \cup FinalAnswers]
        BY <2>2, SweptOK, JudgedOK
    <2>6. due' \subseteq Ids /\ queue' \in Seq(Ids)
        BY <1>1, <1>5, <2>2 DEF TypeOK, SubmitAccepted
    <2>7. StartDecision(c) \in Decisions
        BY DEF StartDecision, Decisions
    <2>8. trail' \in Trails
        BY <1>5, <2>7, SweptOK, BegunType DEF SubmitAccepted, Ids
    <2>. QED  BY <1>1, <1>5, <2>1, <2>4, <2>5, <2>6, <2>8, SweptOK
              DEF SubmitAccepted, TypeOK, TableOK, WorkersOK
<1>6. ASSUME WaitTimesOut(w)
      PROVE  (TypeOK /\ TableOK(entry))'
    <2>1. WorkersOK(worker')
        BY <1>1, <1>6 DEF WaitTimesOut, TypeOK, WorkersOK, WorkerStates
    <2>. QED  BY <1>1, <1>6, <2>1 DEF WaitTimesOut, TypeOK, TableOK, WorkersOK
<1>7. ASSUME SubmitReturns(w)
      PROVE  (TypeOK /\ TableOK(entry))'
    <2>. DEFINE r == worker[w].req
                e == IF entry[r].answer = "none"
                     THEN [entry EXCEPT ![r] = Answered(entry[r], "expired", "yes")]
                     ELSE entry
    <2>1. r \in Ids
        BY <1>1, <1>7 DEF SubmitReturns, TypeOK
    <2>2. TableOK(e)
        BY <1>1, <2>1, AnsweredOK DEF TableOK, EntryOK, Tracked, FinalAnswers, SafeClaims
    <2>3. entry' = e /\ verdict' = Judged(e) /\ worker' = [Woken(e) EXCEPT ![w] = IdleWorker]
        BY <1>7 DEF SubmitReturns, Answering
    <2>4. WorkersOK(worker')
        BY <2>3, WokenOK DEF WorkersOK, WorkerStates, IdleWorker
    <2>5. trail' \in Trails
        BY <1>1, <1>7, <2>1, CancelledType, TornCancelsType
           DEF SubmitReturns, TypeOK, Decisions, Ids
    <2>6. active' \in Ids \cup {NoRequest}
        BY <1>1, <1>7 DEF SubmitReturns, TypeOK
    <2>7. verdict' \in [Ids -> {"none"} \cup FinalAnswers]
        BY <2>2, <2>3, JudgedOK
    <2>. QED  BY <1>1, <1>7, <2>2, <2>3, <2>4, <2>5, <2>6, <2>7
              DEF SubmitReturns, TypeOK, TableOK, WorkersOK
<1>. QED  BY <1>2, <1>3, <1>4, <1>5, <1>6, <1>7 DEF Submit

\* The steps of the GUI timer keep the types.
LEMMA TickTypes ==
    ASSUME IInv, Tick
    PROVE  (TypeOK /\ TableOK(entry))'
<1>. USE DEF table, ghosts
<1>1. TypeOK /\ TableOK(entry)
    BY DEF IInv
<1>2. ASSUME ExpireRequests
      PROVE  (TypeOK /\ TableOK(entry))'
    BY <1>1, <1>2, SweptOK, WokenOK, JudgedOK
       DEF ExpireRequests, Answering, TypeOK, TableOK, WorkersOK
<1>3. ASSUME ProcessNothing
      PROVE  (TypeOK /\ TableOK(entry))'
    <2>1. queue' \in Seq(Ids)
        BY <1>3 DEF ProcessNothing
    <2>. QED  BY <1>1, <1>3, <2>1, SweptOK, WokenOK, JudgedOK
              DEF ProcessNothing, Answering, TypeOK, TableOK, WorkersOK
<1>4. ASSUME NEW k \in 1..Len(queue)
      PROVE  queue[k] \in Ids /\ QueueAfter(k) \in Seq(Ids)
    BY <1>1 DEF TypeOK, QueueAfter
<1>5. ASSUME NEW stage \in {"execute", "present", "approve"}, NEW r \in Ids, NEW c \in Calls
      PROVE  /\ AtStage(stage, r, c) \in GuiStates
             /\ AtStage(stage, r, c).req = r /\ AtStage(stage, r, c).call = c
    BY RecordTypes DEF AtStage, IdleGui, GuiStates, Stages, Outcomes
<1>6. ASSUME ProcessRead
      PROVE  (TypeOK /\ TableOK(entry))'
    <2>1. PICK k \in 1..Len(queue) :
            /\ SweptEntry[queue[k]].call \in Reads
            /\ queue' = QueueAfter(k)
            /\ Answering([SweptEntry EXCEPT ![queue[k]].executing = TRUE])
            /\ gui' = AtStage("execute", queue[k], SweptEntry[queue[k]].call)
        BY <1>6 DEF ProcessRead
    <2>2. queue[k] \in Ids /\ queue' \in Seq(Ids)
        BY <1>4, <2>1
    <2>3. TableOK([SweptEntry EXCEPT ![queue[k]].executing = TRUE])
        BY <2>2, SweptOK, ExecutingOK DEF TableOK, EntryOK
    <2>4. TableOK(entry') /\ verdict' \in [Ids -> {"none"} \cup FinalAnswers]
        BY <2>1, <2>3, JudgedOK DEF Answering
    <2>5. gui' \in GuiStates /\ gui'.req \in Ids /\ gui'.call \in Calls
        BY <1>5, <2>1, <2>2 DEF Calls
    <2>. QED  BY <1>1, <1>6, <2>2, <2>4, <2>5, SweptOK, WokenOK
              DEF ProcessRead, TypeOK, TableOK, WorkersOK
<1>7. ASSUME ProcessMutation
      PROVE  (TypeOK /\ TableOK(entry))'
    <2>1. PICK k \in 1..Len(queue) :
            /\ SweptEntry[queue[k]].call \in Mutations
            /\ queue' = QueueAfter(k)
            /\ active' = queue[k]
            /\ gui' = AtStage("present", queue[k], SweptEntry[queue[k]].call)
        BY <1>7 DEF ProcessMutation
    <2>2. queue[k] \in Ids /\ queue' \in Seq(Ids)
        BY <1>4, <2>1
    <2>3. gui' \in GuiStates /\ gui'.req \in Ids /\ gui'.call \in Calls
        BY <1>5, <2>1, <2>2 DEF Calls
    <2>. QED  BY <1>1, <1>7, <2>1, <2>2, <2>3, SweptOK, WokenOK, JudgedOK
              DEF ProcessMutation, Answering, TypeOK, TableOK, WorkersOK
<1>. QED  BY <1>2, <1>3, <1>6, <1>7 DEF Tick

\* The steps of the GUI thread between two lock sections keep the types.
LEMMA GuiStepTypes ==
    ASSUME IInv, GuiStep
    PROVE  (TypeOK /\ TableOK(entry))'
<1>. USE DEF table, ghosts
<1>1. TypeOK /\ TableOK(entry)
    BY DEF IInv
<1>2. IdleGui \in GuiStates /\ IdleGui.stage = "idle"
    BY RecordTypes DEF IdleGui, GuiStates, Stages, Outcomes
<1>3. \A s \in Stages, a \in {"none", "completed", "failed"} :
        /\ [gui EXCEPT !.stage = s] \in GuiStates
        /\ [gui EXCEPT !.stage = s, !.answer = a] \in GuiStates
        /\ [gui EXCEPT !.stage = s, !.answer = a].req = gui.req
        /\ [gui EXCEPT !.stage = s, !.answer = a].call = gui.call
        /\ [gui EXCEPT !.stage = s].req = gui.req
        /\ [gui EXCEPT !.stage = s].call = gui.call
    BY <1>1 DEF TypeOK, GuiStates
<1>4. Failing \in GuiStates /\ Failing.req = gui.req /\ Failing.call = gui.call
    BY <1>3 DEF Failing, Stages
<1>5. gui.stage # "idle" => gui.req \in Actions /\ gui.call \in Calls
    BY <1>1 DEF TypeOK, Ids
<1>6. CASE PresentShown
    BY <1>1, <1>2, <1>5, <1>6 DEF PresentShown, TypeOK, TableOK, Ids
<1>7. CASE PresentRaises
    <2>1. trail' \in Trails
        BY <1>1, <1>5, <1>7, CancelledType, TornCancelsType
           DEF PresentRaises, TypeOK, Decisions
    <2>2. gui' \in GuiStates /\ (gui'.stage # "idle" => gui'.req \in Ids /\ gui'.call \in Calls)
        BY <1>2, <1>3, <1>5, <1>7 DEF PresentRaises, Stages, Ids
    <2>. QED  BY <1>1, <1>7, <2>1, <2>2 DEF PresentRaises, TypeOK, TableOK
<1>8. CASE ApproveAudit
    <2>1. trail' \in Trails
        BY <1>1, <1>5, <1>8, ApprovedType DEF ApproveAudit, TypeOK
    <2>2. gui' \in GuiStates /\ gui'.req \in Ids /\ gui'.call \in Calls
        BY <1>1, <1>3, <1>4, <1>5, <1>8 DEF ApproveAudit, Stages, Ids
    <2>. QED  BY <1>1, <1>8, <2>1, <2>2 DEF ApproveAudit, TypeOK, TableOK
<1>9. CASE ExecuteRefused
    BY <1>1, <1>4, <1>5, <1>9 DEF ExecuteRefused, TypeOK, TableOK, Ids
<1>10. CASE Execute
    <2>1. PICK o \in OutcomesOf(gui.call) :
            /\ gui' = [gui EXCEPT !.stage = "running", !.rec = trail.mem[gui.req],
                                  !.outcome = o]
            /\ changed' = IF o \in {"committed", "undid", "committed_then_raised"}
                          THEN changed \cup {gui.req} ELSE changed
        BY <1>10 DEF Execute
    <2>2. o \in Outcomes
        BY DEF OutcomesOf, Outcomes, Succeeded, Raised
    <2>3. trail.mem[gui.req] \in Records
        BY <1>1, <1>5, <1>10 DEF Execute, TypeOK, Trails
    <2>4. gui' \in GuiStates /\ gui'.req \in Ids /\ gui'.call \in Calls
        <3>1. [gui EXCEPT !.stage = "running"] \in GuiStates
            BY <1>3 DEF Stages
        <3>2. [[gui EXCEPT !.stage = "running"] EXCEPT !.rec = trail.mem[gui.req]]
                    \in GuiStates
            BY <2>3, <3>1 DEF GuiStates
        <3>3. gui' \in GuiStates
            BY <2>1, <2>2, <3>2 DEF GuiStates
        <3>4. gui'.req = gui.req /\ gui'.call = gui.call
            BY <1>1, <2>1 DEF TypeOK, GuiStates
        <3>. QED  BY <1>5, <1>10, <3>3, <3>4 DEF Execute, Ids
    <2>5. changed' \subseteq Ids
        BY <1>1, <1>5, <1>10, <2>1 DEF Execute, TypeOK, Ids
    <2>6. runs' \in [Ids -> 0..2]
        <3>1. runs[gui.req] \in 0..2
            BY <1>1, <1>5, <1>10 DEF Execute, TypeOK, Ids
        <3>2. (IF runs[gui.req] = 2 THEN 2 ELSE runs[gui.req] + 1) \in 0..2
            BY <3>1
        <3>. QED  BY <1>1, <1>10, <3>2 DEF Execute, TypeOK
    <2>. QED  BY <1>1, <1>10, <2>4, <2>5, <2>6 DEF Execute, TypeOK, TableOK
<1>11. OutcomeRecord \in Records
    BY <1>1, RecordTypes DEF OutcomeRecord, TypeOK, GuiStates, Statuses
<1>12. CASE SaveOutcome
    <2>1. trail' \in Trails
        BY <1>1, <1>5, <1>11, <1>12, StoredType DEF SaveOutcome, TypeOK
    <2>2. gui' \in GuiStates /\ gui'.req \in Ids /\ gui'.call \in Calls
        BY <1>1, <1>3, <1>4, <1>5, <1>12 DEF SaveOutcome, Stages, Ids
    <2>. QED  BY <1>1, <1>12, <2>1, <2>2 DEF SaveOutcome, TypeOK, TableOK
<1>13. CASE RememberOutcome
    <2>1. trail' \in Trails
        BY <1>1, <1>5, <1>11, <1>13, RememberedType DEF RememberOutcome, TypeOK
    <2>2. PICK a \in {"completed", "failed"} :
                gui' = [gui EXCEPT !.stage = "answer", !.answer = a]
        BY <1>13 DEF RememberOutcome
    <2>3. gui.req \in Ids /\ gui.call \in Calls
        BY <1>5, <1>13 DEF RememberOutcome, Ids
    <2>4. gui' \in GuiStates /\ gui'.req \in Ids /\ gui'.call \in Calls
        BY <1>3, <2>2, <2>3 DEF Stages
    <2>. QED  BY <1>1, <1>13, <2>1, <2>4 DEF RememberOutcome, TypeOK, TableOK
<1>14. CASE GuiAnswers
    <2>. DEFINE e == IF Answerable(gui.req)
                     THEN [entry EXCEPT ![gui.req] =
                                Answered(entry[gui.req], gui.answer, SafeClaim)]
                     ELSE entry
    <2>1. SafeClaim \in SafeClaims
        BY DEF SafeClaim, SafeClaims
    <2>2. gui.req \in Ids
        BY <1>5, <1>14 DEF GuiAnswers, Ids
    <2>3. entry' = e /\ verdict' = Judged(e) /\ worker' = Woken(e)
        BY <1>14 DEF GuiAnswers, Answering
    <2>4. gui.answer \in FinalAnswers
        BY <1>1, <1>14 DEF GuiAnswers, IInv, AnswerIsKnown, TypeOK, GuiStates, FinalAnswers
    <2>5. TableOK(e)
        BY <1>1, <2>1, <2>2, <2>4, AnsweredOK DEF TableOK, EntryOK, Answerable, Live
    <2>. QED  BY <1>1, <1>2, <1>14, <2>3, <2>5, WokenOK, JudgedOK
              DEF GuiAnswers, TypeOK, TableOK, WorkersOK
<1>. QED  BY <1>6, <1>7, <1>8, <1>9, <1>10, <1>12, <1>13, <1>14 DEF GuiStep

\* The sweep that raises, the user's decisions, close and the clock.
LEMMA OtherStepTypes ==
    ASSUME IInv,
           \/ SweepRaises
           \/ \E r \in Ids : Resolve(r) \/ DeadlinePasses(r)
           \/ Close
    PROVE  (TypeOK /\ TableOK(entry))'
<1>. USE DEF table, ghosts
<1>1. TypeOK /\ TableOK(entry)
    BY DEF IInv
<1>2. CASE SweepRaises
    <2>1. PICK f \in Expiring :
            LET earlier == Before(Expiring, f)
                swept   == Cancelled(trail, earlier, "cancelled")
            IN  /\ trail' \in TornCancels(swept, f, "cancelled", AuditMayFail)
                /\ Answering(Expired(earlier \cup {f}))
                /\ active' = IF active \in earlier THEN NoRequest ELSE active
        BY <1>2 DEF SweepRaises
    <2>. DEFINE earlier == Before(Expiring, f)
    <2>2. f \in Actions /\ earlier \cup {f} \subseteq Expiring
        BY DEF Before, Expiring, Ids
    <2>3. TableOK(Expired(earlier \cup {f}))
        BY <2>2, ExpiredOK
    <2>4. trail' \in Trails
        BY <1>1, <2>1, <2>2, CancelledType, TornCancelsType DEF TypeOK, Decisions
    <2>5. active' \in Ids \cup {NoRequest}
        BY <1>1, <2>1 DEF TypeOK
    <2>. QED  BY <1>1, <1>2, <2>1, <2>3, <2>4, <2>5, WokenOK, JudgedOK
              DEF SweepRaises, Answering, TypeOK, TableOK, WorkersOK
<1>3. ASSUME NEW r \in Ids, ResolveStale(r)
      PROVE  (TypeOK /\ TableOK(entry))'
    BY <1>1, <1>3, SweptOK, WokenOK, JudgedOK
       DEF ResolveStale, Answering, TypeOK, TableOK, WorkersOK
<1>4. ASSUME NEW r \in Ids, ResolveDenied(r)
      PROVE  (TypeOK /\ TableOK(entry))'
    <2>. DEFINE denied == [SweptEntry EXCEPT ![r] = Answered(SweptEntry[r], "cancelled", "yes")]
    <2>1. EntryOK(SweptEntry[r]) /\ Tracked(SweptEntry[r])
        BY <1>4, SweptOK DEF ResolveDenied, Live, TableOK
    <2>2. TableOK(denied)
        BY <2>1, SweptOK, AnsweredOK DEF TableOK, EntryOK, FinalAnswers, SafeClaims
    <2>3. Answering(denied) \/ Answering(SweptEntry)
        BY <1>4 DEF ResolveDenied
    <2>4. TableOK(entry') /\ verdict' \in [Ids -> {"none"} \cup FinalAnswers]
        BY <2>2, <2>3, SweptOK, JudgedOK DEF Answering
    <2>5. trail' \in Trails
        BY <1>4, SweptOK, CancelledType, TornCancelsType DEF ResolveDenied, Decisions, Ids
    <2>6. active' \in Ids \cup {NoRequest} /\ shown' \subseteq Ids
        BY <1>1, <1>4, SweptOK DEF ResolveDenied, TypeOK
    <2>7. WorkersOK(worker')
        BY <1>4, WokenOK DEF ResolveDenied
    <2>. QED  BY <1>1, <1>4, <2>4, <2>5, <2>6, <2>7
              DEF ResolveDenied, TypeOK, TableOK, WorkersOK
<1>5. ASSUME NEW r \in Ids, ResolveApproved(r)
      PROVE  (TypeOK /\ TableOK(entry))'
    <2>1. EntryOK(SweptEntry[r]) /\ Tracked(SweptEntry[r])
        BY <1>5, SweptOK DEF ResolveApproved, Live, TableOK
    <2>2. TableOK([SweptEntry EXCEPT ![r].executing = TRUE])
        BY <2>1, SweptOK, ExecutingOK DEF TableOK, EntryOK
    <2>3. gui' \in GuiStates /\ gui'.req = r /\ gui'.call \in Calls
        BY <1>5, <2>1, RecordTypes
           DEF ResolveApproved, AtStage, IdleGui, GuiStates, Stages, Outcomes, EntryOK
    <2>. QED  BY <1>1, <1>5, <2>2, <2>3, SweptOK, WokenOK, JudgedOK
              DEF ResolveApproved, Answering, TypeOK, TableOK, WorkersOK
<1>6. CASE Close
    <2>1. \A S : S \subseteq Unanswered => TableOK(ClosedEntries(S))
        <3>. SUFFICES ASSUME NEW S, S \subseteq Unanswered, NEW r \in Ids
                      PROVE  EntryOK(ClosedEntries(S)[r])
            BY DEF TableOK, EntryOK, ClosedEntries
        <3>1. EntryOK(entry[r]) /\ (r \in S => Tracked(entry[r]))
            BY <1>1 DEF TableOK, Unanswered, Live
        <3>. QED  BY <3>1, AnsweredOK DEF ClosedEntries, FinalAnswers, SafeClaims
    <2>2. \A f \in Unanswered : Before(Unanswered, f) \cup {f} \subseteq Unanswered
        BY DEF Before
    <2>3. \E S \in SUBSET Unanswered : Answering(ClosedEntries(S))
        BY <1>6, <2>2 DEF Close
    <2>4. TableOK(entry') /\ verdict' \in [Ids -> {"none"} \cup FinalAnswers]
        BY <2>1, <2>3, JudgedOK DEF Answering
    <2>5. trail' \in Trails
        BY <1>1, <1>6, CancelledType, TornCancelsType
           DEF Close, TypeOK, Decisions, Unanswered, Ids
    <2>6. queue' \in Seq(Ids) /\ WorkersOK(worker')
        BY <1>6, WokenOK DEF Close
    <2>. QED  BY <1>1, <1>6, <2>4, <2>5, <2>6 DEF Close, TypeOK, TableOK, WorkersOK
<1>7. ASSUME NEW r \in Ids, DeadlinePasses(r)
      PROVE  (TypeOK /\ TableOK(entry))'
    BY <1>1, <1>7 DEF DeadlinePasses, TypeOK, TableOK
<1>. QED  BY <1>2, <1>3, <1>4, <1>5, <1>6, <1>7 DEF Resolve

\* Every step keeps the types.
LEMMA NextTypes ==
    ASSUME IInv, [Next]_vars
    PROVE  (TypeOK /\ TableOK(entry))'
<1>1. CASE \E w \in Workers : Submit(w) \/ WaitTimesOut(w) \/ SubmitReturns(w)
    BY <1>1, WorkerStepTypes
<1>2. CASE Tick
    BY <1>2, TickTypes
<1>3. CASE GuiStep
    BY <1>3, GuiStepTypes
<1>4. CASE SweepRaises \/ (\E r \in Ids : Resolve(r) \/ DeadlinePasses(r)) \/ Close
    BY <1>4, OtherStepTypes
<1>5. CASE UNCHANGED vars
    BY <1>5 DEF vars, table, ghosts, IInv, TypeOK, TableOK
<1>. QED  BY <1>1, <1>2, <1>3, <1>4, <1>5 DEF Next

-------------------------------------------------------------------------------
(* A mutation under execution keeps the confirmation slot *)

HoldsSlot(r) ==
    active = r /\ entry[r].answer = "pending_confirmation" /\ entry[r].executing

\* The sweep leaves a request that is executing alone.
LEMMA SweptKeepsSlot ==
    ASSUME IInv, NEW r \in Ids, HoldsSlot(r)
    PROVE  SweptEntry[r] = entry[r] /\ SweptActive = r /\ r \notin Expiring
BY DEF HoldsSlot, SweptEntry, SweptActive, Expired, Expiring

\* What the workers and the clock do leaves it alone too: it is not fresh, it is
\* not terminal, and nobody waits for it.
LEMMA WorkersKeepSlot ==
    ASSUME IInv, NEW r \in Ids, HoldsSlot(r),
           \/ \E w \in Workers : Submit(w) \/ WaitTimesOut(w) \/ SubmitReturns(w)
           \/ SweepRaises
           \/ \E q \in Ids : DeadlinePasses(q)
    PROVE  HoldsSlot(r)'
<1>. USE DEF table
<1>1. entry \in [Ids -> Entries] /\ SweptEntry \in [Ids -> Entries]
    BY SweptOK DEF IInv, TableOK
<1>2. SweptEntry[r] = entry[r] /\ SweptActive = r /\ r \notin Expiring
    BY SweptKeepsSlot
<1>3. Live(entry[r]) /\ entry[r].answer # "none"
    BY DEF HoldsSlot, Live, Tracked, Terminal, FinalAnswers
<1>4. ASSUME NEW i \in Rooms(SweptEntry)
      PROVE  EntriesWithout(SweptEntry, Evicted(i))[r] = entry[r]
    BY <1>2, <1>3, <1>4 DEF Rooms, Evicted, EntriesWithout, Live
<1>5. ASSUME NEW w \in Workers, NEW q \in Ids, NEW c \in Calls, SubmitKnown(w, q, c)
      PROVE  HoldsSlot(r)'
    BY <1>2, <1>5 DEF SubmitKnown, Answering, HoldsSlot
<1>6. ASSUME NEW w \in Workers, NEW q \in Ids, SubmitRefused(w, q)
      PROVE  HoldsSlot(r)'
    BY <1>2, <1>6 DEF SubmitRefused, Answering, HoldsSlot
<1>7. ASSUME NEW w \in Workers, NEW q \in Ids, NEW c \in Calls, SubmitNotAudited(w, q, c)
      PROVE  HoldsSlot(r)'
    BY <1>2, <1>4, <1>7 DEF SubmitNotAudited, HoldsSlot
<1>8. ASSUME NEW w \in Workers, NEW q \in Ids, NEW c \in Calls, SubmitAccepted(w, q, c)
      PROVE  HoldsSlot(r)'
    <2>1. q # r
        BY <1>2, <1>3, <1>8 DEF SubmitAccepted, Fresh, Live
    <2>2. PICK i \in Rooms(SweptEntry) :
            entry' = [EntriesWithout(SweptEntry, Evicted(i)) EXCEPT ![q] = NewEntry(c)]
        BY <1>8 DEF SubmitAccepted
    <2>3. EntriesWithout(SweptEntry, Evicted(i)) \in [Ids -> Entries]
        BY RoomOK, SweptOK DEF TableOK
    <2>4. entry'[r] = entry[r]
        BY <1>4, <2>1, <2>2, <2>3
    <2>. QED  BY <1>2, <1>8, <2>4 DEF SubmitAccepted, HoldsSlot
<1>9. ASSUME NEW w \in Workers, WaitTimesOut(w)
      PROVE  HoldsSlot(r)'
    BY <1>9 DEF WaitTimesOut, HoldsSlot
<1>10. ASSUME NEW w \in Workers, SubmitReturns(w)
       PROVE  HoldsSlot(r)'
    <2>1. CASE entry[worker[w].req].answer = "none"
        <3>1. worker[w].req # r
            BY <1>3, <2>1
        <3>2. entry'[r] = entry[r] /\ active' = active
            BY <1>1, <1>10, <2>1, <3>1 DEF SubmitReturns, Answering, HoldsSlot
        <3>. QED  BY <3>2 DEF HoldsSlot
    <2>2. CASE entry[worker[w].req].answer # "none"
        BY <1>10, <2>2 DEF SubmitReturns, Answering, HoldsSlot
    <2>. QED  BY <2>1, <2>2
<1>11. CASE SweepRaises
    <2>1. PICK f \in Expiring :
            LET earlier == Before(Expiring, f)
            IN  /\ Answering(Expired(earlier \cup {f}))
                /\ active' = IF active \in earlier THEN NoRequest ELSE active
        BY <1>11 DEF SweepRaises
    <2>2. r \notin Before(Expiring, f) \cup {f}
        BY <1>2 DEF Before
    <2>. QED  BY <2>1, <2>2 DEF Answering, Expired, HoldsSlot
<1>12. ASSUME NEW q \in Ids, DeadlinePasses(q)
       PROVE  HoldsSlot(r)'
    BY <1>12 DEF DeadlinePasses, HoldsSlot
<1>. QED  BY <1>5, <1>6, <1>7, <1>8, <1>9, <1>10, <1>11, <1>12 DEF Submit

\* The inductive step of the two conjuncts about the GUI thread.
LEMMA NextKeepsSlot ==
    ASSUME IInv, [Next]_vars
    PROVE  (AnswerIsKnown /\ MutationKeepsSlot)'
<1>. USE DEF table, ghosts
<1>1. TypeOK /\ AnswerIsKnown /\ MutationKeepsSlot
    BY DEF IInv
<1>2. CASE gui' = gui /\ entry' = entry /\ active' = active
    BY <1>1, <1>2 DEF AnswerIsKnown, MutationKeepsSlot
<1>3. CASE \/ \E w \in Workers : Submit(w) \/ WaitTimesOut(w) \/ SubmitReturns(w)
           \/ SweepRaises
           \/ \E q \in Ids : DeadlinePasses(q)
    <2>1. gui' = gui
        <3>1. ASSUME NEW w \in Workers, Submit(w)
              PROVE  gui' = gui
            BY <3>1, Zenon
               DEF Submit, SubmitKnown, SubmitRefused, SubmitNotAudited, SubmitAccepted
        <3>2. ASSUME NEW w \in Workers, WaitTimesOut(w) \/ SubmitReturns(w)
              PROVE  gui' = gui
            BY <3>2 DEF WaitTimesOut, SubmitReturns
        <3>. QED  BY <1>3, <3>1, <3>2 DEF SweepRaises, DeadlinePasses
    <2>2. CASE gui.stage \in Working /\ gui.call \in Mutations
        <3>1. gui.req \in Ids /\ HoldsSlot(gui.req)
            BY <1>1, <2>2 DEF TypeOK, Working, MutationKeepsSlot, HoldsSlot
        <3>2. HoldsSlot(gui.req)'
            BY <1>3, <2>1, <3>1, WorkersKeepSlot DEF HoldsSlot
        <3>. QED  BY <1>1, <2>1, <3>2 DEF AnswerIsKnown, MutationKeepsSlot, HoldsSlot
    <2>3. CASE ~(gui.stage \in Working /\ gui.call \in Mutations)
        BY <1>1, <2>1, <2>3 DEF AnswerIsKnown, MutationKeepsSlot
    <2>. QED  BY <2>2, <2>3
<1>4. CASE GuiInteractive /\ gui' = gui
    <2>1. ~(gui.stage \in Working /\ gui.call \in Mutations)
        BY <1>4, DispatcherAssumption DEF GuiInteractive, Working
    <2>. QED  BY <1>1, <1>4, <2>1 DEF AnswerIsKnown, MutationKeepsSlot
<1>5. CASE Tick
    <2>1. gui' = gui \/ gui'.stage = "present" \/ (gui'.stage = "execute" /\ gui'.call \in Reads)
        BY <1>5 DEF Tick, ExpireRequests, ProcessNothing, ProcessRead, ProcessMutation,
                    AtStage, IdleGui
    <2>2. gui.stage = "idle"
        BY <1>5 DEF Tick, ExpireRequests, ProcessNothing, ProcessRead, ProcessMutation
    <2>. QED  BY <2>1, <2>2, DispatcherAssumption
              DEF AnswerIsKnown, MutationKeepsSlot, Working
<1>6. CASE GuiStep
    <2>. USE DEF Working, AnswerIsKnown, MutationKeepsSlot, TypeOK, GuiStates, IdleGui, Failing
    <2>1. CASE PresentShown \/ GuiAnswers
        <3>1. gui' = IdleGui
            BY <2>1 DEF PresentShown, GuiAnswers
        <3>. QED  BY <3>1
    <2>2. CASE PresentRaises
        <3>1. gui' = IdleGui \/ (gui'.stage = "answer" /\ gui'.answer = "failed")
            BY <1>1, <2>2 DEF PresentRaises
        <3>. QED  BY <3>1
    <2>3. CASE ApproveAudit
        BY <1>1, <2>3 DEF ApproveAudit
    <2>4. CASE ExecuteRefused
        BY <1>1, <2>4 DEF ExecuteRefused
    <2>5. CASE Execute
        BY <1>1, <2>5 DEF Execute
    <2>6. CASE SaveOutcome
        BY <1>1, <2>6 DEF SaveOutcome
    <2>7. CASE RememberOutcome
        BY <1>1, <2>7 DEF RememberOutcome
    <2>. QED  BY <1>6, <2>1, <2>2, <2>3, <2>4, <2>5, <2>6, <2>7 DEF GuiStep
<1>7. ASSUME NEW r \in Ids, ResolveApproved(r)
      PROVE  (AnswerIsKnown /\ MutationKeepsSlot)'
    <2>1. gui'.stage = "approve" /\ gui'.req = r /\ gui'.call = SweptEntry[r].call
        BY <1>7 DEF ResolveApproved, AtStage, IdleGui
    <2>2. SweptActive = r /\ Live(SweptEntry[r]) /\ EntryOK(SweptEntry[r])
        BY <1>7, SweptOK DEF ResolveApproved, TableOK
    <2>3. gui'.call \in Mutations => SweptEntry[r].answer = "pending_confirmation"
        BY <2>1, <2>2, DispatcherAssumption
           DEF EntryOK, Entries, Answers, Live, Tracked, Terminal
    <2>4. SweptEntry \in [Ids -> Entries]
        BY SweptOK DEF TableOK
    <2>5. entry'[r] = [SweptEntry[r] EXCEPT !.executing = TRUE] /\ active' = r
        BY <1>7, <2>2, <2>4 DEF ResolveApproved, Answering
    <2>6. entry'[r].executing /\ entry'[r].answer = SweptEntry[r].answer
        BY <2>4, <2>5 DEF Entries
    <2>. QED  BY <2>1, <2>3, <2>5, <2>6 DEF AnswerIsKnown, MutationKeepsSlot
<1>8. ASSUME NEW r \in Ids, ResolveStale(r) \/ ResolveDenied(r)
      PROVE  (AnswerIsKnown /\ MutationKeepsSlot)'
    BY <1>4, <1>8 DEF ResolveStale, ResolveDenied
<1>9. CASE Close
    BY <1>4, <1>9 DEF Close
<1>10. CASE UNCHANGED vars
    BY <1>2, <1>10 DEF vars
<1>. QED  BY <1>3, <1>5, <1>6, <1>7, <1>8, <1>9, <1>10 DEF Next, Resolve

\* The inductive invariant holds in every reachable state.
THEOREM InductiveInvariant == Spec => []IInv
<1>1. IInv /\ [Next]_vars => IInv'
    BY NextTypes, NextKeepsSlot DEF IInv
<1>. QED  BY InitIInv, <1>1, PTL DEF Spec

\* The dispatcher's variables keep their types, in particular the GUI thread and
\* the worker threads always know the request they work on.
THEOREM TypeCorrect == Spec => []TypeOK
<1>1. IInv => TypeOK
    BY DEF IInv
<1>. QED  BY InductiveInvariant, <1>1, PTL

\* From its approval to its answer a mutation is the active confirmation and is
\* neither expired, cancelled, evicted nor answered by anybody else, even when
\* audit saves fail and retention deletes records.
THEOREM SlotKept == Spec => []MutationKeepsSlot
<1>1. IInv => MutationKeepsSlot
    BY DEF IInv
<1>. QED  BY InductiveInvariant, <1>1, PTL

-------------------------------------------------------------------------------
(* Answers are final and the table agrees with its order *)

\* A table that gives the same answers as the present one and tracks the same
\* requests: what every step but an admission makes of it.
KeepsAnswers(e) ==
    \A r \in Ids : /\ Terminal(entry[r]) => e[r] = entry[r]
                   /\ Tracked(e[r]) <=> Tracked(entry[r])

\* An answered request is tracked.
LEMMA AnsweredTracked ==
    ASSUME NEW e \in Entries, NEW a \in FinalAnswers, NEW claim
    PROVE  Tracked(Answered(e, a, claim))
BY DEF Answered, Tracked, FinalAnswers, Entries

\* The sweep, and any part of it, only answers unanswered requests.
LEMMA SweptKeepsAnswers ==
    ASSUME IInv, NEW S, S \subseteq Expiring
    PROVE  KeepsAnswers(Expired(S)) /\ KeepsAnswers(SweptEntry)
<1>1. ASSUME NEW r \in Expiring
      PROVE  Tracked(Answered(entry[r], "expired", "yes")) /\ Live(entry[r])
    BY AnsweredTracked DEF Expiring, FinalAnswers, IInv, TypeOK
<1>. QED  BY <1>1 DEF KeepsAnswers, Expired, SweptEntry, Live

\* So does answering one more request, or marking one as executing.
LEMMA UpdateKeepsAnswers ==
    ASSUME NEW e \in [Ids -> Entries], KeepsAnswers(e), NEW r \in Ids, Live(e[r]),
           NEW a \in FinalAnswers, NEW claim
    PROVE  /\ KeepsAnswers([e EXCEPT ![r] = Answered(e[r], a, claim)])
           /\ KeepsAnswers([e EXCEPT ![r].executing = TRUE])
<1>1. ~Terminal(entry[r]) /\ Tracked(entry[r])
    BY DEF KeepsAnswers, Live
<1>2. Tracked(Answered(e[r], a, claim))
    BY AnsweredTracked
<1>3. Tracked([e[r] EXCEPT !.executing = TRUE])
    BY DEF Live, Tracked, Entries
<1>. QED  BY <1>1, <1>2, <1>3 DEF KeepsAnswers

\* A step of the workers that admits no request.
LEMMA WorkersKeepAnswers ==
    ASSUME IInv, NEW w \in Workers,
           \/ \E r \in Ids, c \in Calls : SubmitKnown(w, r, c) \/ SubmitRefused(w, r)
           \/ WaitTimesOut(w)
           \/ SubmitReturns(w)
    PROVE  KeepsAnswers(entry') /\ order' = order
<1>. USE DEF table
<1>1. KeepsAnswers(SweptEntry) /\ KeepsAnswers(entry)
    BY SweptKeepsAnswers DEF KeepsAnswers
<1>2. CASE \E r \in Ids, c \in Calls : SubmitKnown(w, r, c) \/ SubmitRefused(w, r)
    BY <1>1, <1>2 DEF SubmitKnown, SubmitRefused, Answering
<1>3. CASE WaitTimesOut(w)
    BY <1>1, <1>3 DEF WaitTimesOut
<1>4. CASE SubmitReturns(w)
    <2>1. worker[w].req \in Ids /\ entry \in [Ids -> Entries]
        BY <1>4 DEF SubmitReturns, IInv, TypeOK
    <2>2. CASE entry[worker[w].req].answer = "none"
        <3>1. Live(entry[worker[w].req])
            BY <2>2 DEF Live, Tracked, Terminal, FinalAnswers
        <3>2. KeepsAnswers([entry EXCEPT ![worker[w].req] =
                                Answered(entry[worker[w].req], "expired", "yes")])
            BY <1>1, <2>1, <3>1, UpdateKeepsAnswers DEF FinalAnswers
        <3>. QED  BY <1>4, <2>2, <3>2 DEF SubmitReturns, Answering
    <2>3. CASE entry[worker[w].req].answer # "none"
        BY <1>1, <1>4, <2>3 DEF SubmitReturns, Answering
    <2>. QED  BY <2>2, <2>3
<1>. QED  BY <1>2, <1>3, <1>4

\* A step of the GUI thread, of the clock, or a sweep that raises.
LEMMA GuiKeepsAnswers ==
    ASSUME IInv,
           \/ SweepRaises \/ Tick \/ GuiStep \/ Close
           \/ \E r \in Ids : Resolve(r) \/ DeadlinePasses(r)
    PROVE  KeepsAnswers(entry') /\ order' = order
<1>. USE DEF table
<1>1. KeepsAnswers(SweptEntry) /\ KeepsAnswers(entry)
    BY SweptKeepsAnswers DEF KeepsAnswers
<1>2. entry \in [Ids -> Entries] /\ SweptEntry \in [Ids -> Entries] /\ queue \in Seq(Ids)
    BY SweptOK DEF IInv, TypeOK, TableOK
<1>3. CASE SweepRaises
    <2>1. PICK f \in Expiring : Answering(Expired(Before(Expiring, f) \cup {f}))
        BY <1>3 DEF SweepRaises
    <2>2. Before(Expiring, f) \cup {f} \subseteq Expiring
        BY DEF Before
    <2>. QED  BY <1>3, <2>1, <2>2, SweptKeepsAnswers DEF SweepRaises, Answering
<1>4. CASE ExpireRequests \/ ProcessNothing \/ ProcessMutation
    BY <1>1, <1>4 DEF ExpireRequests, ProcessNothing, ProcessMutation, Answering
<1>5. CASE ProcessRead
    <2>1. PICK k \in 1..Len(queue) :
            /\ Live(SweptEntry[queue[k]])
            /\ Answering([SweptEntry EXCEPT ![queue[k]].executing = TRUE])
        BY <1>5 DEF ProcessRead, Served
    <2>2. queue[k] \in Ids
        BY <1>2
    <2>. QED  BY <1>1, <1>2, <1>5, <2>1, <2>2, UpdateKeepsAnswers
              DEF ProcessRead, Answering, FinalAnswers
<1>6. CASE GuiStep
    <2>1. CASE GuiAnswers
        <3>1. gui.req \in Ids /\ gui.answer \in FinalAnswers
            BY <2>1 DEF GuiAnswers, IInv, TypeOK, AnswerIsKnown, GuiStates, FinalAnswers
        <3>2. CASE Answerable(gui.req)
            BY <1>1, <1>2, <2>1, <3>1, <3>2, UpdateKeepsAnswers
               DEF GuiAnswers, Answering, Answerable
        <3>3. CASE ~Answerable(gui.req)
            BY <1>1, <2>1, <3>3 DEF GuiAnswers, Answering
        <3>. QED  BY <2>1, <3>2, <3>3 DEF GuiAnswers
    <2>2. CASE ~GuiAnswers
        <3>1. entry' = entry /\ order' = order
            BY <1>6, <2>2, Zenon
               DEF GuiStep, PresentShown, PresentRaises, ApproveAudit, ExecuteRefused,
                   Execute, SaveOutcome, RememberOutcome
        <3>. QED  BY <1>1, <3>1
    <2>. QED  BY <2>1, <2>2
<1>7. ASSUME NEW r \in Ids, Resolve(r) \/ DeadlinePasses(r)
      PROVE  KeepsAnswers(entry') /\ order' = order
    <2>1. CASE ResolveStale(r)
        BY <1>1, <2>1 DEF ResolveStale, Answering
    <2>2. CASE ResolveDenied(r)
        <3>. DEFINE denied ==
                [SweptEntry EXCEPT ![r] = Answered(SweptEntry[r], "cancelled", "yes")]
        <3>1. Live(SweptEntry[r]) /\ order' = order
            BY <2>2 DEF ResolveDenied
        <3>2. KeepsAnswers(denied)
            BY <1>1, <1>2, <3>1, UpdateKeepsAnswers DEF FinalAnswers
        <3>3. entry' = denied \/ entry' = SweptEntry
            BY <2>2 DEF ResolveDenied, Answering
        <3>. QED  BY <1>1, <3>1, <3>2, <3>3
    <2>3. CASE ResolveApproved(r)
        BY <1>1, <1>2, <2>3, UpdateKeepsAnswers DEF ResolveApproved, Answering, FinalAnswers
    <2>4. CASE DeadlinePasses(r)
        BY <1>1, <2>4 DEF DeadlinePasses
    <2>. QED  BY <1>7, <2>1, <2>2, <2>3, <2>4 DEF Resolve
<1>8. CASE Close
    <2>1. PICK S \in SUBSET Unanswered : Answering(ClosedEntries(S))
        BY <1>8 DEF Close, Before
    <2>2. \A r \in S : Tracked(Answered(entry[r], "cancelled", "yes")) /\ Live(entry[r])
        BY <1>2, AnsweredTracked DEF FinalAnswers, Unanswered
    <2>3. KeepsAnswers(ClosedEntries(S))
        BY <2>2 DEF KeepsAnswers, ClosedEntries, Live
    <2>. QED  BY <1>8, <2>1, <2>3 DEF Close, Answering
<1>. QED  BY <1>3, <1>4, <1>5, <1>6, <1>7, <1>8 DEF Tick

\* An admission evicts at most one request, an answered one, and adds a new one.
LEMMA AdmissionKeepsAnswers ==
    ASSUME IInv, NEW w \in Workers, NEW q \in Ids, NEW c \in Calls,
           SubmitNotAudited(w, q, c) \/ SubmitAccepted(w, q, c)
    PROVE  \A r \in Ids : Terminal(entry[r]) => entry'[r] \in {entry[r], NoEntry}
<1>1. KeepsAnswers(SweptEntry)
    BY SweptKeepsAnswers
<1>2. ASSUME NEW i \in Rooms(SweptEntry), NEW r \in Ids, Terminal(entry[r])
      PROVE  EntriesWithout(SweptEntry, Evicted(i))[r] \in {entry[r], NoEntry}
    BY <1>1, <1>2 DEF KeepsAnswers, EntriesWithout
<1>3. CASE SubmitNotAudited(w, q, c)
    BY <1>2, <1>3 DEF SubmitNotAudited
<1>4. CASE SubmitAccepted(w, q, c)
    <2>1. PICK i \in Rooms(SweptEntry) :
            entry' = [EntriesWithout(SweptEntry, Evicted(i)) EXCEPT ![q] = NewEntry(c)]
        BY <1>4 DEF SubmitAccepted
    <2>2. ~Tracked(entry[q])
        BY <1>1, <1>4 DEF SubmitAccepted, Fresh, KeepsAnswers
    <2>3. ~Terminal(entry[q])
        BY <2>2 DEF Terminal, Tracked, FinalAnswers
    <2>4. EntriesWithout(SweptEntry, Evicted(i)) \in [Ids -> Entries]
        BY RoomOK, SweptOK DEF TableOK
    <2>. QED  BY <1>2, <2>1, <2>3, <2>4
<1>. QED  BY <1>3, <1>4

\* No answer is ever replaced by another one, by whatever late result, late
\* expiry, denial or shutdown: _finish, _expire_entry_locked and close all leave
\* answered requests alone.
THEOREM AnswersStayFinal == Spec => AnswersAreFinal
<1>1. ASSUME IInv, [Next]_vars
      PROVE  \A r \in Ids : Terminal(entry[r]) => entry'[r] \in {entry[r], NoEntry}
    <2>1. CASE KeepsAnswers(entry')
        BY <2>1 DEF KeepsAnswers
    <2>2. CASE \E w \in Workers, r \in Ids, c \in Calls :
                    SubmitNotAudited(w, r, c) \/ SubmitAccepted(w, r, c)
        BY <1>1, <2>2, AdmissionKeepsAnswers
    <2>3. CASE UNCHANGED vars
        BY <2>3 DEF vars, table
    <2>. QED  BY <1>1, <2>1, <2>2, <2>3, WorkersKeepAnswers, GuiKeepsAnswers DEF Next, Submit
<1>2. IInv /\ [Next]_vars
        => [\A r \in Ids : Terminal(entry[r]) => entry'[r] \in {entry[r], NoEntry}]_entry
    BY <1>1
<1>. QED  BY InductiveInvariant, <1>2, PTL DEF Spec, AnswersAreFinal

\* The elements of a concatenation.
LEMMA ConcatElements ==
    ASSUME NEW S, NEW a \in Seq(S), NEW b \in Seq(S)
    PROVE  /\ a \o b \in Seq(S) /\ Len(a \o b) = Len(a) + Len(b)
           /\ \A j \in 1..(Len(a) + Len(b)) :
                (a \o b)[j] = IF j <= Len(a) THEN a[j] ELSE b[j - Len(a)]
OBVIOUS

\* A sequence without its i-th element.
LEMMA RemoveAtElements ==
    ASSUME NEW S, NEW s \in Seq(S), NEW i \in 1..Len(s)
    PROVE  /\ RemoveAt(s, i) \in Seq(S)
           /\ Len(RemoveAt(s, i)) = Len(s) - 1
           /\ \A j \in 1..(Len(s) - 1) :
                RemoveAt(s, i)[j] = IF j < i THEN s[j] ELSE s[j + 1]
<1>. DEFINE front == SubSeq(s, 1, i - 1)
            back  == SubSeq(s, i + 1, Len(s))
<1>1. /\ front \in Seq(S) /\ Len(front) = i - 1
      /\ \A j \in 1..(i - 1) : front[j] = s[j]
    OBVIOUS
<1>2. /\ back \in Seq(S) /\ Len(back) = Len(s) - i
      /\ \A j \in 1..(Len(s) - i) : back[j] = s[i + j]
    OBVIOUS
<1>3. /\ front \o back \in Seq(S) /\ Len(front \o back) = Len(s) - 1
      /\ \A j \in 1..(Len(s) - 1) :
            (front \o back)[j] = IF j <= i - 1 THEN front[j] ELSE back[j - (i - 1)]
    <2>. HIDE DEF front, back
    <2>1. Len(front) + Len(back) = Len(s) - 1
        BY <1>1, <1>2
    <2>2. /\ front \o back \in Seq(S) /\ Len(front \o back) = Len(front) + Len(back)
          /\ \A j \in 1..(Len(front) + Len(back)) :
                (front \o back)[j] = IF j <= Len(front) THEN front[j]
                                     ELSE back[j - Len(front)]
        BY <1>1, <1>2, ConcatElements
    <2>3. Len(front) = i - 1
        BY <1>1
    <2>4. 1..(Len(front) + Len(back)) = 1..(Len(s) - 1)
        BY <2>1
    <2>. QED  BY <2>1, <2>2, <2>3, <2>4
<1>4. \A j \in 1..(Len(s) - 1) :
            (front \o back)[j] = IF j < i THEN s[j] ELSE s[j + 1]
    <2>. SUFFICES ASSUME NEW j \in 1..(Len(s) - 1)
                  PROVE  (front \o back)[j] = IF j < i THEN s[j] ELSE s[j + 1]
        OBVIOUS
    <2>. HIDE DEF front, back
    <2>1. CASE j <= i - 1
        BY <1>1, <1>3, <2>1
    <2>2. CASE ~(j <= i - 1)
        <3>1. j - (i - 1) \in 1..(Len(s) - i)
            BY <2>2
        <3>2. back[j - (i - 1)] = s[i + (j - (i - 1))]
            BY <1>2, <3>1
        <3>3. i + (j - (i - 1)) = j + 1
            OBVIOUS
        <3>. QED  BY <1>3, <2>2, <3>2, <3>3
    <2>. QED  BY <2>1, <2>2
<1>. QED  BY <1>3, <1>4 DEF RemoveAt

OrderLists(o, e) ==
    /\ \A r \in Ids : Tracked(e[r]) <=> \E i \in 1..Len(o) : o[i] = r
    /\ \A i, j \in 1..Len(o) : o[i] = o[j] => i = j

\* Making room leaves one place free and an order that lists the table.
LEMMA RoomKeepsOrder ==
    ASSUME IInv, OrderTracksEntries, NEW i \in Rooms(SweptEntry)
    PROVE  /\ OrderLists(OrderWithout(i), EntriesWithout(SweptEntry, Evicted(i)))
           /\ OrderWithout(i) \in Seq(Ids) /\ Len(OrderWithout(i)) < MaxTracked
<1>. DEFINE e == EntriesWithout(SweptEntry, Evicted(i))
<1>1. order \in Seq(Ids) /\ MaxTracked \in Nat
    BY DispatcherAssumption DEF IInv, TypeOK
<1>2. \A r \in Ids : Tracked(SweptEntry[r]) <=> Tracked(entry[r])
    BY SweptKeepsAnswers DEF KeepsAnswers
<1>3. CASE i = 0
    <2>1. Len(order) < MaxTracked
        BY <1>1, <1>3 DEF Rooms
    <2>2. \A r \in Ids : e[r] = SweptEntry[r]
        BY <1>3 DEF EntriesWithout, Evicted
    <2>. QED  BY <1>1, <1>2, <1>3, <2>1, <2>2
              DEF OrderLists, OrderWithout, OrderTracksEntries
<1>4. CASE i # 0
    <2>1. i \in 1..Len(order) /\ Len(order) <= MaxTracked
        BY <1>1, <1>4 DEF Rooms, OrderTracksEntries
    <2>2. OrderWithout(i) = RemoveAt(order, i) /\ Evicted(i) = {order[i]}
        BY <1>4 DEF OrderWithout, Evicted
    <2>3. /\ OrderWithout(i) \in Seq(Ids)
          /\ Len(OrderWithout(i)) = Len(order) - 1
          /\ \A j \in 1..(Len(order) - 1) :
                OrderWithout(i)[j] = IF j < i THEN order[j] ELSE order[j + 1]
        BY <1>1, <2>1, <2>2, RemoveAtElements
    <2>4. \A j, k \in 1..Len(OrderWithout(i)) :
                OrderWithout(i)[j] = OrderWithout(i)[k] => j = k
        BY <1>1, <2>1, <2>3 DEF OrderTracksEntries
    <2>5. ASSUME NEW r \in Ids
          PROVE  Tracked(e[r]) <=> \E j \in 1..Len(OrderWithout(i)) : OrderWithout(i)[j] = r
        <3>1. CASE r = order[i]
            <4>1. ~Tracked(e[r])
                BY <2>2, <3>1 DEF EntriesWithout, NoEntry, Tracked
            <4>2. \A j \in 1..(Len(order) - 1) : OrderWithout(i)[j] # order[i]
                BY <1>1, <2>1, <2>3 DEF OrderTracksEntries
            <4>. QED  BY <2>3, <3>1, <4>1, <4>2
        <3>2. CASE r # order[i]
            <4>1. Tracked(e[r]) <=> \E k \in 1..Len(order) : order[k] = r
                BY <1>2, <2>2, <3>2 DEF EntriesWithout, OrderTracksEntries
            <4>2. ASSUME NEW k \in 1..Len(order), order[k] = r
                  PROVE  \E j \in 1..(Len(order) - 1) : OrderWithout(i)[j] = r
                <5>1. CASE k < i
                    BY <1>1, <2>1, <2>3, <4>2, <5>1
                <5>2. CASE k > i
                    <6>1. k - 1 \in 1..(Len(order) - 1) /\ ~(k - 1 < i) /\ (k - 1) + 1 = k
                        BY <1>1, <2>1, <5>2
                    <6>. QED  BY <2>3, <4>2, <6>1
                <5>3. k # i
                    BY <3>2, <4>2
                <5>. QED  BY <2>1, <5>1, <5>2, <5>3
            <4>3. ASSUME NEW j \in 1..(Len(order) - 1), OrderWithout(i)[j] = r
                  PROVE  \E k \in 1..Len(order) : order[k] = r
                BY <1>1, <2>1, <2>3, <4>3
            <4>. QED  BY <2>3, <4>1, <4>2, <4>3
        <3>. QED  BY <3>1, <3>2
    <2>. QED  BY <1>1, <2>1, <2>3, <2>4, <2>5 DEF OrderLists
<1>. QED  BY <1>3, <1>4

\* Inserting the new request keeps the order and the table in agreement.
LEMMA InsertKeepsOrder ==
    ASSUME NEW o \in Seq(Ids), NEW e \in [Ids -> Entries], OrderLists(o, e),
           NEW q \in Ids, ~Tracked(e[q]), NEW c \in Calls
    PROVE  OrderLists(Append(o, q), [e EXCEPT ![q] = NewEntry(c)])
<1>1. Tracked(NewEntry(c))
    BY DEF NewEntry, Tracked
<1>2. \A i \in 1..Len(o) : o[i] # q
    BY DEF OrderLists
<1>3. /\ Len(Append(o, q)) = Len(o) + 1 /\ Append(o, q)[Len(o) + 1] = q
      /\ \A i \in 1..Len(o) : Append(o, q)[i] = o[i]
    OBVIOUS
<1>4. \A i, j \in 1..(Len(o) + 1) : Append(o, q)[i] = Append(o, q)[j] => i = j
    BY <1>2, <1>3 DEF OrderLists
<1>5. \A r \in Ids : (\E i \in 1..(Len(o) + 1) : Append(o, q)[i] = r)
                        <=> r = q \/ \E i \in 1..Len(o) : o[i] = r
    BY <1>3
<1>. QED  BY <1>1, <1>3, <1>4, <1>5 DEF OrderLists

\* No step lets the table and its order disagree.
LEMMA NextKeepsOrder ==
    ASSUME IInv, OrderTracksEntries, [Next]_vars
    PROVE  OrderTracksEntries'
<1>1. CASE KeepsAnswers(entry') /\ order' = order
    BY <1>1 DEF KeepsAnswers, OrderTracksEntries
<1>2. ASSUME NEW w \in Workers, NEW q \in Ids, NEW c \in Calls, SubmitNotAudited(w, q, c)
      PROVE  OrderTracksEntries'
    <2>1. PICK i \in Rooms(SweptEntry) :
            /\ order' = OrderWithout(i)
            /\ entry' = EntriesWithout(SweptEntry, Evicted(i))
        BY <1>2 DEF SubmitNotAudited
    <2>2. OrderLists(order', entry') /\ Len(order') < MaxTracked /\ order' \in Seq(Ids)
        BY <2>1, RoomKeepsOrder
    <2>. QED  BY <2>2, DispatcherAssumption DEF OrderLists, OrderTracksEntries
<1>3. ASSUME NEW w \in Workers, NEW q \in Ids, NEW c \in Calls, SubmitAccepted(w, q, c)
      PROVE  OrderTracksEntries'
    <2>1. PICK i \in Rooms(SweptEntry) :
            /\ order' = Append(OrderWithout(i), q)
            /\ entry' = [EntriesWithout(SweptEntry, Evicted(i)) EXCEPT ![q] = NewEntry(c)]
        BY <1>3 DEF SubmitAccepted
    <2>. DEFINE o == OrderWithout(i)
                e == EntriesWithout(SweptEntry, Evicted(i))
    <2>2. OrderLists(o, e) /\ o \in Seq(Ids) /\ Len(o) < MaxTracked
        BY RoomKeepsOrder
    <2>3. e \in [Ids -> Entries]
        BY RoomOK, SweptOK DEF TableOK
    <2>4. ~Tracked(e[q])
        BY <1>3 DEF SubmitAccepted, Fresh, EntriesWithout, NoEntry, Tracked
    <2>5. OrderLists(order', entry')
        BY <2>1, <2>2, <2>3, <2>4, InsertKeepsOrder
    <2>6. Len(order') <= MaxTracked
        BY <2>1, <2>2, DispatcherAssumption
    <2>. QED  BY <2>5, <2>6 DEF OrderLists, OrderTracksEntries
<1>4. CASE UNCHANGED vars
    BY <1>4 DEF vars, table, OrderTracksEntries
<1>. QED  BY <1>1, <1>2, <1>3, <1>4, WorkersKeepAnswers, GuiKeepsAnswers
          DEF Next, Submit

\* The request table is bounded and its eviction order lists exactly the tracked
\* requests, each once.
THEOREM OrderCorrect == Spec => []OrderTracksEntries
<1>1. Init => OrderTracksEntries
    BY DispatcherAssumption DEF Init, OrderTracksEntries, NoEntry, Tracked
<1>2. IInv /\ OrderTracksEntries /\ [Next]_vars => OrderTracksEntries'
    BY NextKeepsOrder
<1>. QED  BY <1>1, <1>2, InductiveInvariant, PTL DEF Spec

=============================================================================
