------------------------- MODULE BridgeReliableProofs -------------------------
(* Theorems about BridgeDispatcher while audit saves raise only when the store *)
(* refuses a revision: what the audit files, the claims of a safe state and    *)
(* the confirmation slot say then.                                             *)
EXTENDS BridgeAuditProofs

(* The third layer of the invariant: the service and the disk agree, except    *)
(* between the GUI thread's save of an outcome and its being remembered, and   *)
(* the files say what the clients were told.                                   *)

Reliable == RetentionSuffices /\ ~AuditMayFail

FinalStatuses == {"completed", "failed", "cancelled"}

Changing == {"committed", "undid", "committed_then_raised"}

Saving(r) == gui.stage = "saved" /\ gui.req = r

Done(r) == gui.stage = "answer" /\ gui.req = r

Applying(r) == gui.stage \in {"execute", "running", "saved"} /\ gui.req = r

\* An unanswered request's action is pending, an answered one's is final.
Settled(r) ==
    /\ Saving(r) \/ trail.mem[r] = trail.disk[r]
    /\ trail.disk[r].rev # 0 => Live(entry[r]) \/ verdict[r] # "none"
    /\ Live(entry[r]) /\ ~Done(r) =>
        /\ trail.mem[r].status = "pending"
        /\ entry[r].call \in Mutations =>
            trail.mem[r].decision = IF Applying(r) THEN "approved" ELSE "pending"
    /\ verdict[r] # "none" => trail.disk[r].status \in FinalStatuses
    /\ verdict[r] = "completed" => trail.disk[r].status = "completed"
    /\ trail.disk[r].status = "cancelled" => r \notin changed
    /\ entry[r].safe = "yes" => r \notin changed
    /\ ~Terminal(entry[r]) => entry[r].safe = "unknown"

GuiSettled ==
    /\ gui.stage \in {"present", "approve"} => gui.call \in Mutations
    /\ gui.stage \in {"present", "approve", "execute"} => gui.outcome = "none"
    /\ gui.stage \in {"running", "saved"} =>
        gui.rec.status = "pending" /\ gui.outcome \in OutcomesOf(gui.call)
    /\ gui.stage \in Advanced => (gui.req \in changed <=> gui.outcome \in Changing)
    /\ gui.stage = "running" =>
        trail.disk[gui.req] = gui.rec \/ trail.disk[gui.req].status \in FinalStatuses
    /\ gui.stage = "saved" =>
        trail.mem[gui.req] = gui.rec /\ trail.disk[gui.req] = OutcomeRecord
    /\ gui.stage = "answer" =>
        /\ trail.disk[gui.req].status \in FinalStatuses
        /\ gui.answer = "completed" => trail.disk[gui.req].status = "completed"
        /\ gui.answer = "failed" => gui.outcome # "undid"

SlotPends == active # NoRequest => Live(entry[active])

ReliableInv ==
    /\ RunInv /\ FileInv
    /\ GuiSettled /\ SlotPends
    /\ \A r \in Ids : Settled(r)

LEMMA InitSettles == Init => GuiSettled /\ SlotPends /\ \A r \in Ids : Settled(r)
<1>. SUFFICES ASSUME Init PROVE GuiSettled /\ SlotPends /\ \A r \in Ids : Settled(r)
    OBVIOUS
<1>1. gui.stage = "idle" /\ active = NoRequest
    BY DEF Init, IdleGui
<1>2. ASSUME NEW r \in Ids
      PROVE  /\ trail.mem[r] = NoRecord /\ trail.disk[r] = NoRecord
             /\ ~Live(entry[r]) /\ verdict[r] = "none" /\ entry[r].safe = "unknown"
    BY DEF Init, EmptyTrail, NoEntry, Live, Tracked, Ids
<1>. QED  BY <1>1, <1>2 DEF GuiSettled, SlotPends, Settled, NoRecord, FinalStatuses, Advanced

-------------------------------------------------------------------------------
(* The files *)

\* A cancellation is refused only between the save of an outcome and its being
\* remembered.
LEMMA RefusedWhileSaving ==
    ASSUME RunInv, NEW r \in Ids, Settled(r), ~CanCancel(trail, r)
    PROVE  Saving(r)
<1>. SUFFICES ASSUME trail.mem[r] = trail.disk[r] PROVE FALSE
    BY DEF Settled
<1>1. PICK rec \in Records : rec = trail.mem[r]
    BY DEF RunInv, IInv, TypeOK, Trails, Ids
<1>2. CancelSaves(rec, "cancelled")[1].rev = rec.rev + 1
    BY DEF CancelSaves, Decided, Finished
<1>. QED  BY <1>1, <1>2 DEF CanCancel, Accepts

\* Without failing disks a cancellation goes through or leaves the files alone.
LEMMA TornStays ==
    ASSUME RunInv, ~AuditMayFail, NEW r \in Ids, Settled(r), FilesTorn(r)
    PROVE  FilesStay(r) /\ Saving(r)
BY RefusedWhileSaving DEF FilesTorn, FilesStay

\* A cancelled action is final, in memory and on disk alike.
LEMMA CancelledIsFinal ==
    ASSUME RunInv, NEW r \in Ids, FilesCancelled(r), NeedsCancel(trail, r)
    PROVE  /\ trail'.mem[r] = trail'.disk[r] /\ trail'.disk[r].status = "cancelled"
           /\ CanCancel(trail, r)
<1>1. \A rec, d : CancelledRecord(rec, d).status = "cancelled"
    BY DEF CancelledRecord, CancelSaves, Decided, Finished
<1>. QED  BY <1>1 DEF FilesCancelled

\* A withdrawn request's action is final.
LEMMA WithdrawnFiles ==
    ASSUME RunInv, GuiSettled, ~AuditMayFail, NEW r \in Ids, Settled(r), Withdrawn(r)
    PROVE  /\ trail'.disk[r].status \in FinalStatuses
           /\ \/ FilesStay(r)
              \/ /\ trail'.mem[r] = trail'.disk[r] /\ trail'.disk[r].status = "cancelled"
                 /\ ~Saving(r) /\ ~Done(r)
<1>1. Live(entry[r]) /\ (FilesCancelled(r) \/ FilesTorn(r))
    BY DEF Withdrawn
<1>2. CASE Saving(r)
    <2>1. PICK rec \in Records : rec = gui.rec /\ rec.status = "pending"
        BY <1>2 DEF Saving, GuiSettled, RunInv, IInv, TypeOK, GuiStates
    <2>2. trail.mem[r] = rec /\ trail.disk[r] = OutcomeRecord
        BY <1>2, <2>1 DEF Saving, GuiSettled
    <2>3. trail.disk[r].rev = rec.rev + 1 /\ trail.disk[r].status \in FinalStatuses
        BY <2>1, <2>2 DEF OutcomeRecord, Finished, FinalStatuses
    <2>4. CancelSaves(rec, "cancelled")[1].rev = rec.rev + 1
        BY DEF CancelSaves, Decided, Finished
    <2>5. NeedsCancel(trail, r) /\ ~CanCancel(trail, r)
        BY <2>1, <2>2, <2>3, <2>4 DEF NeedsCancel, CanCancel, Accepts, Records
    <2>6. FilesStay(r)
        BY <1>1, <2>5, CancelledIsFinal, TornStays
    <2>. QED  BY <2>3, <2>6 DEF FilesStay
<1>3. CASE Done(r)
    <2>1. trail.disk[r].status \in FinalStatuses /\ trail.mem[r] = trail.disk[r]
        BY <1>3 DEF Done, GuiSettled, Settled, Saving
    <2>2. FilesStay(r)
        BY <1>1, <2>1, TornStays DEF FilesCancelled, NeedsCancel, FinalStatuses
    <2>. QED  BY <2>1, <2>2 DEF FilesStay
<1>4. CASE ~Saving(r) /\ ~Done(r)
    <2>1. NeedsCancel(trail, r)
        BY <1>1, <1>4 DEF Settled, NeedsCancel
    <2>2. FilesCancelled(r)
        BY <1>1, <1>4, TornStays
    <2>. QED  BY <1>4, <2>1, <2>2, CancelledIsFinal DEF FinalStatuses
<1>. QED  BY <1>2, <1>3, <1>4

\* A move that is not the GUI thread's keeps a request settled.
LEMMA TableMovesSettle ==
    ASSUME RunInv, RunInv', GuiSettled, ~AuditMayFail, NEW r \in Ids, Settled(r), TableMoves(r),
           r \in changed' <=> r \in changed, Saving(r)' <=> Saving(r), Done(r)' <=> Done(r),
           Tracked(entry[r]) /\ entry[r].call \in Mutations => (Applying(r)' <=> Applying(r)),
           gui'.req = r => gui.req = r \/ Live(entry[r])
    PROVE  Settled(r)'
<1>1. entry[r] \in Entries /\ (Tracked(entry[r]) => (Live(entry[r]) <=> verdict[r] = "none"))
    BY DEF RunInv, IInv, TypeOK, Judgement
<1>2. ~Live(NoEntry) /\ ~Terminal(NoEntry) /\ NoEntry.safe = "unknown"
    BY DEF NoEntry, Live, Terminal, Tracked, FinalAnswers
<1>3. CASE AnswerStays(r) /\ FilesStay(r)
    BY <1>3 DEF Settled, AnswerStays, FilesStay, Live
<1>4. CASE Withdrawn(r)
    <2>1. PICK a \in {"expired", "cancelled"} :
            entry'[r] \in {Answered(entry[r], a, "yes"), NoEntry} /\ verdict'[r] = a
        BY <1>4 DEF Withdrawn
    <2>2. ~Live(entry'[r]) /\ (~Terminal(entry'[r]) => entry'[r].safe = "unknown")
        BY <1>1, <1>2, <2>1 DEF Answered, Entries, Live, Terminal, FinalAnswers
    <2>3. r \notin changed'
        BY <2>1 DEF RunInv, ChangesNothing
    <2>4. trail'.disk[r].status \in FinalStatuses /\ (Saving(r) \/ trail'.mem[r] = trail'.disk[r])
        BY <1>4, WithdrawnFiles DEF Settled, FilesStay
    <2>. QED  BY <2>1, <2>2, <2>3, <2>4 DEF Settled
<1>5. CASE Forgotten(r)
    <2>1. verdict[r] # "none" /\ FilesStay(r) /\ verdict'[r] = verdict[r] /\ entry'[r] = NoEntry
        BY <1>1, <1>5 DEF Forgotten, Terminal, Live, Tracked, FinalAnswers
    <2>. QED  BY <1>2, <2>1 DEF Settled, FilesStay
<1>6. CASE Admitted(r)
    <2>1. PICK c \in Calls, d \in {"pending", "not_required"} :
            /\ entry'[r] = NewEntry(c) /\ trail'.mem[r] = Started(d) /\ trail'.disk[r] = Started(d)
            /\ c \in Mutations => d = "pending"
        BY <1>6, DispatcherAssumption DEF Admitted, StartDecision
    <2>2. verdict'[r] = "none" /\ gui.req # r /\ ~Live(entry[r])
        BY <1>6 DEF Admitted, RunInv, Untouched, Live
    <2>3. ~Applying(r)'
        BY <2>2 DEF Applying
    <2>4. Live(NewEntry(c)) /\ NewEntry(c).safe = "unknown" /\ NewEntry(c).call = c
        BY DEF NewEntry, Live, Terminal, Tracked, FinalAnswers
    <2>5. Started(d).status = "pending" /\ Started(d).decision = d
        BY DEF Started
    <2>. QED  BY <2>1, <2>2, <2>3, <2>4, <2>5 DEF Settled
<1>7. CASE Taken(r)
    <2>1. entry'[r].call = entry[r].call /\ entry'[r].safe = entry[r].safe /\ Tracked(entry[r])
          /\ entry'[r].answer = entry[r].answer
        BY <1>1, <1>7 DEF Taken, Entries, Live
    <2>2. (Live(entry'[r]) <=> Live(entry[r])) /\ (Terminal(entry'[r]) <=> Terminal(entry[r]))
        BY <2>1 DEF Live, Terminal, Tracked
    <2>. QED  BY <1>7, <2>1, <2>2 DEF Taken, Settled, FilesStay
<1>8. CASE Undenied(r)
    <2>1. AnswerStays(r) /\ FilesStay(r)
        BY <1>8, TornStays DEF Undenied
    <2>. QED  BY <1>3, <2>1
<1>. QED  BY <1>3, <1>4, <1>5, <1>6, <1>7, <1>8 DEF TableMoves, Still, OnlyBegun


-------------------------------------------------------------------------------
(* The steps *)

\* The stages of the GUI thread that concern r, before and after it turns to a request.
LEMMA TurnsKeepStage ==
    ASSUME RunInv, GuiTurns, NEW r \in Ids
    PROVE  /\ Saving(r)' <=> Saving(r)
           /\ Done(r)' <=> Done(r)
           /\ Tracked(entry[r]) /\ entry[r].call \in Mutations => (Applying(r)' <=> Applying(r))
           /\ gui'.req = r => gui.req = r \/ Live(entry[r])
<1>1. CASE gui' = gui
    BY <1>1 DEF Saving, Done, Applying
<1>2. CASE GuiTakes
    <2>1. PICK q \in Ids, s \in {"present", "approve", "execute"} :
            /\ Live(entry[q]) /\ gui' = AtStage(s, q, entry[q].call)
            /\ s = "execute" => entry[q].call \in Reads
        BY <1>2 DEF GuiTakes
    <2>2. gui'.stage = s /\ gui'.req = q /\ gui.stage = "idle"
        BY <1>2, <2>1 DEF GuiTakes, AtStage, IdleGui
    <2>. QED  BY <2>1, <2>2, DispatcherAssumption DEF Saving, Done, Applying
<1>. QED  BY <1>1, <1>2 DEF GuiTurns

\* What a request's files may do under the eyes of the GUI thread that works on it.
LEMMA TurnsSettleGui ==
    ASSUME RunInv, FileInv, GuiSettled, ~AuditMayFail, \A r \in Ids : Settled(r) /\ TableMoves(r),
           GuiTurns
    PROVE  GuiSettled'
<1>1. CASE GuiTakes
    <2>1. PICK q \in Ids, s \in {"present", "approve", "execute"} :
            /\ gui' = AtStage(s, q, entry[q].call)
            /\ s # "execute" => entry[q].call \in Mutations
        BY <1>1 DEF GuiTakes
    <2>2. gui'.stage = s /\ gui'.call = entry[q].call /\ gui'.outcome = "none"
        BY <2>1 DEF AtStage, IdleGui
    <2>. QED  BY <2>1, <2>2 DEF GuiSettled, Advanced
<1>2. CASE gui' = gui /\ gui.stage = "idle"
    BY <1>2 DEF GuiSettled, Advanced
<1>3. CASE gui' = gui /\ gui.stage # "idle"
    <2>1. PICK q \in Ids : q = gui.req
        BY <1>3 DEF RunInv, IInv, TypeOK
    <2>2. TableMoves(q) /\ Settled(q) /\ ~Admitted(q) /\ ~OnlyBegun(q)
        BY <2>1 DEF RunInv, Untouched, Admitted, OnlyBegun
    <2>3. \/ FilesStay(q)
          \/ trail'.disk[q].status \in FinalStatuses /\ ~Saving(q) /\ ~Done(q)
        <3>1. CASE Withdrawn(q)
            BY <2>2, <3>1, WithdrawnFiles
        <3>. QED  BY <2>2, <3>1, TornStays
                  DEF TableMoves, Still, Forgotten, Taken, Undenied
    <2>4. changed' = changed /\ OutcomeRecord' = OutcomeRecord
        BY <1>3 DEF GuiTurns, OutcomeRecord
    <2>. QED  BY <1>3, <2>1, <2>3, <2>4 DEF GuiSettled, FilesStay, Saving, Done
<1>. QED  BY <1>1, <1>2, <1>3 DEF GuiTurns

\* A step that is not the GUI thread's.
LEMMA TurnsSettle ==
    ASSUME RunInv, RunInv', FileInv, GuiSettled, ~AuditMayFail,
           \A r \in Ids : Settled(r) /\ TableMoves(r), GuiTurns
    PROVE  GuiSettled' /\ \A r \in Ids : Settled(r)'
<1>1. changed' = changed
    BY DEF GuiTurns
<1>2. ASSUME NEW r \in Ids PROVE Settled(r)'
    BY <1>1, TurnsKeepStage, TableMovesSettle
<1>. QED  BY <1>2, TurnsSettleGui

\* A request the GUI thread does not work on stays settled in its steps.
LEMMA OthersSettle ==
    ASSUME RunInv, RunInv', GuiSettled, ~AuditMayFail, GuiStep, NEW r \in Ids, gui.req # r,
           Moves(r), Settled(r)
    PROVE  Settled(r)'
<1>1. TableMoves(r)
    BY DEF Moves, Unshown, Recorded, Finishes
<1>2. gui'.req # r
    <2>1. gui.stage # "idle"
        BY DEF GuiStep, PresentShown, PresentRaises, ApproveAudit, ExecuteRefused, Execute,
               SaveOutcome, RememberOutcome, GuiAnswers
    <2>2. gui # IdleGui
        BY <2>1 DEF IdleGui
    <2>. QED  BY <2>2, StepTakes, DispatcherAssumption DEF RunInv, IdleGui
<1>3. r \in changed' <=> r \in changed
    BY StepRuns
<1>. QED  BY <1>1, <1>2, <1>3, TableMovesSettle DEF Saving, Done, Applying


\* What is known of the request the GUI thread works on: while it is unanswered its
\* action is pending, otherwise final.
LEMMA AtHand ==
    ASSUME ReliableInv, gui.stage # "idle"
    PROVE  /\ gui.req \in Ids /\ gui.call \in Calls /\ gui \in GuiStates
           /\ entry[gui.req] \in Entries
           /\ trail.mem[gui.req] \in Records /\ trail.disk[gui.req] \in Records
           /\ Settled(gui.req)
           /\ ~Live(entry[gui.req]) =>
                verdict[gui.req] # "none" /\ trail.disk[gui.req].status \in FinalStatuses
           /\ gui.stage \in Working /\ gui.call \in Mutations => Live(entry[gui.req])
           /\ Tracked(entry[gui.req]) => entry[gui.req].call = gui.call
           /\ gui.stage \in {"present", "approve", "execute"} => gui.req \notin changed
<1>1. /\ gui.req \in Ids /\ gui.call \in Calls /\ gui \in GuiStates
      /\ entry \in [Ids -> Entries] /\ trail \in Trails
    BY DEF ReliableInv, RunInv, IInv, TypeOK
<1>2. PICK q \in Ids : q = gui.req
    BY <1>1
<1>3. /\ trail.mem[q] \in Records /\ trail.disk[q] \in Records
      /\ trail.disk[q].rev # 0 /\ Settled(q)
    BY <1>1, <1>2 DEF ReliableInv, RunInv, Untouched, Trails, Ids
<1>4. gui.stage \in Working /\ gui.call \in Mutations => Live(entry[q])
    BY <1>2 DEF ReliableInv, RunInv, IInv, MutationKeepsSlot, Live, Tracked, Terminal, FinalAnswers
<1>5. Tracked(entry[q]) => entry[q].call = gui.call
    BY <1>2 DEF ReliableInv, RunInv, CallKept
<1>6. gui.stage \in {"present", "approve", "execute"} => q \notin changed
    BY <1>2 DEF ReliableInv, RunInv, GuiRuns, RunsOnce
<1>. QED  BY <1>1, <1>2, <1>3, <1>4, <1>5, <1>6 DEF Settled

\* The panel is shown the request, or fails to.
LEMMA PresentSettles ==
    ASSUME ReliableInv, ~AuditMayFail, NEW q \in Ids, q = gui.req, PresentShown \/ PresentRaises
    PROVE  Settled(q)' /\ GuiSettled'
<1>. USE DEF table, ghosts
<1>1. q = gui.req
    OBVIOUS
<1>2. /\ gui.stage = "present" /\ gui \in GuiStates /\ Settled(q) /\ q \notin changed
      /\ ~Live(entry[q]) => trail.disk[q].status \in FinalStatuses
      /\ entry' = entry /\ verdict' = verdict /\ changed' = changed
      /\ gui.outcome = "none" /\ ~Saving(q) /\ ~Done(q) /\ ~Applying(q)
    BY <1>1, AtHand DEF PresentShown, PresentRaises, ReliableInv, GuiSettled, Saving, Done, Applying
<1>3. CASE gui' = IdleGui /\ FilesStay(q)
    <2>1. gui'.stage = "idle"
        BY <1>3 DEF IdleGui
    <2>2. GuiSettled'
        BY <2>1 DEF GuiSettled, Advanced
    <2>3. ~Saving(q)' /\ ~Done(q)' /\ ~Applying(q)'
        BY <2>1 DEF Saving, Done, Applying
    <2>4. Settled(q)'
        BY <1>2, <1>3, <2>3 DEF Settled, FilesStay
    <2>. QED  BY <2>2, <2>4
<1>4. CASE /\ gui' = Failing /\ trail'.mem[q] = trail'.disk[q]
           /\ trail'.disk[q].status \in FinalStatuses
           /\ FilesStay(q) \/ (Live(entry[q]) /\ verdict[q] = "none")
    <2>1. gui'.stage = "answer" /\ gui'.req = q /\ gui'.outcome = "none" /\ gui'.answer = "failed"
        BY <1>1, <1>2, <1>4 DEF Failing, GuiStates
    <2>2. GuiSettled'
        BY <1>2, <1>4, <2>1 DEF GuiSettled, Advanced, Changing
    <2>. QED  BY <1>1, <1>2, <1>4, <2>1, <2>2 DEF Settled, FilesStay, Saving, Done
<1>5. CASE PresentShown
    BY <1>3, <1>5 DEF PresentShown, FilesStay
<1>6. CASE PresentRaises /\ Tracked(entry[q])
    <2>1. \/ gui' = Failing /\ CanCancel(trail, q) /\ trail' = Cancelled(trail, {q}, "cancelled")
          \/ trail' \in TornCancels(trail, q, "cancelled", AuditMayFail)
        BY <1>1, <1>6 DEF PresentRaises, Failing
    <2>2. \/ gui' = Failing /\ FilesCancelled(q)
          \/ FilesTorn(q)
        BY <2>1, CancelledFiles, TornFiles DEF ReliableInv, RunInv
    <2>3. gui' = Failing /\ FilesCancelled(q)
        BY <1>2, <2>2, TornStays DEF ReliableInv
    <2>4. CASE Live(entry[q])
        <3>1. NeedsCancel(trail, q)
            BY <1>2, <2>4 DEF Settled, NeedsCancel
        <3>2. verdict[q] = "none"
            BY <2>4 DEF ReliableInv, RunInv, Judgement, Live
        <3>. QED  BY <1>4, <2>3, <2>4, <3>1, <3>2, CancelledIsFinal DEF ReliableInv, FinalStatuses
    <2>5. CASE ~Live(entry[q])
        <3>1. trail.mem[q] = trail.disk[q] /\ trail.mem[q].status \in FinalStatuses
            BY <1>2, <2>5 DEF Settled
        <3>2. FilesStay(q)
            BY <2>3, <3>1 DEF FilesCancelled, NeedsCancel, FinalStatuses
        <3>. QED  BY <1>4, <2>3, <3>1, <3>2 DEF FilesStay
    <2>. QED  BY <2>4, <2>5
<1>7. CASE PresentRaises /\ ~Tracked(entry[q])
    <2>1. gui' = Failing /\ trail' = trail
        BY <1>1, <1>7 DEF PresentRaises, Failing
    <2>2. trail.mem[q] = trail.disk[q] /\ trail.disk[q].status \in FinalStatuses
        BY <1>2, <1>7 DEF Settled, Live
    <2>. QED  BY <1>4, <2>1, <2>2 DEF FilesStay
<1>. QED  BY <1>5, <1>6, <1>7


\* The approval is put on record, or the handler refused.
LEMMA ApprovalSettles ==
    ASSUME Reliable, ReliableInv, NEW q \in Ids, q = gui.req, ApproveAudit \/ ExecuteRefused
    PROVE  Settled(q)' /\ GuiSettled'
<1>. USE DEF table, ghosts
<1>1. /\ gui.stage \in {"approve", "execute"} /\ gui.call \in Calls /\ gui \in GuiStates
      /\ Settled(q) /\ q \notin changed
      /\ trail.mem[q] \in Records /\ trail.mem[q] = trail.disk[q]
      /\ ~Live(entry[q]) => trail.disk[q].status \in FinalStatuses
      /\ gui.call \in Mutations => Live(entry[q])
      /\ Tracked(entry[q]) => entry[q].call = gui.call
      /\ entry' = entry /\ verdict' = verdict /\ changed' = changed
      /\ gui.outcome = "none" /\ ~Saving(q) /\ ~Done(q)
    BY AtHand DEF ApproveAudit, ExecuteRefused, ReliableInv, GuiSettled, Saving, Done, Settled, Working
<1>2. CASE ApproveAudit
    <2>1. gui.stage = "approve" /\ gui.call \in Mutations /\ ~Applying(q)
        BY <1>2 DEF ApproveAudit, ReliableInv, GuiSettled, Applying
    <2>2. trail.mem[q].status = "pending" /\ trail.mem[q].decision = "pending"
        BY <1>1, <2>1 DEF Settled, Live
    <2>3. PICK rec : rec = Decided(trail.mem[q], "approved")
        OBVIOUS
    <2>4. /\ rec \in Records /\ rec.rev > 0 /\ rec.rev = trail.mem[q].rev + 1
          /\ rec.status = "pending" /\ rec.decision = "approved"
        BY <1>1, <2>2, <2>3 DEF Decided, Records, Decisions
    <2>5. CanApprove(trail, q)
        BY <1>1, <2>2, <2>3, <2>4 DEF CanApprove, Accepts
    <2>6. /\ trail' = Remembered(Stored(trail, q, rec), q, rec)
          /\ gui' = [gui EXCEPT !.stage = "execute"]
        BY <1>2, <2>3, <2>5 DEF ApproveAudit, Reliable, Approved
    <2>7. trail'.mem[q] = rec /\ trail'.disk[q] = rec
        BY <2>4, <2>6, StoredAt DEF Reliable, ReliableInv, RunInv
    <2>8. gui'.stage = "execute" /\ gui'.req = q /\ gui'.outcome = "none"
        BY <1>1, <2>6 DEF GuiStates
    <2>9. verdict[q] = "none" /\ Live(entry[q]) /\ entry[q].call = gui.call
        BY <1>1, <2>1 DEF ReliableInv, RunInv, Judgement, Live
    <2>10. Settled(q)'
        BY <1>1, <2>4, <2>7, <2>8, <2>9 DEF Settled, Saving, Done, Applying
    <2>. QED  BY <2>8, <2>10 DEF GuiSettled, Advanced
<1>3. CASE ExecuteRefused
    <2>1. /\ gui.stage = "execute" /\ Applying(q) /\ trail' = trail /\ gui' = Failing
          /\ ~MayRun(trail.mem[q], gui.call)
        BY <1>3 DEF ExecuteRefused, Applying
    <2>2. ~Live(entry[q])
        <3>. SUFFICES ASSUME Live(entry[q]) PROVE FALSE
            OBVIOUS
        <3>1. trail.mem[q].status = "pending"
            BY <1>1 DEF Settled
        <3>2. gui.call \in Mutations => trail.mem[q].decision = "approved"
            BY <1>1, <2>1 DEF Settled, Live
        <3>. QED  BY <1>1, <2>1, <3>1, <3>2 DEF MayRun, Calls
    <2>3. gui'.stage = "answer" /\ gui'.req = q /\ gui'.outcome = "none" /\ gui'.answer = "failed"
        BY <1>1, <2>1 DEF Failing, GuiStates
    <2>4. Settled(q)'
        BY <1>1, <2>1, <2>2, <2>3 DEF Settled, Saving, Done
    <2>. QED  BY <1>1, <2>1, <2>2, <2>3, <2>4 DEF GuiSettled, Advanced, Changing
<1>. QED  BY <1>2, <1>3

\* The handler runs.
LEMMA ExecuteSettles ==
    ASSUME ReliableInv, NEW q \in Ids, q = gui.req, Execute
    PROVE  Settled(q)' /\ GuiSettled'
<1>. USE DEF table, ghosts
<1>1. /\ gui.stage = "execute" /\ gui.call \in Calls /\ gui \in GuiStates
      /\ Settled(q) /\ q \notin changed
      /\ trail.mem[q] = trail.disk[q] /\ trail.mem[q].status = "pending"
      /\ gui.call \in Mutations => Live(entry[q])
      /\ Applying(q) /\ ~Done(q)
      /\ entry' = entry /\ verdict' = verdict /\ trail' = trail
    BY AtHand DEF Execute, MayRun, Settled, Saving, Done, Applying, Working
<1>2. PICK o \in OutcomesOf(gui.call) :
        /\ gui' = [gui EXCEPT !.stage = "running", !.rec = trail.mem[gui.req], !.outcome = o]
        /\ changed' = IF o \in Changing THEN changed \cup {gui.req} ELSE changed
    BY DEF Execute, Changing
<1>3. /\ gui'.stage = "running" /\ gui'.req = q /\ gui'.call = gui.call
      /\ gui'.rec = trail.mem[q] /\ gui'.outcome = o
    BY <1>1, <1>2 DEF GuiStates
<1>4. q \in changed' <=> o \in Changing
    BY <1>1, <1>2
<1>5. o \in Changing => Live(entry[q])
    BY <1>1 DEF OutcomesOf, Changing, Calls
<1>6. entry[q].safe = "yes" => q \notin changed'
    BY <1>1, <1>4, <1>5 DEF Settled, Live
<1>7. Settled(q)'
    BY <1>1, <1>3, <1>6 DEF Settled, Saving, Done, Applying
<1>8. gui'.outcome \in OutcomesOf(gui'.call)
    BY <1>3
<1>. QED  BY <1>1, <1>3, <1>4, <1>7, <1>8 DEF GuiSettled, Advanced


\* The outcome is saved: on top of the record the handler started from, or not at
\* all when the request was withdrawn meanwhile.
LEMMA SaveSettles ==
    ASSUME Reliable, ReliableInv, NEW q \in Ids, q = gui.req, SaveOutcome
    PROVE  Settled(q)' /\ GuiSettled'
<1>. USE DEF table, ghosts
<1>1. /\ gui.stage = "running" /\ gui.call \in Calls /\ gui \in GuiStates
      /\ Settled(q) /\ trail.mem[q] = trail.disk[q] /\ trail.disk[q] \in Records
      /\ gui.call \in Mutations => Live(entry[q])
      /\ Applying(q) /\ ~Done(q)
      /\ entry' = entry /\ verdict' = verdict /\ changed' = changed
    BY AtHand DEF SaveOutcome, Settled, Saving, Done, Applying, Working
<1>2. /\ gui.rec.status = "pending" /\ gui.outcome \in OutcomesOf(gui.call)
      /\ q \in changed <=> gui.outcome \in Changing
      /\ trail.disk[q] = gui.rec \/ trail.disk[q].status \in FinalStatuses
      /\ Behind(gui.rec, trail.disk[q])
    BY <1>1 DEF ReliableInv, GuiSettled, Advanced, FileInv, GuiFiled
<1>3. PICK rec \in Records :
        /\ rec = OutcomeRecord /\ rec.rev > 0 /\ rec.rev = gui.rec.rev + 1
        /\ rec.status = IF gui.outcome \in Succeeded THEN "completed" ELSE "failed"
    <2>1. OutcomeRecord \in Records /\ OutcomeRecord.rev > 0
        BY <1>1, RecordsCount DEF OutcomeRecord, GuiStates, Statuses
    <2>2. /\ OutcomeRecord.rev = gui.rec.rev + 1
          /\ OutcomeRecord.status = IF gui.outcome \in Succeeded THEN "completed" ELSE "failed"
        BY DEF OutcomeRecord, Finished
    <2>. QED  BY <2>1, <2>2
<1>4. CASE Accepts(trail, q, OutcomeRecord) /\ trail' = Stored(trail, q, OutcomeRecord)
            /\ gui' = [gui EXCEPT !.stage = "saved"]
    <2>1. trail.disk[q].rev = gui.rec.rev
        BY <1>1, <1>3, <1>4 DEF Accepts, GuiStates, Records
    <2>2. trail.disk[q] = gui.rec
        BY <1>2, <2>1 DEF Behind
    <2>3. trail'.mem[q] = trail.mem[q] /\ trail'.disk[q] = rec
        BY <1>3, <1>4, StoredAt DEF Reliable, ReliableInv, RunInv
    <2>4. /\ gui'.stage = "saved" /\ gui'.req = q /\ gui'.call = gui.call
          /\ gui'.rec = gui.rec /\ gui'.outcome = gui.outcome
        BY <1>1, <1>4 DEF GuiStates
    <2>5. verdict[q] = "none" /\ rec.status \in {"completed", "failed"}
        BY <1>1, <1>2, <1>3, <2>2 DEF Settled, FinalStatuses
    <2>6. OutcomeRecord' = rec
        BY <1>3, <2>4 DEF OutcomeRecord
    <2>7. trail'.mem[q].status = trail.mem[q].status /\ trail'.mem[q].decision = trail.mem[q].decision
        BY <2>3
    <2>8. trail.disk[q].rev # 0
        BY <1>1 DEF ReliableInv, RunInv, Untouched
    <2>9. Saving(q)' /\ Applying(q)' /\ ~Done(q)'
        BY <2>4 DEF Saving, Applying, Done
    <2>10. Settled(q)'
        BY <1>1, <2>3, <2>5, <2>7, <2>8, <2>9 DEF Settled
    <2>11. GuiSettled'
        BY <1>1, <1>2, <2>2, <2>3, <2>4, <2>6 DEF GuiSettled, Advanced
    <2>. QED  BY <2>10, <2>11
<1>5. CASE ~Accepts(trail, q, OutcomeRecord) /\ trail' = trail /\ gui' = Failing
    <2>1. trail.disk[q].rev # gui.rec.rev
        BY <1>1, <1>3, <1>5 DEF Accepts
    <2>2. trail.disk[q].status \in FinalStatuses
        BY <1>2, <2>1
    <2>3. ~Live(entry[q])
        BY <1>1, <2>2 DEF Settled, FinalStatuses
    <2>4. gui.outcome # "undid"
        BY <1>1, <1>2, <2>3 DEF OutcomesOf, Calls
    <2>5. gui'.stage = "answer" /\ gui'.req = q /\ gui'.outcome = gui.outcome /\ gui'.answer = "failed"
        BY <1>1, <1>5 DEF Failing, GuiStates
    <2>6. Settled(q)'
        BY <1>1, <1>5, <2>3, <2>5 DEF Settled, Saving, Done
    <2>7. GuiSettled'
        BY <1>1, <1>2, <1>5, <2>2, <2>4, <2>5 DEF GuiSettled, Advanced
    <2>. QED  BY <2>6, <2>7
<1>. QED  BY <1>4, <1>5 DEF SaveOutcome, Reliable

\* The outcome is remembered.
LEMMA RememberSettles ==
    ASSUME Reliable, ReliableInv, NEW q \in Ids, q = gui.req, RememberOutcome
    PROVE  Settled(q)' /\ GuiSettled'
<1>. USE DEF table, ghosts
<1>1. /\ gui.stage = "saved" /\ gui \in GuiStates /\ Settled(q)
      /\ entry' = entry /\ verdict' = verdict /\ changed' = changed
    BY AtHand DEF RememberOutcome
<1>2. /\ q \in changed <=> gui.outcome \in Changing
      /\ trail.disk[q] = OutcomeRecord
    BY <1>1 DEF ReliableInv, GuiSettled, Advanced
<1>3. PICK rec \in Records :
        /\ rec = OutcomeRecord /\ rec.rev > 0
        /\ rec.status = IF gui.outcome \in Succeeded THEN "completed" ELSE "failed"
    <2>1. OutcomeRecord \in Records /\ OutcomeRecord.rev > 0
        BY <1>1, RecordsCount DEF OutcomeRecord, GuiStates, Statuses
    <2>2. OutcomeRecord.status = IF gui.outcome \in Succeeded THEN "completed" ELSE "failed"
        BY DEF OutcomeRecord, Finished
    <2>. QED  BY <2>1, <2>2
<1>4. trail'.mem[q] = rec /\ trail'.disk[q] = rec
    BY <1>2, <1>3, StoredAt DEF RememberOutcome, Reliable, ReliableInv, RunInv
<1>5. PICK a \in {"completed", "failed"} :
        /\ a = "completed" => gui.outcome \in Succeeded
        /\ a = "failed" => gui.outcome \in Raised \cup {"exported"}
        /\ gui' = [gui EXCEPT !.stage = "answer", !.answer = a]
    BY DEF RememberOutcome
<1>6. gui'.stage = "answer" /\ gui'.req = q /\ gui'.outcome = gui.outcome /\ gui'.answer = a
    BY <1>1, <1>5 DEF GuiStates
<1>7. Done(q)' /\ ~Saving(q)'
    BY <1>6 DEF Done, Saving
<1>8. Settled(q)'
    BY <1>1, <1>2, <1>3, <1>4, <1>7 DEF Settled
<1>9. rec.status \in FinalStatuses /\ (a = "failed" => gui.outcome # "undid")
    BY <1>3, <1>5 DEF FinalStatuses, Raised
<1>10. GuiSettled'
    BY <1>1, <1>2, <1>3, <1>4, <1>5, <1>6, <1>9 DEF GuiSettled, Advanced
<1>. QED  BY <1>8, <1>10


\* The answer is given, unless the request has one already.
LEMMA AnswerSettles ==
    ASSUME ReliableInv, NEW q \in Ids, q = gui.req, GuiAnswers
    PROVE  Settled(q)' /\ GuiSettled'
<1>1. /\ gui.stage = "answer" /\ Settled(q) /\ ~Saving(q) /\ entry[q] \in Entries
      /\ Tracked(entry[q]) => entry[q].call = gui.call
      /\ trail' = trail /\ changed' = changed /\ verdict' = Judged(entry') /\ gui'.stage = "idle"
    BY AtHand DEF GuiAnswers, Answering, Saving, IdleGui
<1>2. /\ trail.disk[q].status \in FinalStatuses /\ trail.mem[q] = trail.disk[q]
      /\ gui.answer = "completed" => trail.disk[q].status = "completed"
      /\ gui.answer = "failed" => gui.outcome # "undid"
      /\ q \in changed <=> gui.outcome \in Changing
      /\ gui.answer \in {"completed", "failed"}
      /\ q \in changed => gui.call \in Mutations \/ ~Tracked(entry[q])
    BY <1>1 DEF ReliableInv, RunInv, ChangesNothing, GuiSettled, Settled, Advanced, IInv,
                AnswerIsKnown, Entries, Calls, NoEntry, TypeOK, GuiStates
<1>3. IInv /\ Judgement(entry, verdict) /\ Judges(verdict', entry', q) /\ entry \in [Ids -> Entries]
    BY <1>1, JudgedAt DEF ReliableInv, RunInv, IInv, TypeOK
<1>4. GuiSettled'
    BY <1>1 DEF GuiSettled, Advanced
<1>5. ~Saving(q)' /\ ~Done(q)'
    BY <1>1 DEF Saving, Done
<1>6. CASE Live(entry[q])
    <2>1. entry'[q] = Answered(entry[q], gui.answer, SafeClaim)
        BY <1>3, <1>6 DEF GuiAnswers, Answering, Answerable
    <2>2. verdict'[q] = gui.answer
        BY <1>2, <1>3, <1>6, <2>1, NewVerdict DEF FinalAnswers
    <2>3. entry'[q].safe = SafeClaim /\ Terminal(entry'[q]) /\ ~Live(entry'[q])
        BY <1>1, <1>2, <2>1 DEF Answered, Entries, Terminal, Live, FinalAnswers
    <2>4. SafeClaim = "yes" => q \notin changed
        BY <1>1, <1>2, <1>6, DispatcherAssumption DEF SafeClaim, Changing, Live
    <2>. QED  BY <1>1, <1>2, <1>4, <1>5, <2>2, <2>3, <2>4 DEF Settled
<1>7. CASE ~Live(entry[q])
    <2>1. entry'[q] = entry[q]
        BY <1>3, <1>7 DEF GuiAnswers, Answering, Answerable
    <2>2. verdict'[q] = verdict[q]
        BY <1>3, <2>1, NoNewVerdict
    <2>. QED  BY <1>1, <1>2, <1>4, <1>5, <1>7, <2>1, <2>2 DEF Settled
<1>. QED  BY <1>6, <1>7

\* A step of the GUI thread.
LEMMA GuiStepSettles ==
    ASSUME Reliable, ReliableInv, RunInv', GuiStep, \A r \in Ids : Moves(r)
    PROVE  GuiSettled' /\ \A r \in Ids : Settled(r)'
<1>1. gui.stage # "idle"
    BY DEF GuiStep, PresentShown, PresentRaises, ApproveAudit, ExecuteRefused, Execute,
           SaveOutcome, RememberOutcome, GuiAnswers
<1>2. PICK q \in Ids : q = gui.req
    BY <1>1, AtHand
<1>3. Settled(q)' /\ GuiSettled'
    BY <1>2, PresentSettles, ApprovalSettles, ExecuteSettles, SaveSettles, RememberSettles,
       AnswerSettles DEF GuiStep, Reliable
<1>4. ASSUME NEW r \in Ids, r # q PROVE Settled(r)'
    BY <1>2, <1>4, OthersSettle DEF Reliable, ReliableInv
<1>. QED  BY <1>3, <1>4


-------------------------------------------------------------------------------
(* The confirmation slot *)

\* Whoever keeps the slot in a sweep is untouched by it.
LEMMA SweptHolds ==
    ASSUME IInv, NEW r \in Ids, active = r, SweptActive = r
    PROVE  SweptEntry[r] = entry[r]
<1>1. r \notin Expiring
    BY DispatcherAssumption DEF SweptActive
<1>. QED  BY <1>1 DEF SweptEntry, Expired

\* A worker leaves the request in the slot unanswered.
LEMMA WorkersLeaveSlot ==
    ASSUME RunInv, NEW r \in Ids, active = r, active' = r, Live(entry[r]),
           NEW w \in Workers, Submit(w) \/ WaitTimesOut(w) \/ SubmitReturns(w)
    PROVE  Live(entry'[r])
<1>. USE DEF table
<1>1. IInv /\ entry \in [Ids -> Entries] /\ SweptEntry \in [Ids -> Entries]
    BY SweptOK DEF RunInv, IInv, TypeOK, TableOK
<1>2. ASSUME SweptActive = r PROVE SweptEntry[r] = entry[r] /\ Live(SweptEntry[r])
    BY <1>1, <1>2, SweptHolds
<1>3. ASSUME NEW q \in Ids, NEW c \in Calls, SubmitKnown(w, q, c) \/ SubmitRefused(w, q)
      PROVE  Live(entry'[r])
    BY <1>2, <1>3 DEF SubmitKnown, SubmitRefused, Answering
<1>4. ASSUME NEW i \in Rooms(SweptEntry), SweptActive = r
      PROVE  EntriesWithout(SweptEntry, Evicted(i))[r] = SweptEntry[r]
    BY <1>2, <1>4 DEF Rooms, Evicted, EntriesWithout, Live
<1>5. ASSUME NEW q \in Ids, NEW c \in Calls, SubmitNotAudited(w, q, c)
      PROVE  Live(entry'[r])
    BY <1>2, <1>4, <1>5 DEF SubmitNotAudited
<1>6. ASSUME NEW q \in Ids, NEW c \in Calls, SubmitAccepted(w, q, c)
      PROVE  Live(entry'[r])
    <2>1. PICK i \in Rooms(SweptEntry) :
            entry' = [EntriesWithout(SweptEntry, Evicted(i)) EXCEPT ![q] = NewEntry(c)]
        BY <1>6 DEF SubmitAccepted
    <2>2. SweptActive = r /\ ~Tracked(SweptEntry[q])
        BY <1>6 DEF SubmitAccepted, Fresh
    <2>3. q # r
        BY <1>2, <2>2 DEF Live
    <2>. QED  BY <1>2, <1>4, <2>1, <2>2, <2>3
<1>7. CASE WaitTimesOut(w)
    BY <1>7 DEF WaitTimesOut
<1>8. CASE SubmitReturns(w)
    <2>1. PICK q \in Ids : q = worker[w].req
        BY <1>1, <1>8 DEF SubmitReturns, IInv, TypeOK
    <2>2. entry[r].answer # "none"
        BY <1>1, DispatcherAssumption DEF RunInv, SlotIsMutation, Live, IInv, TableOK, EntryOK
    <2>3. CASE q = r
        BY <1>8, <2>1, <2>2, <2>3 DEF SubmitReturns, Answering
    <2>4. CASE q # r
        BY <1>1, <1>8, <2>1, <2>4 DEF SubmitReturns, Answering
    <2>. QED  BY <2>3, <2>4
<1>. QED  BY <1>3, <1>5, <1>6, <1>7, <1>8 DEF Submit

\* So does a sweep that raises: the cancellation it stumbles on is that of a request
\* whose outcome is being saved, and such a request does not expire.
LEMMA RaisingLeavesSlot ==
    ASSUME Reliable, ReliableInv, NEW r \in Ids, active = r, active' = r, Live(entry[r]), SweepRaises
    PROVE  Live(entry'[r])
<1>1. PICK f \in Expiring, S \in SUBSET Ids :
        /\ S = Before(Expiring, f)
        /\ \A q \in S : CanCancel(trail, q)
        /\ trail' \in TornCancels(Cancelled(trail, S, "cancelled"), f, "cancelled", AuditMayFail)
        /\ entry' = Expired(S \cup {f})
        /\ active' = IF active \in S THEN NoRequest ELSE active
    BY DEF SweepRaises, Answering, Before, Expiring
<1>2. f \in Ids \ S
    BY <1>1, BeforeIsEarlier DEF Expiring, ReliableInv, RunInv
<1>3. FilesTorn(f)
    BY <1>1, <1>2, CancelledThenTorn DEF ReliableInv, RunInv
<1>4. Saving(f)
    BY <1>2, <1>3, TornStays DEF Reliable, ReliableInv
<1>5. entry[f].executing
    BY <1>2, <1>4 DEF ReliableInv, RunInv, CallKept, Saving, Working, Expiring
<1>. QED  BY <1>5 DEF Expiring

\* Every step leaves the request in the slot unanswered or releases the slot.
LEMMA SlotStays ==
    ASSUME Reliable, ReliableInv, NEW r \in Ids, active = r, active' = r, Live(entry[r]), [Next]_vars
    PROVE  Live(entry'[r])
<1>. USE DEF table
<1>1. IInv /\ entry \in [Ids -> Entries] /\ SweptEntry \in [Ids -> Entries]
    BY SweptOK DEF ReliableInv, RunInv, IInv, TypeOK, TableOK
<1>2. ASSUME SweptActive = r PROVE SweptEntry[r] = entry[r] /\ Live(SweptEntry[r])
    BY <1>1, <1>2, SweptHolds
<1>3. CASE ExpireRequests \/ ProcessNothing
    BY <1>2, <1>3 DEF ExpireRequests, ProcessNothing, Answering
<1>4. CASE ProcessRead \/ ProcessMutation
    <2>1. SweptActive = NoRequest \/ SweptActive = r
        BY <1>4 DEF ProcessRead, ProcessMutation, SlotFree
    <2>2. CASE ProcessRead
        <3>1. SweptActive = r /\ SlotFree
            BY <2>2 DEF ProcessRead
        <3>. QED  BY <3>1, DispatcherAssumption DEF SlotFree
    <2>3. CASE ProcessMutation
        <3>1. PICK k \in 1..Len(queue) : Live(SweptEntry[queue[k]]) /\ active' = queue[k]
            BY <2>3 DEF ProcessMutation, Served
        <3>2. entry' = SweptEntry
            BY <2>3 DEF ProcessMutation, Answering
        <3>. QED  BY <3>1, <3>2
    <2>. QED  BY <1>4, <2>2, <2>3
<1>5. CASE GuiStep
    <2>1. CASE GuiAnswers
        <3>1. ~(Answerable(gui.req) /\ active = gui.req)
            BY <2>1, DispatcherAssumption DEF GuiAnswers
        <3>2. gui.req # r
            BY <3>1 DEF Answerable
        <3>3. entry'[r] = entry[r]
            BY <1>1, <2>1, <3>2 DEF GuiAnswers, Answering
        <3>. QED  BY <3>3
    <2>. QED  BY <1>5, <2>1 DEF GuiStep, PresentShown, PresentRaises, ApproveAudit, ExecuteRefused,
                                Execute, SaveOutcome, RememberOutcome
<1>6. ASSUME NEW q \in Ids, Resolve(q) PROVE Live(entry'[r])
    <2>1. CASE ResolveStale(q)
        <3>1. SweptActive = r
            BY <2>1, DispatcherAssumption DEF ResolveStale
        <3>. QED  BY <1>2, <2>1, <3>1 DEF ResolveStale, Answering
    <2>2. CASE ResolveDenied(q)
        <3>1. entry' = SweptEntry /\ SweptActive = r
            BY <2>2, DispatcherAssumption DEF ResolveDenied, Answering
        <3>. QED  BY <1>2, <3>1
    <2>3. CASE ResolveApproved(q)
        <3>1. SweptActive = r /\ SweptActive = q
            BY <2>3 DEF ResolveApproved
        <3>2. entry'[r] = [entry[r] EXCEPT !.executing = TRUE]
            BY <1>1, <1>2, <2>3, <3>1 DEF ResolveApproved, Answering
        <3>3. entry'[r].answer = entry[r].answer
            BY <1>1, <3>2 DEF Entries
        <3>. QED  BY <3>3 DEF Live, Tracked, Terminal
    <2>. QED  BY <1>6, <2>1, <2>2, <2>3 DEF Resolve
<1>7. CASE \/ Close \/ UNCHANGED vars
           \/ \E q \in Ids : DeadlinePasses(q)
    BY <1>7, DispatcherAssumption DEF Close, vars, DeadlinePasses
<1>8. ASSUME NEW w \in Workers, Submit(w) \/ WaitTimesOut(w) \/ SubmitReturns(w)
      PROVE  Live(entry'[r])
    BY <1>8, WorkersLeaveSlot DEF ReliableInv
<1>. QED  BY <1>3, <1>4, <1>5, <1>6, <1>7, <1>8, RaisingLeavesSlot DEF Next, Tick

LEMMA SlotPendsKept ==
    ASSUME Reliable, ReliableInv, RunInv', [Next]_vars
    PROVE  SlotPends'
<1>. SUFFICES ASSUME NEW r \in Ids, active' = r PROVE Live(entry'[r])
    BY DEF SlotPends, RunInv, IInv, TypeOK
<1>1. CASE active = r
    <2>1. Live(entry[r])
        BY <1>1, DispatcherAssumption DEF ReliableInv, SlotPends
    <2>. QED  BY <1>1, <2>1, SlotStays
<1>2. CASE active # r
    BY <1>2, NextSlot, DispatcherAssumption DEF ReliableInv, RunInv
<1>. QED  BY <1>1, <1>2

-------------------------------------------------------------------------------
(* The theorems *)

LEMMA ReliableInvKept ==
    ASSUME Reliable, ReliableInv, [Next]_vars
    PROVE  ReliableInv'
<1>1. /\ RunInv' /\ (GuiTurns \/ GuiStep)
      /\ \A r \in Ids : Moves(r) /\ (~GuiStep => TableMoves(r))
    BY RunInvKept DEF Reliable, ReliableInv
<1>2. FileInv'
    BY FileInvKept DEF Reliable, ReliableInv
<1>3. SlotPends'
    BY <1>1, SlotPendsKept
<1>4. GuiSettled' /\ \A r \in Ids : Settled(r)'
    BY <1>1, GuiStepSettles, TurnsSettle DEF Reliable, ReliableInv
<1>. QED  BY <1>1, <1>2, <1>3, <1>4 DEF ReliableInv

\* The three layers hold in every reachable state.
THEOREM ReliableInvariant == Reliable /\ Spec => []ReliableInv
<1>. SUFFICES ASSUME Reliable PROVE Spec => []ReliableInv
    OBVIOUS
<1>1. Init => ReliableInv
    BY InitRuns, InitFiles, InitSettles DEF ReliableInv
<1>2. ReliableInv /\ [Next]_vars => ReliableInv'
    BY ReliableInvKept
<1>. QED  BY <1>1, <1>2, PTL DEF Spec

\* The confirmation slot holds a mutation that still waits for its answer, so that
\* process_next is never kept from the queue by a request that is over.
THEOREM SlotIsPending == Reliable /\ Spec => []SlotHoldsPendingMutation
<1>1. ReliableInv => SlotHoldsPendingMutation
    BY DEF ReliableInv, SlotPends, RunInv, SlotIsMutation, IInv, TypeOK, Live,
           SlotHoldsPendingMutation
<1>. QED  BY ReliableInvariant, <1>1, PTL

\* A client told that the safe state was restored finds the document as it was.
THEOREM SafeStateIsTrue == Reliable /\ Spec => []HonestSafeState
<1>1. ReliableInv => HonestSafeState
    BY DEF ReliableInv, Settled, HonestSafeState
<1>. QED  BY ReliableInvariant, <1>1, PTL

\* Once a request is answered and the GUI thread has left it, its audit file tells
\* what the client was told.
THEOREM FilesTellAnswers == Reliable /\ Spec => []AuditAgreesWithAnswers
<1>1. ReliableInv => AuditAgreesWithAnswers
    BY DEF ReliableInv, Settled, Saving, FinalStatuses, AuditAgreesWithAnswers
<1>. QED  BY ReliableInvariant, <1>1, PTL


=============================================================================
