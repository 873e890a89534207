-------------------------- MODULE BridgeAuditProofs --------------------------
(* Theorems about BridgeDispatcher, for any number of requests, workers and    *)
(* places, while retention has room for the audit file of every request.       *)
EXTENDS BridgeDispatcherProofs

(* The life of a request is followed through one step at a time: a step does   *)
(* to each request one of a few things, whatever else it does to others.       *)

\* An answered request is not live.
LEMMA AnsweredIsOver ==
    ASSUME NEW e, e \in Entries, NEW a \in FinalAnswers, NEW claim
    PROVE  ~Live(Answered(e, a, claim))
BY DEF Answered, Live, Terminal, Tracked, FinalAnswers, Entries

Judgement(e, v) == \A r \in Ids : Tracked(e[r]) => (Live(e[r]) <=> v[r] = "none")

AnswerStays(r) == entry'[r] = entry[r] /\ verdict'[r] = verdict[r]

FilesStay(r) == trail'.mem[r] = trail.mem[r] /\ trail'.disk[r] = trail.disk[r]

\* cancel() of r went through...
FilesCancelled(r) ==
    IF NeedsCancel(trail, r)
    THEN /\ CanCancel(trail, r)
         /\ \E d \in {"cancelled", "denied"} : trail'.mem[r] = CancelledRecord(trail.mem[r], d)
         /\ trail'.disk[r] = trail'.mem[r]
    ELSE FilesStay(r)

\* ...or it raised.
FilesTorn(r) ==
    /\ trail'.mem[r] = trail.mem[r]
    /\ \/ trail'.disk[r] = trail.disk[r] /\ (AuditMayFail \/ ~CanCancel(trail, r))
       \/ /\ AuditMayFail /\ NeedsCancel(trail, r) /\ CanCancel(trail, r)
          /\ \E d \in {"cancelled", "denied"} :
                \E n \in 1..Len(CancelSaves(trail.mem[r], d)) :
                    trail'.disk[r] = CancelSaves(trail.mem[r], d)[n]

Still(r) == AnswerStays(r) /\ FilesStay(r)

\* r is answered "expired" or "cancelled" and its audit action is cancelled.
Withdrawn(r) ==
    /\ Live(entry[r])
    /\ \E a \in {"expired", "cancelled"} :
        /\ entry'[r] \in {Answered(entry[r], a, "yes"), NoEntry}
        /\ verdict'[r] = a
    /\ ~entry[r].executing \/ entry[r].answer = "none" \/ GuiInteractive
    /\ FilesCancelled(r) \/ FilesTorn(r)

\* r has its answer and is evicted.
Forgotten(r) ==
    Terminal(entry[r]) /\ entry'[r] = NoEntry /\ verdict'[r] = verdict[r] /\ FilesStay(r)

\* r is accepted and its audit action begun, or only the latter.
Admitted(r) ==
    /\ ~Tracked(entry[r]) /\ trail.disk[r].rev = 0
    /\ \E c \in Calls :
        /\ entry'[r] = NewEntry(c)
        /\ trail'.mem[r] = Started(StartDecision(c))
        /\ trail'.disk[r] = Started(StartDecision(c))
    /\ verdict'[r] = verdict[r]

OnlyBegun(r) ==
    /\ ~Tracked(entry[r]) /\ trail.disk[r].rev = 0
    /\ AnswerStays(r)
    /\ trail'.mem[r] = trail.mem[r]
    /\ \E c \in Calls : trail'.disk[r] = Started(StartDecision(c))
    /\ AuditMayFail

\* The GUI thread takes r up for execution.
Taken(r) ==
    /\ Live(entry[r])
    /\ entry'[r] = [entry[r] EXCEPT !.executing = TRUE]
    /\ verdict'[r] = verdict[r]
    /\ FilesStay(r)
    /\ gui'.stage \in {"approve", "execute"} /\ gui'.req = r

\* The denial of r could not be put on record and has no effect.
Undenied(r) ==
    AnswerStays(r) /\ Live(entry[r]) /\ active = r /\ GuiInteractive /\ FilesTorn(r)

\* The panel could not show r.
Unshown(r) ==
    /\ gui.stage = "present" /\ gui.req = r
    /\ AnswerStays(r)
    /\ \/ gui' = Failing /\ (FilesCancelled(r) \/ (~Tracked(entry[r]) /\ FilesStay(r)))
       \/ gui' = IdleGui /\ Tracked(entry[r]) /\ FilesTorn(r)

\* The GUI thread records what it did with r...
Recorded(r) ==
    /\ gui.req = r
    /\ AnswerStays(r)
    /\ \/ /\ gui.stage = "approve"
          /\ CanApprove(trail, r)
          /\ trail'.disk[r] = Decided(trail.mem[r], "approved")
          /\ trail'.mem[r] \in {trail.mem[r], trail'.disk[r]}
       \/ /\ gui.stage = "running"
          /\ Accepts(trail, r, OutcomeRecord)
          /\ trail'.disk[r] = OutcomeRecord
          /\ trail'.mem[r] = trail.mem[r]
       \/ /\ gui.stage = "saved"
          /\ trail'.disk[r] = trail.disk[r]
          /\ trail'.mem[r] = OutcomeRecord

\* ...and answers it.
Finishes(r) ==
    /\ gui.stage = "answer" /\ gui.req = r
    /\ Live(entry[r])
    /\ entry'[r] = Answered(entry[r], gui.answer, SafeClaim)
    /\ verdict'[r] = gui.answer
    /\ FilesStay(r)

\* Only the last three are the GUI thread's.
TableMoves(r) ==
    \/ Still(r) \/ Withdrawn(r) \/ Forgotten(r) \/ Admitted(r) \/ OnlyBegun(r) \/ Taken(r)
    \/ Undenied(r)

Moves(r) == TableMoves(r) \/ Unshown(r) \/ Recorded(r) \/ Finishes(r)

-------------------------------------------------------------------------------
(* What the sweep does to each request *)

Judges(v, e, r) ==
    v[r] = IF verdict[r] = "none" /\ Terminal(e[r]) THEN e[r].answer ELSE verdict[r]

LEMMA JudgedAt ==
    ASSUME NEW e, NEW r \in Ids
    PROVE  Judges(Judged(e), e, r)
BY DEF Judged, Judges

\* A table entry that is unanswered, or was answered before, brings no new verdict.
LEMMA NoNewVerdict ==
    ASSUME Judgement(entry, verdict), NEW v, NEW e, NEW r \in Ids, Judges(v, e, r),
           e[r] = entry[r] \/ ~Terminal(e[r])
    PROVE  v[r] = verdict[r]
BY DEF Judgement, Judges, Live, Terminal, Tracked, FinalAnswers

\* A new answer to an unanswered request is its verdict.
LEMMA NewVerdict ==
    ASSUME IInv, Judgement(entry, verdict), NEW v, NEW e, NEW r \in Ids, Judges(v, e, r),
           Live(entry[r]), NEW a \in FinalAnswers, NEW claim, e[r] = Answered(entry[r], a, claim)
    PROVE  v[r] = a
<1>1. e[r].answer = a /\ verdict[r] = "none"
    BY DEF IInv, TypeOK, Entries, Answered, Judgement, Live
<1>. QED  BY <1>1 DEF Judges, Terminal

\* The swept state, request by request.
LEMMA SweptAt ==
    ASSUME IInv, NEW r \in Ids
    PROVE  IF r \in Expiring
           THEN /\ SweptEntry[r] = Answered(entry[r], "expired", "yes")
                /\ IF NeedsCancel(trail, r)
                   THEN /\ SweptTrail.mem[r] = CancelledRecord(trail.mem[r], "cancelled")
                        /\ SweptTrail.disk[r] = CancelledRecord(trail.mem[r], "cancelled")
                   ELSE /\ SweptTrail.mem[r] = trail.mem[r]
                        /\ SweptTrail.disk[r] = trail.disk[r]
           ELSE /\ SweptEntry[r] = entry[r]
                /\ SweptTrail.mem[r] = trail.mem[r]
                /\ SweptTrail.disk[r] = trail.disk[r]
<1>1. trail \in Trails /\ r \in Actions
    BY DEF IInv, TypeOK, Ids
<1>. QED  BY <1>1, CancelledAt DEF SweptTrail, SweptEntry, Expired, Decisions

\* A request the step does nothing else to is swept or stays.
LEMMA SweptMoves ==
    ASSUME IInv, Judgement(entry, verdict), NEW r \in Ids, SweepSucceeds,
           entry'[r] = SweptEntry[r] \/ (Terminal(SweptEntry[r]) /\ entry'[r] = NoEntry),
           Judges(verdict', SweptEntry, r),
           trail'.mem[r] = SweptTrail.mem[r], trail'.disk[r] = SweptTrail.disk[r]
    PROVE  Still(r) \/ Withdrawn(r) \/ Forgotten(r)
<1>1. CASE r \in Expiring
    <2>1. Live(entry[r]) /\ ~entry[r].executing /\ CanCancel(trail, r)
        BY <1>1 DEF Expiring, SweepSucceeds
    <2>2. SweptEntry[r] = Answered(entry[r], "expired", "yes")
        BY <1>1, SweptAt
    <2>3. verdict'[r] = "expired"
        BY <2>1, <2>2, NewVerdict DEF FinalAnswers
    <2>4. FilesCancelled(r)
        BY <1>1, <2>1, SweptAt DEF FilesCancelled, FilesStay
    <2>. QED  BY <2>1, <2>2, <2>3, <2>4 DEF Withdrawn
<1>2. CASE r \notin Expiring
    <2>1. SweptEntry[r] = entry[r] /\ FilesStay(r)
        BY <1>2, SweptAt DEF FilesStay
    <2>2. verdict'[r] = verdict[r]
        BY <2>1, NoNewVerdict
    <2>. QED  BY <2>1, <2>2 DEF Still, AnswerStays, Forgotten
<1>. QED  BY <1>1, <1>2

\* Cancelling the requests S and then f, which raises.
LEMMA CancelledThenTorn ==
    ASSUME IInv, NEW S, S \subseteq Ids, NEW f \in Ids \ S, \A q \in S : CanCancel(trail, q),
           NEW d \in {"cancelled", "denied"},
           trail' \in TornCancels(Cancelled(trail, S, "cancelled"), f, d, AuditMayFail)
    PROVE  /\ \A r \in S : FilesCancelled(r)
           /\ FilesTorn(f)
           /\ \A r \in Ids \ (S \cup {f}) : FilesStay(r)
<1>1. PICK t : t = Cancelled(trail, S, "cancelled")
    OBVIOUS
<1>2. trail \in Trails /\ t \in Trails
    BY <1>1, CancelledType DEF IInv, TypeOK, Decisions
<1>3. \A a \in Actions :
        IF a \in S /\ NeedsCancel(trail, a)
        THEN /\ t.mem[a] = CancelledRecord(trail.mem[a], "cancelled")
             /\ t.disk[a] = CancelledRecord(trail.mem[a], "cancelled")
        ELSE t.mem[a] = trail.mem[a] /\ t.disk[a] = trail.disk[a]
    BY <1>1, <1>2, CancelledAt DEF Decisions
<1>4. PICK u : u = trail'
    OBVIOUS
<1>5. /\ u.mem = t.mem
      /\ \A b \in Actions \ {f} : u.disk[b] = t.disk[b]
      /\ \/ u.disk = t.disk /\ (AuditMayFail \/ ~CanCancel(t, f))
         \/ /\ AuditMayFail /\ NeedsCancel(t, f) /\ CanCancel(t, f)
            /\ \E n \in 1..Len(CancelSaves(t.mem[f], d)) :
                    u.disk[f] = CancelSaves(t.mem[f], d)[n]
    <2>1. u \in TornCancels(t, f, d, AuditMayFail) /\ f \in Actions /\ d \in Decisions
        BY <1>1, <1>4 DEF Ids, Decisions
    <2>. QED  BY <1>2, <2>1, TornAt, DispatcherAssumption
<1>6. t.mem[f] = trail.mem[f] /\ t.disk[f] = trail.disk[f]
    BY <1>3 DEF Ids
<1>7. FilesTorn(f)
    <2>1. NeedsCancel(t, f) = NeedsCancel(trail, f) /\ CanCancel(t, f) = CanCancel(trail, f)
        BY <1>6 DEF NeedsCancel, CanCancel, Accepts
    <2>. QED  BY <1>4, <1>5, <1>6, <2>1 DEF FilesTorn
<1>8. ASSUME NEW r \in S
      PROVE  FilesCancelled(r)
    <2>1. u.mem[r] = t.mem[r] /\ u.disk[r] = t.disk[r] /\ CanCancel(trail, r) /\ r \in Actions
        BY <1>5, <1>8 DEF Ids
    <2>. QED  BY <1>3, <1>4, <1>8, <2>1 DEF FilesCancelled, FilesStay
<1>9. ASSUME NEW r \in Ids \ (S \cup {f})
      PROVE  FilesStay(r)
    BY <1>3, <1>4, <1>5, <1>9 DEF FilesStay, Ids
<1>. QED  BY <1>7, <1>8, <1>9

\* The requests before f in the table are not f.
LEMMA BeforeIsEarlier ==
    ASSUME IInv, OrderTracksEntries, NEW S, S \subseteq Ids, NEW f \in S
    PROVE  Before(S, f) \subseteq S /\ f \notin Before(S, f)
<1>1. PICK n \in Nat : n = Len(order)
    BY DEF IInv, TypeOK
<1>2. \A i, j \in 1..n : i < j => ~(order[i] = f /\ order[j] = f)
    BY <1>1 DEF OrderTracksEntries
<1>. QED  BY <1>1, <1>2 DEF Before

\* A sweep that ends with the answer of f, whose audit raised.
LEMMA SweepRaisesMoves ==
    ASSUME IInv, OrderTracksEntries, Judgement(entry, verdict), SweepRaises, NEW r \in Ids
    PROVE  Still(r) \/ Withdrawn(r)
<1>1. PICK f \in Expiring :
        /\ \A q \in Before(Expiring, f) : CanCancel(trail, q)
        /\ trail' \in TornCancels(Cancelled(trail, Before(Expiring, f), "cancelled"), f,
                                  "cancelled", AuditMayFail)
        /\ Answering(Expired(Before(Expiring, f) \cup {f}))
    BY DEF SweepRaises
<1>2. PICK S : S = Before(Expiring, f)
    OBVIOUS
<1>3. S \subseteq Expiring /\ f \notin S /\ S \subseteq Ids /\ f \in Ids
    BY <1>2, BeforeIsEarlier DEF Expiring
<1>4. /\ \A q \in S : FilesCancelled(q)
      /\ FilesTorn(f)
      /\ \A q \in Ids \ (S \cup {f}) : FilesStay(q)
    BY <1>1, <1>2, <1>3, CancelledThenTorn
<1>5. entry' = Expired(S \cup {f}) /\ Judges(verdict', entry', r)
    BY <1>1, <1>2, JudgedAt DEF Answering
<1>6. CASE r \in S \cup {f}
    <2>1. Live(entry[r]) /\ ~entry[r].executing
        BY <1>3, <1>6 DEF Expiring
    <2>2. entry'[r] = Answered(entry[r], "expired", "yes")
        BY <1>5, <1>6 DEF Expired
    <2>3. verdict'[r] = "expired"
        BY <1>5, <2>1, <2>2, NewVerdict DEF FinalAnswers
    <2>. QED  BY <1>4, <1>6, <2>1, <2>2, <2>3 DEF Withdrawn
<1>7. CASE r \notin S \cup {f}
    <2>1. entry'[r] = entry[r]
        BY <1>5, <1>7 DEF Expired
    <2>2. verdict'[r] = verdict[r]
        BY <1>5, <2>1, NoNewVerdict
    <2>. QED  BY <1>4, <1>7, <2>1, <2>2 DEF Still, AnswerStays
<1>. QED  BY <1>6, <1>7

-------------------------------------------------------------------------------
(* What each step does to each request *)

\* The start of an action is the only change it makes to the files.
LEMMA BegunAt ==
    ASSUME RetentionSuffices, NEW t, t \in Trails, Listed(t), NEW q \in Ids, NEW c \in Calls,
           CanBegin(t, q)
    PROVE  LET d == StartDecision(c)
           IN  /\ t.disk[q].rev = 0
               /\ Begun(t, q, d).mem = [t.mem EXCEPT ![q] = Started(d)]
               /\ Begun(t, q, d).disk = [t.disk EXCEPT ![q] = Started(d)]
               /\ BegunTorn(t, q, d).mem = t.mem
               /\ BegunTorn(t, q, d).disk = [t.disk EXCEPT ![q] = Started(d)]
               /\ Listed(Begun(t, q, d)) /\ Listed(BegunTorn(t, q, d))
<1>1. PICK d \in Decisions : d = StartDecision(c)
    BY DEF StartDecision, Decisions
<1>2. Started(d) \in Records /\ Started(d).rev > 0 /\ q \in Actions
    BY RecordTypes DEF Started, Ids
<1>3. t.disk[q].rev = 0
    <2>1. t.disk[q] \in Records
        BY <1>2 DEF Trails
    <2>. QED  BY <2>1 DEF CanBegin, Accepts, Started, Records
<1>4. PICK s : s = Stored(t, q, Started(d))
    OBVIOUS
<1>5. /\ Listed(s) /\ s.mem = t.mem /\ s.disk = [t.disk EXCEPT ![q] = Started(d)]
      /\ s \in Trails
    BY <1>2, <1>4, StoredListed, StoredType
<1>6. /\ Remembered(s, q, Started(d)).log = s.log
      /\ Remembered(s, q, Started(d)).disk = s.disk
      /\ Remembered(s, q, Started(d)).mem = [s.mem EXCEPT ![q] = Started(d)]
    BY <1>5 DEF Remembered, Trails
<1>. QED  BY <1>1, <1>3, <1>4, <1>5, <1>6 DEF Begun, BegunTorn, Listed

\* One save and one remembered record, request by request.
LEMMA StoredAt ==
    ASSUME RetentionSuffices, IInv, Listed(trail), NEW q \in Ids, NEW rec \in Records,
           rec.rev > 0, NEW r \in Ids
    PROVE  /\ Stored(trail, q, rec).mem[r] = trail.mem[r]
           /\ Remembered(Stored(trail, q, rec), q, rec).mem[r] = IF r = q THEN rec ELSE trail.mem[r]
           /\ Remembered(trail, q, rec).mem[r] = IF r = q THEN rec ELSE trail.mem[r]
           /\ Remembered(trail, q, rec).disk[r] = trail.disk[r]
           /\ Stored(trail, q, rec).disk[r] = IF r = q THEN rec ELSE trail.disk[r]
           /\ Remembered(Stored(trail, q, rec), q, rec).disk[r] =
                IF r = q THEN rec ELSE trail.disk[r]
           /\ Listed(Stored(trail, q, rec))
           /\ Listed(Remembered(Stored(trail, q, rec), q, rec))
           /\ Listed(Remembered(trail, q, rec))
<1>1. trail \in Trails /\ q \in Actions /\ r \in Actions
    BY DEF IInv, TypeOK, Ids
<1>2. PICK s : s = Stored(trail, q, rec)
    OBVIOUS
<1>3. /\ Listed(s) /\ s.mem = trail.mem /\ s.disk = [trail.disk EXCEPT ![q] = rec]
      /\ s \in Trails
    BY <1>1, <1>2, StoredListed, StoredType
<1>4. \A t \in Trails : /\ Remembered(t, q, rec).log = t.log
                        /\ Remembered(t, q, rec).disk = t.disk
                        /\ Remembered(t, q, rec).mem = [t.mem EXCEPT ![q] = rec]
    BY DEF Remembered, Trails
<1>5. \A t \in Trails : Listed(t) => Listed(Remembered(t, q, rec))
    BY <1>4 DEF Listed
<1>6. s.disk[r] = (IF r = q THEN rec ELSE trail.disk[r]) /\ s.mem[r] = trail.mem[r]
    BY <1>1, <1>3 DEF Trails
<1>7. \A t \in Trails : /\ Remembered(t, q, rec).mem[r] = IF r = q THEN rec ELSE t.mem[r]
                        /\ Remembered(t, q, rec).disk[r] = t.disk[r]
    BY <1>1, <1>4 DEF Trails
<1>. QED  BY <1>1, <1>2, <1>3, <1>5, <1>6, <1>7

\* submit, for a known request or one that is refused, and the timer's sweep.
LEMMA SweepingMoves ==
    ASSUME IInv, Judgement(entry, verdict), NEW r \in Ids,
           \/ \E w \in Workers, q \in Ids, c \in Calls : SubmitKnown(w, q, c) \/ SubmitRefused(w, q)
           \/ ExpireRequests \/ ProcessNothing \/ ProcessMutation
           \/ \E q \in Ids : ResolveStale(q)
    PROVE  TableMoves(r)
<1>1. /\ SweepSucceeds
      /\ entry' = SweptEntry /\ verdict' = Judged(SweptEntry) /\ trail' = SweptTrail
    <2>1. CASE \E w \in Workers, q \in Ids, c \in Calls : SubmitKnown(w, q, c) \/ SubmitRefused(w, q)
        BY <2>1 DEF SubmitKnown, SubmitRefused, Answering
    <2>2. CASE ExpireRequests \/ ProcessNothing
        BY <2>2 DEF ExpireRequests, ProcessNothing, Answering
    <2>3. CASE ProcessMutation
        BY <2>3 DEF ProcessMutation, Answering
    <2>4. CASE \E q \in Ids : ResolveStale(q)
        BY <2>4 DEF ResolveStale, Answering
    <2>. QED  BY <2>1, <2>2, <2>3, <2>4
<1>2. Judges(verdict', SweptEntry, r)
    BY <1>1, JudgedAt
<1>. QED  BY <1>1, <1>2, SweptMoves DEF TableMoves

\* submit, when it makes room for a new request.
LEMMA AdmissionMoves ==
    ASSUME RetentionSuffices, IInv, Judgement(entry, verdict), Listed(trail),
           NEW w \in Workers, NEW q \in Ids, NEW c \in Calls,
           SubmitNotAudited(w, q, c) \/ SubmitAccepted(w, q, c), NEW r \in Ids
    PROVE  TableMoves(r) /\ Listed(trail')
<1>1. SweptTrail \in Trails /\ Listed(SweptTrail) /\ SweptEntry \in [Ids -> Entries]
    <2>1. trail \in Trails
        BY DEF IInv, TypeOK
    <2>. QED  BY <2>1, SweptOK, CancelledAt DEF SweptTrail, Decisions, TableOK
<1>2. SweepSucceeds /\ ~Tracked(SweptEntry[q])
    BY DEF SubmitNotAudited, SubmitAccepted, Fresh
<1>3. PICK d : d = StartDecision(c)
    OBVIOUS
<1>4. PICK i \in Rooms(SweptEntry) :
        \/ /\ entry' = EntriesWithout(SweptEntry, Evicted(i))
           /\ \/ trail' = SweptTrail
              \/ CanBegin(SweptTrail, q) /\ AuditMayFail /\ trail' = BegunTorn(SweptTrail, q, d)
        \/ /\ entry' = [EntriesWithout(SweptEntry, Evicted(i)) EXCEPT ![q] = NewEntry(c)]
           /\ CanBegin(SweptTrail, q) /\ trail' = Begun(SweptTrail, q, d)
    BY <1>3 DEF SubmitNotAudited, SubmitAccepted
<1>5. Judges(verdict', SweptEntry, r)
    BY JudgedAt DEF SubmitNotAudited, SubmitAccepted
<1>6. \A p \in Evicted(i) : Terminal(SweptEntry[p])
    BY <1>4 DEF Evicted, Rooms
<1>7. ~Tracked(entry[q]) /\ q \notin Expiring /\ SweptEntry[q] = entry[q] /\ q \notin Evicted(i)
    <2>1. q \notin Expiring
        BY <1>2, SweptAt, AnsweredTracked DEF Expiring, FinalAnswers, IInv, TypeOK
    <2>. QED  BY <1>2, <1>6, <2>1, SweptAt DEF Terminal, Tracked, FinalAnswers
<1>8. PICK t \in Trails : t = SweptTrail
    BY <1>1
<1>9. t.mem[q] = trail.mem[q] /\ t.disk[q] = trail.disk[q]
    BY <1>7, <1>8, SweptAt
<1>10. t.mem \in [Ids -> Records] /\ t.disk \in [Ids -> Records]
    BY DEF Trails, Ids
<1>11. CanBegin(t, q) =>
        /\ t.disk[q].rev = 0
        /\ Begun(t, q, d).mem = [t.mem EXCEPT ![q] = Started(d)]
        /\ Begun(t, q, d).disk = [t.disk EXCEPT ![q] = Started(d)]
        /\ BegunTorn(t, q, d).mem = t.mem
        /\ BegunTorn(t, q, d).disk = [t.disk EXCEPT ![q] = Started(d)]
        /\ Listed(Begun(t, q, d)) /\ Listed(BegunTorn(t, q, d))
    BY <1>1, <1>3, <1>8, BegunAt
<1>12. Listed(trail')
    BY <1>1, <1>4, <1>8, <1>11
<1>13. PICK ew \in [Ids -> Entries] : ew = EntriesWithout(SweptEntry, Evicted(i))
    BY <1>4, RoomOK, SweptOK DEF TableOK
<1>14. CASE r # q
    <2>1. trail'.mem[r] = t.mem[r] /\ trail'.disk[r] = t.disk[r]
        BY <1>4, <1>8, <1>10, <1>11, <1>14
    <2>2. entry'[r] = ew[r]
        BY <1>4, <1>13, <1>14
    <2>3. ew[r] = SweptEntry[r] \/ (Terminal(SweptEntry[r]) /\ ew[r] = NoEntry)
        BY <1>6, <1>13 DEF EntriesWithout
    <2>. QED  BY <1>2, <1>5, <1>8, <1>12, <2>1, <2>2, <2>3, SweptMoves DEF TableMoves
<1>15. CASE r = q
    <2>1. verdict'[r] = verdict[r]
        BY <1>5, <1>7, <1>15, NoNewVerdict
    <2>2. ew[r] = entry[r] /\ ~Tracked(entry[r])
        BY <1>7, <1>13, <1>15 DEF EntriesWithout
    <2>6. t.mem[r] = trail.mem[r] /\ t.disk[r] = trail.disk[r]
        BY <1>9, <1>15
    <2>3. CASE entry' = ew /\ trail' = t
        <3>1. entry'[r] = ew[r] /\ trail'.mem[r] = t.mem[r] /\ trail'.disk[r] = t.disk[r]
            BY <2>3
        <3>. QED  BY <1>12, <2>1, <2>2, <2>6, <3>1 DEF TableMoves, Still, AnswerStays, FilesStay
    <2>4. CASE entry' = ew /\ CanBegin(t, q) /\ AuditMayFail /\ trail' = BegunTorn(t, q, d)
        <3>1. trail'.mem[r] = t.mem[r] /\ trail'.disk[r] = Started(d) /\ t.disk[r].rev = 0
            BY <1>10, <1>11, <1>15, <2>4
        <3>2. entry'[r] = ew[r] /\ AuditMayFail
            BY <2>4
        <3>. QED  BY <1>3, <1>12, <2>1, <2>2, <2>6, <3>1, <3>2 DEF TableMoves, OnlyBegun, AnswerStays
    <2>5. CASE /\ entry' = [ew EXCEPT ![q] = NewEntry(c)]
               /\ CanBegin(t, q) /\ trail' = Begun(t, q, d)
        <3>1. trail'.mem[r] = Started(d) /\ trail'.disk[r] = Started(d) /\ t.disk[r].rev = 0
            BY <1>10, <1>11, <1>15, <2>5
        <3>2. entry'[r] = NewEntry(c)
            BY <1>15, <2>5
        <3>. QED  BY <1>3, <1>12, <2>1, <2>2, <2>6, <3>1, <3>2 DEF TableMoves, Admitted
    <2>. QED  BY <1>4, <1>8, <1>13, <2>3, <2>4, <2>5
<1>. QED  BY <1>14, <1>15

\* Cancelling the requests S, and a cancellation that raises.
LEMMA CancelledFiles ==
    ASSUME IInv, NEW S, S \subseteq Ids, \A q \in S : CanCancel(trail, q),
           NEW d \in {"cancelled", "denied"}, trail' = Cancelled(trail, S, d)
    PROVE  (\A r \in S : FilesCancelled(r)) /\ (\A r \in Ids \ S : FilesStay(r))
<1>1. trail \in Trails /\ d \in Decisions
    BY DEF IInv, TypeOK, Decisions
<1>2. \A a \in Actions :
        IF a \in S /\ NeedsCancel(trail, a)
        THEN /\ trail'.mem[a] = CancelledRecord(trail.mem[a], d)
             /\ trail'.disk[a] = CancelledRecord(trail.mem[a], d)
        ELSE trail'.mem[a] = trail.mem[a] /\ trail'.disk[a] = trail.disk[a]
    BY <1>1, CancelledAt
<1>. QED  BY <1>2 DEF FilesCancelled, FilesStay, Ids

LEMMA TornFiles ==
    ASSUME IInv, NEW f \in Ids, NEW d \in {"cancelled", "denied"},
           trail' \in TornCancels(trail, f, d, AuditMayFail)
    PROVE  FilesTorn(f) /\ \A r \in Ids \ {f} : FilesStay(r)
<1>1. trail \in Trails /\ d \in Decisions /\ f \in Actions
    BY DEF IInv, TypeOK, Decisions, Ids
<1>2. PICK u : u = trail'
    OBVIOUS
<1>3. /\ u.mem = trail.mem
      /\ \A b \in Actions \ {f} : u.disk[b] = trail.disk[b]
      /\ \/ u.disk = trail.disk /\ (AuditMayFail \/ ~CanCancel(trail, f))
         \/ /\ AuditMayFail /\ NeedsCancel(trail, f) /\ CanCancel(trail, f)
            /\ \E n \in 1..Len(CancelSaves(trail.mem[f], d)) :
                    u.disk[f] = CancelSaves(trail.mem[f], d)[n]
    BY <1>1, <1>2, TornAt, DispatcherAssumption
<1>. QED  BY <1>2, <1>3 DEF FilesTorn, FilesStay, Ids

\* A waiter returns, and the steps that touch neither table nor trail.
LEMMA ReturnMoves ==
    ASSUME IInv, Judgement(entry, verdict), NEW r \in Ids,
           \/ \E w \in Workers : SubmitReturns(w) \/ WaitTimesOut(w)
           \/ \E q \in Ids : DeadlinePasses(q)
           \/ PresentShown \/ ExecuteRefused \/ Execute
           \/ UNCHANGED vars
    PROVE  TableMoves(r)
<1>. USE DEF table, ghosts
<1>1. ASSUME entry' = entry, verdict' = verdict \/ verdict' = Judged(entry), trail' = trail
      PROVE  TableMoves(r)
    <2>1. verdict'[r] = verdict[r]
        BY <1>1, JudgedAt, NoNewVerdict
    <2>. QED  BY <1>1, <2>1 DEF TableMoves, Still, AnswerStays, FilesStay
<1>2. ASSUME NEW w \in Workers, SubmitReturns(w)
      PROVE  TableMoves(r)
    <2>1. worker[w].req \in Ids /\ entry \in [Ids -> Entries]
        BY <1>2 DEF SubmitReturns, IInv, TypeOK
    <2>2. PICK q \in Ids : q = worker[w].req
        BY <2>1
    <2>3. CASE entry[q].answer # "none"
        BY <1>1, <1>2, <2>2, <2>3 DEF SubmitReturns, Answering
    <2>4. CASE entry[q].answer = "none"
        <3>1. /\ entry' = [entry EXCEPT ![q] = Answered(entry[q], "expired", "yes")]
              /\ verdict' = Judged(entry')
            BY <1>2, <2>2, <2>4 DEF SubmitReturns, Answering
        <3>2. \/ CanCancel(trail, q) /\ trail' = Cancelled(trail, {q}, "cancelled")
              \/ trail' \in TornCancels(trail, q, "cancelled", AuditMayFail)
            BY <1>2, <2>2, <2>4 DEF SubmitReturns
        <3>3. (FilesCancelled(q) \/ FilesTorn(q)) /\ \A p \in Ids \ {q} : FilesStay(p)
            BY <3>2, CancelledFiles, TornFiles
        <3>4. Live(entry[q])
            BY <2>4 DEF Live, Tracked, Terminal, FinalAnswers
        <3>5. Judges(verdict', entry', r)
            BY <3>1, JudgedAt
        <3>6. CASE r = q
            <4>1. entry'[r] = Answered(entry[r], "expired", "yes")
                BY <2>1, <3>1, <3>6
            <4>2. verdict'[r] = "expired"
                BY <3>4, <3>5, <3>6, <4>1, NewVerdict DEF FinalAnswers
            <4>. QED  BY <2>4, <3>3, <3>4, <3>6, <4>1, <4>2 DEF TableMoves, Withdrawn
        <3>7. CASE r # q
            <4>1. entry'[r] = entry[r]
                BY <3>1, <3>7
            <4>2. verdict'[r] = verdict[r]
                BY <3>5, <4>1, NoNewVerdict
            <4>. QED  BY <3>3, <3>7, <4>1, <4>2 DEF TableMoves, Still, AnswerStays
        <3>. QED  BY <3>6, <3>7
    <2>. QED  BY <2>3, <2>4
<1>3. ASSUME NEW w \in Workers, WaitTimesOut(w)
      PROVE  TableMoves(r)
    BY <1>1, <1>3 DEF WaitTimesOut
<1>4. ASSUME NEW q \in Ids, DeadlinePasses(q)
      PROVE  TableMoves(r)
    BY <1>1, <1>4 DEF DeadlinePasses
<1>5. CASE PresentShown \/ ExecuteRefused \/ Execute \/ UNCHANGED vars
    BY <1>1, <1>5 DEF PresentShown, ExecuteRefused, Execute, vars
<1>. QED  BY <1>2, <1>3, <1>4, <1>5

\* The GUI thread takes a read from the queue, or the user approves a mutation.
LEMMA TakenMoves ==
    ASSUME IInv, Judgement(entry, verdict), NEW r \in Ids,
           ProcessRead \/ \E q \in Ids : ResolveApproved(q)
    PROVE  TableMoves(r)
<1>1. PICK q \in Ids :
        /\ Live(SweptEntry[q])
        /\ entry' = [SweptEntry EXCEPT ![q].executing = TRUE]
        /\ gui'.stage \in {"approve", "execute"} /\ gui'.req = q
    <2>1. \A k \in 1..Len(queue) : queue[k] \in Ids
        BY DEF IInv, TypeOK
    <2>2. CASE ProcessRead
        BY <2>1, <2>2 DEF ProcessRead, Served, Answering, AtStage, IdleGui
    <2>3. CASE \E q \in Ids : ResolveApproved(q)
        BY <2>3 DEF ResolveApproved, Answering, AtStage, IdleGui
    <2>. QED  BY <2>2, <2>3
<1>2. verdict' = Judged(entry') /\ SweepSucceeds /\ trail' = SweptTrail
    BY DEF ProcessRead, ResolveApproved, Answering
<1>3. SweptEntry \in [Ids -> Entries]
    BY SweptOK DEF TableOK
<1>4. Judges(verdict', entry', r)
    BY <1>2, JudgedAt
<1>5. CASE r # q
    <2>1. entry'[r] = SweptEntry[r]
        BY <1>1, <1>5
    <2>2. Judges(verdict', SweptEntry, r)
        BY <1>4, <2>1 DEF Judges
    <2>. QED  BY <1>2, <2>1, <2>2, SweptMoves DEF TableMoves
<1>6. CASE r = q
    <2>1. q \notin Expiring
        BY <1>1, SweptAt, AnsweredIsOver DEF FinalAnswers, IInv, TypeOK
    <2>2. SweptEntry[r] = entry[r] /\ FilesStay(r)
        BY <1>2, <1>6, <2>1, SweptAt DEF FilesStay
    <2>3. entry'[r] = [entry[r] EXCEPT !.executing = TRUE] /\ Live(entry[r])
        BY <1>1, <1>3, <1>6, <2>2
    <2>4. ~Terminal(entry'[r])
        BY <2>3 DEF Live, Terminal, IInv, TypeOK, Entries
    <2>5. verdict'[r] = verdict[r]
        BY <1>4, <2>4, NoNewVerdict
    <2>. QED  BY <1>1, <1>6, <2>2, <2>3, <2>5 DEF TableMoves, Taken
<1>. QED  BY <1>5, <1>6

\* The user denies a request.
LEMMA DeniedMoves ==
    ASSUME IInv, Judgement(entry, verdict), NEW q \in Ids, ResolveDenied(q), NEW r \in Ids
    PROVE  TableMoves(r)
<1>1. Live(SweptEntry[q]) /\ SweepSucceeds /\ GuiInteractive /\ active = q
    BY DispatcherAssumption DEF ResolveDenied, SweptActive
<1>2. q \notin Expiring
    BY <1>1, SweptAt, AnsweredIsOver DEF FinalAnswers, IInv, TypeOK
<1>3. SweptEntry[q] = entry[q] /\ SweptEntry \in [Ids -> Entries] /\ Live(entry[q])
    BY <1>1, <1>2, SweptAt, SweptOK DEF TableOK
<1>4. CASE /\ CanCancel(SweptTrail, q)
           /\ trail' = Cancelled(SweptTrail, {q}, "denied")
           /\ Answering([SweptEntry EXCEPT ![q] = Answered(SweptEntry[q], "cancelled", "yes")])
    <2>1. PICK t \in Trails : t = SweptTrail
        BY SweptOK
    <2>2. \A a \in Ids :
            IF a = q /\ NeedsCancel(t, a)
            THEN /\ trail'.mem[a] = CancelledRecord(t.mem[a], "denied")
                 /\ trail'.disk[a] = CancelledRecord(t.mem[a], "denied")
            ELSE trail'.mem[a] = t.mem[a] /\ trail'.disk[a] = t.disk[a]
        BY <1>4, <2>1, CancelledAt DEF Decisions, Ids
    <2>3. Judges(verdict', entry', r)
        BY <1>4, JudgedAt DEF Answering
    <2>4. CASE r = q
        <3>1. t.mem[q] = trail.mem[q] /\ t.disk[q] = trail.disk[q]
            BY <1>2, <2>1, SweptAt
        <3>2. NeedsCancel(t, q) = NeedsCancel(trail, q) /\ CanCancel(t, q) = CanCancel(trail, q)
            BY <3>1 DEF NeedsCancel, CanCancel, Accepts
        <3>3. FilesCancelled(q)
            BY <1>4, <2>1, <2>2, <3>1, <3>2 DEF FilesCancelled, FilesStay
        <3>4. entry'[r] = Answered(entry[r], "cancelled", "yes")
            BY <1>3, <1>4, <2>4 DEF Answering
        <3>5. verdict'[r] = "cancelled"
            BY <1>3, <2>3, <2>4, <3>4, NewVerdict DEF FinalAnswers
        <3>. QED  BY <1>1, <1>3, <2>4, <3>3, <3>4, <3>5 DEF TableMoves, Withdrawn
    <2>5. CASE r # q
        <3>1. entry'[r] = SweptEntry[r]
            BY <1>4, <2>5 DEF Answering
        <3>2. Judges(verdict', SweptEntry, r)
            BY <2>3, <3>1 DEF Judges
        <3>3. trail'.mem[r] = SweptTrail.mem[r] /\ trail'.disk[r] = SweptTrail.disk[r]
            BY <2>1, <2>2, <2>5
        <3>. QED  BY <1>1, <3>1, <3>2, <3>3, SweptMoves DEF TableMoves
    <2>. QED  BY <2>4, <2>5
<1>5. CASE /\ trail' \in TornCancels(SweptTrail, q, "denied", AuditMayFail)
           /\ Answering(SweptEntry)
    <2>1. Expiring \subseteq Ids /\ \A p \in Expiring : CanCancel(trail, p)
        BY <1>1 DEF Expiring, SweepSucceeds
    <2>2. /\ \A p \in Expiring : FilesCancelled(p)
          /\ FilesTorn(q)
          /\ \A p \in Ids \ (Expiring \cup {q}) : FilesStay(p)
        BY <1>2, <1>5, <2>1, CancelledThenTorn DEF SweptTrail
    <2>3. Judges(verdict', SweptEntry, r) /\ entry'[r] = SweptEntry[r]
        BY <1>5, JudgedAt DEF Answering
    <2>4. CASE r \in Expiring
        <3>1. Live(entry[r]) /\ ~entry[r].executing
            BY <2>4 DEF Expiring
        <3>2. SweptEntry[r] = Answered(entry[r], "expired", "yes")
            BY <2>4, SweptAt
        <3>3. verdict'[r] = "expired"
            BY <2>3, <3>1, <3>2, NewVerdict DEF FinalAnswers
        <3>. QED  BY <2>2, <2>3, <2>4, <3>1, <3>2, <3>3 DEF TableMoves, Withdrawn
    <2>5. CASE r \notin Expiring
        <3>1. SweptEntry[r] = entry[r]
            BY <2>5, SweptAt
        <3>2. verdict'[r] = verdict[r]
            BY <2>3, <3>1, NoNewVerdict
        <3>3. CASE r = q
            BY <1>1, <1>3, <2>2, <2>3, <3>1, <3>2, <3>3 DEF TableMoves, Undenied, AnswerStays
        <3>4. CASE r # q
            BY <2>2, <2>3, <2>5, <3>1, <3>2, <3>4 DEF TableMoves, Still, AnswerStays
        <3>. QED  BY <3>3, <3>4
    <2>. QED  BY <2>4, <2>5
<1>. QED  BY <1>4, <1>5 DEF ResolveDenied

\* The bridge stops.
LEMMA CloseMoves ==
    ASSUME IInv, OrderTracksEntries, Judgement(entry, verdict), Close, NEW r \in Ids
    PROVE  TableMoves(r)
<1>1. Unanswered \subseteq Ids
    BY DEF Unanswered
<1>2. PICK S \in SUBSET Unanswered :
        /\ Answering(ClosedEntries(S))
        /\ \A q \in S : FilesCancelled(q) \/ FilesTorn(q)
        /\ \A q \in Ids \ S : FilesStay(q)
    <2>1. CASE /\ \A q \in Unanswered : CanCancel(trail, q)
               /\ trail' = Cancelled(trail, Unanswered, "cancelled")
               /\ Answering(ClosedEntries(Unanswered))
        BY <1>1, <2>1, CancelledFiles
    <2>2. CASE \E f \in Unanswered :
                LET earlier == Before(Unanswered, f)
                IN  /\ \A q \in earlier : CanCancel(trail, q)
                    /\ trail' \in TornCancels(Cancelled(trail, earlier, "cancelled"), f,
                                              "cancelled", AuditMayFail)
                    /\ Answering(ClosedEntries(earlier \cup {f}))
        <3>1. PICK f \in Unanswered :
                /\ \A q \in Before(Unanswered, f) : CanCancel(trail, q)
                /\ trail' \in TornCancels(Cancelled(trail, Before(Unanswered, f), "cancelled"),
                                          f, "cancelled", AuditMayFail)
                /\ Answering(ClosedEntries(Before(Unanswered, f) \cup {f}))
            BY <2>2
        <3>2. PICK E : E = Before(Unanswered, f)
            OBVIOUS
        <3>3. E \subseteq Unanswered /\ f \notin E /\ E \subseteq Ids /\ f \in Ids
            BY <1>1, <3>2, BeforeIsEarlier
        <3>4. /\ \A q \in E : FilesCancelled(q)
              /\ FilesTorn(f)
              /\ \A q \in Ids \ (E \cup {f}) : FilesStay(q)
            BY <3>1, <3>2, <3>3, CancelledThenTorn
        <3>. QED  BY <3>1, <3>2, <3>3, <3>4
    <2>. QED  BY <2>1, <2>2 DEF Close
<1>3. entry' = ClosedEntries(S) /\ Judges(verdict', entry', r)
    BY <1>2, JudgedAt DEF Answering
<1>4. CASE r \in S
    <2>1. Live(entry[r]) /\ GuiInteractive
        BY <1>4 DEF Unanswered, Close
    <2>2. entry'[r] = Answered(entry[r], "cancelled", "yes")
        BY <1>3, <1>4 DEF ClosedEntries
    <2>3. verdict'[r] = "cancelled"
        BY <1>3, <2>1, <2>2, NewVerdict DEF FinalAnswers
    <2>. QED  BY <1>2, <1>4, <2>1, <2>2, <2>3 DEF TableMoves, Withdrawn
<1>5. CASE r \notin S
    <2>1. entry'[r] = entry[r]
        BY <1>3, <1>5 DEF ClosedEntries
    <2>2. verdict'[r] = verdict[r]
        BY <1>3, <2>1, NoNewVerdict
    <2>. QED  BY <1>2, <1>5, <2>1, <2>2 DEF TableMoves, Still, AnswerStays
<1>. QED  BY <1>4, <1>5

\* The GUI thread records and answers what it did.
LEMMA GuiMoves ==
    ASSUME RetentionSuffices, IInv, Judgement(entry, verdict), Listed(trail), NEW r \in Ids,
           PresentRaises \/ ApproveAudit \/ SaveOutcome \/ RememberOutcome \/ GuiAnswers
    PROVE  Moves(r)
<1>. USE DEF table, ghosts
<1>1. gui.req \in Ids /\ gui.answer \in {"none", "completed", "failed"} /\ trail \in Trails
    BY DEF PresentRaises, ApproveAudit, SaveOutcome, RememberOutcome, GuiAnswers, IInv, TypeOK,
           GuiStates
<1>2. PICK q \in Ids : q = gui.req
    BY <1>1
<1>3. ASSUME entry' = entry, verdict' = verdict, trail' = trail
      PROVE  Moves(r)
    BY <1>3 DEF Moves, TableMoves, Still, AnswerStays, FilesStay
<1>4. ASSUME entry' = entry, verdict' = verdict, r # q, NEW rec \in Records, rec.rev > 0,
             trail' = Stored(trail, q, rec) \/ trail' = Remembered(Stored(trail, q, rec), q, rec)
                \/ trail' = Remembered(trail, q, rec)
      PROVE  Moves(r)
    <2>1. trail'.mem[r] = trail.mem[r] /\ trail'.disk[r] = trail.disk[r]
        BY <1>1, <1>4, StoredAt
    <2>. QED  BY <1>4, <2>1 DEF Moves, TableMoves, Still, AnswerStays, FilesStay
<1>5. CASE PresentRaises
    <2>1. entry' = entry /\ verdict' = verdict /\ gui.stage = "present"
        BY <1>5 DEF PresentRaises
    <2>2. CASE ~Tracked(entry[q])
        BY <1>2, <1>3, <1>5, <2>1, <2>2 DEF PresentRaises
    <2>3. CASE Tracked(entry[q])
        <3>1. \/ /\ CanCancel(trail, q) /\ trail' = Cancelled(trail, {q}, "cancelled")
                 /\ gui' = Failing
              \/ /\ trail' \in TornCancels(trail, q, "cancelled", AuditMayFail)
                 /\ gui' = IdleGui
            BY <1>2, <1>5, <2>3 DEF PresentRaises, Failing
        <3>2. \/ FilesCancelled(q) /\ gui' = Failing
              \/ FilesTorn(q) /\ gui' = IdleGui
            BY <3>1, CancelledFiles, TornFiles
        <3>3. \A p \in Ids \ {q} : FilesStay(p)
            BY <3>1, CancelledFiles, TornFiles
        <3>. QED  BY <1>2, <2>1, <2>3, <3>2, <3>3 DEF Moves, TableMoves, Still, Unshown, AnswerStays
    <2>. QED  BY <2>2, <2>3
<1>6. CASE ApproveAudit
    <2>1. PICK rec : rec = Decided(trail.mem[q], "approved")
        OBVIOUS
    <2>2. rec \in Records /\ rec.rev > 0 /\ entry' = entry /\ verdict' = verdict
        BY <1>1, <1>6, <2>1, RecordsCount DEF ApproveAudit, Trails, Ids, Decisions
    <2>3. CASE trail' = trail
        BY <1>3, <2>2, <2>3
    <2>4. CASE trail' # trail
        <3>1. /\ CanApprove(trail, q) /\ gui.stage = "approve"
              /\ \/ trail' = Stored(trail, q, rec)
                 \/ trail' = Remembered(Stored(trail, q, rec), q, rec)
            BY <1>2, <1>6, <2>1, <2>4 DEF ApproveAudit, Approved, ApprovedTorn
        <3>2. CASE r = q
            <4>1. trail'.disk[r] = rec /\ trail'.mem[r] \in {trail.mem[r], rec}
                BY <1>1, <2>2, <3>1, <3>2, StoredAt
            <4>. QED  BY <1>2, <2>1, <2>2, <3>1, <3>2, <4>1 DEF Moves, TableMoves, Recorded, AnswerStays
        <3>. QED  BY <1>4, <2>2, <3>1, <3>2
    <2>. QED  BY <2>3, <2>4
<1>7. OutcomeRecord \in Records /\ OutcomeRecord.rev > 0
    BY RecordsCount DEF OutcomeRecord, IInv, TypeOK, GuiStates, Statuses
<1>8. PICK rec \in Records : rec = OutcomeRecord /\ rec.rev > 0
    BY <1>7
<1>9. CASE SaveOutcome
    <2>1. entry' = entry /\ verdict' = verdict
        BY <1>9 DEF SaveOutcome
    <2>2. CASE trail' = trail
        BY <1>3, <2>1, <2>2
    <2>3. CASE trail' # trail
        <3>1. Accepts(trail, q, rec) /\ gui.stage = "running" /\ trail' = Stored(trail, q, rec)
            BY <1>2, <1>8, <1>9, <2>3 DEF SaveOutcome
        <3>2. CASE r = q
            <4>1. trail'.disk[r] = rec /\ trail'.mem[r] = trail.mem[r]
                BY <1>1, <1>8, <3>1, <3>2, StoredAt
            <4>. QED  BY <1>2, <1>8, <2>1, <3>1, <3>2, <4>1 DEF Moves, TableMoves, Recorded, AnswerStays
        <3>. QED  BY <1>4, <1>8, <2>1, <3>1, <3>2
    <2>. QED  BY <2>2, <2>3
<1>10. CASE RememberOutcome
    <2>1. /\ entry' = entry /\ verdict' = verdict /\ gui.stage = "saved"
          /\ trail' = Remembered(trail, q, rec)
        BY <1>2, <1>8, <1>10 DEF RememberOutcome
    <2>2. CASE r = q
        <3>1. trail'.mem[r] = rec /\ trail'.disk[r] = trail.disk[r]
            BY <1>1, <1>8, <2>1, <2>2, StoredAt
        <3>. QED  BY <1>2, <1>8, <2>1, <2>2, <3>1 DEF Moves, TableMoves, Recorded, AnswerStays
    <2>. QED  BY <1>4, <1>8, <2>1, <2>2
<1>11. CASE GuiAnswers
    <2>1. trail' = trail /\ verdict' = Judged(entry') /\ gui.stage = "answer"
        BY <1>11 DEF GuiAnswers, Answering
    <2>2. Judges(verdict', entry', r)
        BY <2>1, JudgedAt
    <2>3. entry \in [Ids -> Entries]
        BY DEF IInv, TypeOK
    <2>4. CASE r = q /\ Live(entry[q])
        <3>1. entry'[r] = Answered(entry[r], gui.answer, SafeClaim)
            BY <1>2, <1>11, <2>3, <2>4 DEF GuiAnswers, Answering, Answerable
        <3>2. gui.answer \in FinalAnswers
            BY <1>1, <2>1 DEF IInv, AnswerIsKnown, FinalAnswers
        <3>3. verdict'[r] = gui.answer
            BY <2>2, <2>4, <3>1, <3>2, NewVerdict
        <3>. QED  BY <1>2, <2>1, <2>4, <3>1, <3>3 DEF Moves, TableMoves, Finishes, FilesStay
    <2>5. CASE ~(r = q /\ Live(entry[q]))
        <3>1. entry'[r] = entry[r]
            BY <1>2, <1>11, <2>3, <2>5 DEF GuiAnswers, Answering, Answerable
        <3>2. verdict'[r] = verdict[r]
            BY <2>2, <3>1, NoNewVerdict
        <3>. QED  BY <2>1, <3>1, <3>2 DEF Moves, TableMoves, Still, AnswerStays, FilesStay
    <2>. QED  BY <2>4, <2>5
<1>. QED  BY <1>5, <1>6, <1>9, <1>10, <1>11

-------------------------------------------------------------------------------
(* Nobody is forgotten and nobody else is served *)

(* The slot and the queue lead to every request without an answer, unless the  *)
(* GUI thread is executing it.  The slot is empty during a read, so nothing    *)
(* can be approved then.                                                       *)

IdleIsFree == gui.stage = "idle" => gui = IdleGui

ReadsLeaveSlot(act) == gui.stage \in Working /\ gui.call \in Reads => act = NoRequest

ExecutedByGui(e) ==
    \A r \in Ids : Live(e[r]) /\ e[r].executing =>
        gui.req = r /\ gui.stage \in Working \cup {"answer"}

Findable(e, act) ==
    \A r \in Ids : Live(e[r]) /\ ~e[r].executing /\ ~closed =>
        act = r \/ \E k \in 1..Len(queue) : queue[k] = r

\* The slot is given to mutations only.
SlotIsMutation == \A r \in Ids : active = r /\ Tracked(entry[r]) => entry[r].call \in Mutations

Accounted ==
    /\ IdleIsFree
    /\ ReadsLeaveSlot(active)
    /\ ExecutedByGui(entry)
    /\ Findable(entry, active)

\* A table and a slot that only lose: what is still unanswered is as it was, and
\* the slot is released only by an answer.
Loses(e, act) ==
    /\ \A r \in Ids : Live(e[r]) => e[r] = entry[r]
    /\ \/ act = active
       \/ act = NoRequest /\ \A r \in Ids : r = active => ~Live(e[r])

LEMMA ExpiredLoses ==
    ASSUME IInv, NEW S, S \subseteq Expiring
    PROVE  /\ \A r \in Ids : Live(Expired(S)[r]) => Expired(S)[r] = entry[r]
           /\ \A r \in S : ~Live(Expired(S)[r])
<1>1. \A r \in Ids : ~Live(Answered(entry[r], "expired", "yes"))
    BY AnsweredIsOver DEF IInv, TypeOK, FinalAnswers
<1>. QED  BY <1>1 DEF Expired, Expiring

LEMMA SweptLoses ==
    ASSUME IInv
    PROVE  Loses(SweptEntry, SweptActive)
BY ExpiredLoses DEF Loses, SweptEntry, SweptActive

\* What only loses keeps everybody accounted for.
LEMMA LosingKeeps ==
    ASSUME IInv, Accounted, NEW e, NEW act, Loses(e, act)
    PROVE  ReadsLeaveSlot(act) /\ ExecutedByGui(e) /\ Findable(e, act)
<1>1. ReadsLeaveSlot(act) /\ ExecutedByGui(e)
    BY DEF Accounted, Loses, ReadsLeaveSlot, ExecutedByGui
<1>2. Findable(e, act)
    <2>. SUFFICES ASSUME NEW r \in Ids, Live(e[r]), ~e[r].executing, ~closed
                  PROVE  act = r \/ \E k \in 1..Len(queue) : queue[k] = r
        BY DEF Findable
    <2>1. Live(entry[r]) /\ ~entry[r].executing
        BY DEF Loses
    <2>2. active = r \/ \E k \in 1..Len(queue) : queue[k] = r
        BY <2>1 DEF Accounted, Findable
    <2>. QED  BY <2>2 DEF Loses
<1>. QED  BY <1>1, <1>2

\* A step of the workers that admits no request, or a sweep that raises.
LEMMA WorkersLose ==
    ASSUME IInv,
           \/ \E w \in Workers, r \in Ids, c \in Calls :
                SubmitKnown(w, r, c) \/ SubmitRefused(w, r) \/ SubmitNotAudited(w, r, c)
           \/ \E w \in Workers : SubmitReturns(w)
           \/ SweepRaises
    PROVE  Loses(entry', active')
<1>1. Loses(SweptEntry, SweptActive)
    BY SweptLoses
<1>2. ASSUME NEW w \in Workers, NEW r \in Ids, NEW c \in Calls,
             SubmitKnown(w, r, c) \/ SubmitRefused(w, r)
      PROVE  Loses(entry', active')
    BY <1>1, <1>2 DEF SubmitKnown, SubmitRefused, Answering
<1>3. ASSUME NEW w \in Workers, NEW r \in Ids, NEW c \in Calls, SubmitNotAudited(w, r, c)
      PROVE  Loses(entry', active')
    <2>1. PICK i \in Rooms(SweptEntry) : entry' = EntriesWithout(SweptEntry, Evicted(i))
        BY <1>3 DEF SubmitNotAudited
    <2>2. \A q \in Ids : Live(entry'[q]) => entry'[q] = SweptEntry[q]
        BY <2>1 DEF EntriesWithout, NoEntry, Live, Tracked
    <2>3. active' = SweptActive
        BY <1>3 DEF SubmitNotAudited
    <2>. QED  BY <1>1, <2>2, <2>3 DEF Loses
<1>4. ASSUME NEW w \in Workers, SubmitReturns(w)
      PROVE  Loses(entry', active')
    <2>1. worker[w].req \in Ids /\ entry \in [Ids -> Entries]
        BY <1>4 DEF SubmitReturns, IInv, TypeOK
    <2>2. PICK r \in Ids : r = worker[w].req
        BY <2>1
    <2>3. ~Live(Answered(entry[r], "expired", "yes"))
        BY <2>1, AnsweredIsOver DEF FinalAnswers
    <2>4. CASE entry[r].answer = "none"
        BY <1>4, <2>1, <2>2, <2>3, <2>4 DEF SubmitReturns, Answering, Loses
    <2>5. CASE entry[r].answer # "none"
        BY <1>4, <2>2, <2>5 DEF SubmitReturns, Answering, Loses
    <2>. QED  BY <2>4, <2>5
<1>5. CASE SweepRaises
    <2>1. PICK f \in Expiring :
            /\ Answering(Expired(Before(Expiring, f) \cup {f}))
            /\ active' = IF active \in Before(Expiring, f) THEN NoRequest ELSE active
        BY <1>5 DEF SweepRaises
    <2>2. Before(Expiring, f) \cup {f} \subseteq Expiring
        BY DEF Before
    <2>. QED  BY <2>1, <2>2, ExpiredLoses DEF Answering, Loses
<1>. QED  BY <1>2, <1>3, <1>4, <1>5

\* The GUI thread's answers and expiries, and a refused decision.
LEMMA GuiLoses ==
    ASSUME IInv,
           \/ ExpireRequests \/ ProcessNothing \/ GuiAnswers
           \/ \E r \in Ids : ResolveStale(r) \/ ResolveDenied(r)
    PROVE  Loses(entry', active')
<1>. USE DEF table
<1>1. Loses(SweptEntry, SweptActive) /\ SweptEntry \in [Ids -> Entries]
    BY SweptLoses, SweptOK DEF TableOK
<1>2. CASE ExpireRequests \/ ProcessNothing
    BY <1>1, <1>2 DEF ExpireRequests, ProcessNothing, Answering
<1>3. CASE GuiAnswers
    <2>1. gui.req \in Ids /\ gui.answer \in FinalAnswers /\ entry \in [Ids -> Entries]
        BY <1>3 DEF GuiAnswers, IInv, TypeOK, AnswerIsKnown, GuiStates, FinalAnswers
    <2>2. PICK r \in Ids : r = gui.req
        BY <2>1
    <2>3. ~Live(Answered(entry[r], gui.answer, SafeClaim))
        BY <2>1, AnsweredIsOver
    <2>4. CASE Answerable(r)
        BY <1>3, <2>1, <2>2, <2>3, <2>4 DEF GuiAnswers, Answering, Loses
    <2>5. CASE ~Answerable(r)
        BY <1>3, <2>2, <2>5 DEF GuiAnswers, Answering, Loses
    <2>. QED  BY <2>4, <2>5
<1>5. ASSUME NEW r \in Ids, ResolveStale(r)
      PROVE  Loses(entry', active')
    <2>1. entry' = SweptEntry
        BY <1>5 DEF ResolveStale, Answering
    <2>2. active' = SweptActive \/ (active' = NoRequest /\ SweptActive = r /\ Terminal(SweptEntry[r]))
        BY <1>5 DEF ResolveStale
    <2>3. SweptActive = r => active = r
        BY DispatcherAssumption DEF SweptActive
    <2>. QED  BY <1>1, <2>1, <2>2, <2>3 DEF Loses, Live
<1>6. ASSUME NEW r \in Ids, ResolveDenied(r)
      PROVE  Loses(entry', active')
    <2>1. ~Live(Answered(SweptEntry[r], "cancelled", "yes"))
        BY <1>1, AnsweredIsOver DEF FinalAnswers
    <2>2. SweptActive = r /\ active = r
        BY <1>6, DispatcherAssumption DEF ResolveDenied, SweptActive
    <2>3. \/ /\ entry' = [SweptEntry EXCEPT ![r] = Answered(SweptEntry[r], "cancelled", "yes")]
             /\ active' = NoRequest
          \/ entry' = SweptEntry /\ active' = SweptActive
        BY <1>6 DEF ResolveDenied, Answering
    <2>. QED  BY <1>1, <2>1, <2>2, <2>3 DEF Loses
<1>. QED  BY <1>2, <1>3, <1>5, <1>6

LEMMA CloseLoses ==
    ASSUME IInv, Close
    PROVE  \A r \in Ids : Live(entry'[r]) => entry'[r] = entry[r]
<1>1. PICK S \in SUBSET Unanswered : entry' = ClosedEntries(S)
    BY DEF Close, Before, Answering
<1>2. \A r \in Ids : ~Live(Answered(entry[r], "cancelled", "yes"))
    BY AnsweredIsOver DEF IInv, TypeOK, FinalAnswers
<1>. QED  BY <1>1, <1>2 DEF ClosedEntries

\* The steps that only lose keep everybody accounted for.
LEMMA LosingStepsAccount ==
    ASSUME IInv, Accounted,
           \/ \E w \in Workers, r \in Ids, c \in Calls :
                SubmitKnown(w, r, c) \/ SubmitRefused(w, r) \/ SubmitNotAudited(w, r, c)
           \/ \E w \in Workers : SubmitReturns(w) \/ WaitTimesOut(w)
           \/ SweepRaises \/ ExpireRequests \/ Close
           \/ \E r \in Ids : ResolveStale(r) \/ ResolveDenied(r) \/ DeadlinePasses(r)
           \/ UNCHANGED vars
    PROVE  Accounted'
<1>. USE DEF table
<1>1. gui' = gui /\ (queue' = queue \/ closed') /\ (closed => closed')
    <2>1. CASE \E w \in Workers, r \in Ids, c \in Calls :
                SubmitKnown(w, r, c) \/ SubmitRefused(w, r) \/ SubmitNotAudited(w, r, c)
        BY <2>1 DEF SubmitKnown, SubmitRefused, SubmitNotAudited
    <2>2. ASSUME NEW w \in Workers, SubmitReturns(w) \/ WaitTimesOut(w)
          PROVE  gui' = gui /\ queue' = queue /\ closed' = closed
        BY <2>2 DEF SubmitReturns, WaitTimesOut
    <2>5. CASE SweepRaises \/ ExpireRequests
        BY <2>5 DEF SweepRaises, ExpireRequests
    <2>3. CASE Close \/ UNCHANGED vars
        BY <2>3 DEF Close, vars
    <2>4. CASE \E r \in Ids : ResolveStale(r) \/ ResolveDenied(r) \/ DeadlinePasses(r)
        BY <2>4 DEF ResolveStale, ResolveDenied, DeadlinePasses
    <2>. QED  BY <2>1, <2>2, <2>3, <2>4, <2>5
<1>2. CASE Loses(entry', active')
    <2>1. ReadsLeaveSlot(active') /\ ExecutedByGui(entry') /\ Findable(entry', active')
        BY <1>2, LosingKeeps
    <2>. QED  BY <1>1, <2>1 DEF Accounted, IdleIsFree, ReadsLeaveSlot, ExecutedByGui, Findable
<1>3. CASE Close
    <2>1. \A r \in Ids : Live(entry'[r]) => entry'[r] = entry[r]
        BY <1>3, CloseLoses
    <2>2. active' = NoRequest /\ closed'
        BY <1>3 DEF Close
    <2>. QED  BY <1>1, <2>1, <2>2
              DEF Accounted, IdleIsFree, ReadsLeaveSlot, ExecutedByGui, Findable
<1>4. CASE \/ \E w \in Workers : WaitTimesOut(w)
           \/ \E r \in Ids : DeadlinePasses(r)
           \/ UNCHANGED vars
    BY <1>2, <1>4 DEF WaitTimesOut, DeadlinePasses, vars, Loses
<1>. QED  BY <1>2, <1>3, <1>4, WorkersLose, GuiLoses

\* A new request is queued.
LEMMA AdmissionAccounts ==
    ASSUME IInv, Accounted, NEW w \in Workers, NEW q \in Ids, NEW c \in Calls,
           SubmitAccepted(w, q, c)
    PROVE  Accounted'
<1>1. PICK i \in Rooms(SweptEntry) :
        entry' = [EntriesWithout(SweptEntry, Evicted(i)) EXCEPT ![q] = NewEntry(c)]
    BY DEF SubmitAccepted
<1>2. queue' = Append(queue, q) /\ active' = SweptActive /\ UNCHANGED <<gui, closed>>
    BY DEF SubmitAccepted
<1>3. EntriesWithout(SweptEntry, Evicted(i)) \in [Ids -> Entries] /\ queue \in Seq(Ids)
    BY RoomOK, SweptOK DEF TableOK, IInv, TypeOK
<1>4. \A r \in Ids : Live(entry'[r]) /\ r # q => entry'[r] = SweptEntry[r]
    BY <1>1, <1>3 DEF EntriesWithout, NoEntry, Live, Tracked
<1>5. entry'[q] = NewEntry(c) /\ ~NewEntry(c).executing
    BY <1>1, <1>3 DEF NewEntry
<1>6. ReadsLeaveSlot(SweptActive) /\ ExecutedByGui(SweptEntry) /\ Findable(SweptEntry, SweptActive)
    BY SweptLoses, LosingKeeps
<1>7. /\ Append(queue, q)[Len(queue) + 1] = q /\ Len(Append(queue, q)) = Len(queue) + 1
      /\ \A k \in 1..Len(queue) : Append(queue, q)[k] = queue[k]
      /\ Len(queue) \in Nat
    BY <1>3
<1>8. Findable(entry, active)'
    <2>. SUFFICES ASSUME NEW r \in Ids, Live(entry'[r]), ~entry'[r].executing, ~closed
                  PROVE  active' = r \/ \E k \in 1..Len(queue') : queue'[k] = r
        BY <1>2 DEF Findable
    <2>1. CASE r = q
        BY <1>2, <1>7, <2>1
    <2>2. CASE r # q
        <3>1. SweptActive = r \/ \E k \in 1..Len(queue) : queue[k] = r
            BY <1>4, <1>6, <2>2 DEF Findable
        <3>2. \A k \in 1..Len(queue) : k \in 1..Len(queue')
            BY <1>2, <1>7
        <3>. QED  BY <1>2, <1>7, <3>1, <3>2
    <2>. QED  BY <2>1, <2>2
<1>9. ReadsLeaveSlot(active)' /\ ExecutedByGui(entry)'
    BY <1>2, <1>4, <1>5, <1>6 DEF ReadsLeaveSlot, ExecutedByGui
<1>. QED  BY <1>2, <1>8, <1>9 DEF Accounted, IdleIsFree, Findable, ReadsLeaveSlot, ExecutedByGui

\* The timer's step that serves the queue drops only requests that are over.
LEMMA ServedTail ==
    ASSUME IInv, NEW k \in 1..Len(queue), Served(k), NEW r \in Ids, Live(SweptEntry[r]),
           r # queue[k], NEW j \in 1..Len(queue), queue[j] = r
    PROVE  \E i \in 1..Len(QueueAfter(k)) : QueueAfter(k)[i] = r
<1>1. PICK n \in Nat : n = Len(queue)
    BY DEF IInv, TypeOK
<1>2. j \in 1..n /\ k \in 1..n /\ ~(j \in 1..(k - 1)) /\ j # k
    BY <1>1 DEF Served
<1>3. j - k \in 1..(n - k) /\ (j - k) + k = j
    BY ONLY <1>1, <1>2
<1>4. /\ Len(QueueAfter(k)) = n - k
      /\ \A i \in 1..(n - k) : QueueAfter(k)[i] = queue[i + k]
    BY <1>1, <1>2 DEF QueueAfter, IInv, TypeOK
<1>. QED  BY <1>3, <1>4

\* So a step of the timer loses nobody.
LEMMA TickAccounts ==
    ASSUME IInv, Accounted, ProcessNothing \/ ProcessRead \/ ProcessMutation
    PROVE  Accounted'
<1>1. /\ ReadsLeaveSlot(SweptActive) /\ ExecutedByGui(SweptEntry)
      /\ Findable(SweptEntry, SweptActive)
    BY SweptLoses, LosingKeeps
<1>2. gui = IdleGui /\ gui.req = NoRequest /\ ~closed /\ closed' = closed /\ SweptActive = NoRequest
    BY DEF ProcessNothing, ProcessRead, ProcessMutation, Accounted, IdleIsFree, IdleGui, SlotFree
<1>3. \A r \in Ids : Live(SweptEntry[r]) =>
            ~SweptEntry[r].executing /\ \E k \in 1..Len(queue) : queue[k] = r
    BY <1>1, <1>2, DispatcherAssumption DEF ExecutedByGui, Findable
<1>4. SweptEntry \in [Ids -> Entries] /\ queue \in Seq(Ids)
    BY SweptOK DEF TableOK, IInv, TypeOK
<1>5. CASE ProcessNothing
    <2>1. \A r \in Ids : ~Live(SweptEntry[r])
        <3>. SUFFICES ASSUME NEW r \in Ids, Live(SweptEntry[r])
                      PROVE  \E k \in 1..Len(queue) : Served(k)
            BY <1>5 DEF ProcessNothing
        <3>1. PICK n \in Nat : n = Len(queue)
            BY <1>4
        <3>2. PICK W : W = {k \in 1..n : Live(SweptEntry[queue[k]])}
            OBVIOUS
        <3>3. W # {} /\ W \subseteq Nat
            BY <1>3, <3>1, <3>2
        <3>4. PICK k \in W : \A j \in W : k <= j
            BY <3>3, FirstPlace
        <3>5. k \in 1..n /\ \A j \in 1..(k - 1) : j \in 1..n /\ ~(k <= j)
            BY <3>1, <3>2, <3>4
        <3>. QED  BY <3>1, <3>2, <3>4, <3>5 DEF Served
    <2>2. entry' = SweptEntry /\ active' = SweptActive /\ gui' = gui
        BY <1>5 DEF ProcessNothing, Answering
    <2>. QED  BY <1>2, <2>1, <2>2
              DEF Accounted, IdleIsFree, ReadsLeaveSlot, ExecutedByGui, Findable
<1>6. ASSUME NEW k \in 1..Len(queue), Served(k), queue' = QueueAfter(k)
      PROVE  \A r \in Ids : Live(SweptEntry[r]) /\ r # queue[k] =>
                \E i \in 1..Len(queue') : queue'[i] = r
    BY <1>3, <1>6, ServedTail
<1>7. CASE ProcessRead
    <2>1. PICK k \in 1..Len(queue) :
            /\ Served(k) /\ queue' = QueueAfter(k)
            /\ entry' = [SweptEntry EXCEPT ![queue[k]].executing = TRUE]
            /\ gui' = AtStage("execute", queue[k], SweptEntry[queue[k]].call)
        BY <1>7 DEF ProcessRead, Answering
    <2>2. PICK q \in Ids : q = queue[k]
        BY <1>4
    <2>3. gui'.stage = "execute" /\ gui'.req = q
        BY <2>1, <2>2 DEF AtStage, IdleGui
    <2>4. entry'[q].executing /\ \A r \in Ids : r # q => entry'[r] = SweptEntry[r]
        BY <1>4, <2>1, <2>2 DEF Entries
    <2>5. active' = NoRequest
        BY <1>2, <1>7 DEF ProcessRead
    <2>6. \A r \in Ids : Live(SweptEntry[r]) /\ r # q => \E i \in 1..Len(queue') : queue'[i] = r
        BY <1>6, <2>1, <2>2
    <2>. QED  BY <1>3, <2>3, <2>4, <2>5, <2>6
              DEF Accounted, IdleIsFree, ReadsLeaveSlot, ExecutedByGui, Findable, Working
<1>8. CASE ProcessMutation
    <2>1. PICK k \in 1..Len(queue) :
            /\ Served(k) /\ queue' = QueueAfter(k)
            /\ active' = queue[k]
            /\ gui' = AtStage("present", queue[k], SweptEntry[queue[k]].call)
        BY <1>8 DEF ProcessMutation
    <2>2. PICK q \in Ids : q = queue[k]
        BY <1>4
    <2>3. gui'.stage = "present" /\ entry' = SweptEntry
        BY <1>8, <2>1, <2>2 DEF ProcessMutation, AtStage, IdleGui, Answering
    <2>4. \A r \in Ids : Live(SweptEntry[r]) /\ r # q => \E i \in 1..Len(queue') : queue'[i] = r
        BY <1>6, <2>1, <2>2
    <2>. QED  BY <1>3, <2>1, <2>2, <2>3, <2>4
              DEF Accounted, IdleIsFree, ReadsLeaveSlot, ExecutedByGui, Findable, Working
<1>. QED  BY <1>5, <1>7, <1>8

\* The user's approval hands the request to the GUI thread, which is idle: during
\* a read the slot is empty.
LEMMA ApprovalAccounts ==
    ASSUME IInv, Accounted, SlotIsMutation, NEW q \in Ids, ResolveApproved(q)
    PROVE  Accounted' /\ gui = IdleGui
<1>1. /\ ReadsLeaveSlot(SweptActive) /\ ExecutedByGui(SweptEntry)
      /\ Findable(SweptEntry, SweptActive)
    BY SweptLoses, LosingKeeps
<1>2. SweptActive = q /\ q # NoRequest /\ active' = q
    BY DispatcherAssumption DEF ResolveApproved
<1>3. gui = IdleGui /\ gui.req = NoRequest
    BY <1>1, <1>2 DEF ResolveApproved, GuiInteractive, ReadsLeaveSlot, Working, Accounted,
                      IdleIsFree, IdleGui
<1>4. SweptEntry \in [Ids -> Entries]
    BY SweptOK DEF TableOK
<1>5. \A r \in Ids : Live(SweptEntry[r]) => ~SweptEntry[r].executing
    BY <1>1, <1>3, DispatcherAssumption DEF ExecutedByGui
<1>6. entry'[q].executing /\ \A r \in Ids : r # q => entry'[r] = SweptEntry[r]
    BY <1>4 DEF ResolveApproved, Answering, Entries
<1>7. gui'.stage = "approve" /\ gui'.req = q /\ gui'.call = SweptEntry[q].call
    BY DEF ResolveApproved, AtStage, IdleGui
<1>8. SweptEntry[q].call \notin Reads
    <2>1. Live(SweptEntry[q]) /\ active = q
        BY <1>2 DEF ResolveApproved, SweptActive
    <2>2. SweptEntry[q] = entry[q]
        BY <2>1, SweptLoses DEF Loses
    <2>. QED  BY <2>1, <2>2, DispatcherAssumption DEF SlotIsMutation, Live
<1>9. queue' = queue /\ closed' = closed
    BY DEF ResolveApproved
<1>. QED  BY <1>1, <1>2, <1>3, <1>5, <1>6, <1>7, <1>8, <1>9
          DEF Accounted, IdleIsFree, ReadsLeaveSlot, ExecutedByGui, Findable, Working

\* The GUI thread keeps its request to itself until it answers it.
LEMMA GuiStepAccounts ==
    ASSUME IInv, Accounted, GuiStep
    PROVE  Accounted'
<1>. USE DEF table
<1>1. gui \in GuiStates /\ gui.stage # "idle"
    BY DEF IInv, TypeOK, GuiStep, PresentShown, PresentRaises, ApproveAudit, ExecuteRefused,
           Execute, SaveOutcome, RememberOutcome, GuiAnswers
<1>2. CASE PresentShown \/ PresentRaises
    <2>1. gui.stage = "present" /\ UNCHANGED <<queue, closed, entry, active>>
        BY <1>2 DEF PresentShown, PresentRaises
    <2>2. \A r \in Ids : Live(entry[r]) => ~entry[r].executing
        BY <2>1 DEF Accounted, ExecutedByGui, Working
    <2>3. gui' = IdleGui \/ gui'.stage = "answer"
        BY <1>1, <1>2 DEF PresentShown, PresentRaises, GuiStates
    <2>4. (gui'.stage = "idle" => gui' = IdleGui) /\ gui'.stage \notin Working
        BY <2>3 DEF IdleGui, Working
    <2>. QED  BY <2>1, <2>2, <2>4
              DEF Accounted, IdleIsFree, ReadsLeaveSlot, ExecutedByGui, Findable
<1>3. CASE ApproveAudit \/ ExecuteRefused \/ Execute \/ SaveOutcome \/ RememberOutcome
    <2>1. gui.stage \in Working /\ UNCHANGED <<queue, closed, entry, active>>
        BY <1>3 DEF ApproveAudit, ExecuteRefused, Execute, SaveOutcome, RememberOutcome, Working
    <2>2. /\ gui'.stage \in Working \cup {"answer"} /\ gui'.stage # "idle"
          /\ gui'.req = gui.req /\ gui'.call = gui.call
        BY <1>1, <1>3 DEF ApproveAudit, ExecuteRefused, Execute, SaveOutcome, RememberOutcome,
                          Working, Failing, GuiStates
    <2>. QED  BY <2>1, <2>2
              DEF Accounted, IdleIsFree, ReadsLeaveSlot, ExecutedByGui, Findable
<1>4. CASE GuiAnswers
    <2>1. gui' = IdleGui /\ UNCHANGED <<queue, closed>> /\ gui'.stage = "idle"
        BY <1>4 DEF GuiAnswers, IdleGui
    <2>2. Loses(entry', active')
        BY <1>4, GuiLoses
    <2>3. ExecutedByGui(entry') /\ Findable(entry', active')
        BY <2>2, LosingKeeps
    <2>4. \A r \in Ids : Live(entry'[r]) => gui.req # r
        <3>1. gui.req \in Ids /\ gui.answer \in FinalAnswers /\ entry \in [Ids -> Entries]
            BY <1>4 DEF GuiAnswers, IInv, TypeOK, AnswerIsKnown, GuiStates, FinalAnswers
        <3>2. PICK q \in Ids : q = gui.req
            BY <3>1
        <3>3. ~Live(Answered(entry[q], gui.answer, SafeClaim))
            BY <3>1, AnsweredIsOver
        <3>4. ~Live(entry'[q])
            BY <1>4, <3>1, <3>2, <3>3 DEF GuiAnswers, Answering, Answerable
        <3>. QED  BY <3>2, <3>4
    <2>5. \A r \in Ids : Live(entry'[r]) => ~entry'[r].executing
        BY <2>3, <2>4 DEF ExecutedByGui
    <2>. QED  BY <2>1, <2>3, <2>5
              DEF Accounted, IdleIsFree, ReadsLeaveSlot, ExecutedByGui, Findable, Working
<1>. QED  BY <1>2, <1>3, <1>4 DEF GuiStep

\* Every step keeps everybody accounted for.
LEMMA NextAccounts ==
    ASSUME IInv, Accounted, SlotIsMutation, [Next]_vars
    PROVE  Accounted'
<1>1. ASSUME NEW w \in Workers, Submit(w) \/ WaitTimesOut(w) \/ SubmitReturns(w)
      PROVE  Accounted'
    BY <1>1, LosingStepsAccount, AdmissionAccounts DEF Submit
<1>2. ASSUME NEW r \in Ids, Resolve(r) \/ DeadlinePasses(r)
      PROVE  Accounted'
    BY <1>2, LosingStepsAccount, ApprovalAccounts DEF Resolve
<1>3. CASE Tick
    BY <1>3, LosingStepsAccount, TickAccounts DEF Tick
<1>4. CASE SweepRaises \/ Close \/ UNCHANGED vars
    BY <1>4, LosingStepsAccount
<1>. QED  BY <1>1, <1>2, <1>3, <1>4, GuiStepAccounts DEF Next

-------------------------------------------------------------------------------
(* Every step, request by request *)

\* The files stay listed.
LEMMA NextLists ==
    ASSUME RetentionSuffices, IInv, Judgement(entry, verdict), Listed(trail), [Next]_vars
    PROVE  Listed(trail')
<1>1. trail \in Trails /\ SweptTrail \in Trails /\ Listed(SweptTrail)
    BY SweptOK, CancelledAt DEF IInv, TypeOK, SweptTrail, Decisions
<1>2. ASSUME NEW t \in Trails, Listed(t), NEW d \in {"cancelled", "denied"}
      PROVE  /\ \A S : Listed(Cancelled(t, S, d)) /\ Cancelled(t, S, d) \in Trails
             /\ \A f \in Ids : \A u \in TornCancels(t, f, d, AuditMayFail) : Listed(u)
    <2>1. d \in Decisions
        BY DEF Decisions
    <2>. QED  BY <1>2, <2>1, CancelledAt, CancelledType, TornAt, DispatcherAssumption DEF Ids
<1>3. ASSUME NEW w \in Workers, NEW r \in Ids, NEW c \in Calls,
             SubmitKnown(w, r, c) \/ SubmitRefused(w, r) \/ SubmitNotAudited(w, r, c)
                \/ SubmitAccepted(w, r, c)
      PROVE  Listed(trail')
    BY <1>1, <1>3, AdmissionMoves DEF SubmitKnown, SubmitRefused
<1>4. ASSUME NEW w \in Workers, WaitTimesOut(w) \/ SubmitReturns(w)
      PROVE  Listed(trail')
    <2>1. CASE WaitTimesOut(w)
        BY <1>1, <2>1 DEF WaitTimesOut
    <2>2. CASE SubmitReturns(w)
        <3>1. worker[w].req \in Ids
            BY <2>2 DEF SubmitReturns, IInv, TypeOK
        <3>. QED  BY <1>1, <1>2, <2>2, <3>1 DEF SubmitReturns
    <2>. QED  BY <1>4, <2>1, <2>2
<1>5. CASE SweepRaises
    <2>1. PICK f \in Ids :
            \E S : trail' \in TornCancels(Cancelled(trail, S, "cancelled"), f,
                                          "cancelled", AuditMayFail)
        BY <1>5 DEF SweepRaises, Expiring
    <2>. QED  BY <1>1, <1>2, <2>1
<1>6. CASE Tick
    BY <1>1, <1>6 DEF Tick, ExpireRequests, ProcessNothing, ProcessRead, ProcessMutation
<1>7. CASE GuiStep
    <2>1. /\ gui.req \in Ids /\ \A rec \in Records : rec.rev > 0 =>
                /\ Listed(Stored(trail, gui.req, rec))
                /\ Listed(Remembered(Stored(trail, gui.req, rec), gui.req, rec))
                /\ Listed(Remembered(trail, gui.req, rec))
        <3>1. gui.req \in Ids
            BY <1>7 DEF GuiStep, PresentShown, PresentRaises, ApproveAudit, ExecuteRefused,
                        Execute, SaveOutcome, RememberOutcome, GuiAnswers, IInv, TypeOK
        <3>2. PICK q \in Ids : q = gui.req
            BY <3>1
        <3>. QED  BY <3>2, StoredAt
    <2>2. CASE PresentShown \/ ExecuteRefused \/ Execute \/ GuiAnswers
        BY <1>1, <2>2 DEF PresentShown, ExecuteRefused, Execute, GuiAnswers
    <2>3. CASE PresentRaises
        BY <1>1, <1>2, <2>1, <2>3 DEF PresentRaises
    <2>4. CASE ApproveAudit
        <3>1. Decided(trail.mem[gui.req], "approved") \in Records
              /\ Decided(trail.mem[gui.req], "approved").rev > 0
            BY <1>1, <2>1, RecordsCount DEF Trails, Ids, Decisions
        <3>. QED  BY <1>1, <2>1, <2>4, <3>1 DEF ApproveAudit, Approved, ApprovedTorn
    <2>5. CASE SaveOutcome \/ RememberOutcome
        <3>1. OutcomeRecord \in Records /\ OutcomeRecord.rev > 0
            BY RecordsCount DEF OutcomeRecord, IInv, TypeOK, GuiStates, Statuses
        <3>. QED  BY <1>1, <2>1, <2>5, <3>1 DEF SaveOutcome, RememberOutcome
    <2>. QED  BY <1>7, <2>2, <2>3, <2>4, <2>5 DEF GuiStep
<1>8. ASSUME NEW r \in Ids, Resolve(r)
      PROVE  Listed(trail')
    BY <1>1, <1>2, <1>8 DEF Resolve, ResolveStale, ResolveDenied, ResolveApproved
<1>9. ASSUME NEW r \in Ids, DeadlinePasses(r)
      PROVE  Listed(trail')
    BY <1>1, <1>9 DEF DeadlinePasses
<1>10. CASE Close
    <2>1. \/ \E S : trail' = Cancelled(trail, S, "cancelled")
          \/ \E f \in Ids : \E S : trail' \in TornCancels(Cancelled(trail, S, "cancelled"), f,
                                                           "cancelled", AuditMayFail)
        BY <1>10 DEF Close, Unanswered
    <2>. QED  BY <1>1, <1>2, <2>1
<1>11. CASE UNCHANGED vars
    BY <1>1, <1>11 DEF vars
<1>. QED  BY <1>3, <1>4, <1>5, <1>6, <1>7, <1>8, <1>9, <1>10, <1>11 DEF Next, Submit

\* Whatever the step, each request makes one of the moves.
LEMMA NextMoves ==
    ASSUME RetentionSuffices, IInv, OrderTracksEntries, Judgement(entry, verdict), Listed(trail),
           [Next]_vars, NEW r \in Ids
    PROVE  Moves(r) /\ (~GuiStep => TableMoves(r))
<1>1. ASSUME NEW w \in Workers, Submit(w) \/ WaitTimesOut(w) \/ SubmitReturns(w)
      PROVE  TableMoves(r)
    BY <1>1, SweepingMoves, AdmissionMoves, ReturnMoves DEF Submit
<1>2. ASSUME NEW q \in Ids, Resolve(q) \/ DeadlinePasses(q)
      PROVE  TableMoves(r)
    BY <1>2, SweepingMoves, DeniedMoves, TakenMoves, ReturnMoves DEF Resolve
<1>3. ASSUME Tick
      PROVE  TableMoves(r)
    BY <1>3, SweepingMoves, TakenMoves DEF Tick
<1>4. ASSUME SweepRaises \/ Close \/ UNCHANGED vars
      PROVE  TableMoves(r)
    BY <1>4, SweepRaisesMoves, CloseMoves, ReturnMoves DEF TableMoves
<1>5. ASSUME GuiStep
      PROVE  Moves(r)
    BY <1>5, ReturnMoves, GuiMoves DEF GuiStep, Moves
<1>. QED  BY <1>1, <1>2, <1>3, <1>4, <1>5 DEF Next, Moves

\* The GUI thread turns to a request only when it is free, and the request waits.
GuiTakes ==
    /\ gui = IdleGui
    /\ \E q \in Ids, s \in {"present", "approve", "execute"} :
        /\ Live(entry[q]) /\ ~entry[q].executing
        /\ gui' = AtStage(s, q, entry[q].call)
        /\ s = "execute" => entry[q].call \in Reads
        /\ s # "execute" => entry[q].call \in Mutations
        /\ s = "present" => entry'[q] = entry[q]
        /\ s # "present" => entry'[q] = [entry[q] EXCEPT !.executing = TRUE]

GuiTurns == (gui' = gui \/ GuiTakes) /\ UNCHANGED <<runs, changed>>

LEMMA NextTurns ==
    ASSUME IInv, Accounted, SlotIsMutation, [Next]_vars
    PROVE  GuiTurns \/ GuiStep
<1>. USE DEF table, ghosts
<1>1. \A q \in Ids : Live(SweptEntry[q]) => SweptEntry[q] = entry[q]
    BY SweptLoses DEF Loses
<1>2. SweptEntry \in [Ids -> Entries]
    BY SweptOK DEF TableOK
<1>3. gui = IdleGui => \A q \in Ids : Live(entry[q]) => ~entry[q].executing
    BY DEF Accounted, ExecutedByGui, IdleGui, Working
<1>4. ASSUME NEW w \in Workers, Submit(w) \/ WaitTimesOut(w) \/ SubmitReturns(w)
      PROVE  GuiTurns
    <2>1. CASE WaitTimesOut(w) \/ SubmitReturns(w)
        BY <2>1 DEF WaitTimesOut, SubmitReturns, GuiTurns
    <2>2. ASSUME NEW r \in Ids, NEW c \in Calls, SubmitKnown(w, r, c) \/ SubmitRefused(w, r)
          PROVE  GuiTurns
        BY <2>2 DEF SubmitKnown, SubmitRefused, GuiTurns
    <2>3. ASSUME NEW r \in Ids, NEW c \in Calls, SubmitNotAudited(w, r, c) \/ SubmitAccepted(w, r, c)
          PROVE  GuiTurns
        BY <2>3 DEF SubmitNotAudited, SubmitAccepted, GuiTurns
    <2>. QED  BY <1>4, <2>1, <2>2, <2>3 DEF Submit
<1>5. CASE ExpireRequests \/ ProcessNothing \/ SweepRaises \/ Close \/ UNCHANGED vars
    BY <1>5 DEF ExpireRequests, ProcessNothing, SweepRaises, Close, vars, GuiTurns
<1>6. CASE ProcessRead
    <2>1. PICK k \in 1..Len(queue) :
            /\ Live(SweptEntry[queue[k]]) /\ SweptEntry[queue[k]].call \in Reads
            /\ entry' = [SweptEntry EXCEPT ![queue[k]].executing = TRUE]
            /\ gui' = AtStage("execute", queue[k], SweptEntry[queue[k]].call)
        BY <1>6 DEF ProcessRead, Served, Answering
    <2>2. PICK q \in Ids : q = queue[k]
        BY <2>1 DEF IInv, TypeOK
    <2>3. entry'[q] = [SweptEntry[q] EXCEPT !.executing = TRUE] /\ SweptEntry[q] = entry[q]
        BY <1>1, <1>2, <2>1, <2>2
    <2>4. gui = IdleGui /\ UNCHANGED <<runs, changed>>
        BY <1>6 DEF ProcessRead, Accounted, IdleIsFree
    <2>. QED  BY <1>3, <2>1, <2>2, <2>3, <2>4 DEF GuiTurns, GuiTakes
<1>7. CASE ProcessMutation
    <2>1. PICK k \in 1..Len(queue) :
            /\ Live(SweptEntry[queue[k]]) /\ SweptEntry[queue[k]].call \in Mutations
            /\ gui' = AtStage("present", queue[k], SweptEntry[queue[k]].call)
        BY <1>7 DEF ProcessMutation, Served
    <2>2. PICK q \in Ids : q = queue[k]
        BY <2>1 DEF IInv, TypeOK
    <2>3. entry'[q] = entry[q] /\ SweptEntry[q] = entry[q]
        BY <1>1, <1>7, <2>1, <2>2 DEF ProcessMutation, Answering
    <2>4. gui = IdleGui /\ UNCHANGED <<runs, changed>>
        BY <1>7 DEF ProcessMutation, Accounted, IdleIsFree
    <2>. QED  BY <1>3, <2>1, <2>2, <2>3, <2>4 DEF GuiTurns, GuiTakes
<1>8. ASSUME NEW q \in Ids, ResolveApproved(q)
      PROVE  GuiTurns
    <2>1. SweptActive = q /\ Live(SweptEntry[q]) /\ active = q /\ SweptEntry[q] = entry[q]
        BY <1>1, <1>8, DispatcherAssumption DEF ResolveApproved, SweptActive
    <2>2. /\ entry'[q] = [entry[q] EXCEPT !.executing = TRUE]
          /\ gui' = AtStage("approve", q, entry[q].call)
          /\ UNCHANGED <<runs, changed>>
        BY <1>2, <1>8, <2>1 DEF ResolveApproved, Answering
    <2>3. gui = IdleGui /\ entry[q].call \in Mutations
        BY <1>8, <2>1, ApprovalAccounts DEF SlotIsMutation, Live
    <2>. QED  BY <1>3, <2>1, <2>2, <2>3 DEF GuiTurns, GuiTakes
<1>9. ASSUME NEW q \in Ids, ResolveStale(q) \/ ResolveDenied(q) \/ DeadlinePasses(q)
      PROVE  GuiTurns
    BY <1>9 DEF ResolveStale, ResolveDenied, DeadlinePasses, GuiTurns
<1>. QED  BY <1>4, <1>5, <1>6, <1>7, <1>8, <1>9 DEF Next, Tick, Resolve

\* The slot goes to a queued mutation only.
LEMMA NextSlot ==
    ASSUME IInv, [Next]_vars
    PROVE  \/ active' \in {active, NoRequest}
           \/ /\ active' \in Ids /\ Live(entry[active'])
              /\ entry'[active'] = entry[active'] /\ entry[active'].call \in Mutations
<1>. USE DEF table
<1>1. SweptActive \in {active, NoRequest}
    BY DEF SweptActive
<1>2. ASSUME NEW w \in Workers, Submit(w) \/ WaitTimesOut(w) \/ SubmitReturns(w)
      PROVE  active' \in {active, NoRequest}
    BY <1>1, <1>2 DEF Submit, SubmitKnown, SubmitRefused, SubmitNotAudited, SubmitAccepted,
                      WaitTimesOut, SubmitReturns
<1>3. CASE \/ ExpireRequests \/ ProcessNothing \/ ProcessRead \/ SweepRaises \/ Close
           \/ UNCHANGED vars
    BY <1>1, <1>3 DEF ExpireRequests, ProcessNothing, ProcessRead, SweepRaises, Close, vars
<1>4. CASE ProcessMutation
    <2>1. PICK k \in 1..Len(queue) :
            /\ Live(SweptEntry[queue[k]]) /\ SweptEntry[queue[k]].call \in Mutations
            /\ active' = queue[k]
        BY <1>4 DEF ProcessMutation, Served
    <2>2. PICK q \in Ids : q = queue[k]
        BY <2>1 DEF IInv, TypeOK
    <2>3. entry' = SweptEntry
        BY <1>4 DEF ProcessMutation, Answering
    <2>4. SweptEntry[q] = entry[q]
        BY <2>1, <2>2, SweptLoses DEF Loses
    <2>. QED  BY <2>1, <2>2, <2>3, <2>4
<1>5. CASE GuiStep
    BY <1>5 DEF GuiStep, PresentShown, PresentRaises, ApproveAudit, ExecuteRefused, Execute,
                SaveOutcome, RememberOutcome, GuiAnswers
<1>6. ASSUME NEW q \in Ids, Resolve(q) \/ DeadlinePasses(q)
      PROVE  active' \in {active, NoRequest}
    BY <1>1, <1>6 DEF Resolve, ResolveStale, ResolveDenied, ResolveApproved, DeadlinePasses
<1>. QED  BY <1>2, <1>3, <1>4, <1>5, <1>6 DEF Next, Tick

-------------------------------------------------------------------------------
(* The invariant, in three layers.  The first: what runs, and how often.       *)

\* An identifier without an audit file is unused.
Untouched(r) ==
    trail.disk[r].rev = 0 =>
        /\ ~Tracked(entry[r]) /\ verdict[r] = "none" /\ runs[r] = 0
        /\ gui.req # r /\ active # r

Advanced == {"running", "saved", "answer"}

\* The handler of r ran at most once, and before its answer only under the eyes of
\* the GUI thread.
RunsOnce(r) ==
    /\ runs[r] <= 1
    /\ r \in changed => runs[r] = 1
    /\ Live(entry[r]) /\ runs[r] # 0 => entry[r].executing /\ gui.stage \in Advanced

\* Reads change nothing, nor does a request that was withdrawn.
ChangesNothing(r) ==
    /\ Tracked(entry[r]) /\ entry[r].call \in Reads => r \notin changed
    /\ verdict[r] \in {"expired", "cancelled"} => r \notin changed

\* The GUI thread runs a handler between "execute" and "running".
GuiRuns ==
    /\ gui.stage \in {"present", "approve", "execute"} => runs[gui.req] = 0
    /\ gui.stage \in {"running", "saved"} \/ gui.answer = "completed" => runs[gui.req] = 1

\* The content it copied out of the table is still the request's, and while it works
\* on an unanswered request the table says so.
CallKept ==
    /\ gui.stage # "idle" /\ Tracked(entry[gui.req]) => entry[gui.req].call = gui.call
    /\ gui.stage \in Working /\ Live(entry[gui.req]) => entry[gui.req].executing

RunInv ==
    /\ IInv /\ OrderTracksEntries /\ Accounted
    /\ SlotIsMutation
    /\ Judgement(entry, verdict)
    /\ Listed(trail)
    /\ \A r \in Ids : Untouched(r) /\ RunsOnce(r) /\ ChangesNothing(r)
    /\ GuiRuns /\ CallKept

LEMMA InitRuns == Init => RunInv
<1>. SUFFICES ASSUME Init PROVE RunInv
    OBVIOUS
<1>1. IInv /\ OrderTracksEntries
    BY InitIInv, DispatcherAssumption DEF Init, OrderTracksEntries, NoEntry, Tracked
<1>2. /\ gui = IdleGui /\ gui.stage = "idle" /\ gui.answer = "none" /\ gui.req = NoRequest
      /\ active = NoRequest /\ changed = {}
      /\ \A r \in Ids : /\ ~Tracked(entry[r]) /\ ~Live(entry[r])
                        /\ runs[r] = 0 /\ verdict[r] = "none"
    BY DEF Init, IdleGui, NoEntry, Tracked, Live
<1>3. Accounted /\ SlotIsMutation
    BY <1>2, DispatcherAssumption
       DEF Accounted, IdleIsFree, ReadsLeaveSlot, ExecutedByGui, Findable, SlotIsMutation, Working
<1>4. Listed(trail)
    BY DEF Init, EmptyTrail, Listed
<1>5. \A r \in Ids : Untouched(r) /\ RunsOnce(r) /\ ChangesNothing(r)
    BY <1>2, DispatcherAssumption DEF Untouched, RunsOnce, ChangesNothing
<1>. QED  BY <1>1, <1>2, <1>3, <1>4, <1>5 DEF RunInv, Judgement, GuiRuns, CallKept, Working

\* What the moves have in common: a tracked request keeps its content, and a file
\* once written stays.
LEMMA MovesKeepCall ==
    ASSUME IInv, NEW r \in Ids, Moves(r)
    PROVE  /\ \/ entry'[r] = NoEntry
              \/ entry'[r].call = entry[r].call
              \/ Admitted(r)
           /\ Tracked(entry'[r]) => Tracked(entry[r]) \/ Admitted(r)
<1>1. entry[r] \in Entries
    BY DEF IInv, TypeOK
<1>. QED  BY <1>1 DEF Moves, TableMoves, Still, Withdrawn, Forgotten, OnlyBegun, Taken, Undenied, Unshown,
                      Recorded, Finishes, AnswerStays, Answered, Entries, Tracked, NoEntry, Live,
                      Terminal, FinalAnswers

LEMMA FilesRemain ==
    ASSUME IInv, NEW r \in Ids, FilesStay(r) \/ FilesCancelled(r) \/ FilesTorn(r)
    PROVE  trail'.disk[r].rev = 0 => trail.disk[r].rev = 0
<1>1. trail.mem[r] \in Records /\ trail.disk[r] \in Records
    BY DEF IInv, TypeOK, Trails, Ids
<1>2. \A d \in {"cancelled", "denied"} :
        /\ CancelledRecord(trail.mem[r], d).rev > 0
        /\ \A n \in 1..Len(CancelSaves(trail.mem[r], d)) : CancelSaves(trail.mem[r], d)[n].rev > 0
    <2>. SUFFICES ASSUME NEW d \in {"cancelled", "denied"}
                  PROVE  /\ CancelledRecord(trail.mem[r], d).rev > 0
                         /\ \A n \in 1..Len(CancelSaves(trail.mem[r], d)) :
                                CancelSaves(trail.mem[r], d)[n].rev > 0
        OBVIOUS
    <2>1. d \in Decisions /\ trail.mem[r].rev \in Nat
        BY <1>1 DEF Decisions, Records
    <2>2. \A n \in 1..Len(CancelSaves(trail.mem[r], d)) :
            /\ CancelSaves(trail.mem[r], d)[n] \in Records
            /\ CancelSaves(trail.mem[r], d)[n].rev > trail.mem[r].rev
        BY <1>1, <2>1, CancelSavesCount
    <2>3. \A x, y \in Nat : x > y => x > 0
        OBVIOUS
    <2>4. \A rec \in Records : rec.rev \in Nat
        BY DEF Records
    <2>5. CancelledRecord(trail.mem[r], d).rev > 0
        BY <1>1, <2>1, RecordsCount
    <2>. QED  BY <2>1, <2>2, <2>3, <2>4, <2>5
<1>3. CASE FilesCancelled(r)
    BY <1>2, <1>3 DEF FilesCancelled, FilesStay
<1>4. CASE FilesTorn(r)
    BY <1>2, <1>4 DEF FilesTorn
<1>. QED  BY <1>3, <1>4 DEF FilesStay

LEMMA MovesKeepFile ==
    ASSUME IInv, NEW r \in Ids, Moves(r), trail'.disk[r].rev = 0
    PROVE  /\ trail.disk[r].rev = 0
           /\ ~Tracked(entry[r]) => AnswerStays(r)
<1>1. CASE Still(r) \/ Withdrawn(r) \/ Forgotten(r) \/ Taken(r) \/ Undenied(r) \/ Unshown(r)
             \/ Finishes(r)
    BY <1>1, FilesRemain DEF Still, Withdrawn, Forgotten, Taken, Undenied, Unshown, Finishes,
                             Live, Terminal, Tracked, FinalAnswers
<1>2. CASE Admitted(r) \/ OnlyBegun(r)
    <2>1. \A d : Started(d).rev = 1
        BY DEF Started
    <2>. QED  BY <1>2, <2>1 DEF Admitted, OnlyBegun
<1>3. CASE Recorded(r)
    <2>1. Decided(trail.mem[r], "approved").rev > 0 /\ OutcomeRecord.rev > 0
        BY RecordsCount DEF IInv, TypeOK, Trails, Ids, GuiStates, OutcomeRecord, Statuses, Decisions
    <2>. QED  BY <1>3, <2>1 DEF Recorded
<1>. QED  BY <1>1, <1>2, <1>3 DEF Moves, TableMoves

\* The first answer is the verdict, and only answered requests have one.
LEMMA MovesJudge ==
    ASSUME RunInv, NEW r \in Ids, Moves(r)
    PROVE  Tracked(entry'[r]) => (Live(entry'[r]) <=> verdict'[r] = "none")
<1>1. /\ entry[r] \in Entries
      /\ gui.stage = "answer" => gui.answer \in FinalAnswers
      /\ Tracked(entry[r]) => (Live(entry[r]) <=> verdict[r] = "none")
    BY DEF RunInv, IInv, TypeOK, GuiStates, AnswerIsKnown, FinalAnswers, Judgement
<1>2. ~Tracked(NoEntry)
    BY DEF NoEntry, Tracked
<1>3. CASE Still(r) \/ Forgotten(r) \/ OnlyBegun(r) \/ Undenied(r) \/ Unshown(r) \/ Recorded(r)
    BY <1>1, <1>2, <1>3 DEF Still, Forgotten, OnlyBegun, Undenied, Unshown, Recorded, AnswerStays
<1>4. CASE Withdrawn(r) \/ Finishes(r)
    <2>1. \A a \in FinalAnswers : \A claim : ~Live(Answered(entry[r], a, claim)) /\ a # "none"
        BY <1>1, AnsweredIsOver DEF FinalAnswers
    <2>. QED  BY <1>1, <1>2, <1>4, <2>1 DEF Withdrawn, Finishes, FinalAnswers
<1>5. CASE Admitted(r)
    <2>1. verdict'[r] = "none"
        BY <1>5 DEF Admitted, RunInv, Untouched
    <2>2. \A c \in Calls : Live(NewEntry(c))
        BY DEF NewEntry, Live, Tracked, Terminal, FinalAnswers
    <2>. QED  BY <1>5, <2>1, <2>2 DEF Admitted
<1>6. CASE Taken(r)
    BY <1>1, <1>6 DEF Taken, Entries, Live, Tracked, Terminal
<1>. QED  BY <1>3, <1>4, <1>5, <1>6 DEF Moves, TableMoves

\* Only the GUI thread's step "execute" runs anything, for the request it took.
LEMMA StepRuns ==
    ASSUME RunInv, GuiTurns \/ GuiStep
    PROVE  \/ UNCHANGED <<runs, changed>>
           \/ /\ gui.stage = "execute" /\ gui'.stage = "running" /\ gui'.req = gui.req
              /\ gui'.call = gui.call
              /\ gui.req \in Ids /\ runs[gui.req] = 0
              /\ runs' = [runs EXCEPT ![gui.req] = 1]
              /\ changed' \in {changed, changed \cup {gui.req}}
              /\ changed' # changed => gui.call \in Mutations
              /\ entry' = entry /\ verdict' = verdict
<1>1. CASE ~Execute
    BY <1>1 DEF GuiTurns, GuiStep, PresentShown, PresentRaises, ApproveAudit, ExecuteRefused,
                SaveOutcome, RememberOutcome, GuiAnswers, ghosts
<1>2. CASE Execute
    <2>1. gui.stage = "execute" /\ gui.req \in Ids /\ runs[gui.req] = 0 /\ gui \in GuiStates
          /\ gui.call \in Calls /\ runs \in [Ids -> 0..2]
        BY <1>2 DEF Execute, RunInv, GuiRuns, IInv, TypeOK
    <2>2. gui'.stage = "running" /\ gui'.req = gui.req /\ gui'.call = gui.call
        BY <1>2, <2>1 DEF Execute, GuiStates
    <2>3. runs' = [runs EXCEPT ![gui.req] = 1]
        BY <1>2, <2>1 DEF Execute
    <2>4. changed' \in {changed, changed \cup {gui.req}} /\ (changed' # changed => gui.call \in Mutations)
        BY <1>2, <2>1 DEF Execute, OutcomesOf, Calls
    <2>5. entry' = entry /\ verdict' = verdict
        BY <1>2 DEF Execute, table
    <2>. QED  BY <2>1, <2>2, <2>3, <2>4, <2>5
<1>. QED  BY <1>1, <1>2

\* The request of the GUI thread is the one it had, none, or one that waits.
LEMMA StepTakes ==
    ASSUME IInv, GuiTurns \/ GuiStep
    PROVE  \/ gui'.req = gui.req /\ gui'.call = gui.call
           \/ gui' = IdleGui
           \/ gui = IdleGui /\ gui'.req \in Ids /\ Live(entry[gui'.req])
<1>1. CASE GuiTurns
    BY <1>1 DEF GuiTurns, GuiTakes, AtStage, IdleGui
<1>2. CASE GuiStep
    BY <1>2 DEF GuiStep, PresentShown, PresentRaises, ApproveAudit, ExecuteRefused, Execute,
                SaveOutcome, RememberOutcome, GuiAnswers, Failing, IInv, TypeOK, GuiStates
<1>. QED  BY <1>1, <1>2

\* What is still unanswered after a step was so before, and as much under execution.
LEMMA StillWaits ==
    ASSUME IInv, NEW r \in Ids, Moves(r), Live(entry'[r])
    PROVE  \/ Admitted(r)
           \/ Live(entry[r]) /\ (entry[r].executing => entry'[r].executing)
<1>1. /\ entry[r] \in Entries
      /\ gui.stage = "answer" => gui.answer \in FinalAnswers
    BY DEF IInv, TypeOK, GuiStates, AnswerIsKnown, FinalAnswers
<1>2. ~Live(NoEntry)
    BY DEF NoEntry, Live, Tracked
<1>3. CASE Withdrawn(r) \/ Finishes(r)
    <2>1. \A a \in FinalAnswers : \A claim : ~Live(Answered(entry[r], a, claim))
        BY <1>1, AnsweredIsOver
    <2>. QED  BY <1>1, <1>2, <1>3, <2>1 DEF Withdrawn, Finishes, FinalAnswers
<1>4. CASE Taken(r)
    BY <1>1, <1>4 DEF Taken, Entries
<1>5. CASE Still(r) \/ Forgotten(r) \/ OnlyBegun(r) \/ Undenied(r) \/ Unshown(r) \/ Recorded(r)
    BY <1>2, <1>5 DEF Still, Forgotten, OnlyBegun, Undenied, Unshown, Recorded, AnswerStays
<1>. QED  BY <1>3, <1>4, <1>5 DEF Moves, TableMoves

LEMMA UntouchedKept ==
    ASSUME RunInv, [Next]_vars, GuiTurns \/ GuiStep, NEW r \in Ids, Moves(r)
    PROVE  Untouched(r)'
<1>. SUFFICES ASSUME trail'.disk[r].rev = 0
              PROVE  /\ ~Tracked(entry'[r]) /\ verdict'[r] = "none" /\ runs'[r] = 0
                     /\ gui'.req # r /\ active' # r
    BY DEF Untouched
<1>1. IInv
    BY DEF RunInv
<1>2. trail.disk[r].rev = 0
    BY <1>1, MovesKeepFile
<1>3. /\ ~Tracked(entry[r]) /\ verdict[r] = "none" /\ runs[r] = 0
      /\ gui.req # r /\ active # r /\ ~Live(entry[r])
    BY <1>2 DEF RunInv, Untouched, Live
<1>4. AnswerStays(r)
    BY <1>1, <1>3, MovesKeepFile
<1>5. runs'[r] = 0
    BY <1>1, <1>3, StepRuns DEF IInv, TypeOK
<1>6. gui'.req # r
    BY <1>1, <1>3, StepTakes, DispatcherAssumption DEF IdleGui
<1>7. active' # r
    BY <1>1, <1>3, NextSlot, DispatcherAssumption
<1>. QED  BY <1>3, <1>4, <1>5, <1>6, <1>7 DEF AnswerStays

LEMMA RunsOnceKept ==
    ASSUME RunInv, GuiTurns \/ GuiStep, NEW r \in Ids, Moves(r)
    PROVE  RunsOnce(r)'
<1>1. IInv /\ RunsOnce(r) /\ Accounted /\ runs \in [Ids -> 0..2]
    BY DEF RunInv, IInv, TypeOK
<1>2. Admitted(r) => runs[r] = 0 /\ gui.req # r
    BY DEF Admitted, RunInv, Untouched
<1>3. CASE UNCHANGED <<runs, changed>>
    <2>1. ASSUME Live(entry'[r]), runs[r] # 0
          PROVE  entry'[r].executing /\ gui'.stage \in Advanced
        <3>1. Live(entry[r]) /\ entry[r].executing /\ entry'[r].executing
            BY <1>1, <1>2, <2>1, StillWaits DEF RunsOnce
        <3>2. gui.stage \in Advanced /\ gui.req = r
            BY <1>1, <2>1, <3>1 DEF RunsOnce, Accounted, ExecutedByGui
        <3>3. ~GuiAnswers
            <4>1. gui.stage = "answer" => gui.answer \in FinalAnswers /\ entry \in [Ids -> Entries]
                BY <1>1 DEF IInv, TypeOK, GuiStates, AnswerIsKnown, FinalAnswers
            <4>2. gui.stage = "answer" => ~Live(Answered(entry[r], gui.answer, SafeClaim))
                BY <4>1, AnsweredIsOver
            <4>. QED  BY <2>1, <3>1, <3>2, <4>1, <4>2 DEF GuiAnswers, Answering, Answerable
        <3>4. CASE GuiTurns
            BY <3>1, <3>2, <3>4 DEF GuiTurns, GuiTakes, IdleGui, Advanced
        <3>5. CASE GuiStep
            BY <1>1, <3>1, <3>2, <3>3, <3>5
               DEF GuiStep, PresentShown, PresentRaises, ApproveAudit, ExecuteRefused, Execute,
                   SaveOutcome, RememberOutcome, Failing, Advanced, IInv, TypeOK, GuiStates
        <3>. QED  BY <3>1, <3>4, <3>5
    <2>. QED  BY <1>1, <1>3, <2>1 DEF RunsOnce
<1>4. CASE /\ gui.stage = "execute" /\ gui'.stage = "running" /\ gui'.req = gui.req
           /\ gui.req \in Ids /\ runs[gui.req] = 0
           /\ runs' = [runs EXCEPT ![gui.req] = 1]
           /\ changed' \in {changed, changed \cup {gui.req}}
           /\ entry' = entry
    <2>1. CASE r = gui.req
        <3>1. runs'[r] = 1
            BY <1>1, <1>4, <2>1
        <3>2. Live(entry[r]) => entry[r].executing
            BY <1>4, <2>1 DEF RunInv, CallKept, Working
        <3>. QED  BY <1>4, <3>1, <3>2 DEF RunsOnce, Advanced
    <2>2. CASE r # gui.req
        <3>1. runs'[r] = runs[r] /\ (r \in changed' <=> r \in changed)
            BY <1>1, <1>4, <2>2
        <3>2. Live(entry[r]) => ~entry[r].executing
            BY <1>1, <2>2 DEF Accounted, ExecutedByGui
        <3>. QED  BY <1>1, <1>4, <3>1, <3>2 DEF RunsOnce
    <2>. QED  BY <2>1, <2>2
<1>. QED  BY <1>3, <1>4, StepRuns

LEMMA ChangesNothingKept ==
    ASSUME RunInv, GuiTurns \/ GuiStep, NEW r \in Ids, Moves(r)
    PROVE  ChangesNothing(r)'
<1>1. /\ IInv /\ ChangesNothing(r) /\ RunsOnce(r) /\ Accounted /\ CallKept
      /\ entry[r] \in Entries /\ EntryOK(entry[r])
    BY DEF RunInv, IInv, TypeOK, TableOK
<1>2. Admitted(r) => r \notin changed /\ gui.req # r
    BY DEF Admitted, RunInv, Untouched, RunsOnce
<1>3. ASSUME r \in changed', r \notin changed
      PROVE  /\ gui.req = r /\ entry' = entry /\ verdict'[r] = "none"
             /\ Tracked(entry[r]) /\ entry[r].call \in Mutations
    <2>1. /\ gui.stage = "execute" /\ gui.req = r /\ gui.call \in Mutations
          /\ entry' = entry /\ verdict' = verdict
        BY <1>3, StepRuns
    <2>2. entry[r].answer = "pending_confirmation"
        BY <1>1, <2>1 DEF IInv, MutationKeepsSlot, Working
    <2>3. Live(entry[r])
        BY <2>2 DEF Live, Tracked, Terminal, FinalAnswers
    <2>. QED  BY <1>1, <2>1, <2>3 DEF CallKept, RunInv, Judgement, Live
<1>4. ASSUME Tracked(entry'[r]), entry'[r].call \in Reads
      PROVE  r \notin changed'
    <2>1. r \notin changed
        BY <1>1, <1>2, <1>4, MovesKeepCall DEF ChangesNothing, NoEntry, Tracked
    <2>. QED  BY <1>3, <1>4, <2>1, DispatcherAssumption
<1>5. ASSUME verdict'[r] \in {"expired", "cancelled"}
      PROVE  r \notin changed'
    <2>1. CASE Withdrawn(r)
        <3>1. ASSUME r \in changed
              PROVE  FALSE
            <4>1. Live(entry[r]) /\ entry[r].executing /\ gui.stage \in Advanced /\ gui.req = r
                BY <1>1, <2>1, <3>1 DEF Withdrawn, RunsOnce, Accounted, ExecutedByGui
            <4>2. Tracked(entry[r]) /\ entry[r].call \notin Reads /\ entry[r].answer # "none"
                BY <1>1, <3>1, <4>1 DEF ChangesNothing, EntryOK, Live
            <4>3. GuiInteractive
                BY <2>1, <4>1, <4>2 DEF Withdrawn
            <4>. QED  BY <1>1, <4>1, <4>2, <4>3 DEF GuiInteractive, Advanced, CallKept
        <3>. QED  BY <1>3, <1>5, <3>1
    <2>2. CASE Finishes(r)
        <3>1. gui.answer \in {"completed", "failed"}
            BY <1>1, <2>2 DEF Finishes, IInv, TypeOK, GuiStates, AnswerIsKnown
        <3>. QED  BY <1>5, <2>2, <3>1 DEF Finishes
    <2>3. CASE verdict'[r] = verdict[r]
        BY <1>1, <1>3, <1>5, <2>3 DEF ChangesNothing
    <2>. QED  BY <2>1, <2>2, <2>3 DEF Moves, TableMoves, Still, Forgotten, Admitted, OnlyBegun, Taken,
                                      Undenied, Unshown, Recorded, AnswerStays
<1>. QED  BY <1>4, <1>5 DEF ChangesNothing

LEMMA GuiRunsKept ==
    ASSUME RunInv, GuiTurns \/ GuiStep
    PROVE  GuiRuns'
<1>1. /\ GuiRuns /\ runs \in [Ids -> 0..2] /\ gui \in GuiStates
      /\ gui.stage # "idle" => gui.req \in Ids
    BY DEF RunInv, IInv, TypeOK
<1>2. CASE GuiTurns
    <2>1. CASE gui' = gui
        BY <1>1, <1>2, <2>1 DEF GuiTurns, GuiRuns
    <2>2. CASE GuiTakes
        <3>1. PICK q \in Ids, s \in {"present", "approve", "execute"} :
                /\ Live(entry[q]) /\ ~entry[q].executing
                /\ gui' = AtStage(s, q, entry[q].call)
            BY <2>2 DEF GuiTakes
        <3>2. gui'.stage = s /\ gui'.req = q /\ gui'.answer = "none"
            BY <3>1 DEF AtStage, IdleGui
        <3>3. runs[q] = 0
            BY <3>1 DEF RunInv, RunsOnce
        <3>. QED  BY <1>2, <3>1, <3>2, <3>3 DEF GuiTurns, GuiRuns
    <2>. QED  BY <1>2, <2>1, <2>2 DEF GuiTurns
<1>3. CASE GuiStep
    <2>1. CASE Execute
        <3>1. gui.req \in Ids /\ runs[gui.req] = 0
            BY <1>1, <2>1 DEF Execute, GuiRuns
        <3>2. gui'.stage = "running" /\ gui'.req = gui.req
            BY <1>1, <2>1 DEF Execute, GuiStates
        <3>3. runs' = [runs EXCEPT ![gui.req] = 1]
            BY <1>1, <2>1, <3>1 DEF Execute
        <3>. QED  BY <1>1, <3>1, <3>2, <3>3 DEF GuiRuns
    <2>2. CASE ~Execute
        <3>1. runs' = runs
            BY <1>3, <2>2 DEF GuiStep, PresentShown, PresentRaises, ApproveAudit, ExecuteRefused,
                              SaveOutcome, RememberOutcome, GuiAnswers, ghosts
        <3>2. CASE gui' = IdleGui
            BY <3>2 DEF GuiRuns, IdleGui
        <3>3. CASE gui' # IdleGui
            BY <1>1, <1>3, <2>2, <3>1, <3>3
               DEF GuiStep, PresentShown, PresentRaises, ApproveAudit, ExecuteRefused,
                   SaveOutcome, RememberOutcome, GuiAnswers, Failing, GuiRuns, GuiStates
        <3>. QED  BY <3>2, <3>3
    <2>. QED  BY <2>1, <2>2
<1>. QED  BY <1>2, <1>3

LEMMA CallKeptKept ==
    ASSUME RunInv, GuiTurns \/ GuiStep, \A r \in Ids : Moves(r)
    PROVE  CallKept'
<1>1. IInv /\ CallKept
    BY DEF RunInv
<1>2. CASE gui'.req = gui.req /\ gui'.call = gui.call /\ gui' # IdleGui /\ gui.stage # "idle"
    <2>1. PICK q \in Ids : q = gui.req
        BY <1>1, <1>2 DEF IInv, TypeOK
    <2>2. ~Admitted(q) /\ Moves(q)
        BY <2>1 DEF Admitted, RunInv, Untouched
    <2>3. Tracked(entry'[q]) => entry'[q].call = gui.call
        BY <1>1, <1>2, <2>1, <2>2, MovesKeepCall DEF CallKept, NoEntry, Tracked
    <2>4. gui'.stage \in Working => gui.stage \in Working
        <3>1. CASE GuiTurns
            BY <1>2, <3>1 DEF GuiTurns, GuiTakes, IdleGui
        <3>2. CASE GuiStep
            BY <1>1, <1>2, <3>2
               DEF GuiStep, PresentShown, PresentRaises, ApproveAudit, ExecuteRefused, Execute,
                   SaveOutcome, RememberOutcome, GuiAnswers, Failing, Working,
                   IInv, TypeOK, GuiStates
        <3>. QED  BY <3>1, <3>2
    <2>5. gui'.stage \in Working /\ Live(entry'[q]) => entry'[q].executing
        BY <1>1, <2>1, <2>2, <2>4, StillWaits DEF CallKept
    <2>. QED  BY <1>2, <2>1, <2>3, <2>5 DEF CallKept
<1>3. CASE gui' = IdleGui
    BY <1>3 DEF CallKept, IdleGui, Working
<1>4. CASE GuiTakes
    <2>1. PICK q \in Ids, s \in {"present", "approve", "execute"} :
            /\ gui' = AtStage(s, q, entry[q].call)
            /\ s = "present" => entry'[q] = entry[q]
            /\ s # "present" => entry'[q] = [entry[q] EXCEPT !.executing = TRUE]
        BY <1>4 DEF GuiTakes
    <2>2. gui'.stage = s /\ gui'.req = q /\ gui'.call = entry[q].call
        BY <2>1 DEF AtStage, IdleGui
    <2>3. entry'[q].call = entry[q].call /\ (s # "present" => entry'[q].executing)
        BY <1>1, <2>1 DEF IInv, TypeOK, Entries
    <2>. QED  BY <2>2, <2>3 DEF CallKept, Working
<1>5. gui.stage = "idle" => gui = IdleGui /\ ~GuiStep
    BY DEF RunInv, Accounted, IdleIsFree, GuiStep, PresentShown, PresentRaises, ApproveAudit,
           ExecuteRefused, Execute, SaveOutcome, RememberOutcome, GuiAnswers
<1>6. gui = IdleGui => gui.stage = "idle"
    BY DEF IdleGui
<1>. QED  BY <1>1, <1>2, <1>3, <1>4, <1>5, <1>6, StepTakes DEF GuiTurns

LEMMA SlotIsMutationKept ==
    ASSUME RunInv, [Next]_vars, \A r \in Ids : Moves(r)
    PROVE  SlotIsMutation'
<1>. SUFFICES ASSUME NEW r \in Ids, active' = r, Tracked(entry'[r])
              PROVE  entry'[r].call \in Mutations
    BY DEF SlotIsMutation
<1>1. IInv
    BY DEF RunInv
<1>2. CASE active = r
    <2>1. ~Admitted(r) /\ Moves(r)
        BY <1>2 DEF Admitted, RunInv, Untouched
    <2>. QED  BY <1>1, <1>2, <2>1, MovesKeepCall DEF RunInv, SlotIsMutation, NoEntry, Tracked
<1>. QED  BY <1>1, <1>2, NextSlot, DispatcherAssumption

\* Every step keeps the first layer.
LEMMA RunInvKept ==
    ASSUME RetentionSuffices, RunInv, [Next]_vars
    PROVE  /\ RunInv' /\ (GuiTurns \/ GuiStep)
           /\ \A r \in Ids : Moves(r) /\ (~GuiStep => TableMoves(r))
<1>1. IInv /\ OrderTracksEntries /\ Accounted /\ SlotIsMutation /\ Judgement(entry, verdict)
      /\ Listed(trail)
    BY DEF RunInv
<1>2. IInv'
    BY <1>1, NextTypes, NextKeepsSlot DEF IInv
<1>3. OrderTracksEntries' /\ Accounted' /\ Listed(trail')
    BY <1>1, NextKeepsOrder, NextAccounts, NextLists
<1>4. GuiTurns \/ GuiStep
    BY <1>1, NextTurns
<1>5. \A r \in Ids : Moves(r) /\ (~GuiStep => TableMoves(r))
    BY <1>1, NextMoves
<1>6. Judgement(entry, verdict)'
    BY <1>5, MovesJudge DEF Judgement
<1>7. \A r \in Ids : Untouched(r)' /\ RunsOnce(r)' /\ ChangesNothing(r)'
    BY <1>4, <1>5, UntouchedKept, RunsOnceKept, ChangesNothingKept
<1>8. GuiRuns' /\ CallKept' /\ SlotIsMutation'
    BY <1>4, <1>5, GuiRunsKept, CallKeptKept, SlotIsMutationKept
<1>. QED  BY <1>2, <1>3, <1>4, <1>5, <1>6, <1>7, <1>8 DEF RunInv

\* The first layer holds in every reachable state.
THEOREM RunInvariant == RetentionSuffices /\ Spec => []RunInv
<1>. SUFFICES ASSUME RetentionSuffices PROVE Spec => []RunInv
    OBVIOUS
<1>1. RunInv /\ [Next]_vars => RunInv'
    BY RunInvKept
<1>. QED  BY InitRuns, <1>1, PTL DEF Spec

\* No request is lost: until its answer it is in the queue, in the confirmation slot
\* or with the GUI thread, whatever submit, the sweep and the decisions do meanwhile.
THEOREM NobodyStranded == RetentionSuffices /\ Spec => []NoRequestStranded
<1>1. RunInv => NoRequestStranded
    BY DEF RunInv, Accounted, ExecutedByGui, Findable, NoRequestStranded
<1>. QED  BY RunInvariant, <1>1, PTL

\* While the GUI thread works on a request nobody else holds the confirmation slot,
\* so process_next and resolve_confirmation start nothing beside it.
THEOREM ExecutionIsExclusive == RetentionSuffices /\ Spec => []ExclusiveExecution
<1>1. RunInv => ExclusiveExecution
    BY DEF RunInv, Accounted, ReadsLeaveSlot, IInv, TypeOK, MutationKeepsSlot, ExclusiveExecution,
           Calls, Working
<1>. QED  BY RunInvariant, <1>1, PTL

\* An identifier's handler is started at most once, however often the identifier is
\* submitted, withdrawn, evicted and submitted again.
THEOREM HandlersRunOnce == RetentionSuffices /\ Spec => []AtMostOnce
<1>1. RunInv => AtMostOnce
    BY DEF RunInv, RunsOnce, AtMostOnce
<1>. QED  BY RunInvariant, <1>1, PTL

\* A client told "expired" or "cancelled" finds the document as it was, even when
\* audit saves fail.
THEOREM WithdrawnChangesNothing == RetentionSuffices /\ Spec => []NegativeVerdictChangesNothing
<1>1. RunInv => NegativeVerdictChangesNothing
    BY DEF RunInv, ChangesNothing, NegativeVerdictChangesNothing
<1>. QED  BY RunInvariant, <1>1, PTL

-------------------------------------------------------------------------------
(* The second layer: the audit files tell a request's kind and its approval.   *)

\* A record the service or the GUI thread holds is an earlier or the present
\* content of the file.
Behind(rec, file) ==
    /\ rec.rev <= file.rev
    /\ rec.rev = file.rev => rec = file
    /\ rec.decision = "approved" => file.decision = "approved"

Filed(r) ==
    /\ trail.disk[r].rev = 0 => trail.disk[r] = NoRecord
    /\ trail.disk[r].rev # 0 => trail.disk[r].decision # "none"
    /\ Tracked(entry[r]) =>
            (trail.disk[r].decision = "not_required" <=> entry[r].call \in Reads)
    /\ Behind(trail.mem[r], trail.disk[r])

GuiFiled ==
    /\ gui.stage # "idle" =>
            (trail.disk[gui.req].decision = "not_required" <=> gui.call \in Reads)
    /\ gui.stage = "running" => Behind(gui.rec, trail.disk[gui.req])
    /\ gui.stage = "saved" => Behind(OutcomeRecord, trail.disk[gui.req])

FileInv == GuiFiled /\ \A r \in Ids : Filed(r)

\* A file that is begun, approved, or only advances otherwise.
Grows(old, new) ==
    \/ new = old
    \/ /\ new.rev > old.rev
       /\ old.decision # "none" /\ new.decision # "none"
       /\ old.decision = "not_required" <=> new.decision = "not_required"
       /\ old.decision = "approved" <=> new.decision = "approved"

Begins(r) ==
    /\ trail.disk[r] = NoRecord
    /\ \E c \in Calls : /\ trail'.disk[r] = Started(StartDecision(c))
                        /\ entry'[r] = NewEntry(c) \/ AnswerStays(r)
    /\ ~Tracked(entry[r]) /\ verdict'[r] = verdict[r]

Approves(r) ==
    /\ gui.stage = "approve" /\ gui.req = r /\ AnswerStays(r)
    /\ trail.disk[r].decision = "pending"
    /\ trail'.disk[r].decision = "approved" /\ trail'.disk[r].rev > trail.disk[r].rev

\* A successor of the stored record, taken by the store, was made from that record.
LEMMA SuccessorOf ==
    ASSUME NEW t \in Trails, NEW a \in Actions, NEW rec \in Records, NEW next \in Records,
           next.rev = rec.rev + 1, Accepts(t, a, next), Behind(rec, t.disk[a])
    PROVE  rec = t.disk[a] /\ next.rev > t.disk[a].rev
<1>1. t.disk[a].rev \in Nat /\ rec.rev \in Nat /\ next.rev = t.disk[a].rev + 1
    BY DEF Trails, Records, Accepts
<1>. QED  BY <1>1 DEF Behind

\* The first of the records of a cancellation.
LEMMA FirstCancelSave ==
    ASSUME NEW rec \in Records, NEW d \in Decisions
    PROVE  /\ CancelSaves(rec, d)[1] \in Records
           /\ CancelSaves(rec, d)[1].rev = rec.rev + 1
           /\ CancelledRecord(rec, d) \in Records
           /\ CancelledRecord(rec, d).rev > rec.rev
           /\ CancelledRecord(rec, d).status = "cancelled"
           /\ CancelledRecord(rec, d).decision = IF rec.decision = "pending" THEN d ELSE rec.decision
<1>1. CASE rec.decision = "pending"
    BY <1>1, RecordTypes DEF CancelSaves, CancelledRecord, Decided, Finished, Records, Statuses
<1>2. CASE rec.decision # "pending"
    BY <1>2, RecordTypes DEF CancelSaves, CancelledRecord, Decided, Finished, Records, Statuses
<1>. QED  BY <1>1, <1>2

LEMMA CancellationGrows ==
    ASSUME IInv, NEW r \in Ids, Filed(r), FilesStay(r) \/ FilesCancelled(r) \/ FilesTorn(r)
    PROVE  /\ Grows(trail.disk[r], trail'.disk[r])
           /\ Behind(trail'.mem[r], trail'.disk[r])
<1>1. trail \in Trails /\ r \in Actions /\ trail.mem[r] \in Records /\ trail.disk[r] \in Records
    BY DEF IInv, TypeOK, Trails, Ids
<1>2. CASE FilesStay(r)
    BY <1>2 DEF FilesStay, Filed, Grows
<1>3. ASSUME NeedsCancel(trail, r), CanCancel(trail, r)
      PROVE  trail.mem[r] = trail.disk[r] /\ trail.disk[r].decision # "none"
    <2>1. Accepts(trail, r, CancelSaves(trail.mem[r], "cancelled")[1])
        BY <1>3 DEF CanCancel
    <2>2. trail.mem[r] = trail.disk[r]
        BY <1>1, <2>1, FirstCancelSave, SuccessorOf DEF Filed, Decisions
    <2>3. trail.disk[r] # NoRecord
        BY <1>3, <2>2 DEF NeedsCancel, NoRecord
    <2>. QED  BY <2>2, <2>3 DEF Filed
<1>4. ASSUME NeedsCancel(trail, r), FilesCancelled(r)
      PROVE  /\ Grows(trail.disk[r], trail'.disk[r])
             /\ Behind(trail'.mem[r], trail'.disk[r])
    <2>1. PICK d \in {"cancelled", "denied"} :
            trail'.disk[r] = CancelledRecord(trail.mem[r], d) /\ trail'.mem[r] = trail'.disk[r]
        BY <1>4 DEF FilesCancelled
    <2>2. trail.mem[r] = trail.disk[r] /\ trail.disk[r].decision # "none"
        BY <1>3, <1>4 DEF FilesCancelled
    <2>3. d \in Decisions /\ d \notin {"none", "not_required", "approved"}
        BY DEF Decisions
    <2>4. /\ trail'.disk[r].rev > trail.mem[r].rev /\ trail'.disk[r] \in Records
          /\ trail'.disk[r].decision =
                IF trail.mem[r].decision = "pending" THEN d ELSE trail.mem[r].decision
        BY <1>1, <2>1, <2>3, FirstCancelSave
    <2>. QED  BY <2>1, <2>2, <2>3, <2>4 DEF Grows, Behind, Records
<1>5. CASE FilesTorn(r) /\ ~FilesStay(r)
    <2>1. /\ NeedsCancel(trail, r) /\ CanCancel(trail, r) /\ trail'.mem[r] = trail.mem[r]
          /\ \E d \in {"cancelled", "denied"} :
                \E n \in 1..Len(CancelSaves(trail.mem[r], d)) :
                    trail'.disk[r] = CancelSaves(trail.mem[r], d)[n]
        BY <1>5 DEF FilesTorn, FilesStay
    <2>2. PICK d \in {"cancelled", "denied"} :
            \E n \in 1..Len(CancelSaves(trail.mem[r], d)) :
                trail'.disk[r] = CancelSaves(trail.mem[r], d)[n]
        BY <2>1
    <2>3. trail.mem[r] = trail.disk[r] /\ trail.disk[r].decision # "none"
        BY <1>3, <2>1
    <2>4. d \in Decisions /\ d \notin {"none", "not_required", "approved"}
        BY DEF Decisions
    <2>5. /\ trail'.disk[r].rev > trail.mem[r].rev /\ trail'.disk[r] \in Records
          /\ trail'.disk[r].decision =
                IF trail.mem[r].decision = "pending" THEN d ELSE trail.mem[r].decision
        BY <1>1, <2>2, <2>4, CancelSavesCount
    <2>6. trail'.mem[r].rev \in Nat /\ trail'.disk[r].rev \in Nat
        BY <1>1, <2>1, <2>5 DEF Records
    <2>. QED  BY <2>1, <2>3, <2>4, <2>5, <2>6 DEF Grows, Behind
<1>. QED  BY <1>2, <1>4, <1>5 DEF FilesCancelled

\* What a move does to the file.
LEMMA FileMoves ==
    ASSUME RunInv, FileInv, NEW r \in Ids, Moves(r)
    PROVE  /\ Grows(trail.disk[r], trail'.disk[r]) \/ Begins(r) \/ Approves(r)
           /\ Behind(trail'.mem[r], trail'.disk[r])
<1>1. /\ IInv /\ Filed(r) /\ GuiFiled
      /\ trail \in Trails /\ r \in Actions /\ trail.mem[r] \in Records /\ trail.disk[r] \in Records
    BY DEF RunInv, IInv, TypeOK, Trails, Ids, FileInv
<1>2. CASE FilesStay(r) \/ FilesCancelled(r) \/ FilesTorn(r)
    BY <1>1, <1>2, CancellationGrows
<1>3. CASE Admitted(r) \/ OnlyBegun(r)
    <2>1. PICK c \in Calls :
            /\ trail'.disk[r] = Started(StartDecision(c))
            /\ entry'[r] = NewEntry(c) \/ AnswerStays(r)
            /\ trail'.mem[r] \in {trail.mem[r], trail'.disk[r]}
        BY <1>3 DEF Admitted, OnlyBegun
    <2>2. /\ ~Tracked(entry[r]) /\ verdict'[r] = verdict[r] /\ trail.disk[r] = NoRecord
        BY <1>1, <1>3 DEF Admitted, OnlyBegun, AnswerStays, Filed
    <2>3. trail'.disk[r].rev = 1
        BY <2>1 DEF Started
    <2>4. trail.mem[r].rev = 0 /\ trail.mem[r] = NoRecord
        BY <1>1, <2>2 DEF Filed, Behind, NoRecord, Records
    <2>5. Behind(trail'.mem[r], trail'.disk[r])
        BY <2>1, <2>3, <2>4 DEF Behind, NoRecord
    <2>. QED  BY <2>1, <2>2, <2>5 DEF Begins
<1>4. CASE Recorded(r)
    <2>1. CASE /\ gui.stage = "approve" /\ CanApprove(trail, r)
               /\ trail'.disk[r] = Decided(trail.mem[r], "approved")
               /\ trail'.mem[r] \in {trail.mem[r], trail'.disk[r]}
        <3>1. PICK next \in Records : next = Decided(trail.mem[r], "approved")
            BY <1>1, RecordTypes DEF Decisions
        <3>2. next.rev = trail.mem[r].rev + 1 /\ next.decision = "approved"
            BY <3>1 DEF Decided
        <3>3. trail.mem[r] = trail.disk[r] /\ next.rev > trail.disk[r].rev
            BY <1>1, <2>1, <3>1, <3>2, SuccessorOf DEF CanApprove, Filed
        <3>4. trail.disk[r].decision = "pending"
            BY <2>1, <3>3 DEF CanApprove
        <3>5. Approves(r)
            BY <1>4, <2>1, <3>1, <3>2, <3>3, <3>4 DEF Recorded, Approves
        <3>6. trail.mem[r].rev \in Nat /\ next.rev \in Nat
            BY <1>1 DEF Records
        <3>. QED  BY <2>1, <3>1, <3>2, <3>3, <3>4, <3>5, <3>6 DEF Behind
    <2>2. CASE /\ gui.stage = "running" /\ Accepts(trail, r, OutcomeRecord)
               /\ trail'.disk[r] = OutcomeRecord /\ trail'.mem[r] = trail.mem[r]
        <3>1. gui.rec \in Records /\ Behind(gui.rec, trail.disk[r])
            BY <1>1, <1>4, <2>2 DEF GuiFiled, Recorded, IInv, TypeOK, GuiStates
        <3>2. PICK next \in Records : next = OutcomeRecord
            BY <3>1, RecordTypes DEF OutcomeRecord, Statuses
        <3>3. next.rev = gui.rec.rev + 1 /\ next.decision = gui.rec.decision
            BY <3>2 DEF OutcomeRecord, Finished
        <3>4. gui.rec = trail.disk[r] /\ next.rev > trail.disk[r].rev
            BY <1>1, <2>2, <3>1, <3>2, <3>3, SuccessorOf
        <3>5. trail.disk[r].decision # "none"
            BY <1>4 DEF FileInv, Filed, Recorded, RunInv, Untouched
        <3>6. Grows(trail.disk[r], trail'.disk[r])
            BY <2>2, <3>2, <3>3, <3>4, <3>5 DEF Grows
        <3>7. trail.mem[r].rev \in Nat /\ trail.disk[r].rev \in Nat /\ next.rev \in Nat
            BY <1>1, <3>2 DEF Records
        <3>. QED  BY <1>1, <2>2, <3>2, <3>3, <3>4, <3>6, <3>7 DEF Behind, Filed
    <2>3. CASE /\ gui.stage = "saved"
               /\ trail'.disk[r] = trail.disk[r] /\ trail'.mem[r] = OutcomeRecord
        BY <1>1, <1>4, <2>3 DEF GuiFiled, Recorded, Grows
    <2>. QED  BY <1>4, <2>1, <2>2, <2>3 DEF Recorded
<1>5. Unshown(r) => FilesStay(r) \/ FilesCancelled(r) \/ FilesTorn(r)
    BY DEF Unshown
<1>. QED  BY <1>2, <1>3, <1>4, <1>5 DEF Moves, TableMoves, Still, Withdrawn, Forgotten, Taken, Undenied, Finishes

\* What is behind a file stays behind it.
LEMMA BehindKept ==
    ASSUME RunInv, FileInv, RunInv', NEW r \in Ids, Moves(r), gui.req = r, NEW rec \in Records,
           Behind(rec, trail.disk[r])
    PROVE  Behind(rec, trail'.disk[r])
<1>1. ~Begins(r)
    BY DEF RunInv, Untouched, Begins, NoRecord
<1>2. rec.rev \in Nat /\ trail.disk[r].rev \in Nat /\ trail'.disk[r].rev \in Nat
    BY DEF RunInv, IInv, TypeOK, Trails, Records, Ids
<1>. QED  BY <1>1, <1>2, FileMoves DEF Grows, Approves, Behind

LEMMA FiledKept ==
    ASSUME RunInv, FileInv, NEW r \in Ids, Moves(r)
    PROVE  Filed(r)'
<1>1. /\ IInv /\ Filed(r) /\ entry[r] \in Entries
      /\ trail.disk[r] \in Records /\ trail.disk[r].rev \in Nat
    BY DEF RunInv, IInv, TypeOK, Trails, Ids, FileInv, Records
<1>2. Grows(trail.disk[r], trail'.disk[r]) \/ Begins(r) \/ Approves(r)
    BY FileMoves
<1>3. \A c \in Calls : /\ StartDecision(c) = "not_required" <=> c \in Reads
                       /\ StartDecision(c) # "none"
                       /\ Started(StartDecision(c)).rev = 1
                       /\ Started(StartDecision(c)).decision = StartDecision(c)
    BY DEF StartDecision, Started
<1>4. Behind(trail'.mem[r], trail'.disk[r])
    BY FileMoves
<1>5. CASE Begins(r)
    <2>1. PICK c \in Calls :
            trail'.disk[r] = Started(StartDecision(c)) /\ (entry'[r] = NewEntry(c) \/ AnswerStays(r))
        BY <1>5 DEF Begins
    <2>2. Tracked(entry'[r]) => entry'[r].call = c
        BY <1>5, <2>1 DEF Begins, AnswerStays, NewEntry
    <2>. QED  BY <1>3, <1>4, <2>1, <2>2 DEF Filed
<1>6. CASE Grows(trail.disk[r], trail'.disk[r]) \/ Approves(r)
    <2>1. trail'.disk[r].decision = "not_required" <=> trail.disk[r].decision = "not_required"
        BY <1>6 DEF Grows, Approves
    <2>2. Admitted(r) => Begins(r)
        BY <1>1 DEF Admitted, Begins, Filed
    <2>3. Tracked(entry'[r]) /\ ~Begins(r) => Tracked(entry[r]) /\ entry'[r].call = entry[r].call
        BY <1>1, <2>2, MovesKeepCall DEF NoEntry, Tracked
    <2>4. /\ trail'.disk[r].rev = 0 => trail'.disk[r] = trail.disk[r]
          /\ trail'.disk[r].rev # 0 => trail'.disk[r].decision # "none"
        BY <1>1, <1>6 DEF Grows, Approves, Filed
    <2>. QED  BY <1>1, <1>4, <1>5, <2>1, <2>3, <2>4 DEF Filed
<1>. QED  BY <1>2, <1>5, <1>6

LEMMA GuiFiledKept ==
    ASSUME RetentionSuffices, RunInv, FileInv, RunInv', GuiTurns \/ GuiStep, \A r \in Ids : Moves(r)
    PROVE  GuiFiled'
<1>1. IInv /\ GuiFiled /\ gui \in GuiStates
    BY DEF RunInv, FileInv, IInv, TypeOK
<1>2. CASE gui' = IdleGui
    BY <1>2 DEF GuiFiled, IdleGui
<1>3. CASE GuiTakes
    <2>1. PICK q \in Ids, s \in {"present", "approve", "execute"} :
            Live(entry[q]) /\ gui' = AtStage(s, q, entry[q].call)
        BY <1>3 DEF GuiTakes
    <2>2. gui'.stage = s /\ gui'.req = q /\ gui'.call = entry[q].call
        BY <2>1 DEF AtStage, IdleGui
    <2>3. ~Begins(q)
        BY <2>1 DEF Begins, Live
    <2>4. trail'.disk[q].decision = "not_required" <=> entry[q].call \in Reads
        BY <2>1, <2>3, FileMoves DEF FileInv, Filed, Grows, Approves, Live
    <2>. QED  BY <2>2, <2>4 DEF GuiFiled
<1>4. CASE gui'.req = gui.req /\ gui'.call = gui.call /\ gui.stage # "idle"
    <2>1. PICK q \in Ids : q = gui.req
        BY <1>1, <1>4 DEF IInv, TypeOK
    <2>2. ~Begins(q) /\ Moves(q)
        BY <2>1 DEF RunInv, Untouched, Begins, NoRecord
    <2>3. trail'.disk[q].decision = "not_required" <=> gui.call \in Reads
        BY <1>1, <1>4, <2>1, <2>2, FileMoves DEF GuiFiled, Grows, Approves
    <2>4. CASE gui' = gui
        <3>1. gui.stage = "running" => Behind(gui.rec, trail'.disk[q])
            BY <1>1, <2>1, <2>2, BehindKept DEF GuiFiled, GuiStates
        <3>2. PICK rec \in Records : rec = OutcomeRecord
            BY <1>1, RecordTypes DEF OutcomeRecord, GuiStates, Statuses
        <3>3. gui.stage = "saved" => Behind(OutcomeRecord, trail'.disk[q])
            BY <1>1, <2>1, <2>2, <3>2, BehindKept DEF GuiFiled
        <3>. QED  BY <2>1, <2>3, <2>4, <3>1, <3>3 DEF GuiFiled, OutcomeRecord
    <2>5. CASE Execute
        <3>1. gui'.stage = "running" /\ gui'.rec = trail.mem[q] /\ trail' = trail
            BY <1>1, <2>1, <2>5 DEF Execute, GuiStates
        <3>2. Behind(gui'.rec, trail'.disk[q])
            BY <3>1 DEF FileInv, Filed
        <3>. QED  BY <1>4, <2>1, <2>3, <3>1, <3>2 DEF GuiFiled
    <2>6. CASE SaveOutcome /\ gui'.stage = "saved"
        <3>1. trail' = Stored(trail, q, OutcomeRecord) /\ OutcomeRecord' = OutcomeRecord
            BY <1>1, <2>1, <2>6 DEF SaveOutcome, Failing, OutcomeRecord, GuiStates
        <3>2. PICK rec \in Records : rec = OutcomeRecord /\ rec.rev > 0 /\ rec.rev \in Nat
            BY <1>1, RecordsCount DEF OutcomeRecord, GuiStates, Statuses, Records
        <3>3. trail'.disk[q] = rec
            BY <1>1, <3>1, <3>2, StoredAt DEF RunInv
        <3>4. Behind(rec, rec)
            BY <3>2 DEF Behind
        <3>. QED  BY <1>4, <2>1, <2>3, <2>6, <3>1, <3>2, <3>3, <3>4 DEF GuiFiled
    <2>7. CASE gui'.stage \notin {"running", "saved"}
        BY <1>4, <2>1, <2>3, <2>7 DEF GuiFiled
    <2>8. CASE GuiStep /\ ~Execute /\ ~(SaveOutcome /\ gui'.stage = "saved")
        <3>1. CASE SaveOutcome
            <4>1. gui' = Failing
                BY <1>1, <2>8, <3>1 DEF SaveOutcome, GuiStates
            <4>. QED  BY <1>1, <2>7, <4>1 DEF Failing, GuiStates
        <3>2. CASE ~SaveOutcome
            <4>1. CASE PresentShown \/ GuiAnswers
                BY <1>2, <4>1 DEF PresentShown, GuiAnswers
            <4>2. CASE PresentRaises
                BY <1>1, <1>2, <2>7, <4>2 DEF PresentRaises, GuiStates
            <4>3. CASE ApproveAudit \/ ExecuteRefused
                BY <1>1, <2>7, <4>3 DEF ApproveAudit, ExecuteRefused, Failing, GuiStates
            <4>4. CASE RememberOutcome
                BY <1>1, <2>7, <4>4 DEF RememberOutcome, GuiStates
            <4>. QED  BY <2>8, <3>2, <4>1, <4>2, <4>3, <4>4 DEF GuiStep
        <3>. QED  BY <3>1, <3>2
    <2>. QED  BY <1>2, <1>3, <2>4, <2>5, <2>6, <2>8 DEF GuiTurns
<1>5. gui.stage = "idle" => gui = IdleGui /\ ~GuiStep
    BY DEF RunInv, Accounted, IdleIsFree, GuiStep, PresentShown, PresentRaises, ApproveAudit,
           ExecuteRefused, Execute, SaveOutcome, RememberOutcome, GuiAnswers
<1>6. gui = IdleGui => gui.stage = "idle"
    BY DEF IdleGui
<1>. QED  BY <1>1, <1>2, <1>3, <1>4, <1>5, <1>6, StepTakes DEF GuiTurns

\* The two layers together.
LEMMA FileInvKept ==
    ASSUME RetentionSuffices, RunInv, FileInv, [Next]_vars
    PROVE  FileInv'
<1>1. RunInv' /\ (GuiTurns \/ GuiStep) /\ \A r \in Ids : Moves(r)
    BY RunInvKept
<1>2. \A r \in Ids : Filed(r)'
    BY <1>1, FiledKept
<1>3. GuiFiled'
    BY <1>1, GuiFiledKept
<1>. QED  BY <1>2, <1>3 DEF FileInv

LEMMA InitFiles == Init => FileInv
<1>. SUFFICES ASSUME Init PROVE FileInv
    OBVIOUS
<1>1. \A r \in Ids : /\ trail.mem[r] = NoRecord /\ trail.disk[r] = NoRecord
                     /\ ~Tracked(entry[r])
    BY DEF Init, EmptyTrail, NoEntry, Tracked, Ids
<1>2. Behind(NoRecord, NoRecord)
    BY DEF Behind, NoRecord
<1>3. \A r \in Ids : Filed(r)
    BY <1>1, <1>2 DEF Filed, NoRecord
<1>4. GuiFiled
    BY DEF Init, GuiFiled, IdleGui
<1>. QED  BY <1>3, <1>4 DEF FileInv

\* The audit files agree with the table, under whatever failures of the disk.
THEOREM FileInvariant == RetentionSuffices /\ Spec => [](RunInv /\ FileInv)
<1>. SUFFICES ASSUME RetentionSuffices PROVE Spec => [](RunInv /\ FileInv)
    OBVIOUS
<1>1. RunInv /\ FileInv /\ [Next]_vars => (RunInv /\ FileInv)'
    BY RunInvKept, FileInvKept
<1>. QED  BY InitRuns, InitFiles, <1>1, PTL DEF Spec

(* The handler starts from a pending record, so that the outcome is saved over  *)
(* nothing else.                                                                *)
RunsPending == gui.stage = "running" => gui.rec.status = "pending"

Advances(old, new) ==
    \/ new = old
    \/ /\ new.rev > old.rev
       /\ old.status \in {"none", "pending"}
       /\ old.decision \notin {"none", "pending"} => new.decision = old.decision

LEMMA RunsPendingKept ==
    ASSUME RunInv, RunsPending, GuiTurns \/ GuiStep
    PROVE  RunsPending'
<1>1. CASE GuiTurns
    BY <1>1 DEF GuiTurns, GuiTakes, AtStage, IdleGui, RunsPending
<1>2. gui \in GuiStates
    BY DEF RunInv, IInv, TypeOK
<1>3. CASE Execute
    <2>1. PICK o \in OutcomesOf(gui.call) :
            gui' = [gui EXCEPT !.stage = "running", !.rec = trail.mem[gui.req], !.outcome = o]
        BY <1>3 DEF Execute
    <2>2. gui'.rec = trail.mem[gui.req]
        BY <1>2, <2>1 DEF GuiStates
    <2>. QED  BY <1>3, <2>2 DEF Execute, MayRun, RunsPending
<1>4. CASE GuiStep /\ ~Execute
    <2>1. \/ gui' = IdleGui \/ gui' = Failing
          \/ \E s \in Stages \ {"running"} : gui' = [gui EXCEPT !.stage = s]
          \/ \E a \in {"completed", "failed"} : gui' = [gui EXCEPT !.stage = "answer", !.answer = a]
        BY <1>4 DEF GuiStep, PresentShown, PresentRaises, ApproveAudit, ExecuteRefused,
                SaveOutcome, RememberOutcome, GuiAnswers, Failing, Stages
    <2>2. CASE gui' = IdleGui
        BY <2>2 DEF IdleGui, RunsPending
    <2>3. CASE gui' = Failing
        BY <1>2, <2>3 DEF Failing, GuiStates, RunsPending
    <2>4. ASSUME NEW s \in Stages \ {"running"}, gui' = [gui EXCEPT !.stage = s]
          PROVE  RunsPending'
        BY <1>2, <2>4 DEF GuiStates, RunsPending
    <2>5. ASSUME NEW a \in {"completed", "failed"},
                 gui' = [gui EXCEPT !.stage = "answer", !.answer = a]
          PROVE  RunsPending'
        BY <1>2, <2>5 DEF GuiStates, RunsPending
    <2>. QED  BY <2>1, <2>2, <2>3, <2>4, <2>5
<1>. QED  BY <1>1, <1>3, <1>4

\* A cancellation is written over a pending record only.
LEMMA CancellationAdvances ==
    ASSUME IInv, NEW r \in Ids, Filed(r), FilesStay(r) \/ FilesCancelled(r) \/ FilesTorn(r)
    PROVE  Advances(trail.disk[r], trail'.disk[r])
<1>1. trail \in Trails /\ r \in Actions /\ trail.mem[r] \in Records /\ trail.disk[r] \in Records
    BY DEF IInv, TypeOK, Trails, Ids
<1>2. CASE trail'.disk[r] = trail.disk[r]
    BY <1>2 DEF Advances
<1>3. CASE trail'.disk[r] # trail.disk[r]
    <2>1. PICK d \in {"cancelled", "denied"} :
            /\ NeedsCancel(trail, r) /\ CanCancel(trail, r)
            /\ \/ trail'.disk[r] = CancelledRecord(trail.mem[r], d)
               \/ \E n \in 1..Len(CancelSaves(trail.mem[r], d)) :
                    trail'.disk[r] = CancelSaves(trail.mem[r], d)[n]
        BY <1>3 DEF FilesStay, FilesCancelled, FilesTorn
    <2>2. d \in Decisions
        BY DEF Decisions
    <2>3. Accepts(trail, r, CancelSaves(trail.mem[r], "cancelled")[1])
        BY <2>1 DEF CanCancel
    <2>4. trail.mem[r] = trail.disk[r]
        BY <1>1, <2>3, FirstCancelSave, SuccessorOf DEF Filed, Decisions
    <2>5. /\ trail'.disk[r].rev > trail.mem[r].rev
          /\ trail'.disk[r].decision =
                IF trail.mem[r].decision = "pending" THEN d ELSE trail.mem[r].decision
        BY <1>1, <2>1, <2>2, FirstCancelSave, CancelSavesCount
    <2>. QED  BY <2>1, <2>4, <2>5 DEF NeedsCancel, Advances
<1>. QED  BY <1>2, <1>3

LEMMA MovesAdvance ==
    ASSUME RunInv, FileInv, RunsPending, NEW r \in Ids, Moves(r)
    PROVE  Advances(trail.disk[r], trail'.disk[r])
<1>1. /\ IInv /\ Filed(r) /\ GuiFiled
      /\ trail \in Trails /\ r \in Actions /\ trail.mem[r] \in Records /\ trail.disk[r] \in Records
    BY DEF RunInv, IInv, TypeOK, Trails, Ids, FileInv
<1>2. CASE FilesStay(r) \/ FilesCancelled(r) \/ FilesTorn(r)
    BY <1>1, <1>2, CancellationAdvances
<1>3. CASE Admitted(r) \/ OnlyBegun(r)
    <2>1. PICK c \in Calls : trail'.disk[r] = Started(StartDecision(c)) /\ trail.disk[r] = NoRecord
        BY <1>1, <1>3 DEF Admitted, OnlyBegun, Filed
    <2>. QED  BY <2>1 DEF Started, NoRecord, Advances
<1>4. CASE Recorded(r)
    <2>1. CASE /\ gui.stage = "approve" /\ CanApprove(trail, r)
               /\ trail'.disk[r] = Decided(trail.mem[r], "approved")
        <3>1. PICK next \in Records : next = Decided(trail.mem[r], "approved")
            BY <1>1, RecordTypes DEF Decisions
        <3>2. next.rev = trail.mem[r].rev + 1
            BY <3>1 DEF Decided
        <3>3. trail.mem[r] = trail.disk[r] /\ next.rev > trail.disk[r].rev
            BY <1>1, <2>1, <3>1, <3>2, SuccessorOf DEF CanApprove, Filed
        <3>. QED  BY <2>1, <3>1, <3>3 DEF CanApprove, Advances
    <2>2. CASE /\ gui.stage = "running" /\ Accepts(trail, r, OutcomeRecord)
               /\ trail'.disk[r] = OutcomeRecord
        <3>1. gui.rec \in Records /\ Behind(gui.rec, trail.disk[r]) /\ gui.rec.status = "pending"
            BY <1>1, <1>4, <2>2 DEF GuiFiled, Recorded, IInv, TypeOK, GuiStates, RunsPending
        <3>2. PICK next \in Records : next = OutcomeRecord
            BY <3>1, RecordTypes DEF OutcomeRecord, Statuses
        <3>3. next.rev = gui.rec.rev + 1 /\ next.decision = gui.rec.decision
            BY <3>2 DEF OutcomeRecord, Finished
        <3>4. gui.rec = trail.disk[r] /\ next.rev > trail.disk[r].rev
            BY <1>1, <2>2, <3>1, <3>2, <3>3, SuccessorOf
        <3>. QED  BY <2>2, <3>1, <3>2, <3>3, <3>4 DEF Advances
    <2>. QED  BY <1>4, <2>1, <2>2 DEF Recorded, Advances
<1>5. Unshown(r) => FilesStay(r) \/ FilesCancelled(r) \/ FilesTorn(r)
    BY DEF Unshown
<1>. QED  BY <1>2, <1>3, <1>4, <1>5 DEF Moves, TableMoves, Still, Withdrawn, Forgotten, Taken, Undenied, Finishes

\* An audit file only advances, and none disappears while retention has room for all:
\* a final status and a decision are never rewritten, whatever saves fail half way.
THEOREM FilesAdvance == RetentionSuffices /\ Spec => AuditFilesAdvance
<1>. SUFFICES ASSUME RetentionSuffices PROVE Spec => AuditFilesAdvance
    OBVIOUS
<1>1. Init => RunInv /\ FileInv /\ RunsPending
    BY InitRuns, InitFiles DEF Init, IdleGui, RunsPending
<1>2. RunInv /\ FileInv /\ RunsPending /\ [Next]_vars => (RunInv /\ FileInv /\ RunsPending)'
    BY RunInvKept, FileInvKept, RunsPendingKept
<1>3. ASSUME RunInv, FileInv, RunsPending, [Next]_vars
      PROVE  \A r \in Ids : Advances(trail.disk[r], trail'.disk[r])
    BY <1>3, RunInvKept, MovesAdvance
<1>4. RunInv /\ FileInv /\ RunsPending /\ [Next]_vars
        => [\A r \in Ids :
                LET old == trail.disk[r]
                    new == trail'.disk[r]
                IN  new # old =>
                    \/ /\ new.rev > old.rev
                       /\ old.status \in {"none", "pending"}
                       /\ old.decision \notin {"none", "pending"} => new.decision = old.decision
                    \/ new = NoRecord /\ Len(trail.log) = MaxActions]_trail
    BY <1>3 DEF Advances
<1>. QED  BY <1>1, <1>2, <1>4, PTL DEF Spec, AuditFilesAdvance

-------------------------------------------------------------------------------
(* The dispatcher implements the contract of requests *)

KindOf(file) ==
    IF file.decision = "none" THEN "unknown"
    ELSE IF file.decision = "not_required" THEN "read" ELSE "mutation"

\* An accepted request is of the kind of its content.
LEMMA KindTold ==
    ASSUME RunInv, FileInv, NEW r \in Ids, Tracked(entry[r]) \/ (gui.req = r /\ gui.stage # "idle")
    PROVE  /\ KindOf(trail.disk[r]) \in {"read", "mutation"}
           /\ Tracked(entry[r]) =>
                (KindOf(trail.disk[r]) = "read" <=> entry[r].call \in Reads)
           /\ gui.req = r /\ gui.stage # "idle" =>
                (KindOf(trail.disk[r]) = "read" <=> gui.call \in Reads)
<1>1. trail.disk[r].rev # 0
    BY DEF RunInv, Untouched
<1>. QED  BY <1>1 DEF FileInv, Filed, GuiFiled, KindOf

\* The contract's view of a request, field by field.
View(k, a, n, v) == [kind |-> k, approved |-> a, runs |-> n, verdict |-> v]

LEMMA ViewBefore ==
    ASSUME NEW r \in Ids, NEW a \in BOOLEAN, trail.disk[r].decision = "approved" <=> a
    PROVE  ContractView(r) = View(KindOf(trail.disk[r]), a, runs[r], verdict[r])
<1>1. (trail.disk[r].decision = "approved") = a
    BY Zenon
<1>. QED  BY <1>1, Zenon DEF ContractView, KindOf, View

LEMMA ViewAfter ==
    ASSUME NEW r \in Ids, NEW a \in BOOLEAN, trail'.disk[r].decision = "approved" <=> a
    PROVE  ContractView(r)' = View(KindOf(trail'.disk[r]), a, runs'[r], verdict'[r])
<1>1. (trail'.disk[r].decision = "approved") = a
    BY Zenon
<1>. QED  BY <1>1, Zenon DEF ContractView, KindOf, View

\* The steps of the contract, field by field.
LEMMA Fields ==
    ASSUME NEW k, NEW n, NEW v
    PROVE  \A a : /\ View(k, a, n, v).kind = k /\ View(k, a, n, v).approved = a
                  /\ View(k, a, n, v).runs = n /\ View(k, a, n, v).verdict = v
<1>. TAKE a
<1>1. View(k, a, n, v).kind = k
    BY DEF View
<1>2. View(k, a, n, v).approved = a
    BY DEF View
<1>3. View(k, a, n, v).runs = n /\ View(k, a, n, v).verdict = v
    BY DEF View
<1>. QED  BY <1>1, <1>2, <1>3, Zenon

LEMMA AcceptedStep ==
    ASSUME NEW k \in {"read", "mutation"}
    PROVE  Contract!RequestStep(View("unknown", FALSE, 0, "none"), View(k, FALSE, 0, "none"))
<1>1. View("unknown", FALSE, 0, "none") = Contract!Unknown
    BY Zenon DEF Contract!Unknown, View
<1>2. \A a : View(k, a, 0, "none") = [View("unknown", a, 0, "none") EXCEPT !.kind = k]
    BY ONLY DEF View
<1>3. View(k, FALSE, 0, "none") = [Contract!Unknown EXCEPT !.kind = k]
    BY <1>1, <1>2, Zenon
<1>4. k \in Contract!Kinds
    BY DEF Contract!Kinds
<1>5. Contract!Accept(View("unknown", FALSE, 0, "none"), View(k, FALSE, 0, "none"))
    BY <1>1, <1>3, <1>4, Zenon DEF Contract!Accept
<1>. QED  BY <1>5, Zenon DEF Contract!RequestStep

LEMMA ApprovedStep ==
    ASSUME NEW n
    PROVE  Contract!RequestStep(View("mutation", FALSE, n, "none"), View("mutation", TRUE, n, "none"))
<1>1. \A a, b : View("mutation", b, n, "none") = [View("mutation", a, n, "none") EXCEPT !.approved = b]
    BY ONLY DEF View
<1>2. \A a : /\ View("mutation", a, n, "none").kind = "mutation"
              /\ View("mutation", a, n, "none").approved = a
              /\ View("mutation", a, n, "none").verdict = "none"
    BY Fields
<1>. QED  BY <1>1, <1>2, Zenon DEF Contract!RequestStep, Contract!Approve

LEMMA StartedStep ==
    ASSUME NEW k \in {"read", "mutation"}, NEW a, NEW v, k = "mutation" => a /\ v = "none"
    PROVE  Contract!RequestStep(View(k, a, 0, v), View(k, a, 1, v))
<1>1. \A b : View(k, b, 1, v) = [View(k, b, 0, v) EXCEPT !.runs = 1]
    BY ONLY DEF View
<1>2. \A b : /\ View(k, b, 0, v).kind = k /\ View(k, b, 0, v).approved = b
              /\ View(k, b, 0, v).runs = 0 /\ View(k, b, 0, v).verdict = v
    BY Fields
<1>3. k # "unknown"
    OBVIOUS
<1>. QED  BY <1>1, <1>2, <1>3, Zenon DEF Contract!RequestStep, Contract!Run

LEMMA AnsweredStep ==
    ASSUME NEW k \in {"read", "mutation"}, NEW a, NEW n, NEW v \in FinalAnswers,
           v = "completed" => n = 1, k = "mutation" /\ v \in {"cancelled", "expired"} => n = 0
    PROVE  Contract!RequestStep(View(k, a, n, "none"), View(k, a, n, v))
<1>1. \A b : View(k, b, n, v) = [View(k, b, n, "none") EXCEPT !.verdict = v]
    BY ONLY DEF View
<1>2. \A b : /\ View(k, b, n, "none").kind = k /\ View(k, b, n, "none").runs = n
              /\ View(k, b, n, "none").verdict = "none"
    BY Fields
<1>3. k # "unknown" /\ v \in Contract!FinalVerdicts
    BY DEF FinalAnswers, Contract!FinalVerdicts
<1>4. Contract!Answer(View(k, a, n, "none"), View(k, a, n, v))
    BY <1>1, <1>2, <1>3, Zenon DEF Contract!Answer
<1>. QED  BY <1>4, Zenon DEF Contract!RequestStep

\* The views of the contract before and after a step that starts no handler of r.
LEMMA SettledContract ==
    ASSUME RunInv, FileInv, RunInv', NEW r \in Ids, Moves(r), runs'[r] = runs[r]
    PROVE  Contract!RequestStep(ContractView(r), ContractView(r)')
<1>1. PICK k, n, v : k = KindOf(trail.disk[r]) /\ n = runs[r] /\ v = verdict[r]
    OBVIOUS
<1>2. ASSUME NEW a \in BOOLEAN, trail.disk[r].decision = "approved" <=> a
      PROVE  ContractView(r) = View(k, a, n, v)
    BY <1>1, <1>2, ViewBefore
<1>3. ASSUME NEW a \in BOOLEAN, trail'.disk[r].decision = "approved" <=> a
      PROVE  ContractView(r)' = View(KindOf(trail'.disk[r]), a, n, verdict'[r])
    BY <1>1, <1>3, ViewAfter
<1>4. CASE Begins(r)
    <2>1. n = 0 /\ v = "none" /\ verdict'[r] = "none"
        BY <1>1, <1>4 DEF RunInv, Untouched, Begins, NoRecord
    <2>2. k = "unknown" /\ trail.disk[r].decision # "approved"
        BY <1>1, <1>4 DEF Begins, NoRecord, KindOf
    <2>3. KindOf(trail'.disk[r]) \in {"read", "mutation"} /\ trail'.disk[r].decision # "approved"
        BY <1>4 DEF Begins, Started, StartDecision, KindOf
    <2>4. ContractView(r) = View("unknown", FALSE, 0, "none")
        BY <1>2, <2>1, <2>2
    <2>5. ContractView(r)' = View(KindOf(trail'.disk[r]), FALSE, 0, "none")
        BY <1>3, <2>1, <2>3
    <2>6. Contract!RequestStep(View("unknown", FALSE, 0, "none"),
                               View(KindOf(trail'.disk[r]), FALSE, 0, "none"))
        BY <2>3, AcceptedStep
    <2>. QED  BY <2>4, <2>5, <2>6, Zenon
<1>5. CASE Approves(r)
    <2>1. verdict'[r] = v /\ k = "mutation" /\ KindOf(trail'.disk[r]) = "mutation"
        BY <1>1, <1>5 DEF Approves, AnswerStays, KindOf
    <2>2. trail'.disk[r].decision = "approved" /\ trail.disk[r].decision # "approved"
        BY <1>5 DEF Approves
    <2>3. gui.call \in Mutations
        <3>1. gui.call \in Calls
            BY <1>5 DEF Approves, RunInv, IInv, TypeOK
        <3>2. gui.call \notin Reads
            BY <1>1, <1>5, <2>1, KindTold DEF Approves
        <3>. QED  BY <3>1, <3>2 DEF Calls
    <2>4. Live(entry[r])
        BY <1>5, <2>3 DEF Approves, RunInv, IInv, MutationKeepsSlot, Working, Live, Tracked,
                          Terminal, FinalAnswers
    <2>5. v = "none"
        BY <1>1, <2>4 DEF RunInv, Judgement, Live
    <2>6. ContractView(r) = View(k, FALSE, n, v)
        BY <1>2, <2>2
    <2>7. ContractView(r)' = View(k, TRUE, n, v)
        BY <1>3, <2>1, <2>2
    <2>8. Contract!RequestStep(View("mutation", FALSE, n, "none"), View("mutation", TRUE, n, "none"))
        BY ApprovedStep
    <2>. QED  BY <2>1, <2>5, <2>6, <2>7, <2>8, Zenon
<1>6. CASE Grows(trail.disk[r], trail'.disk[r])
    <2>1. KindOf(trail'.disk[r]) = k
        BY <1>1, <1>6 DEF Grows, KindOf
    <2>7. PICK a \in BOOLEAN : /\ ContractView(r) = View(k, a, n, v)
                               /\ ContractView(r)' = View(k, a, n, verdict'[r])
        <3>1. CASE trail.disk[r].decision = "approved" /\ trail'.disk[r].decision = "approved"
            BY <1>2, <1>3, <2>1, <3>1
        <3>2. CASE trail.disk[r].decision # "approved" /\ trail'.disk[r].decision # "approved"
            BY <1>2, <1>3, <2>1, <3>2
        <3>. QED  BY <1>6, <3>1, <3>2 DEF Grows
    <2>2. CASE verdict'[r] = v
        BY <2>2, <2>7 DEF Contract!RequestStep
    <2>3. ASSUME Withdrawn(r) \/ Finishes(r), k \in {"read", "mutation"},
                 verdict'[r] \in FinalAnswers, verdict'[r] = "completed" => n = 1,
                 k = "mutation" /\ verdict'[r] \in {"cancelled", "expired"} => n = 0
          PROVE  Contract!RequestStep(ContractView(r), ContractView(r)')
        <3>1. v = "none"
            BY <1>1, <2>3 DEF Withdrawn, Finishes, RunInv, Judgement, Live
        <3>2. Contract!RequestStep(View(k, a, n, "none"), View(k, a, n, verdict'[r]))
            BY <2>3, AnsweredStep
        <3>. QED  BY <2>7, <3>1, <3>2, Zenon
    <2>4. CASE Finishes(r)
        <3>1. gui.answer \in {"completed", "failed"} /\ verdict'[r] = gui.answer
            BY <2>4 DEF Finishes, RunInv, IInv, TypeOK, GuiStates, AnswerIsKnown
        <3>2. gui.answer = "completed" => n = 1
            BY <1>1, <2>4 DEF Finishes, RunInv, GuiRuns
        <3>3. k \in {"read", "mutation"}
            <4>1. Tracked(entry[r])
                BY <2>4 DEF Finishes, Live
            <4>. QED  BY <1>1, <4>1, KindTold
        <3>. QED  BY <2>3, <2>4, <3>1, <3>2, <3>3 DEF FinalAnswers
    <2>5. CASE Withdrawn(r)
        <3>1. verdict'[r] \in {"expired", "cancelled"} /\ Live(entry[r])
            BY <2>5 DEF Withdrawn
        <3>2. k \in {"read", "mutation"} /\ (k = "read" <=> entry[r].call \in Reads)
            BY <1>1, <3>1, KindTold DEF Live
        <3>3. ASSUME k = "mutation", n # 0
              PROVE  FALSE
            <4>1. entry[r].executing /\ gui.stage \in Advanced /\ gui.req = r
                BY <1>1, <3>1, <3>3 DEF RunInv, RunsOnce, Accounted, ExecutedByGui
            <4>2. entry[r].call \notin Reads /\ entry[r].answer # "none"
                BY <3>2, <3>3 DEF RunInv, IInv, TableOK, EntryOK
            <4>3. GuiInteractive
                BY <2>5, <4>1, <4>2 DEF Withdrawn
            <4>. QED  BY <3>1, <4>1, <4>2, <4>3 DEF GuiInteractive, Advanced, RunInv, CallKept, Live
        <3>. QED  BY <2>3, <2>5, <3>1, <3>2, <3>3 DEF FinalAnswers
    <2>6. Withdrawn(r) \/ Finishes(r) \/ verdict'[r] = v
        BY <1>1 DEF Moves, TableMoves, Still, Forgotten, Admitted, OnlyBegun, Taken, Undenied, Unshown,
                    Recorded, AnswerStays
    <2>. QED  BY <2>2, <2>4, <2>5, <2>6
<1>. QED  BY <1>4, <1>5, <1>6, FileMoves

\* The start of a handler is a step "Run" of the contract.
LEMMA RunContract ==
    ASSUME RunInv, FileInv, Execute, NEW r \in Ids, gui.req = r, runs[r] = 0, runs'[r] = 1
    PROVE  Contract!RequestStep(ContractView(r), ContractView(r)')
<1>1. PICK k, v : k = KindOf(trail.disk[r]) /\ v = verdict[r]
    OBVIOUS
<1>2. /\ trail' = trail /\ verdict' = verdict
    BY DEF Execute
<1>3. ASSUME NEW a \in BOOLEAN, trail.disk[r].decision = "approved" <=> a
      PROVE  /\ ContractView(r) = View(k, a, 0, v)
             /\ ContractView(r)' = View(k, a, 1, v)
    BY <1>1, <1>2, <1>3, ViewBefore, ViewAfter
<1>4. k \in {"read", "mutation"} /\ (k = "read" <=> gui.call \in Reads) /\ gui.call \in Calls
    BY <1>1, KindTold DEF Execute, RunInv, IInv, TypeOK
<1>5. ASSUME k = "mutation"
      PROVE  trail.disk[r].decision = "approved" /\ v = "none"
    <2>1. gui.call \in Mutations /\ gui.call \notin Reads
        BY <1>4, <1>5 DEF Calls
    <2>2. trail.mem[r].decision = "approved"
        BY <2>1 DEF Execute, MayRun
    <2>3. trail.disk[r].decision = "approved"
        BY <2>2 DEF FileInv, Filed, Behind
    <2>4. Live(entry[r])
        BY <2>1 DEF Execute, RunInv, IInv, MutationKeepsSlot, Working, Live, Tracked,
                    Terminal, FinalAnswers
    <2>. QED  BY <1>1, <2>3, <2>4 DEF RunInv, Judgement, Live
<1>6. CASE trail.disk[r].decision = "approved"
    <2>1. /\ ContractView(r) = View(k, TRUE, 0, v)
          /\ ContractView(r)' = View(k, TRUE, 1, v)
        BY <1>3, <1>6
    <2>2. Contract!RequestStep(View(k, TRUE, 0, v), View(k, TRUE, 1, v))
        BY <1>4, <1>5, StartedStep
    <2>. QED  BY <2>1, <2>2, Zenon
<1>7. CASE trail.disk[r].decision # "approved"
    <2>1. /\ ContractView(r) = View(k, FALSE, 0, v)
          /\ ContractView(r)' = View(k, FALSE, 1, v)
        BY <1>3, <1>7
    <2>2. Contract!RequestStep(View(k, FALSE, 0, v), View(k, FALSE, 1, v))
        BY <1>4, <1>5, <1>7, StartedStep
    <2>. QED  BY <2>1, <2>2, Zenon
<1>. QED  BY <1>6, <1>7

\* Every behaviour of the dispatcher, its clients, the user, the clock and failing
\* disks is one the contract of requests allows.
THEOREM ImplementsContract == RetentionSuffices /\ Spec => KeepsContract
<1>. SUFFICES ASSUME RetentionSuffices PROVE Spec => KeepsContract
    OBVIOUS
<1>. DEFINE view == [r \in Ids |-> ContractView(r)]
<1>1. Init => Contract!Init
    <2>. SUFFICES ASSUME Init, NEW r \in Ids PROVE ContractView(r) = Contract!Unknown
        BY DEF Contract!Init
    <2>1. trail.disk[r] = NoRecord /\ runs[r] = 0 /\ verdict[r] = "none"
        BY DEF Init, EmptyTrail, Ids
    <2>2. KindOf(trail.disk[r]) = "unknown" /\ trail.disk[r].decision # "approved"
        BY <2>1 DEF NoRecord, KindOf
    <2>3. ContractView(r) = View("unknown", FALSE, 0, "none")
        BY <2>1, <2>2, ViewBefore
    <2>. QED  BY <2>3, Zenon DEF Contract!Unknown, View
<1>2. ASSUME RunInv, FileInv, RunInv', [Next]_vars
      PROVE  [Contract!Next]_view
    <2>1. (GuiTurns \/ GuiStep) /\ \A r \in Ids : Moves(r)
        BY <1>2, RunInvKept
    <2>2. ASSUME NEW r \in Ids
          PROVE  Contract!RequestStep(ContractView(r), ContractView(r)')
        <3>1. runs \in [Ids -> 0..2]
            BY <1>2 DEF RunInv, IInv, TypeOK
        <3>2. CASE runs'[r] = runs[r]
            BY <1>2, <2>1, <3>2, SettledContract
        <3>3. CASE runs'[r] # runs[r]
            <4>1. gui.req = r /\ runs[r] = 0 /\ runs'[r] = 1 /\ gui.stage = "execute" /\ gui'.stage = "running"
                BY <1>2, <2>1, <3>1, <3>3, StepRuns
            <4>2. Execute
                BY <2>1, <3>3, <4>1
                   DEF GuiTurns, GuiStep, PresentShown, PresentRaises, ApproveAudit, ExecuteRefused,
                       SaveOutcome, RememberOutcome, GuiAnswers, ghosts
            <4>. QED  BY <1>2, <4>1, <4>2, RunContract
        <3>. QED  BY <3>2, <3>3
    <2>3. ASSUME NEW r \in Ids
          PROVE  ContractView(r)' \in Contract!RequestStates
        <3>1. runs'[r] \in {0, 1} /\ verdict'[r] \in {"none"} \cup FinalAnswers
            BY <1>2 DEF RunInv, RunsOnce, IInv, TypeOK
        <3>. QED  BY <3>1 DEF ContractView, Contract!RequestStates, Contract!Kinds,
                              Contract!FinalVerdicts, FinalAnswers
    <2>. QED  BY <2>2, <2>3 DEF Contract!Next
<1>3. RunInv /\ FileInv /\ RunInv' /\ [Next]_vars => [Contract!Next]_view
    BY <1>2
<1>. QED  BY <1>1, <1>3, FileInvariant, PTL DEF Spec, KeepsContract, Contract!Spec

=============================================================================
