--------------------------- MODULE AuditTrailProofs ---------------------------
(* What the operations of AuditTrail preserve, for the modules that own a     *)
(* trail: each one turns a trail into a trail.                                *)
EXTENDS AuditTrail, FiniteSetTheorems, WellFoundedInduction, TLAPS

\* The initial trail of a session.
LEMMA EmptyTrailType == EmptyTrail \in Trails
BY DEF EmptyTrail, Trails, NoRecord, Records, Decisions, Statuses

\* The recorder derives records from records.
LEMMA RecordTypes ==
    /\ NoRecord \in Records
    /\ \A d \in Decisions : Started(d) \in Records
    /\ \A rec \in Records, d \in Decisions : Decided(rec, d) \in Records
    /\ \A rec \in Records, s \in Statuses : Finished(rec, s) \in Records
<1>1. NoRecord \in Records
    BY DEF NoRecord, Records, Decisions, Statuses
<1>2. \A d \in Decisions : Started(d) \in Records
    BY DEF Started, Records, Statuses
<1>3. \A rec \in Records, d \in Decisions : Decided(rec, d) \in Records
    BY DEF Decided, Records
<1>4. \A rec \in Records, s \in Statuses : Finished(rec, s) \in Records
    BY DEF Finished, Records
<1>. QED  BY <1>1, <1>2, <1>3, <1>4

\* Retention deletes files; what it keeps is a trail.
LEMMA PrunedType ==
    ASSUME NEW t \in Trails
    PROVE  Pruned(t) \in Trails
<1>1. Excess(t) \in 0..Len(t.log)
    BY RetentionAssumption DEF Excess, Trails
<1>2. SubSeq(t.log, Excess(t) + 1, Len(t.log)) \in Seq(Actions)
    BY <1>1 DEF Trails
<1>3. [a \in Actions |-> IF \E i \in 1..Excess(t) : t.log[i] = a
                         THEN NoRecord ELSE t.disk[a]] \in [Actions -> Records]
    BY RecordTypes DEF Trails
<1>. QED  BY <1>2, <1>3 DEF Pruned, Trails

\* A save of one record, with the retention that follows it.
LEMMA StoredType ==
    ASSUME NEW t \in Trails, NEW a \in Actions, NEW rec \in Records
    PROVE  Stored(t, a, rec) \in Trails
<1>. DEFINE saved == [t EXCEPT !.disk = [t.disk EXCEPT ![a] = rec],
                               !.log = IF t.disk[a] = NoRecord
                                       THEN Append(t.log, a) ELSE t.log]
<1>1. [t.disk EXCEPT ![a] = rec] \in [Actions -> Records]
    BY DEF Trails
<1>2. Append(t.log, a) \in Seq(Actions) /\ t.log \in Seq(Actions)
    BY DEF Trails
<1>3. saved \in Trails
    BY <1>1, <1>2 DEF Trails
<1>. QED  BY <1>3, PrunedType DEF Stored

\* The service replaces the record it remembers.
LEMMA RememberedType ==
    ASSUME NEW t \in Trails, NEW a \in Actions, NEW rec \in Records
    PROVE  Remembered(t, a, rec) \in Trails
BY DEF Remembered, Trails

\* The start of an action.
LEMMA BegunType ==
    ASSUME NEW t \in Trails, NEW a \in Actions, NEW d \in Decisions
    PROVE  Begun(t, a, d) \in Trails /\ BegunTorn(t, a, d) \in Trails
BY RecordTypes, StoredType, RememberedType DEF Begun, BegunTorn

\* The approval of an action.
LEMMA ApprovedType ==
    ASSUME NEW t \in Trails, NEW a \in Actions
    PROVE  Approved(t, a) \in Trails /\ ApprovedTorn(t, a) \in Trails
<1>1. t.mem[a] \in Records
    BY DEF Trails
<1>2. Decided(t.mem[a], "approved") \in Records
    BY <1>1, RecordTypes DEF Decisions
<1>. QED  BY <1>2, StoredType, RememberedType DEF Approved, ApprovedTorn

\* The records cancel() writes, and the last of them.
LEMMA CancelRecordTypes ==
    ASSUME NEW rec \in Records, NEW d \in Decisions
    PROVE  /\ CancelSaves(rec, d) \in Seq(Records)
           /\ Len(CancelSaves(rec, d)) \in {1, 2}
           /\ CancelledRecord(rec, d) \in Records
<1>1. Decided(rec, d) \in Records
    BY RecordTypes
<1>2. /\ Finished(rec, "cancelled") \in Records
      /\ Finished(Decided(rec, d), "cancelled") \in Records
    BY <1>1, RecordTypes DEF Statuses
<1>. QED  BY <1>1, <1>2 DEF CancelSaves, CancelledRecord

\* Cancelling a set of actions.
LEMMA CancelledType ==
    ASSUME NEW t \in Trails, NEW S, NEW d \in Decisions
    PROVE  Cancelled(t, S, d) \in Trails
<1>1. \A a \in Actions : CancelledRecord(t.mem[a], d) \in Records
    BY CancelRecordTypes DEF Trails
<1>. QED  BY <1>1 DEF Cancelled, Trails

\* Every way a cancellation can be cut short.
LEMMA TornCancelsType ==
    ASSUME NEW t \in Trails, NEW a \in Actions, NEW d \in Decisions, NEW mayFail,
           NEW u \in TornCancels(t, a, d, mayFail)
    PROVE  u \in Trails
<1>1. t.mem[a] \in Records
    BY DEF Trails
<1>2. PICK n \in 0..Len(CancelSaves(t.mem[a], d)) : u = CancelTorn(t, a, d, n)
    BY <1>1, CancelRecordTypes DEF TornCancels
<1>3. n # 0 => CancelSaves(t.mem[a], d)[n] \in Records
    BY <1>1, <1>2, CancelRecordTypes
<1>. QED  BY <1>2, <1>3 DEF CancelTorn, Trails

-------------------------------------------------------------------------------
(* The trails an owner can have *)

\* The trails an owner can have: no more files than retention allows, and an action
\* with a decision has been saved before.
Sound(t) ==
    /\ t \in Trails
    /\ Len(t.log) <= MaxActions
    /\ \A a \in Actions : t.mem[a].decision # "none" => t.mem[a].rev > 0

\* Retention bounds the files, and one accepted save after another never prunes the
\* file of an action that has one.
LEMMA StoredSound ==
    ASSUME NEW t, Sound(t), NEW a \in Actions, NEW rec \in Records
    PROVE  /\ Sound(Stored(t, a, rec))
           /\ t.disk[a] # NoRecord => Stored(t, a, rec).disk[a] = rec
<1>. DEFINE saved == [t EXCEPT !.disk = [t.disk EXCEPT ![a] = rec],
                               !.log = IF t.disk[a] = NoRecord
                                       THEN Append(t.log, a) ELSE t.log]
<1>1. Stored(t, a, rec) \in Trails
    BY StoredType DEF Sound
<1>2. /\ saved.mem = t.mem /\ saved.log \in Seq(Actions)
      /\ saved.disk = [t.disk EXCEPT ![a] = rec]
      /\ t.disk[a] # NoRecord => saved.log = t.log
    BY DEF Sound, Trails
<1>3. /\ Stored(t, a, rec).mem = t.mem
      /\ Stored(t, a, rec).log = SubSeq(saved.log, Excess(saved) + 1, Len(saved.log))
      /\ Stored(t, a, rec).disk =
            [b \in Actions |-> IF \E i \in 1..Excess(saved) : saved.log[i] = b
                               THEN NoRecord ELSE saved.disk[b]]
    BY <1>2 DEF Stored, Pruned, Sound, Trails
<1>. HIDE DEF saved
<1>4. /\ Len(saved.log) \in Nat /\ Excess(saved) \in Nat
      /\ Len(saved.log) - Excess(saved) <= MaxActions
      /\ Excess(saved) <= Len(saved.log)
    BY <1>2, RetentionAssumption DEF Excess
<1>5. Len(Stored(t, a, rec).log) <= MaxActions
    <2>1. Len(SubSeq(saved.log, Excess(saved) + 1, Len(saved.log)))
            = Len(saved.log) - Excess(saved)
        BY <1>2, <1>4
    <2>. QED  BY <1>3, <1>4, <2>1
<1>6. ASSUME t.disk[a] # NoRecord
      PROVE  Stored(t, a, rec).disk[a] = rec
    <2>1. Excess(saved) = 0
        BY <1>2, <1>4, <1>6, RetentionAssumption DEF Excess, Sound
    <2>. QED  BY <1>2, <1>3, <2>1 DEF Sound, Trails
<1>. QED  BY <1>1, <1>3, <1>5, <1>6 DEF Sound

LEMMA RememberedSound ==
    ASSUME NEW t, Sound(t), NEW a \in Actions, NEW rec \in Records,
           rec.decision # "none" => rec.rev > 0
    PROVE  /\ Sound(Remembered(t, a, rec))
           /\ Remembered(t, a, rec).disk = t.disk
           /\ Remembered(t, a, rec).mem = [t.mem EXCEPT ![a] = rec]
BY RememberedType DEF Sound, Remembered, Trails

\* The recorder only counts revisions up.
LEMMA RecordsCount ==
    ASSUME NEW rec \in Records
    PROVE  /\ \A d \in Decisions : Decided(rec, d) \in Records /\ Decided(rec, d).rev > 0
           /\ \A s \in Statuses : Finished(rec, s) \in Records /\ Finished(rec, s).rev > 0
           /\ \A d \in Decisions : CancelledRecord(rec, d) \in Records /\ CancelledRecord(rec, d).rev > 0
<1>1. \A d \in Decisions : Decided(rec, d) \in Records /\ Decided(rec, d).rev > 0
    BY RecordTypes DEF Decided, Records
<1>2. \A r \in Records, s \in Statuses : Finished(r, s) \in Records /\ Finished(r, s).rev > 0
    BY RecordTypes DEF Finished, Records
<1>3. ASSUME NEW d \in Decisions
      PROVE  CancelledRecord(rec, d) \in {Finished(rec, "cancelled"),
                                          Finished(Decided(rec, d), "cancelled")}
    BY DEF CancelledRecord, CancelSaves
<1>. QED  BY <1>1, <1>2, <1>3 DEF Statuses

LEMMA BegunSound ==
    ASSUME NEW t, Sound(t), NEW a \in Actions, NEW d \in Decisions
    PROVE  Sound(Begun(t, a, d))
<1>1. Started(d) \in Records /\ Started(d).rev > 0
    BY RecordTypes DEF Started
<1>. QED  BY <1>1, StoredSound, RememberedSound DEF Begun

\* The approval of an action that may be approved is on disk.
LEMMA ApprovedSound ==
    ASSUME NEW t, Sound(t), NEW a \in Actions
    PROVE  /\ Sound(Approved(t, a)) /\ Sound(ApprovedTorn(t, a))
           /\ CanApprove(t, a) => Approved(t, a).disk[a].decision = "approved"
<1>. DEFINE rec == Decided(t.mem[a], "approved")
<1>1. t.mem[a] \in Records /\ t.disk[a] \in Records
    BY DEF Sound, Trails
<1>2. rec \in Records /\ rec.rev > 0 /\ rec.decision = "approved" /\ rec.rev = t.mem[a].rev + 1
    BY <1>1, RecordsCount DEF Decisions, Decided
<1>3. ASSUME CanApprove(t, a)
      PROVE  t.disk[a] # NoRecord
    <2>1. t.mem[a].rev > 0 /\ t.mem[a].rev + 1 = t.disk[a].rev + 1
        BY <1>3 DEF CanApprove, Accepts, Decided, Sound
    <2>. QED  BY <1>1, <2>1 DEF NoRecord, Records
<1>4. Approved(t, a) = Remembered(Stored(t, a, rec), a, rec)
    BY DEF Approved
<1>5. ApprovedTorn(t, a) = Stored(t, a, rec)
    BY DEF ApprovedTorn
<1>. HIDE DEF rec
<1>6. /\ Sound(Stored(t, a, rec))
      /\ CanApprove(t, a) => Stored(t, a, rec).disk[a] = rec
    BY <1>2, <1>3, StoredSound
<1>7. Sound(Approved(t, a)) /\ Approved(t, a).disk = Stored(t, a, rec).disk
    <2>1. /\ Sound(Remembered(Stored(t, a, rec), a, rec))
          /\ Remembered(Stored(t, a, rec), a, rec).disk = Stored(t, a, rec).disk
        BY <1>2, <1>6, RememberedSound
    <2>. QED  BY <1>4, <2>1
<1>. QED  BY <1>2, <1>5, <1>6, <1>7

LEMMA CancelledSound ==
    ASSUME NEW t, Sound(t), NEW a \in Actions, NEW d \in Decisions, NEW mayFail
    PROVE  /\ Sound(Cancelled(t, {a}, d))
           /\ \A u \in TornCancels(t, a, d, mayFail) : Sound(u)
<1>1. \A b \in Actions : t.mem[b] \in Records
    BY DEF Sound, Trails
<1>2. Sound(Cancelled(t, {a}, d))
    <2>1. Cancelled(t, {a}, d) \in Trails
        BY CancelledType DEF Sound
    <2>2. Cancelled(t, {a}, d).log = t.log
        BY DEF Cancelled, Sound, Trails
    <2>3. \A b \in Actions :
            \/ Cancelled(t, {a}, d).mem[b] = t.mem[b]
            \/ Cancelled(t, {a}, d).mem[b].rev > 0
        BY <1>1, RecordsCount DEF Cancelled, Sound, Trails
    <2>. QED  BY <2>1, <2>2, <2>3 DEF Sound
<1>3. ASSUME NEW u \in TornCancels(t, a, d, mayFail)
      PROVE  Sound(u)
    <2>1. u \in Trails
        BY TornCancelsType DEF Sound
    <2>2. u.mem = t.mem /\ u.log = t.log
        BY DEF TornCancels, CancelTorn, Sound, Trails
    <2>. QED  BY <2>1, <2>2 DEF Sound
<1>. QED  BY <1>2, <1>3

-------------------------------------------------------------------------------
(* With room for every file *)

\* Retention never has a file to delete.
RetentionSuffices == IsFiniteSet(Actions) /\ Cardinality(Actions) <= MaxActions

\* Every file is listed once.
Listed(t) ==
    /\ \A i, j \in 1..Len(t.log) : t.log[i] = t.log[j] => i = j
    /\ \A i \in 1..Len(t.log) : t.disk[t.log[i]] # NoRecord

\* What the service remembers is what is on disk.
InStep(t) == t.mem = t.disk /\ Listed(t)

\* With room for every file an accepted save prunes nothing.
LEMMA StoredListed ==
    ASSUME RetentionSuffices, NEW t, t \in Trails, Listed(t),
           NEW a \in Actions, NEW rec \in Records, rec.rev > 0
    PROVE  LET u == Stored(t, a, rec)
           IN  Listed(u) /\ u.mem = t.mem /\ u.disk = [t.disk EXCEPT ![a] = rec]
<1>. DEFINE saved == [t EXCEPT !.disk = [t.disk EXCEPT ![a] = rec],
                               !.log = IF t.disk[a] = NoRecord
                                       THEN Append(t.log, a) ELSE t.log]
            u == Stored(t, a, rec)
<1>1. rec # NoRecord
    BY DEF NoRecord
<1>2. PICK log : log = IF t.disk[a] = NoRecord THEN Append(t.log, a) ELSE t.log
    OBVIOUS
<1>3. PICK disk : disk = [t.disk EXCEPT ![a] = rec]
    OBVIOUS
<1>4. t.log \in Seq(Actions) /\ t.disk \in [Actions -> Records]
    BY DEF Trails
<1>5. /\ log \in Seq(Actions)
      /\ \A i, j \in 1..Len(log) : log[i] = log[j] => i = j
      /\ \A i \in 1..Len(log) : disk[log[i]] # NoRecord
    <2>1. CASE t.disk[a] # NoRecord
        BY <1>1, <1>2, <1>3, <1>4, <2>1 DEF Listed
    <2>2. CASE t.disk[a] = NoRecord
        <3>1. /\ log \in Seq(Actions) /\ Len(log) = Len(t.log) + 1 /\ Len(t.log) \in Nat
              /\ \A i \in 1..Len(t.log) : log[i] = t.log[i]
              /\ log[Len(t.log) + 1] = a
            BY <1>2, <1>4, <2>2
        <3>2. \A i \in 1..Len(t.log) : log[i] # a /\ log[i] \in Actions
            BY <1>4, <2>2, <3>1 DEF Listed
        <3>3. \A i, j \in 1..Len(log) : log[i] = log[j] => i = j
            <4>. SUFFICES ASSUME NEW i \in 1..Len(log), NEW j \in 1..Len(log), log[i] = log[j]
                          PROVE  i = j
                OBVIOUS
            <4>1. CASE i \in 1..Len(t.log) /\ j \in 1..Len(t.log)
                BY <3>1, <4>1 DEF Listed
            <4>2. CASE ~(i \in 1..Len(t.log) /\ j \in 1..Len(t.log))
                BY <3>1, <3>2, <4>2
            <4>. QED  BY <4>1, <4>2
        <3>4. \A i \in 1..Len(log) : disk[log[i]] # NoRecord
            <4>. TAKE i \in 1..Len(log)
            <4>1. CASE i \in 1..Len(t.log)
                BY <1>3, <1>4, <3>1, <3>2, <4>1 DEF Listed
            <4>2. CASE i = Len(t.log) + 1
                BY <1>1, <1>3, <1>4, <3>1, <4>2
            <4>. QED  BY <3>1, <4>1, <4>2
        <3>. QED  BY <3>1, <3>3, <3>4
    <2>. QED  BY <2>1, <2>2
<1>6. Len(log) \in Nat /\ Len(log) <= MaxActions
    <2>1. Len(log) \in Nat /\ log \in [1..Len(log) -> Actions]
        BY <1>5
    <2>2. IsFiniteSet(1..Len(log)) /\ Cardinality(1..Len(log)) = Len(log)
        BY <2>1, FS_Interval
    <2>3. IsFiniteSet(Actions) /\ Cardinality(Actions) \in Nat /\ Cardinality(Actions) <= MaxActions
        BY FS_CardinalityType DEF RetentionSuffices
    <2>4. ~(Cardinality(Actions) < Cardinality(1..Len(log)))
        BY <1>5, <2>1, <2>2, <2>3, FS_PigeonHole
    <2>. QED  BY <2>1, <2>2, <2>3, <2>4, RetentionAssumption
<1>7. saved.log = log /\ saved.disk = disk /\ saved.mem = t.mem
    BY <1>2, <1>3 DEF Trails
<1>8. Excess(saved) = 0
    BY <1>6, <1>7, RetentionAssumption DEF Excess
<1>9. Stored(t, a, rec) = [saved EXCEPT !.disk = disk, !.log = log]
    <2>1. [b \in Actions |-> IF \E i \in 1..Excess(saved) : saved.log[i] = b
                              THEN NoRecord ELSE saved.disk[b]] = disk
        BY <1>3, <1>4, <1>7, <1>8
    <2>2. SubSeq(saved.log, Excess(saved) + 1, Len(saved.log)) = log
        BY <1>5, <1>7, <1>8
    <2>3. Stored(t, a, rec) = Pruned(saved)
        BY DEF Stored
    <2>. HIDE DEF saved
    <2>. QED  BY <2>1, <2>2, <2>3 DEF Pruned
<1>10. u.log = log /\ u.disk = disk /\ u.mem = t.mem
    <2>1. saved \in Trails
        BY <1>2, <1>3, <1>4, <1>5, <1>7 DEF Trails
    <2>. HIDE DEF saved
    <2>. QED  BY <1>7, <1>9, <2>1 DEF Trails
<1>. HIDE DEF u
<1>11. Listed(u) /\ u.disk = disk
    BY <1>5, <1>10 DEF Listed
<1>. QED  BY <1>3, <1>10, <1>11 DEF u

\* A remembered save keeps the service in step with the disk.
LEMMA StoredInStep ==
    ASSUME RetentionSuffices, NEW t, t \in Trails, InStep(t),
           NEW a \in Actions, NEW rec \in Records, rec.rev > 0
    PROVE  LET u == Remembered(Stored(t, a, rec), a, rec)
           IN  InStep(u) /\ u.disk = [t.disk EXCEPT ![a] = rec]
<1>. DEFINE s == Stored(t, a, rec)
<1>1. Listed(s) /\ s.mem = t.mem /\ s.disk = [t.disk EXCEPT ![a] = rec] /\ s \in Trails
    BY StoredListed, StoredType DEF InStep
<1>. HIDE DEF s
<1>2. LET u == Remembered(s, a, rec)
      IN  u.log = s.log /\ u.disk = s.disk /\ u.mem = [s.mem EXCEPT ![a] = rec]
    BY <1>1 DEF Remembered, Trails
<1>. QED  BY <1>1, <1>2 DEF InStep, Listed, s

\* Cancelling a set of actions, action by action.
LEMMA CancelledAt ==
    ASSUME NEW t, t \in Trails, NEW S, NEW d \in Decisions
    PROVE  /\ \A a \in Actions :
                IF a \in S /\ NeedsCancel(t, a)
                THEN /\ Cancelled(t, S, d).mem[a] = CancelledRecord(t.mem[a], d)
                     /\ Cancelled(t, S, d).disk[a] = CancelledRecord(t.mem[a], d)
                ELSE /\ Cancelled(t, S, d).mem[a] = t.mem[a]
                     /\ Cancelled(t, S, d).disk[a] = t.disk[a]
           /\ Listed(t) => Listed(Cancelled(t, S, d))
<1>1. /\ Cancelled(t, S, d).log = t.log
      /\ \A a \in Actions :
            IF a \in S /\ NeedsCancel(t, a)
            THEN /\ Cancelled(t, S, d).mem[a] = CancelledRecord(t.mem[a], d)
                 /\ Cancelled(t, S, d).disk[a] = CancelledRecord(t.mem[a], d)
            ELSE /\ Cancelled(t, S, d).mem[a] = t.mem[a]
                 /\ Cancelled(t, S, d).disk[a] = t.disk[a]
    BY DEF Cancelled, Trails
<1>2. \A a \in Actions : CancelledRecord(t.mem[a], d) # NoRecord
    BY RecordsCount DEF Trails, NoRecord
<1>3. \A i \in 1..Len(t.log) : t.log[i] \in Actions
    BY DEF Trails
<1>. QED  BY <1>1, <1>2, <1>3 DEF Listed

\* The records of a cancellation count on from the remembered one.
LEMMA CancelSavesCount ==
    ASSUME NEW rec \in Records, NEW d \in Decisions, NEW n \in 1..Len(CancelSaves(rec, d))
    PROVE  /\ CancelSaves(rec, d)[n] \in Records
           /\ CancelSaves(rec, d)[n].rev > rec.rev
           /\ CancelSaves(rec, d)[n].decision = IF rec.decision = "pending" THEN d ELSE rec.decision
<1>1. CASE rec.decision = "pending"
    BY <1>1, RecordTypes DEF CancelSaves, Decided, Finished, Records, Statuses
<1>2. CASE rec.decision # "pending"
    BY <1>2, RecordTypes DEF CancelSaves, Decided, Finished, Records, Statuses
<1>. QED  BY <1>1, <1>2

\* A cancellation cut short: memory is as before, and so is the disk unless disks
\* may fail.
LEMMA TornAt ==
    ASSUME NEW t, t \in Trails, NEW a \in Actions, NEW d \in Decisions, NEW mayFail \in BOOLEAN,
           NEW u \in TornCancels(t, a, d, mayFail)
    PROVE  /\ u.mem = t.mem
           /\ \A b \in Actions \ {a} : u.disk[b] = t.disk[b]
           /\ \/ u.disk = t.disk /\ (mayFail \/ ~CanCancel(t, a))
              \/ /\ mayFail /\ NeedsCancel(t, a) /\ CanCancel(t, a)
                 /\ \E n \in 1..Len(CancelSaves(t.mem[a], d)) :
                        u.disk[a] = CancelSaves(t.mem[a], d)[n]
           /\ Listed(t) => Listed(u)
<1>1. PICK n \in 0..Len(CancelSaves(t.mem[a], d)) :
        /\ u = CancelTorn(t, a, d, n)
        /\ n # 0 => mayFail /\ NeedsCancel(t, a) /\ CanCancel(t, a)
        /\ mayFail \/ ~CanCancel(t, a)
    BY CancelRecordTypes DEF TornCancels, Trails
<1>2. CASE n = 0
    BY <1>1, <1>2 DEF CancelTorn
<1>3. CASE n # 0
    <2>1. t.mem[a] \in Records
        BY DEF Trails
    <2>2. n \in 1..Len(CancelSaves(t.mem[a], d))
        BY <1>1, <1>3, <2>1, CancelRecordTypes
    <2>3. CancelSaves(t.mem[a], d)[n] # NoRecord
        BY <2>1, <2>2, CancelSavesCount DEF NoRecord, Records
    <2>4. /\ u.mem = t.mem /\ u.log = t.log
          /\ u.disk = [t.disk EXCEPT ![a] = CancelSaves(t.mem[a], d)[n]]
        BY <1>1, <1>3 DEF CancelTorn, Trails
    <2>5. \A b \in Actions \ {a} : u.disk[b] = t.disk[b]
        BY <2>4
    <2>6. u.disk[a] = CancelSaves(t.mem[a], d)[n]
        BY <2>4 DEF Trails
    <2>7. Listed(t) => Listed(u)
        BY <2>3, <2>4, <2>5, <2>6 DEF Listed, Trails
    <2>. QED  BY <1>1, <1>3, <2>2, <2>4, <2>5, <2>6, <2>7
<1>. QED  BY <1>2, <1>3

-------------------------------------------------------------------------------
(* The queues of the modules that own a trail *)

\* A set of places has a first one.
LEMMA FirstPlace ==
    ASSUME NEW W, W \subseteq Nat, W # {}
    PROVE  \E first \in W : \A j \in W : first <= j
<1>1. PICK first \in W : \A j \in W : <<j, first>> \notin OpToRel(<, Nat)
    BY NatLessThanWellFounded, WFMin
<1>2. \A j \in Nat : j < first => <<j, first>> \in OpToRel(<, Nat)
    BY DEF OpToRel
<1>3. \A j \in W : ~(j < first)
    BY <1>1, <1>2
<1>. QED  BY <1>3

=============================================================================
