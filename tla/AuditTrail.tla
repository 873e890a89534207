------------------------------ MODULE AuditTrail ------------------------------
(* The audit lifecycle shared by the bridge dispatcher and the plan service:  *)
(* audit/service.py keeps the current record of every action in memory,       *)
(* audit/recorder.py derives the next record from it, and audit/store.py       *)
(* writes one file per action, refuses any update that does not advance the   *)
(* stored revision by one, and prunes the oldest actions after each write.    *)
(*                                                                            *)
(* A trail is a value, so that the module that owns it can apply several      *)
(* operations, or only some of them, within one of its own atomic steps:      *)
(*   mem[a]   the record AuditService._records holds for action a             *)
(*   disk[a]  the record in the file <action>.json, NoRecord when no file     *)
(*   log      the actions that have a file, oldest start first                *)
(* A record keeps what later operations read: its revision, the approval      *)
(* decision and the status.  Texts, arguments, digests and times are left     *)
(* out; two different updates of an action always differ in a time, so the    *)
(* store's "same record" shortcut never applies to them.                      *)
EXTENDS Naturals, Sequences

CONSTANTS
    Actions,       \* the action identifiers
    MaxActions     \* AuditRetentionPolicy.max_actions_per_session

ASSUME RetentionAssumption == MaxActions \in Nat \ {0}

Decisions == {"none", "not_required", "pending", "approved", "denied", "cancelled"}

Statuses == {"none", "pending", "completed", "failed", "cancelled", "rolled_back"}

Records == [rev : Nat, decision : Decisions, status : Statuses]

NoRecord == [rev |-> 0, decision |-> "none", status |-> "none"]

Trails == [mem : [Actions -> Records], disk : [Actions -> Records], log : Seq(Actions)]

EmptyTrail ==
    [mem |-> [a \in Actions |-> NoRecord],
     disk |-> [a \in Actions |-> NoRecord],
     log |-> <<>>]

(***************************** recorder: next records ************************)

Started(decision) == [rev |-> 1, decision |-> decision, status |-> "pending"]

Decided(rec, decision) ==
    [rev |-> rec.rev + 1, decision |-> decision, status |-> rec.status]

Finished(rec, status) ==
    [rev |-> rec.rev + 1, decision |-> rec.decision, status |-> status]

(********************************** store ************************************)

\* Seeded bug: save() without the revision check.
AcceptsAny(t, a, rec) == a \in Actions

\* AuditStore.save takes a record only when it is the successor of the stored
\* one; with no file the revision must be one, the successor of NoRecord's.
Accepts(t, a, rec) == rec.rev = t.disk[a].rev + 1

\* Retention keeps the MaxActions actions that started last and deletes the
\* older files whatever their status.
Excess(t) == IF Len(t.log) > MaxActions THEN Len(t.log) - MaxActions ELSE 0

Pruned(t) ==
    [t EXCEPT
        !.disk = [a \in Actions |->
                    IF \E i \in 1..Excess(t) : t.log[i] = a THEN NoRecord ELSE t.disk[a]],
        !.log = SubSeq(t.log, Excess(t) + 1, Len(t.log))]

\* One accepted save: the file is replaced atomically, then retention runs.
Stored(t, a, rec) ==
    Pruned([t EXCEPT
        !.disk = [t.disk EXCEPT ![a] = rec],
        !.log = IF t.disk[a] = NoRecord THEN Append(t.log, a) ELSE t.log])

\* AuditService._replace: the service remembers the record it saved.
Remembered(t, a, rec) == [t EXCEPT !.mem = [t.mem EXCEPT ![a] = rec]]

(********************************* service ***********************************)

CanBegin(t, a) == Accepts(t, a, Started("pending"))

\* begin_tool / begin_plan: the start record goes to disk, then to memory.
Begun(t, a, decision) ==
    Remembered(Stored(t, a, Started(decision)), a, Started(decision))

\* The start record reached the disk but the save still raised (retention, which
\* runs last, failed): the service does not remember the action.
BegunTorn(t, a, decision) == Stored(t, a, Started(decision))

CanApprove(t, a) ==
    /\ t.mem[a].decision = "pending"
    /\ t.mem[a].status = "pending"
    /\ Accepts(t, a, Decided(t.mem[a], "approved"))

Approved(t, a) ==
    LET rec == Decided(t.mem[a], "approved")
    IN  Remembered(Stored(t, a, rec), a, rec)

ApprovedTorn(t, a) == Stored(t, a, Decided(t.mem[a], "approved"))

\* cancel() returns at once when the remembered record is terminal.
NeedsCancel(t, a) == t.mem[a].status = "pending"

\* The records cancel() saves, in order: an undecided action is first given its
\* decision, then finished; a read has no decision to record.
CancelSaves(rec, decision) ==
    IF rec.decision = "pending"
    THEN <<Decided(rec, decision), Finished(Decided(rec, decision), "cancelled")>>
    ELSE <<Finished(rec, "cancelled")>>

CanCancel(t, a) == NeedsCancel(t, a) => Accepts(t, a, CancelSaves(t.mem[a], "cancelled")[1])

CancelledRecord(rec, decision) ==
    LET saves == CancelSaves(rec, decision) IN saves[Len(saves)]

\* cancel() of every action of S that still needs it, all of them succeeding.
\* None of these saves creates a file, so none of them prunes.
Cancelled(t, S, decision) ==
    LET final == [a \in Actions |->
                    IF a \in S /\ NeedsCancel(t, a)
                    THEN CancelledRecord(t.mem[a], decision)
                    ELSE t.mem[a]]
    IN  [t EXCEPT
            !.mem = final,
            !.disk = [a \in Actions |->
                        IF a \in S /\ NeedsCancel(t, a) THEN final[a] ELSE t.disk[a]]]

\* cancel() of a raised after n of its saves reached the disk; memory keeps the
\* pending record.
CancelTorn(t, a, decision, n) ==
    IF n = 0 THEN t
    ELSE [t EXCEPT !.disk = [t.disk EXCEPT ![a] = CancelSaves(t.mem[a], decision)[n]]]

\* The ways cancel() of a can raise: the store refuses the revision (nothing
\* written), or, where disks may fail, after any number of its saves.
TornCancels(t, a, decision, mayFail) ==
    {CancelTorn(t, a, decision, n) :
        n \in IF ~CanCancel(t, a) THEN {0}
              ELSE IF mayFail /\ NeedsCancel(t, a)
                   THEN 0..Len(CancelSaves(t.mem[a], decision))
                   ELSE {}}

=============================================================================
