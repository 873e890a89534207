--------------------------- MODULE CadTransactions ---------------------------
(***************************************************************************)
(* The transaction core of the FreeCAD adapter: every tool that changes a  *)
(* document does so inside one FreeCAD transaction, and cad.undo tells the *)
(* audit trail which transaction it took back by comparing the document's  *)
(* undo count with the counts remembered at each commit.                   *)
(*                                                                         *)
(* What FreeCAD itself does (the undo and redo stacks of each document,    *)
(* the user's own edits, undos and document switches) is modelled from the *)
(* way the adapter uses it.  The content of a document is a number that no *)
(* two changes share.  Everything here runs on the GUI thread, so a tool   *)
(* call is one step.                                                       *)
(***************************************************************************)
EXTENDS Naturals, Sequences

CONSTANTS
    Documents,   \* document names
    NoDocument,  \* no document is active
    MaxUndo,     \* length at which FreeCAD drops the oldest undo entry
    MaxChanges   \* bound: changes made to documents in a behaviour

ASSUME TransactionsAssumption ==
    /\ NoDocument \notin Documents
    /\ MaxUndo \in Nat \ {0}
    /\ MaxChanges \in Nat

VARIABLES
    opened,      \* documents that are open
    active,      \* App.ActiveDocument
    content,     \* [Documents -> Nat]; 0 is the empty document
    undoable,    \* [Documents -> Seq([tx, before])]; tx 0: the user's own
    redoable,    \* [Documents -> Seq([tx, after])]
    audited,     \* _audited_transactions: Seq([tx, count])
    changes,     \* changes made so far; the last content and transaction
    trace,       \* what the last call's transaction trace says
    disturbed    \* history: something the remembered counts cannot see

txVars == <<opened, active, content, undoable, redoable, audited, changes,
            trace, disturbed>>

Outcomes == {"UNKNOWN", "COMMITTED", "ABORTED", "UNDONE"}

\* A trace names a transaction (0 when it names none that was committed here),
\* and, for the properties, says which entry an undo really took back.
Trace(tx, outcome, took) == [tx |-> tx, outcome |-> outcome, took |-> took]

UndoCount(d) == Len(undoable[d])
Entry(tx, before) == [tx |-> tx, before |-> before]

\* A committed transaction: the oldest entry goes when the stack is full, and
\* nothing can be redone any more.
Pushed(stack, entry) ==
    LET longer == Append(stack, entry)
    IN  IF Len(longer) > MaxUndo THEN Tail(longer) ELSE longer

Overflows(d) == UndoCount(d) = MaxUndo

Commit(d, tx) ==
    /\ changes < MaxChanges
    /\ changes' = changes + 1
    /\ content' = [content EXCEPT ![d] = changes + 1]
    /\ undoable' = [undoable EXCEPT ![d] = Pushed(@, Entry(tx, content[d]))]
    /\ redoable' = [redoable EXCEPT ![d] = <<>>]

\* An abort restores the content; what could be redone is lost when the
\* operation had already touched the document.
Abort(d) ==
    /\ redoable' \in {redoable, [redoable EXCEPT ![d] = <<>>]}
    /\ UNCHANGED <<content, undoable, changes>>

RememberAudited(d, tx) ==
    audited' = Append(audited, [tx |-> tx, count |-> Len(undoable'[d])])

\* Counts of different documents, of a full stack or of entries the user
\* undid are not comparable; the history variable records the first of these,
\* and a change of the user's on top of an undo that raised (Stale).
Disturbs(d) ==
    \/ Overflows(d)
    \/ \E other \in Documents \ {d} : UndoCount(other) > 0

\* A transaction is remembered that is on no stack any more; one more entry
\* brings the count back to it.
Stale(d) == \E k \in DOMAIN audited : audited[k].count > UndoCount(d)

-----------------------------------------------------------------------------
(* Tools that change the active document *)

TransactionCommits(d) ==
    /\ Commit(d, changes + 1)
    /\ RememberAudited(d, changes + 1)
    /\ trace' = Trace(changes + 1, "COMMITTED", 0)
    /\ disturbed' = (disturbed \/ Disturbs(d))

\* The operation raises, the shape is invalid or the document does not validate.
TransactionAborts(d) ==
    /\ Abort(d)
    /\ trace' = Trace(0, "ABORTED", 0)
    /\ UNCHANGED <<audited, disturbed>>

\* _run_transaction refuses to work without an active document.
RunTransaction ==
    /\ active # NoDocument
    /\ TransactionCommits(active) \/ TransactionAborts(active)
    /\ UNCHANGED <<opened, active>>

\* _create_validated_shape opens a document of its own when there is none, and
\* does so outside the transaction.
CreateValidatedShape ==
    \E d \in Documents :
        /\ IF active = NoDocument THEN d \notin opened ELSE d = active
        /\ opened' = opened \cup {d}
        /\ active' = d
        /\ TransactionCommits(d) \/ TransactionAborts(d)

-----------------------------------------------------------------------------
(* cad.undo *)

\* Counts above the document's are of transactions that are no longer there.
KeptAudited(count) ==
    LET top == CHOOSE n \in 0..Len(audited) :
                   /\ n = 0 \/ audited[n].count <= count
                   /\ \A k \in (n + 1)..Len(audited) : audited[k].count > count
    IN  SubSeq(audited, 1, top)

\* Seeded bug: the newest remembered transaction is taken whatever its count.
MatchesAny(kept, count) == kept # <<>>

Matches(kept, count) == kept # <<>> /\ kept[Len(kept)].count = count

TakeBack(d) ==
    LET entry == undoable[d][UndoCount(d)]
    IN  /\ content' = [content EXCEPT ![d] = entry.before]
        /\ undoable' = [undoable EXCEPT ![d] = SubSeq(@, 1, Len(@) - 1)]
        /\ redoable' = [redoable EXCEPT ![d] =
                           Append(@, [tx |-> entry.tx, after |-> content[d]])]

Undo ==
    /\ active # NoDocument
    /\ UndoCount(active) > 0
    /\ LET count == UndoCount(active)
           kept == KeptAudited(count)
           took == undoable[active][count].tx
       IN  /\ TakeBack(active)
           /\ IF Matches(kept, count)
              THEN /\ audited' = SubSeq(kept, 1, Len(kept) - 1)
                   /\ trace' = Trace(kept[Len(kept)].tx, "UNDONE", took)
              ELSE /\ audited' = kept
                   /\ trace' = Trace(0, "UNDONE", took)
    /\ UNCHANGED <<opened, active, changes, disturbed>>

\* document.undo() raises, or the recompute after it does: the call fails, and
\* the transaction stays remembered although it may be off the stack.
UndoRaises ==
    /\ active # NoDocument
    /\ UndoCount(active) > 0
    /\ audited' = KeptAudited(UndoCount(active))
    /\ TakeBack(active) \/ UNCHANGED <<content, undoable, redoable>>
    /\ trace' = Trace(0, "UNKNOWN", 0)
    /\ UNCHANGED <<opened, active, changes, disturbed>>

\* Nothing to undo: the call answers undone = false and its trace stays unknown.
UndoNothing ==
    /\ active # NoDocument => UndoCount(active) = 0
    /\ trace' = Trace(0, "UNKNOWN", 0)
    /\ UNCHANGED <<opened, active, content, undoable, redoable, audited,
                   changes, disturbed>>

-----------------------------------------------------------------------------
(* Documents *)

NewDocument ==
    \E d \in Documents \ opened :
        /\ opened' = opened \cup {d}
        /\ active' = d
        /\ UNCHANGED <<content, undoable, redoable, audited, changes, trace, disturbed>>

SetActiveDocument ==
    \E d \in opened :
        /\ d # active
        /\ active' = d
        /\ UNCHANGED <<opened, content, undoable, redoable, audited, changes,
                       trace, disturbed>>

\* The user closes a document; the remembered counts stay.
UserCloses ==
    \E d \in opened :
        /\ opened' = opened \ {d}
        /\ active' \in IF active # d THEN {active}
                       ELSE IF opened = {d} THEN {NoDocument} ELSE opened \ {d}
        /\ content' = [content EXCEPT ![d] = 0]
        /\ undoable' = [undoable EXCEPT ![d] = <<>>]
        /\ redoable' = [redoable EXCEPT ![d] = <<>>]
        /\ disturbed' = TRUE
        /\ UNCHANGED <<audited, changes, trace>>

-----------------------------------------------------------------------------
(* What the user does in FreeCAD's own windows *)

UserEdits ==
    /\ active # NoDocument
    /\ Commit(active, 0)
    /\ disturbed' = (disturbed \/ Disturbs(active) \/ Stale(active))
    /\ UNCHANGED <<opened, active, audited, trace>>

UserUndoes ==
    /\ active # NoDocument
    /\ UndoCount(active) > 0
    /\ TakeBack(active)
    /\ disturbed' = TRUE
    /\ UNCHANGED <<opened, active, audited, changes, trace>>

UserRedoes ==
    /\ active # NoDocument
    /\ redoable[active] # <<>>
    /\ LET top == redoable[active][Len(redoable[active])]
       IN  /\ content' = [content EXCEPT ![active] = top.after]
           /\ undoable' = [undoable EXCEPT ![active] =
                              Pushed(@, Entry(top.tx, content[active]))]
           /\ redoable' = [redoable EXCEPT ![active] = SubSeq(@, 1, Len(@) - 1)]
    /\ disturbed' = TRUE
    /\ UNCHANGED <<opened, active, audited, changes, trace>>

-----------------------------------------------------------------------------
TxInit ==
    /\ opened = {}
    /\ active = NoDocument
    /\ content = [d \in Documents |-> 0]
    /\ undoable = [d \in Documents |-> <<>>]
    /\ redoable = [d \in Documents |-> <<>>]
    /\ audited = <<>>
    /\ changes = 0
    /\ trace = Trace(0, "UNKNOWN", 0)
    /\ disturbed = FALSE

TxNext ==
    \/ RunTransaction
    \/ CreateValidatedShape
    \/ Undo
    \/ UndoRaises
    \/ UndoNothing
    \/ NewDocument
    \/ SetActiveDocument
    \/ UserCloses
    \/ UserEdits
    \/ UserUndoes
    \/ UserRedoes

TxSpec == TxInit /\ [][TxNext]_txVars

-----------------------------------------------------------------------------
TxTypeOK ==
    /\ opened \subseteq Documents
    /\ active \in opened \cup {NoDocument}
    /\ content \in [Documents -> 0..MaxChanges]
    /\ undoable \in [Documents -> Seq([tx : 0..MaxChanges, before : 0..MaxChanges])]
    /\ \A d \in Documents : UndoCount(d) <= MaxUndo
    /\ redoable \in [Documents -> Seq([tx : 0..MaxChanges, after : 0..MaxChanges])]
    /\ audited \in Seq([tx : 1..MaxChanges, count : 1..MaxUndo])
    /\ changes \in 0..MaxChanges
    /\ trace \in [tx : 0..MaxChanges, outcome : Outcomes, took : 0..MaxChanges]
    /\ disturbed \in BOOLEAN

(* As long as one document is edited, its undo stack does not overflow, the *)
(* user undoes, redoes and closes nothing and makes no change right after a *)
(* cad.undo that raised (base.py:302-303), cad.undo names exactly the       *)
(* transaction it took back, and none when that was a change of the user's. *)
(* Tools may go on after a cad.undo that raised, and it may be asked again. *)
UndisturbedUndoIsExact ==
    ~disturbed /\ trace.outcome = "UNDONE" => trace.tx = trace.took
=============================================================================
