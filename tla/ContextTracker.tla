---------------------------- MODULE ContextTracker ----------------------------
(***************************************************************************)
(* What a client can know of the model: context snapshots with their state *)
(* token and recent objects, the pages of a snapshot, and the inspection   *)
(* that reads several things and compares the first token with the last.   *)
(* Between any two reads a tool or the user may change, or change back,    *)
(* the document.                                                           *)
(*                                                                         *)
(* Objects are numbered in the order of their names.  A fingerprint is the *)
(* value it is taken of: two of them are equal when the values are.        *)
(***************************************************************************)
EXTENDS Naturals, Sequences, FiniteSets, SequencesExt

CONSTANTS
    Models,       \* names of the documents that are open
    Items,        \* objects, numbered in the order of their names
    Versions,     \* versions of an object; 0: there is no such object
    MaxRecent,    \* MAX_RECENT_OBJECTS
    MaxMoves,     \* bound: changes, selections and switches in a behaviour
    PageSize      \* max_objects of the client's snapshots

ASSUME ContextAssumption ==
    /\ Items \subseteq Nat \ {0}
    /\ Versions \subseteq Nat /\ 0 \in Versions
    /\ MaxRecent \in Nat \ {0} /\ PageSize \in Nat \ {0}
    /\ MaxMoves \in Nat

VARIABLES
    current,     \* the active document
    model,       \* [Models -> [Items -> Versions]]
    selected,    \* objects selected in the active document
    tracked,     \* _documents: what the last observation of each one saw
    pending,     \* _pending_recent
    moves,       \* changes, selections and switches so far
    client       \* a paging or an inspection in progress, and what it saw

contextVars == <<current, model, selected, tracked, pending, moves, client>>

Present(d) == {i \in Items : model[d][i] # 0}

\* The selected flag is part of an object's payload, so of its fingerprint.
ObjectFingerprint(d, i) == <<model[d][i], i \in selected>>

\* Seeded bug: only the first page of objects goes into the fingerprint.
FingerprintOfPage(d) ==
    [i \in {j \in Present(d) : Cardinality({k \in Present(d) : k < j}) < PageSize} |->
        ObjectFingerprint(d, i)]

DocumentFingerprint(d) == [i \in Present(d) |-> ObjectFingerprint(d, i)]

\* The n-th one is the one with n - 1 others before it.
InOrder(items) ==
    [n \in 1..Cardinality(items) |->
        CHOOSE i \in items : Cardinality({j \in items : j < i}) = n - 1]

-----------------------------------------------------------------------------
(* ContextStateTracker *)

Untracked == [print |-> <<>>, selection |-> {}, revision |-> 0, recent |-> <<>>]

\* Newest first; a name that is already waiting keeps its place.
RecordRecent(d, i) ==
    pending' = [pending EXCEPT ![d] = IF Contains(@, i) THEN @ ELSE <<i>> \o @]

\* Seeded bug: a document keeps its first revision.
FirstRevision(d) == 1

Revision(d) ==
    LET old == tracked[d]
    IN  IF old.revision = 0 THEN 1
        ELSE IF old.print # DocumentFingerprint(d) \/ old.selection # selected
             THEN old.revision + 1 ELSE old.revision

ChangedItems(d) ==
    LET old == tracked[d].print
    IN  {i \in Present(d) : i \notin DOMAIN old \/ old[i] # ObjectFingerprint(d, i)}

Least(a, b) == IF a < b THEN a ELSE b
First(seq, n) == SubSeq(seq, 1, Least(Len(seq), n))

RecentItems(d) ==
    LET named == pending[d] \o InOrder(ChangedItems(d)) \o tracked[d].recent
        kept(seen, i) == IF i \in Present(d) /\ ~Contains(seen, i)
                         THEN Append(seen, i) ELSE seen
    IN  First(FoldLeft(kept, <<>>, named), MaxRecent)

Token(d) ==
    [document |-> d, revision |-> Revision(d), print |-> DocumentFingerprint(d),
     selection |-> selected]

NoToken == [document |-> "none", revision |-> 0, print |-> <<>>, selection |-> {}]

\* Every snapshot, whoever asks for it, is an observation.
Observe ==
    LET d == current
    IN  /\ tracked' = [tracked EXCEPT ![d] =
                          [print |-> DocumentFingerprint(d), selection |-> selected,
                           revision |-> Revision(d), recent |-> RecentItems(d)]]
        /\ pending' = [pending EXCEPT ![d] = <<>>]
        /\ UNCHANGED <<current, model, selected, moves>>

-----------------------------------------------------------------------------
(* One client at a time is followed, through an inspection or through pages. *)

Resting ==
    [doing |-> "nothing", first |-> NoToken, targets |-> <<>>, got |-> <<>>,
     cursor |-> 0, partial |-> FALSE, seen |-> {}]

\* What the snapshots of others showed of the document while the client works.
Witnessed(seen) ==
    IF client.doing \in {"inspecting", "paging"} /\ client.first.document = current
    THEN seen \cup {DocumentFingerprint(current)} ELSE seen

FirstPage(d) == First(InOrder(Present(d)), PageSize)

\* _resolve_targets: the references given, else the selection, else what was
\* changed last, else the first page.
InspectionTargets(asked, recent) ==
    IF asked # <<>> THEN asked
    ELSE IF selected # {} THEN InOrder(selected)
    ELSE IF recent # <<>> THEN recent
    ELSE FirstPage(current)

StartInspection ==
    \E asked \in {<<>>} \cup {<<i>> : i \in Items} :
        /\ client = Resting
        /\ Observe
        /\ LET targets == InspectionTargets(asked, RecentItems(current))
           IN  client' = [Resting EXCEPT
                  !.doing = "inspecting", !.first = Token(current),
                  !.targets = First(targets, PageSize),
                  !.seen = {DocumentFingerprint(current)}]

\* Measurement of the next target; it fails when there is no such object in the
\* document that is active now, or when the call does.
MeasureTarget ==
    /\ client.doing = "inspecting"
    /\ client.targets # <<>>
    /\ \E failed \in BOOLEAN :
        LET i == Head(client.targets)
            found == model[current][i] # 0 /\ ~failed
        IN  client' = [client EXCEPT
                !.targets = Tail(@),
                !.got = IF found THEN Append(@, i) ELSE @,
                !.partial = @ \/ ~found]
    /\ UNCHANGED <<current, model, selected, tracked, pending, moves>>

EndInspection ==
    /\ client.doing = "inspecting"
    /\ client.targets = <<>>
    /\ \/ /\ Observe
          /\ client' = [client EXCEPT
                 !.doing = "inspected",
                 !.partial = @ \/ Token(current) # client.first,
                 !.seen = Witnessed(@)]
       \/ /\ client' = [client EXCEPT !.doing = "inspected", !.partial = TRUE]
          /\ UNCHANGED <<current, model, selected, tracked, pending, moves>>

\* One page of get_context_snapshot; the client goes on at next_cursor until
\* there is none.  A cursor past the end is refused.
ReadPage ==
    /\ client = Resting \/ client.doing = "paging"
    /\ client.cursor <= Cardinality(Present(current))
    /\ Observe
    /\ LET all == InOrder(Present(current))
           end == client.cursor + PageSize
           last == Least(end, Len(all))
       IN  client' = [client EXCEPT
               !.doing = IF last < Len(all) THEN "paging" ELSE "paged",
               !.first = IF client = Resting THEN Token(current) ELSE @,
               !.partial = @ \/ (client # Resting /\ Token(current) # client.first),
               !.got = @ \o SubSeq(all, client.cursor + 1, last),
               !.cursor = last,
               !.seen = IF client = Resting THEN {DocumentFingerprint(current)}
                        ELSE Witnessed(@)]

PageRefused ==
    /\ client.doing = "paging"
    /\ client.cursor > Cardinality(Present(current))
    /\ client' = Resting
    /\ UNCHANGED <<current, model, selected, tracked, pending, moves>>

\* Any other snapshot: another client, a plan's base check, the chat panel.
OtherSnapshot ==
    /\ Observe
    /\ client' = [client EXCEPT !.seen = Witnessed(@)]

ClientDone ==
    /\ client.doing \in {"inspected", "paged"}
    /\ client' = Resting
    /\ UNCHANGED <<current, model, selected, tracked, pending, moves>>

-----------------------------------------------------------------------------
(* Changes between the reads *)

Moves == moves < MaxMoves /\ moves' = moves + 1

\* A registered tool changes one object and is recorded; so is one that gives
\* an object back the version it had.
ToolChanges ==
    \E i \in Items, v \in Versions \ {0} :
        /\ model[current][i] # v
        /\ model' = [model EXCEPT ![current][i] = v]
        /\ RecordRecent(current, i)
        /\ Moves
        /\ UNCHANGED <<current, selected, tracked, client>>

\* The user, or an undo, creates, changes or deletes an object unrecorded; a
\* deleted object leaves the selection.
UserChanges ==
    \E i \in Items, v \in Versions :
        /\ model[current][i] # v
        /\ model' = [model EXCEPT ![current][i] = v]
        /\ selected' = IF v = 0 THEN selected \ {i} ELSE selected
        /\ Moves
        /\ UNCHANGED <<current, tracked, pending, client>>

UserSelects ==
    \E items \in SUBSET Present(current) :
        /\ items # selected
        /\ selected' = items
        /\ Moves
        /\ UNCHANGED <<current, model, tracked, pending, client>>

UserSwitches ==
    \E d \in Models \ {current} :
        /\ current' = d
        /\ selected' = {}
        /\ Moves
        /\ UNCHANGED <<model, tracked, pending, client>>

-----------------------------------------------------------------------------
ContextInit ==
    /\ current \in Models
    /\ model = [d \in Models |-> [i \in Items |-> 0]]
    /\ selected = {}
    /\ tracked = [d \in Models |-> Untracked]
    /\ pending = [d \in Models |-> <<>>]
    /\ moves = 0
    /\ client = Resting

ContextNext ==
    \/ StartInspection
    \/ MeasureTarget
    \/ EndInspection
    \/ ReadPage
    \/ PageRefused
    \/ OtherSnapshot
    \/ ClientDone
    \/ ToolChanges
    \/ UserChanges
    \/ UserSelects
    \/ UserSwitches

ContextSpec == ContextInit /\ [][ContextNext]_contextVars

-----------------------------------------------------------------------------
(* An inspection that is reported complete saw one state as far as anyone   *)
(* observed it: no snapshot taken of the document in between, by whichever  *)
(* client, showed anything but what the first and the last one showed.      *)
CompletedInspectionSawOneState ==
    client.doing = "inspected" /\ ~client.partial =>
        client.seen = {client.first.print}

(* Pages that all carry the same token are the document: every object of    *)
(* it once, in the order of the names.                                      *)
PagesAreTheDocument ==
    client.doing = "paged" /\ ~client.partial =>
        client.got = InOrder(DOMAIN client.first.print)
=============================================================================
