----------------------------- MODULE SessionFile -----------------------------
(***************************************************************************)
(* The one file by which clients find a FreeCAD process, shared by all     *)
(* FreeCAD processes of a user.  Each of them publishes its session when   *)
(* its bridge starts and, when it stops, takes the file aside, reads whose *)
(* record it holds, and deletes it or puts it back.                        *)
(*                                                                         *)
(* A step is one call on the file system: each is atomic, and nothing else *)
(* orders the processes.  A record is written to a file of its own and     *)
(* moved into place, so no one ever reads half of one.                     *)
(***************************************************************************)
EXTENDS Naturals, FiniteSets

CONSTANTS
    Sessions,    \* one per start of a FreeCAD process
    NoSession,   \* there is no such file
    MaxMishaps   \* bound: failed calls and killed processes

ASSUME SessionAssumption == NoSession \notin Sessions /\ MaxMishaps \in Nat

VARIABLES
    published,   \* the record in the session file
    tombstone,   \* [Sessions -> the record that session took aside]
    process,     \* [Sessions -> Steps]: where each process is
    newest,      \* history: the last session that was published
    mishaps,     \* failed calls and killed processes so far
    crossed,     \* history: the newest publication met a record taken aside
    spoiled,     \* history: sessions whose record is in place since then,
                 \* although their publication failed
    lost         \* history: a record taken aside since then was not put back

historyVars == <<crossed, spoiled, lost>>
sessionVars == <<published, tombstone, process, newest, mishaps, historyVars>>

Steps == {"off", "serving", "running", "closing", "claiming", "claimed",
          "restoring", "discarding", "gone"}

\* Inside clear(), with a record taken aside.
Holding == {"claimed", "restoring", "discarding"}
Clearing == {"closing", "claiming"} \cup Holding

Proceeds(s, step) == process' = [process EXCEPT ![s] = step]

Mishap == mishaps < MaxMishaps /\ mishaps' = mishaps + 1

-----------------------------------------------------------------------------
(* GuiBridgeController.start *)

ServerStarts(s) ==
    /\ process[s] = "off"
    /\ Proceeds(s, "serving")
    /\ UNCHANGED <<published, tombstone, newest, mishaps, historyVars>>

\* os.replace of the finished file; an older record is overwritten.
Publishes(s) ==
    /\ process[s] = "serving"
    /\ published' = s
    /\ newest' = s
    /\ crossed' = \E t \in Sessions : process[t] \in Holding
    /\ spoiled' = {}
    /\ lost' = FALSE
    /\ Proceeds(s, "running")
    /\ UNCHANGED <<tombstone, mishaps>>

\* Before the file is in place, or after it, when its permissions cannot be
\* restricted: the server is stopped and the record stays.
PublishFails(s) ==
    /\ process[s] = "serving"
    /\ Mishap
    /\ \/ UNCHANGED <<published, spoiled>>
       \/ published' = s /\ spoiled' = spoiled \cup {s}
    /\ Proceeds(s, "gone")
    /\ UNCHANGED <<tombstone, newest, crossed, lost>>

-----------------------------------------------------------------------------
(* GuiBridgeController.stop and BridgeSessionStore.clear *)

\* The timer, both dispatchers and the server are stopped in turn; when one of
\* them raises, the record is not cleared.
Stops(s) ==
    /\ process[s] = "running"
    /\ \/ Proceeds(s, "closing") /\ UNCHANGED mishaps
       \/ Proceeds(s, "gone") /\ Mishap
    /\ UNCHANGED <<published, tombstone, newest, historyVars>>

ClearLooks(s) ==
    /\ process[s] = "closing"
    /\ Proceeds(s, IF published = NoSession THEN "gone" ELSE "claiming")
    /\ UNCHANGED <<published, tombstone, newest, mishaps, historyVars>>

\* The file may be gone by now.
ClearClaims(s) ==
    /\ process[s] = "claiming"
    /\ tombstone' = [tombstone EXCEPT ![s] = published]
    /\ published' = NoSession
    /\ Proceeds(s, IF published = NoSession THEN "gone" ELSE "claimed")
    /\ UNCHANGED <<newest, mishaps, historyVars>>

\* Seeded bug: whatever was taken aside is deleted.
OwnAnyway(s) == TRUE

Own(s) == tombstone[s] = s

\* The record's session is compared, and whether a file was published meanwhile.
ClearDecides(s) ==
    /\ process[s] = "claimed"
    /\ IF Own(s)
       THEN Proceeds(s, "gone") /\ tombstone' = [tombstone EXCEPT ![s] = NoSession]
       ELSE /\ Proceeds(s, IF published = NoSession THEN "restoring" ELSE "discarding")
            /\ UNCHANGED tombstone
    /\ UNCHANGED <<published, newest, mishaps, historyVars>>

ClearRestores(s) ==
    /\ process[s] = "restoring"
    /\ published' = tombstone[s]
    /\ tombstone' = [tombstone EXCEPT ![s] = NoSession]
    /\ Proceeds(s, "gone")
    /\ UNCHANGED <<newest, mishaps, historyVars>>

ClearDiscards(s) ==
    /\ process[s] = "discarding"
    /\ tombstone' = [tombstone EXCEPT ![s] = NoSession]
    /\ Proceeds(s, "gone")
    /\ UNCHANGED <<published, newest, mishaps, historyVars>>

\* The file cannot be taken aside; or its record cannot be read or deleted, and
\* is put back unless another file is there by now; or that fails as well.
ClearFails(s) ==
    /\ Mishap
    /\ \/ /\ process[s] = "claiming"
          /\ Proceeds(s, "gone")
          /\ UNCHANGED lost
       \/ /\ process[s] = "claimed"
          /\ Proceeds(s, IF published = NoSession THEN "restoring" ELSE "gone")
          /\ UNCHANGED lost
       \/ /\ process[s] = "restoring"
          /\ Proceeds(s, "gone")
          /\ lost' = TRUE
    /\ UNCHANGED <<published, tombstone, newest, crossed, spoiled>>

\* FreeCAD crashes; a record it had taken aside stays where no one looks.
Killed(s) ==
    /\ process[s] \notin {"off", "gone"}
    /\ Mishap
    /\ lost' = (lost \/ process[s] \in Holding)
    /\ Proceeds(s, "gone")
    /\ UNCHANGED <<published, tombstone, newest, crossed, spoiled>>

-----------------------------------------------------------------------------
SessionInit ==
    /\ published = NoSession
    /\ tombstone = [s \in Sessions |-> NoSession]
    /\ process = [s \in Sessions |-> "off"]
    /\ newest = NoSession
    /\ mishaps = 0
    /\ crossed = FALSE
    /\ spoiled = {}
    /\ lost = FALSE

SessionNext ==
    \E s \in Sessions :
        \/ ServerStarts(s)
        \/ Publishes(s)
        \/ PublishFails(s)
        \/ Stops(s)
        \/ ClearLooks(s)
        \/ ClearClaims(s)
        \/ ClearDecides(s)
        \/ ClearRestores(s)
        \/ ClearDiscards(s)
        \/ ClearFails(s)
        \/ Killed(s)

SessionSpec == SessionInit /\ [][SessionNext]_sessionVars

-----------------------------------------------------------------------------
\* The newest session runs, and nobody is in the middle of clearing the file.
NewestRuns ==
    /\ newest # NoSession
    /\ process[newest] = "running"
    /\ \A s \in Sessions : process[s] \notin Clearing

(* session.py:117: clear() removes "only the matching record without        *)
(* deleting a newer session".  Once every clear() is over, a client finds   *)
(* the newest session that runs, whatever the others published and cleared. *)
NewerSessionKept == NewestRuns => published = newest

(* The same with every failure the code can meet, when no record was aside  *)
(* at the moment the newest session was published: older sessions may stop, *)
(* crash or fail in any order, and a client never finds the record of one   *)
(* of them in place of the newest.  It may find the record of a session     *)
(* that came later and whose start failed after the record was in place     *)
(* (its permissions could not be restricted, session.py:98), and no record  *)
(* at all when one taken aside since then was not put back: its process was *)
(* killed (after session.py:117) or putting it back failed (142, 149).      *)
UncrossedSessionKept ==
    ~crossed /\ NewestRuns =>
        published \in {newest} \cup spoiled \cup (IF lost THEN {NoSession} ELSE {})
=============================================================================
