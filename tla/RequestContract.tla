---------------------------- MODULE RequestContract ----------------------------
(* What the bridge promises about one request identifier, whatever queueing,  *)
(* expiry, eviction and resubmission happen behind it: the promise the        *)
(* dispatcher's tests state one scenario at a time (a mutation needs a         *)
(* confirmation, is idempotent, and does not execute late once expired).      *)
(* The requests are independent, so a step is one step of any of them.        *)
EXTENDS Naturals

CONSTANTS Requests

VARIABLE request

Kinds == {"read", "mutation"}

FinalVerdicts == {"completed", "failed", "cancelled", "expired"}

RequestStates == [kind : {"unknown"} \cup Kinds, approved : BOOLEAN, runs : {0, 1},
                  verdict : {"none"} \cup FinalVerdicts]

Unknown == [kind |-> "unknown", approved |-> FALSE, runs |-> 0, verdict |-> "none"]

TypeOK == request \in [Requests -> RequestStates]

Init == request = [r \in Requests |-> Unknown]

\* The bridge takes responsibility for the identifier: its content is fixed.
Accept(old, new) ==
    \E k \in Kinds : old = Unknown /\ new = [Unknown EXCEPT !.kind = k]

\* The user allows a mutation that still waits.
Approve(old, new) ==
    /\ old.kind = "mutation" /\ ~old.approved /\ old.verdict = "none"
    /\ new = [old EXCEPT !.approved = TRUE]

\* Its handler is started: once, a mutation only when approved and still waiting.
Run(old, new) ==
    /\ old.kind # "unknown" /\ old.runs = 0
    /\ old.kind = "mutation" => old.approved /\ old.verdict = "none"
    /\ new = [old EXCEPT !.runs = 1]

\* It is answered once.  "completed" means the handler ran; a mutation is never
\* reported expired or cancelled after its handler was started.
Answer(old, new) ==
    /\ old.kind # "unknown" /\ old.verdict = "none"
    /\ \E a \in FinalVerdicts :
        /\ a = "completed" => old.runs = 1
        /\ old.kind = "mutation" /\ a \in {"cancelled", "expired"} => old.runs = 0
        /\ new = [old EXCEPT !.verdict = a]

RequestStep(old, new) ==
    \/ new = old
    \/ Accept(old, new) \/ Approve(old, new) \/ Run(old, new) \/ Answer(old, new)

Next ==
    /\ request' \in [Requests -> RequestStates]
    /\ \A r \in Requests : RequestStep(request[r], request'[r])

Spec == Init /\ [][Next]_request

-------------------------------------------------------------------------------

\* What a client can conclude from the answer it was given: a mutation reported
\* expired or cancelled did not run and never will, a completed one ran once and
\* was approved, and nothing unapproved ever runs.
AnswersTellWhatRan ==
    \A r \in Requests :
        LET q == request[r]
        IN  /\ q.verdict = "completed" => q.runs = 1
            /\ q.kind = "mutation" /\ q.verdict \in {"cancelled", "expired"} => q.runs = 0
            /\ q.kind = "mutation" /\ q.runs = 1 => q.approved

=============================================================================
