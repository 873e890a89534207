------------------------------ MODULE PlanContract -----------------------------
(* What a composite plan promises, whatever cancellations, failures and       *)
(* submissions of other plans happen meanwhile: plans run one at a time, each *)
(* at most once, and one that ends has all of its transactions in the          *)
(* document (applied), none (undone), or says that it does not know (unclear). *)
EXTENDS Naturals

CONSTANTS Plans, Calls

VARIABLE plan

Phases == {"unknown", "waiting", "dropped", "running", "applied", "undone", "unclear"}

PlanStates == [phase : Phases, applied : Nat]

Unknown == [phase |-> "unknown", applied |-> 0]

Init == plan = [p \in Plans |-> Unknown]

Running(p) == plan[p].phase = "running"

Moves(p, phase) == plan' = [plan EXCEPT ![p] = [phase |-> phase, applied |-> plan[p].applied]]

Submit(p) == plan[p].phase = "unknown" /\ Moves(p, "waiting")

\* Denied or cancelled before it was started.
Drop(p) == plan[p].phase = "waiting" /\ Moves(p, "dropped")

Start(p) ==
    /\ plan[p].phase = "waiting"
    /\ \A q \in Plans : ~Running(q)
    /\ Moves(p, "running")

\* One transaction is committed, or undone again.
Apply(p) ==
    /\ Running(p)
    /\ plan[p].applied < Calls
    /\ plan' = [plan EXCEPT ![p] = [phase |-> "running", applied |-> plan[p].applied + 1]]

Revert(p) ==
    /\ Running(p)
    /\ plan[p].applied > 0
    /\ plan' = [plan EXCEPT ![p] = [phase |-> "running", applied |-> plan[p].applied - 1]]

Complete(p) == Running(p) /\ plan[p].applied = Calls /\ Moves(p, "applied")

RollBack(p) == Running(p) /\ plan[p].applied = 0 /\ Moves(p, "undone")

\* Nothing is claimed about the document.
GiveUp(p) ==
    /\ Running(p)
    /\ plan' = [plan EXCEPT ![p] = [phase |-> "unclear", applied |-> 0]]

Next ==
    \E p \in Plans :
        \/ Submit(p) \/ Drop(p) \/ Start(p) \/ Apply(p) \/ Revert(p)
        \/ Complete(p) \/ RollBack(p) \/ GiveUp(p)

Spec == Init /\ [][Next]_plan

-------------------------------------------------------------------------------

TypeOK == plan \in [Plans -> PlanStates]

\* All or nothing: a plan that ended and claims something about the document has
\* all of its transactions in it or none, and no two plans ever run together.
AllOrNothing ==
    /\ \A p \in Plans :
        /\ plan[p].phase = "applied" => plan[p].applied = Calls
        /\ plan[p].phase \in {"unknown", "waiting", "dropped", "undone"} => plan[p].applied = 0
    /\ \A p, q \in Plans : Running(p) /\ Running(q) => p = q

=============================================================================
