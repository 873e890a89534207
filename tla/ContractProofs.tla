----------------------------- MODULE ContractProofs ----------------------------
(* What follows from the two contracts, for clients of a dispatcher that keeps *)
(* them: PlanContract for any set of plans and any number of calls,            *)
(* RequestContract for any set of requests.                                    *)
EXTENDS Naturals, TLAPS

CONSTANTS Plans, Calls, Requests

VARIABLES plan, request

Plan == INSTANCE PlanContract

Request == INSTANCE RequestContract

-------------------------------------------------------------------------------
(* Composite plans *)

PlanInv == Plan!TypeOK /\ Plan!AllOrNothing

\* The states of one plan that AllOrNothing allows.
Settled(q) ==
    /\ q.phase = "applied" => q.applied = Calls
    /\ q.phase \in {"unknown", "waiting", "dropped", "undone"} => q.applied = 0

\* Each plan keeps its type and its promise.
LEMMA StepSettles ==
    ASSUME PlanInv, Plan!Next, NEW q \in Plans
    PROVE  plan'[q] \in Plan!PlanStates /\ Settled(plan'[q])
<1>. PICK p \in Plans :
        \/ Plan!Submit(p) \/ Plan!Drop(p) \/ Plan!Start(p) \/ Plan!Apply(p)
        \/ Plan!Revert(p) \/ Plan!Complete(p) \/ Plan!RollBack(p) \/ Plan!GiveUp(p)
    BY DEF Plan!Next
<1>. USE DEF PlanInv, Plan!TypeOK, Plan!AllOrNothing, Settled, Plan!PlanStates, Plan!Phases,
             Plan!Running
<1>1. CASE Plan!Submit(p)
    BY <1>1 DEF Plan!Submit, Plan!Moves
<1>2. CASE Plan!Drop(p)
    BY <1>2 DEF Plan!Drop, Plan!Moves
<1>3. CASE Plan!Start(p)
    BY <1>3 DEF Plan!Start, Plan!Moves
<1>4. CASE Plan!Apply(p)
    BY <1>4 DEF Plan!Apply
<1>5. CASE Plan!Revert(p)
    BY <1>5 DEF Plan!Revert
<1>6. CASE Plan!Complete(p)
    BY <1>6 DEF Plan!Complete, Plan!Moves
<1>7. CASE Plan!RollBack(p)
    BY <1>7 DEF Plan!RollBack, Plan!Moves
<1>8. CASE Plan!GiveUp(p)
    BY <1>8 DEF Plan!GiveUp
<1>. QED  BY <1>1, <1>2, <1>3, <1>4, <1>5, <1>6, <1>7, <1>8

\* No step makes a second plan run.
LEMMA StepRunsOne ==
    ASSUME PlanInv, Plan!Next, NEW q \in Plans, NEW r \in Plans, Plan!Running(q)', Plan!Running(r)'
    PROVE  q = r
<1>. PICK p \in Plans :
        \/ Plan!Submit(p) \/ Plan!Drop(p) \/ Plan!Start(p) \/ Plan!Apply(p)
        \/ Plan!Revert(p) \/ Plan!Complete(p) \/ Plan!RollBack(p) \/ Plan!GiveUp(p)
    BY DEF Plan!Next
<1>. USE DEF PlanInv, Plan!TypeOK, Plan!AllOrNothing, Plan!Running
<1>1. CASE Plan!Start(p)
    BY <1>1 DEF Plan!Start, Plan!Moves
<1>2. CASE Plan!Apply(p) \/ Plan!Revert(p)
    BY <1>2 DEF Plan!Apply, Plan!Revert
<1>3. CASE Plan!Submit(p) \/ Plan!Drop(p) \/ Plan!Complete(p) \/ Plan!RollBack(p)
    BY <1>3 DEF Plan!Submit, Plan!Drop, Plan!Complete, Plan!RollBack, Plan!Moves
<1>4. CASE Plan!GiveUp(p)
    BY <1>4 DEF Plan!GiveUp
<1>. QED  BY <1>1, <1>2, <1>3, <1>4

\* A client of a dispatcher that keeps the contract can rely on what it is told:
\* an applied plan has all of its transactions in the document, a dropped or undone
\* one none, and no two plans run together.
THEOREM ContractIsAllOrNothing == Plan!Spec => []Plan!AllOrNothing
<1>1. Plan!Init => PlanInv
    BY DEF Plan!Init, PlanInv, Plan!TypeOK, Plan!AllOrNothing, Plan!Unknown, Plan!PlanStates,
           Plan!Phases, Plan!Running
<1>2. ASSUME PlanInv, [Plan!Next]_plan
      PROVE  PlanInv'
    <2>1. CASE Plan!Next
        <3>1. DOMAIN plan' = Plans /\ plan' = [q \in Plans |-> plan'[q]]
            BY <1>2, <2>1 DEF PlanInv, Plan!TypeOK, Plan!Next, Plan!Submit, Plan!Drop, Plan!Start,
                    Plan!Apply, Plan!Revert, Plan!Complete, Plan!RollBack, Plan!GiveUp, Plan!Moves
        <3>2. Plan!TypeOK'
            BY <1>2, <2>1, <3>1, StepSettles DEF Plan!TypeOK
        <3>3. Plan!AllOrNothing'
            BY <1>2, <2>1, StepSettles, StepRunsOne DEF Plan!AllOrNothing, Settled
        <3>. QED  BY <3>2, <3>3 DEF PlanInv
    <2>2. CASE UNCHANGED plan
        BY <1>2, <2>2 DEF PlanInv, Plan!TypeOK, Plan!AllOrNothing, Plan!Running
    <2>. QED  BY <1>2, <2>1, <2>2
<1>3. PlanInv => Plan!AllOrNothing
    BY DEF PlanInv
<1>. QED  BY <1>1, <1>2, <1>3, PTL DEF Plan!Spec

-------------------------------------------------------------------------------
(* Requests *)

RequestInv == Request!TypeOK /\ Request!AnswersTellWhatRan

\* The states of one request that AnswersTellWhatRan allows.
Tells(q) ==
    /\ q.verdict = "completed" => q.runs = 1
    /\ q.kind = "mutation" /\ q.verdict \in {"cancelled", "expired"} => q.runs = 0
    /\ q.kind = "mutation" /\ q.runs = 1 => q.approved

\* A step of one request keeps them.
LEMMA StepTells ==
    ASSUME NEW old \in Request!RequestStates, NEW new \in Request!RequestStates,
           Request!RequestStep(old, new), Tells(old)
    PROVE  Tells(new)
<1>. USE DEF Tells, Request!RequestStates, Request!FinalVerdicts, Request!Kinds
<1>1. CASE new = old
    BY <1>1
<1>2. CASE Request!Accept(old, new)
    BY <1>2 DEF Request!Accept, Request!Unknown
<1>3. CASE Request!Approve(old, new)
    BY <1>3 DEF Request!Approve
<1>4. CASE Request!Run(old, new)
    BY <1>4 DEF Request!Run
<1>5. CASE Request!Answer(old, new)
    BY <1>5 DEF Request!Answer
<1>. QED  BY <1>1, <1>2, <1>3, <1>4, <1>5 DEF Request!RequestStep

\* A client of a bridge that keeps the contract can rely on its answers: a
\* mutation reported expired or cancelled did not run, a completed one ran once
\* with an approval, and nothing unapproved ever ran.
THEOREM ContractTellsWhatRan == Request!Spec => []Request!AnswersTellWhatRan
<1>1. Request!Init => RequestInv
    BY DEF Request!Init, RequestInv, Request!TypeOK, Request!AnswersTellWhatRan,
           Request!Unknown, Request!RequestStates
<1>2. ASSUME RequestInv, [Request!Next]_request
      PROVE  RequestInv'
    <2>1. CASE Request!Next
        <3>1. Request!TypeOK'
            BY <2>1 DEF Request!Next, Request!TypeOK
        <3>2. \A r \in Requests : Tells(request'[r])
            BY <1>2, <2>1, <3>1, StepTells DEF RequestInv, Request!TypeOK,
                    Request!AnswersTellWhatRan, Request!Next, Tells
        <3>. QED  BY <3>1, <3>2 DEF RequestInv, Request!AnswersTellWhatRan, Tells
    <2>2. CASE UNCHANGED request
        BY <1>2, <2>2 DEF RequestInv, Request!TypeOK, Request!AnswersTellWhatRan
    <2>. QED  BY <1>2, <2>1, <2>2
<1>3. RequestInv => Request!AnswersTellWhatRan
    BY DEF RequestInv
<1>. QED  BY <1>1, <1>2, <1>3, PTL DEF Request!Spec

=============================================================================
