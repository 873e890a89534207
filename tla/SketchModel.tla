----------------------------- MODULE SketchModel -----------------------------
(***************************************************************************)
(* The sketch tools of the FreeCAD adapter.  Geometry and constraints are  *)
(* addressed by their place in the sketch, so what an index means depends  *)
(* on every call since the index was read, by whichever client, cad.undo   *)
(* among them.                                                             *)
(*                                                                         *)
(* Elements carry an identity the code does not have, by which the         *)
(* properties can say which element an index stood for.  A constraint is   *)
(* the set of elements it binds, -1 and -2 being the axes; what the        *)
(* Sketcher does by itself (solve, trim, fillet, delete dependants) is     *)
(* modelled from the way the tools use it.  A call that is refused before  *)
(* its transaction changes nothing and is no step; Rejected is the one     *)
(* whose transaction is aborted.  The undo stack never drops an entry here *)
(* (when it does, less can be undone), and what the user does to the       *)
(* sketch in FreeCAD's own windows is left out.                            *)
(***************************************************************************)
EXTENDS Integers, Sequences, FiniteSets, SequencesExt

CONSTANTS
    MaxElements,     \* bound: elements made in a behaviour
    MaxSketchCalls   \* bound: calls made on the sketch

ASSUME SketchAssumption == MaxElements \in Nat /\ MaxSketchCalls \in Nat

VARIABLES
    drawn,        \* the sketch exists
    geometry,     \* Seq([id, construction])
    constraints,  \* Seq([on, driving])
    elementsMade, \* elements made so far
    sketchCalls,  \* calls made so far
    told,         \* what the last call reported, and what the sketch was before
    past,         \* the undo stack: the sketch before each change, oldest first
    clientView,   \* the elements a client read, in order; <<>>: it has read none
    readAt,       \* history: how long the undo stack was at that read
    renumbered    \* history: a trim or a deletion since that read, or an undo of
                  \* a change from before it

sketchVars == <<drawn, geometry, constraints, elementsMade, sketchCalls, told,
                past, clientView, readAt, renumbered>>

Ids(elements) == {elements[k].id : k \in DOMAIN elements}
Indices == 0..(Len(geometry) - 1)
ElementAt(index) == geometry[index + 1].id
Axes == {-1, -2}
Anchors == Indices \cup Axes
BoundTo(anchor) == IF anchor \in Axes THEN anchor ELSE ElementAt(anchor)

NewElements(n, construction) ==
    [k \in 1..n |-> [id |-> elementsMade + k, construction |-> construction]]

\* Seeded bug: new elements are put in front of those that were there.
GrownInFront(n, construction) == NewElements(n, construction) \o geometry

Grown(n, construction) == geometry \o NewElements(n, construction)

Tie(elements) == [on |-> elements, driving |-> TRUE]

Silent == [call |-> "none", added |-> {}, removed |-> {}, from |-> 0, before |-> {},
           loop |-> <<>>, place |-> <<>>]

Before == [drawn |-> drawn, geometry |-> geometry, constraints |-> constraints]

\* A committed transaction can be undone.
Commits == past' = Append(past, Before)

\* _mutate_sketch: the transaction commits, or the solver finds the result
\* over-constrained and everything is taken back.
Rejected(call) ==
    /\ told' = [Silent EXCEPT !.call = "rejected"]
    /\ UNCHANGED <<geometry, constraints, elementsMade, past>>

MutateSketch(call, elements, ties, report) ==
    /\ drawn
    /\ sketchCalls < MaxSketchCalls
    /\ sketchCalls' = sketchCalls + 1
    /\ \/ /\ Cardinality(Ids(elements) \ Ids(geometry)) + elementsMade <= MaxElements
          /\ geometry' = elements
          /\ constraints' = ties
          /\ elementsMade' = elementsMade + Cardinality(Ids(elements) \ Ids(geometry))
          /\ told' = [report EXCEPT !.call = call, !.from = elementsMade,
                                    !.before = Ids(geometry)]
          /\ Commits
       \/ Rejected(call)
    /\ UNCHANGED <<drawn, clientView, readAt>>

Keeps == UNCHANGED renumbered
Renumbers == renumbered' = TRUE

\* The indices reported as added are those from the old count to the new one.
AddedFrom(elements) == Len(geometry)..(Len(elements) - 1)

AddElements(call, n, construction, ties, loop) ==
    LET elements == Grown(n, construction)
    IN  /\ MutateSketch(call, elements, constraints \o ties,
                        [Silent EXCEPT !.added = AddedFrom(elements), !.loop = loop])
        /\ Keeps

-----------------------------------------------------------------------------
(* Creating a sketch *)

Planes == {"xy", "xz", "yz"}
Normal(plane) == CASE plane = "xy" -> <<0, 0, 1>>
                   [] plane = "xz" -> <<0, -1, 0>>
                   [] plane = "yz" -> <<1, 0, 0>>
PlaneOrigin(plane, offset) == CASE plane = "xy" -> <<0, 0, offset>>
                                [] plane = "xz" -> <<0, 0 - offset, 0>>
                                [] plane = "yz" -> <<offset, 0, 0>>

CreateSketch(call, n, ties, place) ==
    /\ ~drawn
    /\ elementsMade + n <= MaxElements
    /\ drawn' = TRUE
    /\ geometry' = NewElements(n, FALSE)
    /\ constraints' = ties
    /\ elementsMade' = elementsMade + n
    /\ told' = [Silent EXCEPT !.call = call, !.added = 0..(n - 1), !.place = place]
    /\ Commits
    /\ UNCHANGED <<sketchCalls, clientView, readAt, renumbered>>

CreateEmptySketch ==
    \E plane \in Planes, offset \in {-5, 0, 5} :
        CreateSketch("create_empty_sketch", 0, <<>>,
               <<PlaneOrigin(plane, offset), Normal(plane), offset>>)

\* The sides of a rectangle, from the first new one on, tied corner to corner.
Corners(first) == [k \in 1..4 |-> Tie({first + k, first + (k % 4) + 1})]
AlignedSides(first) == [k \in 1..4 |-> Tie({first + k})]

CreateRectangularSketch ==
    CreateSketch("create_rectangular_sketch", 4,
           Corners(elementsMade) \o AlignedSides(elementsMade)
               \o <<Tie({elementsMade + 1, -1}), Tie({elementsMade + 1}),
                    Tie({elementsMade + 2})>>, <<>>)

CreateCircularSketch ==
    CreateSketch("create_circular_sketch", 1,
           <<Tie({elementsMade + 1, -1}), Tie({elementsMade + 1})>>, <<>>)

-----------------------------------------------------------------------------
(* Adding geometry *)

\* Points of a polyline: names of places, the first being 1.
Polylines == {<<1>> \o rest : rest \in UNION {[1..n -> 1..3] : n \in 1..3}}
PointsAccepted(points) == \A k \in 1..(Len(points) - 1) : points[k] # points[k + 1]

Opened(points, closed) ==
    IF closed /\ points[1] = points[Len(points)] THEN Front(points) ELSE points

PolylineAccepted(points, closed) ==
    /\ PointsAccepted(points)
    /\ closed => Len(Opened(points, closed)) >= 3

Segments(points, closed) ==
    LET open == Opened(points, closed)
        chain == [k \in 1..(Len(open) - 1) |-> <<open[k], open[k + 1]>>]
    IN  IF closed THEN Append(chain, <<open[Len(open)], open[1]>>) ELSE chain

AddSketchPolyline ==
    \E points \in Polylines, closed, construction \in BOOLEAN :
        /\ PolylineAccepted(points, closed)
        /\ LET segments == Segments(points, closed)
           IN  AddElements("add_sketch_polyline", Len(segments), construction, <<>>,
                           IF closed THEN segments ELSE <<>>)

\* A full turn counts as no turn at all.
ArcAccepted(start, end) == (end - start) % 360 > 0

AddSketchLine ==
    \E construction \in BOOLEAN :
        AddElements("add_sketch_line", 1, construction, <<>>, <<>>)

AddSketchCircle ==
    \E construction \in BOOLEAN :
        AddElements("add_sketch_circle", 1, construction, <<>>, <<>>)

AddSketchArc ==
    \E construction \in BOOLEAN, start, end \in {0, 90, 360} :
        /\ ArcAccepted(start, end)
        /\ AddElements("add_sketch_arc", 1, construction, <<>>, <<>>)

AddSketchEllipse ==
    \E construction \in BOOLEAN :
        AddElements("add_sketch_ellipse", 1, construction, <<>>, <<>>)

\* An upright rectangle is also kept upright.
AddSketchRectangle ==
    \E construction, upright \in BOOLEAN :
        AddElements("add_sketch_rectangle", 4, construction,
                    Corners(elementsMade)
                        \o (IF upright THEN AlignedSides(elementsMade) ELSE <<>>),
                    <<>>)

AddSketchSlot ==
    \E construction \in BOOLEAN :
        AddElements("add_sketch_slot", 4, construction, <<>>, <<>>)

AddSketchRegularPolygon ==
    \E construction \in BOOLEAN, sides \in 3..128 :
        /\ sides <= MaxElements
        /\ AddElements("add_sketch_regular_polygon", sides, construction, <<>>,
                       [k \in 1..sides |-> <<k, (k % sides) + 1>>])

\* External geometry lies at negative places and moves no index.
AddSketchExternalGeometry ==
    MutateSketch("add_sketch_external_geometry", geometry, constraints, Silent) /\ Keeps

-----------------------------------------------------------------------------
(* Constraints *)

Unary == {"horizontal", "vertical", "block"}
Binary == {"parallel", "perpendicular", "tangent", "equal"}
Positions == {"start", "end", "center"}

\* The origin (-1) has a start and nothing else.
PositionAccepted(anchor, position) == anchor = -1 => position = "start"

GeometricAccepted(type, first, second, position) ==
    /\ first \notin Axes
    /\ type \in Binary => second # first /\ ~(second \in Axes /\ type = "equal")
    /\ type \in {"coincident", "concentric"} => second # first /\ second # -2
    /\ type = "coincident" => PositionAccepted(second, position)

AddConstraint(call, elements) ==
    MutateSketch(call, geometry, Append(constraints, Tie(elements)), Silent) /\ Keeps

\* Two elements some constraint may bind.
AcceptedPairs ==
    {pair \in Anchors \X Anchors :
        \E type \in Binary \cup {"coincident", "concentric", "point_on_object"},
           position \in Positions : GeometricAccepted(type, pair[1], pair[2], position)}

AddSketchGeometricConstraint ==
    \/ \E first \in Indices, type \in Unary :
           AddConstraint("add_sketch_geometric_constraint", {ElementAt(first)})
    \/ \E pair \in AcceptedPairs :
           AddConstraint("add_sketch_geometric_constraint",
                         {BoundTo(pair[1]), BoundTo(pair[2])})

Distances == {"distance", "distance_x", "distance_y"}

DimensionAccepted(type, first, position) ==
    /\ first # -2
    /\ first = -1 => type \in Distances
    /\ type \in Distances => PositionAccepted(first, position)

Measurable(types) ==
    {first \in Anchors : \E type \in types, position \in Positions :
                             DimensionAccepted(type, first, position)}
SecondEnds(first) ==
    {second \in Anchors \ {first, -2} :
        \E position \in Positions : PositionAccepted(second, position)}

AddSketchDimensionalConstraint ==
    \/ \E first \in Measurable({"length", "radius", "diameter", "angle"} \cup Distances) :
           AddConstraint("add_sketch_dimensional_constraint", {BoundTo(first)})
    \/ \E first \in Measurable(Distances) : \E second \in SecondEnds(first) :
           AddConstraint("add_sketch_dimensional_constraint",
                         {BoundTo(first), BoundTo(second)})

ConstraintIndices == 0..(Len(constraints) - 1)

\* The value of a constraint is not kept; a new one may be rejected.
SetSketchConstraintValue ==
    /\ ConstraintIndices # {}
    /\ MutateSketch("set_sketch_constraint_value", geometry, constraints, Silent)
    /\ Keeps

SetSketchConstraintDriving ==
    \E index \in ConstraintIndices, driving \in BOOLEAN :
        /\ MutateSketch("set_sketch_constraint_driving", geometry,
                        [constraints EXCEPT ![index + 1].driving = driving], Silent)
        /\ Keeps

\* Seeded bug: from the lowest index up.
Ascending(turn, count) == turn - 1

\* From the highest index down, so that none of them moves before its turn.
DeletionOrder(turn, count) == count - turn

Deleted(seq, index, indices) ==
    IF index \in indices /\ index < Len(seq) THEN RemoveAt(seq, index + 1) ELSE seq

WithoutPlaces(seq, indices) ==
    LET rest[turn \in 0..Len(seq)] ==
            IF turn = 0 THEN seq
            ELSE Deleted(rest[turn - 1], DeletionOrder(turn, Len(seq)), indices)
    IN  rest[Len(seq)]

DeleteSketchConstraint ==
    \E indices \in SUBSET ConstraintIndices :
        /\ indices # {} /\ Cardinality(indices) <= 2
        /\ MutateSketch("delete_sketch_constraint", geometry,
                        WithoutPlaces(constraints, indices), Silent)
        /\ Keeps

-----------------------------------------------------------------------------
(* Editing geometry by index *)

IndexLists == {indices \in SUBSET Indices : indices # {}}

MoveSketchPoint ==
    /\ Indices # {}
    /\ MutateSketch("move_sketch_point", geometry, constraints, Silent)
    /\ Keeps

ExtendSketchGeometry ==
    /\ Indices # {}
    /\ MutateSketch("extend_sketch_geometry", geometry, constraints, Silent)
    /\ Keeps

ToggleSketchConstruction ==
    \E indices \in IndexLists :
        /\ MutateSketch("toggle_sketch_construction",
               [k \in DOMAIN geometry |->
                   IF k - 1 \in indices THEN [geometry[k] EXCEPT !.construction = ~@]
                   ELSE geometry[k]],
               constraints, Silent)
        /\ Keeps

\* Deleting an element takes the constraints on it along.
Untied(ids) ==
    WithoutPlaces(constraints,
                  {index \in ConstraintIndices : constraints[index + 1].on \cap ids # {}})

DeleteSketchGeometry ==
    \E indices \in IndexLists :
        LET left == WithoutPlaces(geometry, indices)
        IN  /\ MutateSketch("delete_sketch_geometry", left,
                            Untied(Ids(geometry) \ Ids(left)),
                            [Silent EXCEPT !.removed = {ElementAt(index) : index \in indices}])
            /\ Renumbers

\* A trim shortens the element, splits it in two, or takes it away.
TrimSketchGeometry ==
    \E index \in Indices :
        /\ \E left \in {geometry, Grown(1, FALSE),
                        RemoveAt(geometry, index + 1)} :
               MutateSketch("trim_sketch_geometry", left, Untied({ElementAt(index)}), Silent)
        /\ Renumbers

\* A trimmed corner loses the ties between its sides and is tied to the arc.
FilletSketchCorner ==
    \E first, second \in Indices, trim \in BOOLEAN :
        LET elements == Grown(1, FALSE)
            sides == {ElementAt(first), ElementAt(second)}
        IN  /\ first # second
            /\ MutateSketch("fillet_sketch_corner", elements,
                   IF trim THEN WithoutPlaces(constraints,
                                    {index \in ConstraintIndices :
                                         sides \subseteq constraints[index + 1].on})
                                \o <<Tie({ElementAt(first), elementsMade + 1}),
                                     Tie({ElementAt(second), elementsMade + 1})>>
                   ELSE constraints,
                   [Silent EXCEPT !.added = AddedFrom(elements)])
            /\ Keeps

\* Copies come in the order of the indices; constraints among the copied
\* elements are cloned on request.
CopySketchGeometry ==
    \E indices \in IndexLists, clone \in BOOLEAN :
        LET elements == Grown(Cardinality(indices), FALSE)
            ids == {ElementAt(index) : index \in indices}
            copyOf(id) == elementsMade + Cardinality({index \in indices :
                              \E other \in indices : index <= other /\ ElementAt(other) = id})
            within == WithoutPlaces(constraints,
                          {index \in ConstraintIndices :
                               ~(constraints[index + 1].on \subseteq ids)})
        IN  /\ MutateSketch("copy_sketch_geometry", elements,
                   IF clone THEN constraints \o [k \in DOMAIN within |->
                                     [within[k] EXCEPT !.on = {copyOf(id) : id \in @}]]
                   ELSE constraints,
                   [Silent EXCEPT !.added = AddedFrom(elements)])
            /\ Keeps

\* About an axis, or about an element that is not mirrored itself.
MirrorSketchGeometry ==
    \E indices \in IndexLists, axis \in Anchors :
        LET elements == Grown(Cardinality(indices), FALSE)
        IN  /\ axis \notin indices
            /\ MutateSketch("mirror_sketch_geometry", elements, constraints,
                            [Silent EXCEPT !.added = AddedFrom(elements)])
            /\ Keeps

-----------------------------------------------------------------------------
\* get_sketch_info: the client now knows which element each index stands for.
GetSketchInfo ==
    /\ drawn
    /\ clientView' = [k \in DOMAIN geometry |-> geometry[k].id]
    /\ readAt' = Len(past)
    /\ renumbered' = FALSE
    /\ UNCHANGED <<drawn, geometry, constraints, elementsMade, sketchCalls, told, past>>

-----------------------------------------------------------------------------
\* cad.undo of the last change to the sketch, which may be its creation; the
\* same when the recompute after it raises.
UndoSketchChange ==
    /\ past # <<>>
    /\ LET before == past[Len(past)]
       IN  /\ drawn' = before.drawn
           /\ geometry' = before.geometry
           /\ constraints' = before.constraints
    /\ past' = Front(past)
    /\ renumbered' = (renumbered \/ Len(past) <= readAt)
    /\ told' = [Silent EXCEPT !.call = "undo"]
    /\ UNCHANGED <<elementsMade, sketchCalls, clientView, readAt>>

SketchInit ==
    /\ drawn = FALSE
    /\ geometry = <<>>
    /\ constraints = <<>>
    /\ elementsMade = 0
    /\ sketchCalls = 0
    /\ told = Silent
    /\ past = <<>>
    /\ clientView = <<>>
    /\ readAt = 0
    /\ renumbered = FALSE

SketchNext ==
    \/ CreateEmptySketch
    \/ CreateRectangularSketch
    \/ CreateCircularSketch
    \/ AddSketchPolyline
    \/ AddSketchLine
    \/ AddSketchCircle
    \/ AddSketchArc
    \/ AddSketchEllipse
    \/ AddSketchRectangle
    \/ AddSketchSlot
    \/ AddSketchRegularPolygon
    \/ AddSketchExternalGeometry
    \/ AddSketchGeometricConstraint
    \/ AddSketchDimensionalConstraint
    \/ SetSketchConstraintValue
    \/ SetSketchConstraintDriving
    \/ DeleteSketchConstraint
    \/ MoveSketchPoint
    \/ ExtendSketchGeometry
    \/ ToggleSketchConstruction
    \/ DeleteSketchGeometry
    \/ TrimSketchGeometry
    \/ FilletSketchCorner
    \/ CopySketchGeometry
    \/ MirrorSketchGeometry
    \/ GetSketchInfo
    \/ UndoSketchChange

SketchSpec == SketchInit /\ [][SketchNext]_sketchVars

-----------------------------------------------------------------------------
(* An index read from the sketch stands for the same element until an       *)
(* element is trimmed or deleted or a change from before the read is undone *)
(* (which re-inserts or takes away elements that stood there), whatever     *)
(* else any client does meanwhile.  What is added comes last, and undoing   *)
(* a change from after the read never goes back behind it.                  *)
IndicesHoldUntilRenumbered ==
    ~renumbered =>
        /\ Len(clientView) <= Len(geometry)
        /\ \A k \in DOMAIN clientView : geometry[k].id = clientView[k]

\* Sides that are told to be closed meet end to start all the way round.
Closes(loop) ==
    \A k \in DOMAIN loop :
        loop[k][1] # loop[k][2] /\ loop[k][2] = loop[(k % Len(loop)) + 1][1]

(* What a call reports is what it did: the indices it calls added are the   *)
(* new elements, what it deleted is what stood at the indices it was given, *)
(* a rectangle is tied round all of its own four corners, a closed outline  *)
(* closes, and a new sketch stands off its plane by the offset.             *)
ReportsTellTheSketch ==
    /\ told.added # {} =>
           {ElementAt(index) : index \in told.added} = Ids(geometry) \ told.before
    /\ told.removed # {} => Ids(geometry) = told.before \ told.removed
    /\ told.call = "add_sketch_rectangle" =>
           \A i \in told.added :
               LET next == told.from + ((ElementAt(i) - told.from) % 4) + 1
               IN  \E k \in DOMAIN constraints : constraints[k].on = {ElementAt(i), next}
    /\ Closes(told.loop)
    /\ told.place # <<>> =>
           told.place[1] = [axis \in 1..3 |-> told.place[3] * told.place[2][axis]]
=============================================================================
