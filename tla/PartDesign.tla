----------------------------- MODULE PartDesign -----------------------------
(***************************************************************************)
(* Parametric bodies: features built one on another, sketches attached to  *)
(* a plane of the body's origin or to a face of its tip, dress-ups on the  *)
(* edges of the tip, patterns of earlier features, and the selectors that  *)
(* name a face or edges by what they are instead of by number.             *)
(*                                                                         *)
(* The shape a feature computes is FreeCAD's: here the areas of its faces  *)
(* (0: not planar, or not looking the way asked) and the diameters of its  *)
(* edges (0: not a circle) in quarter millimetres, in FreeCAD's order.     *)
(* A call that is refused or aborted changes nothing and is a stuttering   *)
(* step (CadTransactions).                                                 *)
(***************************************************************************)
EXTENDS Naturals, Sequences, FiniteSets

CONSTANTS
    Bodies,     \* names bodies may get
    NoBody,     \* the "body" argument left out
    MaxItems,   \* bound: sketches and features made
    FaceLists,  \* areas of the faces of the shapes FreeCAD may compute
    EdgeLists   \* diameters of their edges

ASSUME PartDesignAssumption ==
    /\ NoBody \notin Bodies
    /\ MaxItems \in Nat
    /\ FaceLists \subseteq Seq(Nat)
    /\ EdgeLists \subseteq Seq(Nat)

VARIABLES
    bodies,   \* bodies that exist
    tip,      \* [Bodies -> the feature shown, 0 while there is none]
    items     \* sketches and features in the order they were made

designVars == <<bodies, tip, items>>

Made == 1..Len(items)
Sketch == "sketch"
SketchBased == {"pad", "pocket", "revolution", "groove", "hole"}
DressUps == {"fillet", "chamfer"}
Patterns == {"linear", "polar", "mirrored"}
Shapes == [faces : FaceLists, edges : EdgeLists]
NoShape == [faces |-> <<>>, edges |-> <<>>]

\* base: the feature it builds on; uses: its profile, base or originals;
\* face, edges: the elements of the base it is attached to.
Item(type, body, base, uses, face, edges, shape) ==
    [type |-> type, body |-> body, base |-> base, uses |-> uses, face |-> face,
     edges |-> edges, shape |-> shape, shown |-> TRUE]

Sketches(b) == {i \in Made : items[i].body = b /\ items[i].type = Sketch}
Features(b) == {i \in Made : items[i].body = b /\ items[i].type # Sketch}

-----------------------------------------------------------------------------
(* Resolution *)

\* _body_or_error: the body named, or the only one there is.
ResolvesBody(argument, b) ==
    /\ b \in bodies
    /\ argument = NoBody => bodies = {b}
    /\ argument # NoBody => argument = b

TipShape(b) == items[tip[b]].shape
HasTip(b) == tip[b] # 0

\* FaceSelector: a face by number, or the largest planar face, provided that
\* no other planar face is as large.
ResolvesFace(b, selector, face) ==
    LET faces == TipShape(b).faces
    IN  /\ HasTip(b)
        /\ face \in 1..Len(faces)
        /\ selector.kind = "named_face" => face = selector.index
        /\ selector.kind = "largest_planar_face" =>
               /\ faces[face] > 0
               /\ \A other \in 1..Len(faces) \ {face} : faces[other] < faces[face]

FaceNumbers == UNION {1..Len(faces) : faces \in FaceLists}
EdgeNumbers == UNION {1..Len(edges) : edges \in EdgeLists}
Diameters == UNION {{edges[e] : e \in 1..Len(edges)} : edges \in EdgeLists} \ {0}

FaceSelectors ==
    [kind : {"named_face"}, index : FaceNumbers]
        \cup {[kind |-> "largest_planar_face", index |-> 0]}

\* How far a circle may be from the diameter asked for: the default of a
\* quarter of a millimetre, or a wide one.
Tolerances == {1, 40}

\* EdgeSelector: edges by number, all circles near a diameter, or the boundary
\* of one face, which is some of the edges.
ResolvesEdges(b, selector, edges) ==
    LET diameters == TipShape(b).edges
    IN  /\ HasTip(b)
        /\ edges # {}
        /\ edges \subseteq 1..Len(diameters)
        /\ selector.kind = "named_edges" => edges = selector.names
        /\ selector.kind = "circular_edges" =>
               edges = {e \in 1..Len(diameters) :
                           /\ diameters[e] > 0
                           /\ diameters[e] <= selector.diameter + selector.tolerance
                           /\ selector.diameter <= diameters[e] + selector.tolerance}
        /\ selector.kind = "face_boundary" =>
               \E face \in 1..Len(TipShape(b).faces) :
                   ResolvesFace(b, selector.face, face)

EdgeSelectors ==
    [kind : {"named_edges"}, names : (SUBSET EdgeNumbers) \ {{}}]
        \cup [kind : {"circular_edges"}, diameter : Diameters \cup {d + 1 : d \in Diameters},
              tolerance : Tolerances]
        \cup [kind : {"face_boundary"}, face : FaceSelectors]

-----------------------------------------------------------------------------
(* Bodies and sketches *)

CreateBody ==
    \E b \in Bodies \ bodies :
        /\ bodies' = bodies \cup {b}
        /\ UNCHANGED <<tip, items>>

Adds(item) ==
    /\ Len(items) < MaxItems
    /\ items' = Append(items, item)

\* On a plane of the body's origin.
CreateBodySketch ==
    \E argument \in Bodies \cup {NoBody}, b \in Bodies :
        /\ ResolvesBody(argument, b)
        /\ Adds(Item(Sketch, b, 0, {}, 0, {}, NoShape))
        /\ UNCHANGED <<bodies, tip>>

\* On a face of the tip.
CreateFaceSketch ==
    \E argument \in Bodies \cup {NoBody}, b \in Bodies, selector \in FaceSelectors :
        /\ ResolvesBody(argument, b)
        /\ \E face \in FaceNumbers :
               /\ ResolvesFace(b, selector, face)
               /\ Adds(Item(Sketch, b, 0, {tip[b]}, face, {}, NoShape))
        /\ UNCHANGED <<bodies, tip>>

-----------------------------------------------------------------------------
(* Features *)

\* Seeded bug: the tip is left to body.newObject, which does not advance it
\* for a pattern.
LeftToFreeCad(b, type) == IF type \in Patterns THEN tip[b] ELSE Len(items) + 1

\* The new feature, whatever its type.
TipAfter(b, type) == Len(items) + 1

\* body.newObject builds on the tip; the profile sketch is hidden.
AddsFeature(b, type, uses, edges) ==
    \E shape \in Shapes :
        /\ Len(items) < MaxItems
        /\ items' = Append([i \in Made |->
                        IF i \in uses /\ items[i].type = Sketch
                        THEN [items[i] EXCEPT !.shown = FALSE] ELSE items[i]],
                    Item(type, b, tip[b], uses, 0, edges, shape))
        /\ tip' = [tip EXCEPT ![b] = TipAfter(b, type)]
        /\ UNCHANGED bodies

\* _sketch_in_body: the profile belongs to the body; what removes material
\* needs something to remove it from.
AddSketchBased ==
    \E argument \in Bodies \cup {NoBody}, b \in Bodies, type \in SketchBased :
        /\ ResolvesBody(argument, b)
        /\ type \in {"pocket", "groove", "hole"} => HasTip(b)
        /\ \E profile \in Sketches(b) : AddsFeature(b, type, {profile}, {})

\* _features_in_body: features of this body, its tip when none are named.
AddPattern ==
    \E argument \in Bodies \cup {NoBody}, b \in Bodies, type \in Patterns :
        /\ ResolvesBody(argument, b)
        /\ HasTip(b)
        /\ \E originals \in (SUBSET Features(b)) \ {{}} :
               AddsFeature(b, type, originals, {})

\* _add_dressup: on edges of the tip.
AddDressUp ==
    \E argument \in Bodies \cup {NoBody}, b \in Bodies, type \in DressUps,
       selector \in EdgeSelectors :
        /\ ResolvesBody(argument, b)
        /\ \E edges \in SUBSET EdgeNumbers :
               /\ ResolvesEdges(b, selector, edges)
               /\ AddsFeature(b, type, {tip[b]}, edges)

\* What is computed from feature f, f included; an item is built of earlier ones.
Downstream(f) ==
    LET reached[i \in Made] ==
            i = f \/ \E part \in ({items[i].base} \cup items[i].uses) \ {0} : reached[part]
    IN  {i \in Made : reached[i]}

ElementsFound(i, shapes) ==
    IF items[i].type = Sketch /\ items[i].face # 0
    THEN \A on \in items[i].uses : items[i].face <= Len(shapes[on].faces)
    ELSE items[i].type \in DressUps =>
             \A on \in items[i].uses : items[i].edges \subseteq 1..Len(shapes[on].edges)

\* edit_feature: a type with a registry row; what is built on the feature is
\* computed anew, and the call is aborted when a face or an edge is not there
\* any more.
EditFeature ==
    \E f \in {i \in Made : items[i].type \in SketchBased \cup Patterns} :
        LET changed == {i \in Downstream(f) : items[i].type # Sketch}
        IN  \E new \in [changed -> Shapes] :
                LET shapes == [i \in Made |-> IF i \in changed THEN new[i] ELSE items[i].shape]
                IN  /\ \A i \in Made : ElementsFound(i, shapes)
                    /\ items' = [i \in Made |-> [items[i] EXCEPT !.shape = shapes[i]]]
        /\ UNCHANGED <<bodies, tip>>

-----------------------------------------------------------------------------
DesignInit == bodies = {} /\ tip = [b \in Bodies |-> 0] /\ items = <<>>

DesignNext ==
    \/ CreateBody
    \/ CreateBodySketch
    \/ CreateFaceSketch
    \/ AddSketchBased
    \/ AddPattern
    \/ AddDressUp
    \/ EditFeature

DesignSpec == DesignInit /\ [][DesignNext]_designVars

-----------------------------------------------------------------------------
(* Nothing a body was given is lost from what it shows: every feature is     *)
(* the tip or what another feature of the same body builds on, one feature   *)
(* on each, and a feature uses only what the body already had                *)
(* (create_partdesign_feature, _add_dressup, _features_in_body).             *)
EveryFeatureShows ==
    \A b \in Bodies : \A f \in Features(b) :
        /\ Cardinality({g \in Features(b) : items[g].base = f}) = (IF tip[b] = f THEN 0 ELSE 1)
        /\ \A used \in items[f].uses : used < f /\ items[used].body = b
=============================================================================
