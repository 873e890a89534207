------------------------------ MODULE CadModel ------------------------------
(***************************************************************************)
(* The objects of the active document and the tools that make, find, edit, *)
(* derive, align, duplicate and delete them, with the master parameters    *)
(* (App::VarSet) that drive features by expression.                        *)
(*                                                                         *)
(* One tool call is one step on the GUI thread, inside one transaction     *)
(* (CadTransactions): a call that is refused or aborted changes nothing    *)
(* and is a stuttering step here.  Geometry is one axis: an object stands  *)
(* on "low" and is "size" high.  FreeCAD itself (names and labels made     *)
(* unique, links cleared when their object goes, expressions evaluated by  *)
(* recompute) is modelled from the way the adapter uses it.                *)
(***************************************************************************)
EXTENDS Naturals, FiniteSets

CONSTANTS
    Names,      \* internal names and labels
    Asked,      \* those a caller may ask for; FreeCAD makes up the others
    NoName,     \* no object
    Folded,     \* [Names -> Names]: the same text without its case
    Sizes,      \* heights, lengths and parameter values
    Places,     \* positions and offsets
    MaxCalls    \* bound: tool calls that commit

ASSUME CadModelAssumption ==
    /\ Asked \subseteq Names
    /\ NoName \notin Names
    /\ Folded \in [Names -> Names]
    /\ Sizes \subseteq Nat \ {0}
    /\ Places \subseteq Nat
    /\ MaxCalls \in Nat

VARIABLES
    objects,    \* document.Objects: name -> record
    calls       \* calls committed so far

cadVars == <<objects, calls>>

Existing == DOMAIN objects

Primitives == {"box", "cone"}                 \* editable, placed freely
Solids == Primitives \cup {"derived", "copy", "feature"}

\* sources: SourceObjects; madeFrom: what they were when the feature was made;
\* aligned: AlignmentReference; bound: the parameter set of its expression.
Object(label, kind, sources, low, size) ==
    [label |-> label, kind |-> kind, sources |-> sources, madeFrom |-> sources,
     aligned |-> NoName, bound |-> NoName, shown |-> TRUE, low |-> low,
     size |-> size]

LinksOf(object) == object.sources \cup ({object.aligned, object.bound} \ {NoName})

\* InList: the objects that link to this one.
UsedBy(n) == {m \in Existing : n \in LinksOf(objects[m])}

\* document.recompute: a bound property takes its parameter's value.
Recomputed(all) ==
    [n \in DOMAIN all |->
        IF all[n].bound = NoName THEN all[n]
        ELSE [all[n] EXCEPT !.size = all[all[n].bound].size]]

\* The end of a call that commits.
Becomes(all) ==
    /\ calls < MaxCalls
    /\ calls' = calls + 1
    /\ objects' = Recomputed(all)

With(n, object) == [m \in Existing \cup {n} |-> IF m = n THEN object ELSE objects[m]]

-----------------------------------------------------------------------------
(* References and names *)

Candidates(reference) ==
    {n \in Existing : Folded[reference] \in {Folded[n], Folded[objects[n].label]}}

\* _resolve_document_object: the object of that very name, or else the only
\* one whose name or label is the same but for case.
Resolves(reference, n) ==
    IF reference \in Existing THEN n = reference ELSE Candidates(reference) = {n}

Targets(kinds) ==
    {n \in Existing : /\ objects[n].kind \in kinds
                      /\ \E reference \in Asked : Resolves(reference, n)}

LabelsOf(others) == {objects[m].label : m \in others}

\* FreeCAD keeps a name or a label that is free, and makes another up if not.
MadeUnique(asked, taken) ==
    IF asked \notin taken THEN {asked} ELSE (Names \ Asked) \ taken

\* _ensure_new_name
NewNames == Asked \ Existing

-----------------------------------------------------------------------------
(* Objects of their own *)

\* Box, cylinder, cone, sphere, torus: the name is checked for its form only.
CreatePrimitive ==
    \E asked \in Asked, kind \in Primitives, size \in Sizes :
        \E name \in MadeUnique(asked, Existing),
           label \in MadeUnique(asked, LabelsOf(Existing)) :
            Becomes(With(name, Object(label, kind, {}, 0, size)))

\* Plates, sketches, sweep paths, parametric features and parameter sets must
\* have a name of their own; a parameter set has no parameter yet (size 0).
CreateNamed ==
    \E name \in NewNames, kind \in {"box", "sketch", "path", "feature", "varset"},
       size \in Sizes :
        \E label \in MadeUnique(name, LabelsOf(Existing)) :
            Becomes(With(name, Object(label, kind, {}, 0,
                                      IF kind = "varset" THEN 0 ELSE size)))

DuplicateObject ==
    \E source \in Targets(Solids), name \in NewNames, offset \in Places :
        \E label \in MadeUnique(name, LabelsOf(Existing)) :
            Becomes(With(name, Object(label, "copy", {},
                        objects[source].low + offset, objects[source].size)))

RenameObject ==
    \E n \in Targets(Solids \cup {"sketch", "path", "varset"}), label \in Asked :
        /\ objects[n].label # label
        /\ \A m \in Existing \ {n} : Folded[objects[m].label] # Folded[label]
        /\ Becomes([objects EXCEPT ![n].label = label])

\* Seeded bug: the derived features of an object do not keep it.
ExpressionsOnly(n) == {m \in Existing : objects[m].bound = n}

\* What keeps an object from being deleted.
DependentsOf(n) == UsedBy(n) \ {n}

\* removeObject clears the links to what it removes.
Without(n) ==
    [m \in Existing \ {n} |->
        [objects[m] EXCEPT
            !.sources = @ \ {n},
            !.aligned = IF @ = n THEN NoName ELSE @,
            !.bound = IF @ = n THEN NoName ELSE @]]

DeleteObject ==
    \E n \in Targets(Solids \cup {"sketch", "path", "varset"}) :
        /\ DependentsOf(n) = {}
        /\ Becomes(Without(n))

-----------------------------------------------------------------------------
(* Edits in place *)

\* Editable: the dimensions of primitives and the Length of a parametric pad;
\* an expression on it wins at the recompute, whatever value was set.
SetParameter ==
    \E n \in Targets(Primitives \cup {"feature"}), value \in Sizes :
        /\ objects[n].size # value
        /\ Becomes([objects EXCEPT ![n].size = value])

\* transform_object places it anew, translate_object and rotate_object move it.
MoveObject ==
    \E n \in Targets(Solids), place \in Places :
        /\ \/ /\ place # objects[n].low
              /\ Becomes([objects EXCEPT ![n].low = place])
           \/ /\ place # 0
              /\ Becomes([objects EXCEPT ![n].low = @ + place])

Anchor(n, mode) ==     \* doubled, so that a centre is a whole number
    CASE mode = "base"   -> 2 * objects[n].low
      [] mode = "center" -> 2 * objects[n].low + objects[n].size
      [] mode = "top"    -> 2 * (objects[n].low + objects[n].size)

\* The moving object keeps a link to the one it was aligned with.
AlignConcentric ==
    \E moving, reference \in Targets(Solids), mode \in {"base", "center", "top"},
       offset \in Places, low \in Places :
        /\ moving # reference
        /\ Anchor(moving, mode) # Anchor(reference, mode) + 2 * offset
        /\ 2 * low = 2 * objects[moving].low + Anchor(reference, mode)
                         + 2 * offset - Anchor(moving, mode)
        /\ Becomes([objects EXCEPT ![moving].low = low,
                                   ![moving].aligned = reference])

-----------------------------------------------------------------------------
(* Features derived from the shapes of others *)

\* _derived_feature: a snapshot of the computed shape, linked to its sources,
\* which are hidden.
Derives(sources) ==
    \E name \in NewNames, size \in Sizes :
        \E label \in MadeUnique(name, LabelsOf(Existing)) :
            LET result == With(name, Object(label, "derived", sources, 0, size))
            IN  Becomes([n \in DOMAIN result |->
                            IF n \in sources
                            THEN [result[n] EXCEPT !.shown = FALSE]
                            ELSE result[n]])

\* Pad, revolve: a sketch.  Holes, fillet, chamfer, mirror, patterns: a solid.
DeriveFromOne == \E n \in Targets(Solids \cup {"sketch"}) : Derives({n})

\* Boolean operations and lofts take two different objects of a kind, a sweep
\* takes a sketch and a path.
DeriveFromTwo ==
    \E left, right \in Targets(Solids \cup {"sketch", "path"}) :
        /\ left # right
        /\ \/ {objects[left].kind, objects[right].kind} \subseteq Solids
           \/ objects[left].kind = "sketch" /\ objects[right].kind \in {"sketch", "path"}
        /\ Derives({left, right})

-----------------------------------------------------------------------------
(* Master parameters: one parameter per set is enough here *)

VarSets == Targets({"varset"})

\* Created by the first call, set by the later ones.
SetMasterParameter ==
    \E set \in VarSets, value \in Sizes :
        Becomes([objects EXCEPT ![set].size = value])

\* bind_feature_parameter; an expression must have a value to be accepted.
BindFeatureParameter ==
    \E n \in Targets({"feature"}) :
        \/ \E set \in VarSets :
               /\ objects[set].size # 0
               /\ Becomes([objects EXCEPT ![n].bound = set])
        \/ Becomes([objects EXCEPT ![n].bound = NoName])

-----------------------------------------------------------------------------
CadInit == objects = [n \in {} |-> 0] /\ calls = 0

CadNext ==
    \/ CreatePrimitive
    \/ CreateNamed
    \/ DuplicateObject
    \/ RenameObject
    \/ DeleteObject
    \/ SetParameter
    \/ MoveObject
    \/ AlignConcentric
    \/ DeriveFromOne
    \/ DeriveFromTwo
    \/ SetMasterParameter
    \/ BindFeatureParameter

CadSpec == CadInit /\ [][CadNext]_cadVars

-----------------------------------------------------------------------------
(* No sequence of calls takes a source from a derived feature, nor the      *)
(* parameter from a bound one: what an object was built from outlives it,   *)
(* and a bound dimension has its parameter's value after every call, also   *)
(* after it was set directly (delete_object, _derived_feature, bindings).   *)
ConstructionHolds ==
    \A n \in Existing :
        /\ objects[n].sources = objects[n].madeFrom
        /\ LinksOf(objects[n]) \subseteq Existing
        /\ objects[n].bound # NoName => objects[n].size = objects[objects[n].bound].size
=============================================================================
