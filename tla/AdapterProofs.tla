---------------------------- MODULE AdapterProofs -----------------------------
(***************************************************************************)
(* Theorems about the modules of the FreeCAD adapter, which share nothing: *)
(* CadModel, CadTransactions, ContextTracker, SessionFile, ViewCapture,    *)
(* SketchModel, PartDesign, MechanicalParts and FeatureGeometry, each with *)
(* an invariant of its own.                                                *)
(***************************************************************************)
EXTENDS CadModel, CadTransactions, ContextTracker, SessionFile, ViewCapture, SketchModel,
        PartDesign, MechanicalParts, FeatureGeometry, SequenceTheorems, FiniteSetTheorems,
        WellFoundedInduction, TLAPS

-------------------------------------------------------------------------------
(***************************************************************************)
(* What an object was built from outlives it, for any names, sizes, places *)
(* and however objects are renamed, moved, aligned, bound and deleted.     *)
(***************************************************************************)

ObjectKinds == Solids \cup {"sketch", "path", "varset"}

ObjectRecords ==
    [label : Names, kind : ObjectKinds, sources : SUBSET Names, madeFrom : SUBSET Names,
     aligned : Names \cup {NoName}, bound : Names \cup {NoName}, shown : BOOLEAN,
     low : Nat, size : Nat]

IsTable(all) ==
    /\ DOMAIN all \subseteq Names
    /\ all = [n \in DOMAIN all |-> all[n]]
    /\ \A n \in DOMAIN all : all[n] \in ObjectRecords

\* The links of a table lead to its objects, and only parameter sets, which are
\* bound to nothing, drive others.
Linked(all) ==
    \A n \in DOMAIN all :
        /\ all[n].sources = all[n].madeFrom
        /\ LinksOf(all[n]) \subseteq DOMAIN all
        /\ all[n].kind = "varset" => all[n].bound = NoName
        /\ all[n].bound # NoName => all[all[n].bound].kind = "varset"

SoundModel(all) == IsTable(all) /\ Linked(all)

ModelIInv == SoundModel(objects) /\ ConstructionHolds

-----------------------------------------------------------------------------
\* A recompute writes sizes only, and takes them from objects it leaves alone.
LEMMA RecomputeSettles ==
    ASSUME NEW all, SoundModel(all), objects' = Recomputed(all)
    PROVE  ModelIInv'
<1> USE CadModelAssumption DEF IsTable, Linked, SoundModel, LinksOf
<1>1. \A n \in DOMAIN all : all[n].bound # NoName =>
          /\ all[n].bound \in DOMAIN all
          /\ all[all[n].bound].bound = NoName
  BY DEF ObjectRecords
<1>2. /\ DOMAIN objects' = DOMAIN all
      /\ objects' = [n \in DOMAIN objects' |-> objects'[n]]
  BY DEF Recomputed
<1>3. ASSUME NEW n \in DOMAIN all
      PROVE  /\ objects'[n] \in ObjectRecords
             /\ objects'[n].sources = all[n].sources
             /\ objects'[n].madeFrom = all[n].madeFrom
             /\ objects'[n].aligned = all[n].aligned
             /\ objects'[n].bound = all[n].bound
             /\ objects'[n].kind = all[n].kind
             /\ all[n].bound = NoName => objects'[n].size = all[n].size
             /\ all[n].bound # NoName => objects'[n].size = all[all[n].bound].size
  <2>1. CASE all[n].bound = NoName
    BY <2>1 DEF Recomputed
  <2>2. CASE all[n].bound # NoName
    <3>1. all[all[n].bound].size \in Nat
      BY <1>1, <2>2 DEF ObjectRecords
    <3>2. objects'[n] = [all[n] EXCEPT !.size = all[all[n].bound].size]
      BY <2>2 DEF Recomputed
    <3> QED
      BY <2>2, <3>1, <3>2 DEF ObjectRecords
  <2> QED
    BY <2>1, <2>2
<1>4. SoundModel(objects')
  BY <1>1, <1>2, <1>3
<1>5. ConstructionHolds'
  BY <1>1, <1>2, <1>3, <1>4 DEF ConstructionHolds, Existing
<1> QED
  BY <1>4, <1>5 DEF ModelIInv

\* A new object whose sources exist.
LEMMA AdditionIsSound ==
    ASSUME SoundModel(objects), NEW n \in Names \ Existing, NEW label \in Names,
           NEW kind \in ObjectKinds, NEW sources \in SUBSET Existing,
           NEW low \in Nat, NEW size \in Nat
    PROVE  SoundModel(With(n, Object(label, kind, sources, low, size)))
<1> DEFINE new == Object(label, kind, sources, low, size)
           all == With(n, new)
<1> USE CadModelAssumption
<1>1. Existing \subseteq Names
  BY DEF SoundModel, IsTable, Existing
<1>2. new \in ObjectRecords
  BY <1>1 DEF Object, ObjectRecords
<1>0. /\ new.sources = sources /\ new.madeFrom = sources
      /\ new.aligned = NoName /\ new.bound = NoName
  BY DEF Object
<1> HIDE DEF new
<1>3. /\ DOMAIN all = Existing \cup {n}
      /\ all = [m \in DOMAIN all |-> all[m]]
      /\ all[n] = new
      /\ \A m \in Existing : all[m] = objects[m]
  BY DEF With
<1>4. IsTable(all)
  BY <1>1, <1>2, <1>3 DEF SoundModel, IsTable, Existing
<1>5. ASSUME NEW m \in DOMAIN all
      PROVE  /\ all[m].sources = all[m].madeFrom
             /\ LinksOf(all[m]) \subseteq DOMAIN all
             /\ all[m].kind = "varset" => all[m].bound = NoName
             /\ all[m].bound # NoName => all[all[m].bound].kind = "varset"
  <2>1. CASE m = n
    BY <1>3, <1>0, <2>1 DEF LinksOf
  <2>2. CASE m \in Existing
    <3>1. all[m].bound # NoName => all[m].bound \in Existing
      BY <1>3, <2>2 DEF SoundModel, Linked, LinksOf, Existing
    <3>2. all[m] = objects[m] /\ LinksOf(all[m]) \subseteq Existing
      BY <1>3, <2>2 DEF SoundModel, Linked, Existing
    <3>3. all[m].bound # NoName => all[all[m].bound] = objects[objects[m].bound]
      BY <1>3, <3>1, <3>2
    <3> HIDE DEF all
    <3> QED
      BY <1>3, <2>2, <3>1, <3>2, <3>3 DEF SoundModel, Linked, Existing
  <2> QED
    BY <1>3, <2>1, <2>2
<1>6. Linked(all)
  BY <1>5 DEF Linked
<1> QED
  BY <1>4, <1>6 DEF SoundModel, new

\* What a caller may name is an object of one of the kinds asked for.
LEMMA TargetsExist ==
    ASSUME NEW kinds, NEW n \in Targets(kinds)
    PROVE  n \in Existing /\ objects[n].kind \in kinds
BY DEF Targets

LEMMA UniqueNames ==
    ASSUME NEW asked \in Asked, NEW used, NEW n \in MadeUnique(asked, used)
    PROVE  n \in Names \ used
BY CadModelAssumption DEF MadeUnique

\* One object is changed in a field that links nothing.
Edited(n, object) ==
    /\ object \in ObjectRecords
    /\ object.kind = objects[n].kind
    /\ object.sources = objects[n].sources
    /\ object.madeFrom = objects[n].madeFrom
    /\ object.bound = objects[n].bound
    /\ object.aligned \in Existing \cup {objects[n].aligned}

LEMMA OneReplaced ==
    ASSUME SoundModel(objects), NEW n \in Existing, NEW object, Edited(n, object)
    PROVE  SoundModel([objects EXCEPT ![n] = object])
<1> DEFINE all == [objects EXCEPT ![n] = object]
<1>1. /\ DOMAIN all = Existing
      /\ all = [m \in DOMAIN all |-> all[m]]
      /\ all[n] = object
      /\ \A m \in Existing \ {n} : all[m] = objects[m]
  BY DEF Existing, SoundModel, IsTable
<1>2. \A m \in Existing : all[m].kind = objects[m].kind /\ all[m].bound = objects[m].bound
  BY <1>1 DEF Edited
<1>3. \A m \in Existing : all[m] \in ObjectRecords
  BY <1>1 DEF Edited, SoundModel, IsTable, Existing
<1> HIDE DEF all
<1>4. IsTable(all)
  BY <1>1, <1>3 DEF SoundModel, IsTable, Existing
<1>5. \A m \in Existing : all[m].sources = all[m].madeFrom /\ LinksOf(all[m]) \subseteq Existing
  <2>1. \A m \in Existing : objects[m].sources = objects[m].madeFrom
                            /\ LinksOf(objects[m]) \subseteq Existing
    BY DEF SoundModel, Linked, Existing
  <2> QED
    BY <1>1, <2>1 DEF LinksOf, Edited
<1>6. \A m \in Existing : objects[m].bound # NoName => objects[m].bound \in Existing
  BY DEF SoundModel, Linked, LinksOf, Existing
<1>7. Linked(all)
  BY <1>1, <1>2, <1>5, <1>6 DEF SoundModel, Linked, Existing
<1> QED
  BY <1>4, <1>7 DEF SoundModel, all

LEMMA OneEdited ==
    ASSUME SoundModel(objects), NEW n \in Existing
    PROVE  /\ \A label \in Names : SoundModel([objects EXCEPT ![n].label = label])
           /\ \A low \in Nat : SoundModel([objects EXCEPT ![n].low = low])
           /\ \A size \in Nat : SoundModel([objects EXCEPT ![n].size = size])
<1>1. objects[n] \in ObjectRecords
  BY DEF SoundModel, IsTable, Existing
<1>2. ASSUME NEW label \in Names
      PROVE  SoundModel([objects EXCEPT ![n].label = label])
  <2>1. Edited(n, [objects[n] EXCEPT !.label = label])
    BY <1>1 DEF Edited, ObjectRecords
  <2> QED
    BY <2>1, OneReplaced
<1>3. ASSUME NEW low \in Nat
      PROVE  SoundModel([objects EXCEPT ![n].low = low])
  <2>1. Edited(n, [objects[n] EXCEPT !.low = low])
    BY <1>1 DEF Edited, ObjectRecords
  <2> QED
    BY <2>1, OneReplaced
<1>4. ASSUME NEW size \in Nat
      PROVE  SoundModel([objects EXCEPT ![n].size = size])
  <2>1. Edited(n, [objects[n] EXCEPT !.size = size])
    BY <1>1 DEF Edited, ObjectRecords
  <2> QED
    BY <2>1, OneReplaced
<1> QED
  BY <1>2, <1>3, <1>4

LEMMA OneAligned ==
    ASSUME SoundModel(objects), NEW n \in Existing, NEW reference \in Existing, NEW low \in Nat
    PROVE  SoundModel([objects EXCEPT ![n].low = low, ![n].aligned = reference])
<1> DEFINE object == [objects[n] EXCEPT !.low = low, !.aligned = reference]
<1>1. objects[n] \in ObjectRecords /\ reference \in Names
  BY DEF SoundModel, IsTable, Existing
<1>2. Edited(n, object)
  BY <1>1 DEF Edited, ObjectRecords
<1>3. [objects EXCEPT ![n].low = low, ![n].aligned = reference]
          = [objects EXCEPT ![n] = object]
  BY DEF Existing, SoundModel, IsTable
<1> HIDE DEF object
<1> QED
  BY <1>2, <1>3, OneReplaced

\* A feature is bound to a parameter set, or to nothing.
LEMMA OneBound ==
    ASSUME SoundModel(objects), NEW n \in Existing, NEW set \in Existing \cup {NoName},
           objects[n].kind = "feature", set # NoName => objects[set].kind = "varset"
    PROVE  SoundModel([objects EXCEPT ![n].bound = set])
<1> DEFINE all == [objects EXCEPT ![n].bound = set]
<1>1. /\ \A m \in Existing : objects[m] \in ObjectRecords
      /\ Existing \subseteq Names
      /\ NoName \notin Existing
  BY CadModelAssumption DEF SoundModel, IsTable, Existing
<1>2. /\ DOMAIN all = Existing
      /\ all = [m \in DOMAIN all |-> all[m]]
      /\ all[n] = [objects[n] EXCEPT !.bound = set]
      /\ \A m \in Existing \ {n} : all[m] = objects[m]
  BY DEF Existing, SoundModel, IsTable
<1> HIDE DEF all
<1>3. \A m \in Existing : all[m] \in ObjectRecords
  BY <1>1, <1>2 DEF ObjectRecords
<1>4. \A m \in Existing : /\ all[m].kind = objects[m].kind
                          /\ all[m].sources = objects[m].sources
                          /\ all[m].madeFrom = objects[m].madeFrom
                          /\ all[m].aligned = objects[m].aligned
                          /\ all[m].bound = IF m = n THEN set ELSE objects[m].bound
  BY <1>1, <1>2 DEF ObjectRecords
<1>5. \A m \in Existing : /\ objects[m].sources = objects[m].madeFrom
                          /\ LinksOf(objects[m]) \subseteq Existing
                          /\ objects[m].kind = "varset" => objects[m].bound = NoName
                          /\ objects[m].bound # NoName =>
                                 objects[objects[m].bound].kind = "varset"
  BY DEF SoundModel, Linked, Existing
<1>6. \A m \in Existing : objects[m].bound # NoName => objects[m].bound \in Existing
  BY <1>5 DEF LinksOf
<1>7. \A m \in Existing : LinksOf(all[m]) \subseteq Existing
  BY <1>4, <1>5 DEF LinksOf
<1>8. \A m \in Existing : all[m].kind = "varset" => all[m].bound = NoName
  BY <1>4, <1>5
<1>9. \A m \in Existing : all[m].bound # NoName => all[all[m].bound].kind = "varset"
  BY <1>4, <1>5, <1>6
<1>10. Linked(all)
  BY <1>2, <1>4, <1>5, <1>7, <1>8, <1>9 DEF Linked
<1>11. IsTable(all)
  BY <1>1, <1>2, <1>3 DEF IsTable
<1> QED
  BY <1>10, <1>11 DEF SoundModel, all

\* What nothing links to can go.
LEMMA RemovalIsSound ==
    ASSUME SoundModel(objects), NEW n \in Existing, DependentsOf(n) = {}
    PROVE  SoundModel(Without(n))
<1> DEFINE all == Without(n)
<1>1. \A m \in Existing : /\ objects[m] \in ObjectRecords
                          /\ objects[m].sources = objects[m].madeFrom
                          /\ LinksOf(objects[m]) \subseteq Existing
                          /\ objects[m].kind = "varset" => objects[m].bound = NoName
                          /\ objects[m].bound # NoName =>
                                 objects[objects[m].bound].kind = "varset"
  BY DEF SoundModel, IsTable, Linked, Existing
<1>2. \A m \in Existing \ {n} : n \notin LinksOf(objects[m])
  BY DEF DependentsOf, UsedBy
<1>3. NoName # n
  BY CadModelAssumption DEF SoundModel, IsTable, Existing
<1>4. ASSUME NEW m \in Existing \ {n}
      PROVE  all[m] = objects[m]
  <2>1. /\ n \notin objects[m].sources
        /\ objects[m].aligned # n
        /\ objects[m].bound # n
    BY <1>2, <1>3 DEF LinksOf
  <2>2. objects[m].sources \ {n} = objects[m].sources
    BY <2>1
  <2> QED
    BY <1>1, <2>1, <2>2, SMTT(30), ZenonT(20) DEF Without, ObjectRecords
<1>5. DOMAIN all = Existing \ {n} /\ all = [m \in DOMAIN all |-> all[m]]
  BY DEF Without
<1> HIDE DEF all
<1>6. \A m \in Existing \ {n} : objects[m].bound # NoName =>
          objects[m].bound \in Existing \ {n}
  BY <1>1, <1>2 DEF LinksOf
<1>7. IsTable(all)
  BY <1>1, <1>4, <1>5 DEF SoundModel, IsTable, Existing
<1>8. Linked(all)
  BY <1>1, <1>2, <1>4, <1>5, <1>6 DEF Linked
<1> QED
  BY <1>7, <1>8 DEF SoundModel, all

\* A derived feature hides its sources and is linked to them.
LEMMA DerivedIsSound ==
    ASSUME SoundModel(objects), NEW sources \in SUBSET Existing, Derives(sources)
    PROVE  ModelIInv'
<1> USE CadModelAssumption
<1>1. PICK name \in NewNames, size \in Sizes :
          \E label \in MadeUnique(name, LabelsOf(Existing)) :
              LET result == With(name, Object(label, "derived", sources, 0, size))
              IN  Becomes([n \in DOMAIN result |->
                              IF n \in sources
                              THEN [result[n] EXCEPT !.shown = FALSE]
                              ELSE result[n]])
  BY DEF Derives
<1>2. PICK label \in MadeUnique(name, LabelsOf(Existing)) :
          LET result == With(name, Object(label, "derived", sources, 0, size))
          IN  Becomes([n \in DOMAIN result |->
                          IF n \in sources
                          THEN [result[n] EXCEPT !.shown = FALSE]
                          ELSE result[n]])
  BY <1>1
<1> DEFINE result == With(name, Object(label, "derived", sources, 0, size))
           all == [n \in DOMAIN result |->
                      IF n \in sources THEN [result[n] EXCEPT !.shown = FALSE]
                      ELSE result[n]]
<1>3. name \in Asked /\ name \in Names \ Existing
  BY DEF NewNames
<1>4. label \in Names
  BY <1>3, UniqueNames
<1>5. "derived" \in ObjectKinds /\ size \in Nat
  BY DEF ObjectKinds, Solids
<1>6. SoundModel(result)
  BY <1>3, <1>4, <1>5, AdditionIsSound
<1>7. Becomes(all)
  BY <1>2
<1> HIDE DEF result
<1>8. \A n \in DOMAIN result : result[n] \in ObjectRecords
  BY <1>6 DEF SoundModel, IsTable
<1>9. DOMAIN all = DOMAIN result /\ all = [n \in DOMAIN all |-> all[n]]
  OBVIOUS
<1>10. \A n \in DOMAIN result : /\ all[n] \in ObjectRecords
                               /\ all[n].kind = result[n].kind
                               /\ all[n].sources = result[n].sources
                               /\ all[n].madeFrom = result[n].madeFrom
                               /\ all[n].aligned = result[n].aligned
                               /\ all[n].bound = result[n].bound
  BY <1>8 DEF ObjectRecords
<1> HIDE DEF all
<1>11. IsTable(all)
  BY <1>6, <1>9, <1>10 DEF SoundModel, IsTable
<1>12. \A n \in DOMAIN result : result[n].bound # NoName => result[n].bound \in DOMAIN result
  BY <1>6 DEF SoundModel, Linked, LinksOf
<1>13. Linked(all)
  BY <1>6, <1>9, <1>10, <1>12 DEF SoundModel, Linked, LinksOf
<1> QED
  BY <1>7, <1>11, <1>13, RecomputeSettles DEF Becomes, SoundModel

-----------------------------------------------------------------------------
THEOREM ModelInvariant == CadSpec => []ModelIInv
<1> USE CadModelAssumption
<1>1. CadInit => ModelIInv
  BY DEF CadInit, ModelIInv, SoundModel, IsTable, Linked, ConstructionHolds, Existing
<1>2. ModelIInv /\ [CadNext]_cadVars => ModelIInv'
  <2> SUFFICES ASSUME ModelIInv, [CadNext]_cadVars
               PROVE  ModelIInv'
    OBVIOUS
  <2>a. SoundModel(objects) /\ Existing \subseteq Names /\ NoName \notin Existing
    BY DEF ModelIInv, SoundModel, IsTable, Existing
  <2>b. \A all : SoundModel(all) /\ Becomes(all) => ModelIInv'
    BY RecomputeSettles DEF Becomes
  <2>1. CASE CreatePrimitive
    <3>1. PICK asked \in Asked, kind \in Primitives, size \in Sizes :
              \E name \in MadeUnique(asked, Existing),
                 label \in MadeUnique(asked, LabelsOf(Existing)) :
                  Becomes(With(name, Object(label, kind, {}, 0, size)))
      BY <2>1 DEF CreatePrimitive
    <3>2. PICK name \in MadeUnique(asked, Existing),
               label \in MadeUnique(asked, LabelsOf(Existing)) :
                  Becomes(With(name, Object(label, kind, {}, 0, size)))
      BY <3>1
    <3>3. name \in Names \ Existing /\ label \in Names
      BY UniqueNames
    <3>4. kind \in ObjectKinds /\ size \in Nat
      BY DEF ObjectKinds, Solids
    <3>5. SoundModel(With(name, Object(label, kind, {}, 0, size)))
      BY <2>a, <3>3, <3>4, AdditionIsSound
    <3> QED
      BY <2>b, <3>2, <3>5
  <2>2. CASE CreateNamed
    <3>1. PICK name \in NewNames, kind \in {"box", "sketch", "path", "feature", "varset"},
               size \in Sizes :
              \E label \in MadeUnique(name, LabelsOf(Existing)) :
                  Becomes(With(name, Object(label, kind, {}, 0,
                                            IF kind = "varset" THEN 0 ELSE size)))
      BY <2>2 DEF CreateNamed
    <3>2. PICK label \in MadeUnique(name, LabelsOf(Existing)) :
                  Becomes(With(name, Object(label, kind, {}, 0,
                                            IF kind = "varset" THEN 0 ELSE size)))
      BY <3>1
    <3>3. name \in Asked /\ name \in Names \ Existing
      BY DEF NewNames
    <3>4. label \in Names
      BY <3>3, UniqueNames
    <3>5. kind \in ObjectKinds /\ (IF kind = "varset" THEN 0 ELSE size) \in Nat
      BY DEF ObjectKinds, Solids, Primitives
    <3>6. SoundModel(With(name, Object(label, kind, {}, 0, IF kind = "varset" THEN 0 ELSE size)))
      BY <2>a, <3>3, <3>4, <3>5, AdditionIsSound
    <3> QED
      BY <2>b, <3>2, <3>6
  <2>3. CASE DuplicateObject
    <3>1. PICK source \in Targets(Solids), name \in NewNames, offset \in Places :
              \E label \in MadeUnique(name, LabelsOf(Existing)) :
                  Becomes(With(name, Object(label, "copy", {},
                              objects[source].low + offset, objects[source].size)))
      BY <2>3 DEF DuplicateObject
    <3>2. PICK label \in MadeUnique(name, LabelsOf(Existing)) :
                  Becomes(With(name, Object(label, "copy", {},
                              objects[source].low + offset, objects[source].size)))
      BY <3>1
    <3>3. name \in Asked /\ name \in Names \ Existing
      BY DEF NewNames
    <3>4. label \in Names
      BY <3>3, UniqueNames
    <3>5. objects[source] \in ObjectRecords
      BY <2>a, TargetsExist DEF SoundModel, IsTable, Existing
    <3>6. objects[source].low + offset \in Nat /\ objects[source].size \in Nat
      <4>1. objects[source].low \in Nat /\ objects[source].size \in Nat
        BY <3>5 DEF ObjectRecords
      <4>2. offset \in Nat
        OBVIOUS
      <4> QED
        BY <4>1, <4>2
    <3>7. "copy" \in ObjectKinds
      BY DEF ObjectKinds, Solids
    <3>8. SoundModel(With(name, Object(label, "copy", {},
                     objects[source].low + offset, objects[source].size)))
      BY <2>a, <3>3, <3>4, <3>6, <3>7, AdditionIsSound
    <3> QED
      BY <2>b, <3>2, <3>8
  <2>4. CASE RenameObject
    <3>1. PICK n \in Existing, label \in Names :
              Becomes([objects EXCEPT ![n].label = label])
      BY <2>4, TargetsExist DEF RenameObject
    <3>2. SoundModel([objects EXCEPT ![n].label = label])
      BY <2>a, <3>1, OneEdited
    <3> QED
      BY <2>b, <3>1, <3>2
  <2>5. CASE DeleteObject
    <3>1. PICK n \in Existing : DependentsOf(n) = {} /\ Becomes(Without(n))
      BY <2>5, TargetsExist DEF DeleteObject
    <3> QED
      BY <2>a, <2>b, <3>1, RemovalIsSound
  <2>6. CASE SetParameter
    <3>1. PICK n \in Existing, value \in Nat :
              Becomes([objects EXCEPT ![n].size = value])
      BY <2>6, TargetsExist DEF SetParameter
    <3>2. SoundModel([objects EXCEPT ![n].size = value])
      BY <2>a, <3>1, OneEdited
    <3> QED
      BY <2>b, <3>1, <3>2
  <2>7. CASE MoveObject
    <3>1. PICK n \in Existing, low \in Nat :
              Becomes([objects EXCEPT ![n].low = low])
      <4>1. PICK n \in Targets(Solids), place \in Places :
                \/ Becomes([objects EXCEPT ![n].low = place])
                \/ Becomes([objects EXCEPT ![n].low = @ + place])
        BY <2>7 DEF MoveObject
      <4>2. n \in Existing /\ objects[n] \in ObjectRecords
        BY <2>a, TargetsExist DEF SoundModel, IsTable, Existing
      <4>3. place \in Nat /\ objects[n].low + place \in Nat
        BY <4>2 DEF ObjectRecords
      <4>4. [objects EXCEPT ![n].low = @ + place]
                = [objects EXCEPT ![n].low = objects[n].low + place]
        BY <4>2 DEF Existing
      <4> QED
        BY <4>1, <4>2, <4>3, <4>4
    <3>2. SoundModel([objects EXCEPT ![n].low = low])
      BY <2>a, <3>1, OneEdited
    <3> QED
      BY <2>b, <3>1, <3>2
  <2>8. CASE AlignConcentric
    <3>1. PICK moving \in Existing, reference \in Existing, low \in Nat :
              Becomes([objects EXCEPT ![moving].low = low, ![moving].aligned = reference])
      BY <2>8, TargetsExist, SMTT(30), ZenonT(20) DEF AlignConcentric
    <3>2. SoundModel([objects EXCEPT ![moving].low = low, ![moving].aligned = reference])
      BY <2>a, <3>1, OneAligned
    <3> QED
      BY <2>b, <3>1, <3>2
  <2>9. CASE DeriveFromOne
    <3>1. PICK n \in Existing : Derives({n})
      BY <2>9, TargetsExist DEF DeriveFromOne
    <3> QED
      BY <2>a, <2>b, <3>1, DerivedIsSound
  <2>10. CASE DeriveFromTwo
    <3>1. PICK one \in Existing, two \in Existing : Derives({one, two})
      BY <2>10, TargetsExist DEF DeriveFromTwo
    <3> QED
      BY <2>a, <2>b, <3>1, DerivedIsSound
  <2>11. CASE SetMasterParameter
    <3>1. PICK set \in Existing, value \in Nat :
              Becomes([objects EXCEPT ![set].size = value])
      BY <2>11, TargetsExist DEF SetMasterParameter, VarSets
    <3>2. SoundModel([objects EXCEPT ![set].size = value])
      BY <2>a, <3>1, OneEdited
    <3> QED
      BY <2>b, <3>1, <3>2
  <2>12. CASE BindFeatureParameter
    <3>1. PICK n \in Existing, set \in Existing \cup {NoName} :
              /\ objects[n].kind = "feature"
              /\ set # NoName => objects[set].kind = "varset"
              /\ Becomes([objects EXCEPT ![n].bound = set])
      <4>1. PICK n \in Targets({"feature"}) :
                \/ \E set \in VarSets : Becomes([objects EXCEPT ![n].bound = set])
                \/ Becomes([objects EXCEPT ![n].bound = NoName])
        BY <2>12 DEF BindFeatureParameter
      <4>2. n \in Existing /\ objects[n].kind = "feature"
        BY TargetsExist
      <4>3. \A set \in VarSets : set \in Existing /\ objects[set].kind = "varset"
        BY TargetsExist DEF VarSets
      <4> QED
        BY <4>1, <4>2, <4>3
    <3> QED
      BY <2>a, <2>b, <3>1, OneBound
  <2>13. CASE UNCHANGED cadVars
    BY <2>13 DEF cadVars, ModelIInv, SoundModel, ConstructionHolds, Existing
  <2> QED
    BY <2>1, <2>2, <2>3, <2>4, <2>5, <2>6, <2>7, <2>8, <2>9, <2>10, <2>11, <2>12, <2>13
       DEF CadNext
<1> QED
  BY <1>1, <1>2, PTL DEF CadSpec

(* No sequence of calls takes a source from a derived feature or the        *)
(* parameter from a bound one (delete_object, _derived_feature, bindings).  *)
THEOREM WhatWasBuiltOnStays == CadSpec => []ConstructionHolds
<1>1. ModelIInv => ConstructionHolds
  BY DEF ModelIInv
<1> QED
  BY <1>1, ModelInvariant, PTL

-------------------------------------------------------------------------------
(***************************************************************************)
(* What cad.undo puts on the record, for any number of documents, changes  *)
(* and entries of the undo stack.                                          *)
(*                                                                         *)
(* While nothing was disturbed, the remembered counts and the undo stack   *)
(* are two views of one history: only one document has anything to undo,   *)
(* the counts never fall and pass the stack by one at most, the last       *)
(* transaction remembered with a count is the entry it points at, if there *)
(* is one, and no entry of TALOS is forgotten.  Transactions that an undo  *)
(* which raised took back are those above the stack, or hidden behind a    *)
(* later one with their count.                                             *)
(***************************************************************************)

OneStack ==
    \A d, e \in Documents : undoable[d] # <<>> /\ undoable[e] # <<>> => d = e

LastOfCount(k) == \A j \in (k + 1)..Len(audited) : audited[j].count > audited[k].count

RememberedAreEntries ==
    \A d \in Documents : \A k \in DOMAIN audited :
        audited[k].count \in DOMAIN undoable[d] /\ LastOfCount(k)
            => undoable[d][audited[k].count].tx = audited[k].tx

CountsGrow ==
    \A j, k \in DOMAIN audited : j < k => audited[j].count <= audited[k].count

CountsReach ==
    \A k \in DOMAIN audited : \E d \in Documents : audited[k].count <= UndoCount(d) + 1

EntriesAreRemembered ==
    \A d \in Documents : \A i \in DOMAIN undoable[d] :
        undoable[d][i].tx # 0 => \E k \in DOMAIN audited : audited[k].count = i

StacksAgree ==
    /\ OneStack /\ RememberedAreEntries /\ CountsGrow /\ CountsReach
    /\ EntriesAreRemembered

TxIInv == TxTypeOK /\ (~disturbed => StacksAgree) /\ UndisturbedUndoIsExact

-----------------------------------------------------------------------------
(* Sequences *)

LEMMA AppendFacts ==
    ASSUME NEW S, NEW s \in Seq(S), NEW x \in S
    PROVE  /\ Append(s, x) \in Seq(S)
           /\ Len(Append(s, x)) = Len(s) + 1
           /\ DOMAIN Append(s, x) = 1..(Len(s) + 1)
           /\ \A i \in 1..Len(s) : Append(s, x)[i] = s[i]
           /\ Append(s, x)[Len(s) + 1] = x
  OBVIOUS

LEMMA FrontFacts ==
    ASSUME NEW S, NEW s \in Seq(S), s # <<>>
    PROVE  /\ SubSeq(s, 1, Len(s) - 1) \in Seq(S)
           /\ Len(SubSeq(s, 1, Len(s) - 1)) = Len(s) - 1
           /\ DOMAIN SubSeq(s, 1, Len(s) - 1) = 1..(Len(s) - 1)
           /\ \A i \in 1..(Len(s) - 1) : SubSeq(s, 1, Len(s) - 1)[i] = s[i]
           /\ Len(s) \in Nat \ {0}
<1>1. Len(s) \in Nat \ {0}
    OBVIOUS
<1>. DEFINE front == SubSeq(s, 1, Len(s) - 1)
<1>2. \A i \in 1..(Len(s) - 1) : s[i] \in S
    BY <1>1
<1>3. /\ front \in Seq(S)
      /\ Len(front) = IF 1 <= Len(s) - 1 THEN (Len(s) - 1) - 1 + 1 ELSE 0
      /\ \A i \in 1..((Len(s) - 1) - 1 + 1) : front[i] = s[1 + i - 1]
    BY <1>1, <1>2, SubSeqProperties
<1>. HIDE DEF front
<1>4. Len(front) = Len(s) - 1
    <2>1. \A n \in Nat \ {0} : (IF 1 <= n - 1 THEN (n - 1) - 1 + 1 ELSE 0) = n - 1
        OBVIOUS
    <2>. QED  BY <1>1, <1>3, <2>1, Zenon
<1>5. \A i \in 1..(Len(s) - 1) : front[i] = s[i]
    BY <1>1, <1>3
<1>6. DOMAIN front = 1..(Len(s) - 1)
    BY <1>1, <1>3, <1>4
<1>. QED  BY <1>1, <1>3, <1>4, <1>5, <1>6 DEF front

LEMMA TailFacts ==
    ASSUME NEW S, NEW s \in Seq(S), s # <<>>
    PROVE  Tail(s) \in Seq(S) /\ Len(Tail(s)) = Len(s) - 1
  OBVIOUS

LEMMA LeastOf ==
    ASSUME NEW T, T \subseteq Nat, T # {}
    PROVE  \E least \in T : \A y \in T : least <= y
<1>1. PICK least \in T : \A y \in T : <<y, least>> \notin OpToRel(<, Nat)
    BY NatLessThanWellFounded, WFMin, SMTT(30), ZenonT(20)
<1>2. \A y \in Nat : y < least => <<y, least>> \in OpToRel(<, Nat)
    BY DEF OpToRel
<1>3. ASSUME NEW y \in T PROVE least <= y
    <2>1. ~(y < least)
        BY <1>1, <1>2, SMTT(30), ZenonT(20)
    <2>. QED  BY <2>1
<1>. QED  BY <1>3

-----------------------------------------------------------------------------
(* Types *)

UndoEntries == [tx : 0..MaxChanges, before : 0..MaxChanges]
RedoEntries == [tx : 0..MaxChanges, after : 0..MaxChanges]

\* A full stack stays as long as it was.
LEMMA PushedType ==
    ASSUME NEW s \in Seq(UndoEntries), Len(s) <= MaxUndo, NEW x \in UndoEntries
    PROVE  /\ Pushed(s, x) \in Seq(UndoEntries)
           /\ Len(Pushed(s, x)) \in 1..MaxUndo
<1>. DEFINE longer == Append(s, x)
<1>1. longer \in Seq(UndoEntries) /\ Len(longer) = Len(s) + 1 /\ longer # <<>>
    BY AppendFacts
<1>2. Tail(longer) \in Seq(UndoEntries) /\ Len(Tail(longer)) = Len(s)
    BY <1>1, TailFacts
<1>. QED  BY <1>1, <1>2, TransactionsAssumption DEF Pushed

\* A commit keeps the types of what it changes, and leaves something to undo.
LEMMA CommitType ==
    ASSUME TxTypeOK, NEW d \in Documents, NEW tx \in {0, changes + 1}, Commit(d, tx)
    PROVE  /\ changes' \in 0..MaxChanges /\ changes + 1 \in 1..MaxChanges
           /\ content' \in [Documents -> 0..MaxChanges]
           /\ undoable' \in [Documents -> Seq(UndoEntries)]
           /\ \A e \in Documents : Len(undoable'[e]) <= MaxUndo
           /\ Len(undoable'[d]) \in 1..MaxUndo
           /\ redoable' \in [Documents -> Seq(RedoEntries)]
<1>1. /\ changes \in Nat /\ changes < MaxChanges /\ changes + 1 \in 1..MaxChanges
      /\ tx \in 0..MaxChanges
    BY TransactionsAssumption DEF TxTypeOK, Commit
<1>0. content[d] \in 0..MaxChanges
    BY DEF TxTypeOK
<1>2. Entry(tx, content[d]) \in UndoEntries
    BY <1>1, <1>0 DEF TxTypeOK, Entry, UndoEntries
<1>3. /\ Pushed(undoable[d], Entry(tx, content[d])) \in Seq(UndoEntries)
      /\ Len(Pushed(undoable[d], Entry(tx, content[d]))) \in 1..MaxUndo
    BY <1>2, PushedType DEF TxTypeOK, UndoCount, UndoEntries
<1>4. undoable' = [undoable EXCEPT ![d] = Pushed(undoable[d], Entry(tx, content[d]))]
    BY DEF Commit
<1>5. /\ undoable \in [Documents -> Seq(UndoEntries)]
      /\ redoable \in [Documents -> Seq(RedoEntries)]
      /\ content \in [Documents -> 0..MaxChanges]
      /\ \A e \in Documents : Len(undoable[e]) <= MaxUndo
    BY DEF TxTypeOK, UndoCount, UndoEntries, RedoEntries
<1>6. /\ undoable' \in [Documents -> Seq(UndoEntries)]
      /\ \A e \in Documents : Len(undoable'[e]) <= MaxUndo
      /\ Len(undoable'[d]) \in 1..MaxUndo
    BY <1>3, <1>4, <1>5
<1>7. content' = [content EXCEPT ![d] = changes + 1] /\ changes' = changes + 1
    BY DEF Commit
<1>8. redoable' = [redoable EXCEPT ![d] = <<>>]
    BY DEF Commit
<1>9. <<>> \in Seq(RedoEntries)
    OBVIOUS
<1>10. redoable' \in [Documents -> Seq(RedoEntries)]
    BY <1>5, <1>8, <1>9
<1>11. content' \in [Documents -> 0..MaxChanges] /\ changes' \in 0..MaxChanges
    BY <1>1, <1>5, <1>7
<1>. QED  BY <1>1, <1>6, <1>10, <1>11

\* An undo hands the last entry over to the redo stack.
LEMMA TakeBackType ==
    ASSUME TxTypeOK, NEW d \in Documents, UndoCount(d) > 0, TakeBack(d)
    PROVE  /\ content' \in [Documents -> 0..MaxChanges]
           /\ undoable' \in [Documents -> Seq(UndoEntries)]
           /\ \A e \in Documents : Len(undoable'[e]) <= MaxUndo
           /\ redoable' \in [Documents -> Seq(RedoEntries)]
           /\ undoable[d][UndoCount(d)].tx \in 0..MaxChanges
<1>. DEFINE entry == undoable[d][UndoCount(d)]
            done == [tx |-> entry.tx, after |-> content[d]]
<1>1. /\ undoable \in [Documents -> Seq(UndoEntries)]
      /\ redoable \in [Documents -> Seq(RedoEntries)]
      /\ content \in [Documents -> 0..MaxChanges]
      /\ \A e \in Documents : Len(undoable[e]) <= MaxUndo
    BY DEF TxTypeOK, UndoCount, UndoEntries, RedoEntries
<1>2. undoable[d] \in Seq(UndoEntries) /\ undoable[d] # <<>>
    BY <1>1 DEF UndoCount
<1>3. entry \in UndoEntries
    BY <1>2 DEF UndoCount
<1>4. /\ SubSeq(undoable[d], 1, Len(undoable[d]) - 1) \in Seq(UndoEntries)
      /\ Len(SubSeq(undoable[d], 1, Len(undoable[d]) - 1)) = Len(undoable[d]) - 1
    BY <1>2, FrontFacts
<1>5. done \in RedoEntries
    BY <1>1, <1>3 DEF UndoEntries, RedoEntries
<1>6. Append(redoable[d], done) \in Seq(RedoEntries)
    BY <1>1, <1>5, AppendFacts
<1>7. /\ content' = [content EXCEPT ![d] = entry.before]
      /\ undoable' = [undoable EXCEPT ![d] = SubSeq(undoable[d], 1, Len(undoable[d]) - 1)]
      /\ redoable' = [redoable EXCEPT ![d] = Append(redoable[d], done)]
    BY DEF TakeBack
<1>8. content' \in [Documents -> 0..MaxChanges] /\ entry.tx \in 0..MaxChanges
    BY <1>1, <1>3, <1>7 DEF UndoEntries
<1>9. redoable' \in [Documents -> Seq(RedoEntries)]
    BY <1>1, <1>6, <1>7
<1>10. undoable' \in [Documents -> Seq(UndoEntries)]
    BY <1>1, <1>4, <1>7
<1>11. \A e \in Documents : Len(undoable'[e]) <= MaxUndo
    <2>. SUFFICES ASSUME NEW e \in Documents PROVE Len(undoable'[e]) <= MaxUndo
        OBVIOUS
    <2>1. Len(undoable[e]) \in Nat /\ Len(undoable[e]) <= MaxUndo
        BY <1>1
    <2>. QED  BY <1>1, <1>4, <1>7, <2>1, TransactionsAssumption
<1>. QED  BY <1>8, <1>9, <1>10, <1>11

\* Dropping counts from the end of the list stops somewhere, and what it leaves is the
\* list up to the last count that is not too great.
LEMMA KeptFacts ==
    ASSUME NEW count \in Nat,
           audited \in Seq([tx : 1..MaxChanges, count : 1..MaxUndo])
    PROVE  \E top \in 0..Len(audited) :
               /\ KeptAudited(count) \in Seq([tx : 1..MaxChanges, count : 1..MaxUndo])
               /\ Len(KeptAudited(count)) = top
               /\ \A k \in 1..top : KeptAudited(count)[k] = audited[k]
               /\ top = 0 \/ audited[top].count <= count
               /\ \A k \in (top + 1)..Len(audited) : audited[k].count > count
<1>. DEFINE Remembered == [tx : 1..MaxChanges, count : 1..MaxUndo]
            Dropped(n) == \A k \in (n + 1)..Len(audited) : audited[k].count > count
            Top(n) == (n = 0 \/ audited[n].count <= count) /\ Dropped(n)
            T == {n \in 0..Len(audited) : Dropped(n)}
            top == CHOOSE n \in 0..Len(audited) : Top(n)
<1>0. Len(audited) \in Nat /\ \A k \in 1..Len(audited) : audited[k] \in Remembered
    <2>1. audited \in Seq(Remembered)
        OBVIOUS
    <2>. HIDE DEF Remembered
    <2>. QED  BY <2>1
<1>1. Len(audited) \in Nat /\ \A k \in 1..Len(audited) : audited[k].count \in Nat
    BY <1>0, TransactionsAssumption
<1>2. Len(audited) \in T /\ T \subseteq Nat
    BY <1>1
<1>3. PICK least \in T : \A n \in T : least <= n
    BY <1>2, LeastOf
<1>4. Top(least)
    <2>1. CASE least = 0
        BY <1>3, <2>1
    <2>2. CASE least # 0
        <3>1. least \in 1..Len(audited) /\ least - 1 \in 0..Len(audited) /\ Dropped(least)
            BY <1>1, <1>3, <2>2
        <3>2. least - 1 \notin T
            <4>1. PICK p : p = least - 1
                OBVIOUS
            <4>2. least \in Nat /\ ~(least <= p)
                BY <3>1, <4>1
            <4>. QED  BY <1>3, <4>1, <4>2
        <3>3. ~Dropped(least - 1)
            BY <3>1, <3>2
        <3>4. PICK k \in ((least - 1) + 1)..Len(audited) : ~(audited[k].count > count)
            BY <3>3
        <3>5. k = least
            BY <1>1, <3>1, <3>4
        <3>. QED  BY <1>1, <3>1, <3>4, <3>5
    <2>. QED  BY <2>1, <2>2
<1>5. top \in 0..Len(audited) /\ Top(top)
    BY <1>3, <1>4
<1>6. KeptAudited(count) = SubSeq(audited, 1, top)
    BY DEF KeptAudited
<1>. HIDE DEF top, Remembered
<1>7. \A k \in 1..top : audited[k] \in Remembered
    BY <1>0, <1>5, SMTT(30), ZenonT(20)
<1>8. /\ SubSeq(audited, 1, top) \in Seq(Remembered)
      /\ Len(SubSeq(audited, 1, top)) = top
      /\ \A k \in 1..top : SubSeq(audited, 1, top)[k] = audited[k]
    <2>1. top = 0 \/ 1 <= top
        BY <1>0, <1>5
    <2>. QED  BY <1>0, <1>5, <1>7, <2>1, SubSeqProperties
<1>. QED  BY <1>5, <1>6, <1>8 DEF Remembered

\* The counts are positive.
LEMMA CountsTyped ==
    ASSUME TxTypeOK
    PROVE  /\ DOMAIN audited = 1..Len(audited) /\ Len(audited) \in Nat
           /\ \A k \in 1..Len(audited) : audited[k].count \in Nat \ {0}
<1>. DEFINE Remembered == [tx : 1..MaxChanges, count : 1..MaxUndo]
<1>1. audited \in Seq(Remembered)
    BY DEF TxTypeOK
<1>2. \A r \in Remembered : r.count \in Nat \ {0}
    BY TransactionsAssumption
<1>. HIDE DEF Remembered
<1>. QED  BY <1>1, <1>2

-----------------------------------------------------------------------------
(* The steps keep the stack and the counts in agreement *)

\* Something undisturbed is pushed on a stack that does not overflow, beside
\* which every other one is empty.
LEMMA CommitGrows ==
    ASSUME TxTypeOK, NEW d \in Documents, NEW tx \in {0, changes + 1}, Commit(d, tx),
           ~Disturbs(d)
    PROVE  /\ undoable' = [undoable EXCEPT ![d] = Append(undoable[d], Entry(tx, content[d]))]
           /\ \A e \in Documents \ {d} : undoable[e] = <<>>
<1>1. \A e \in Documents : undoable[e] \in Seq(UndoEntries) /\ Len(undoable[e]) <= MaxUndo
    BY DEF TxTypeOK, UndoCount, UndoEntries
<1>2. Len(undoable[d]) \in Nat /\ Len(undoable[d]) < MaxUndo
    BY <1>1, TransactionsAssumption DEF Disturbs, Overflows, UndoCount
<1>3. Len(Append(undoable[d], Entry(tx, content[d]))) = Len(undoable[d]) + 1
    BY <1>1
<1>4. Pushed(undoable[d], Entry(tx, content[d])) = Append(undoable[d], Entry(tx, content[d]))
    BY <1>2, <1>3, TransactionsAssumption DEF Pushed
<1>5. ASSUME NEW e \in Documents \ {d} PROVE undoable[e] = <<>>
    <2>1. ~(Len(undoable[e]) > 0)
        BY DEF Disturbs, UndoCount
    <2>. QED  BY <1>1, <2>1
<1>. QED  BY <1>4, <1>5 DEF Commit

\* A transaction of TALOS is pushed and remembered, a change of the user's is
\* pushed only.
LEMMA CommitAgrees ==
    ASSUME TxTypeOK, StacksAgree, NEW d \in Documents, NEW tx \in {0, changes + 1},
           Commit(d, tx), ~Disturbs(d),
           \/ tx # 0 /\ RememberAudited(d, tx)
           \/ tx = 0 /\ UNCHANGED audited /\ ~Stale(d)
    PROVE  StacksAgree'
<1>. DEFINE n == Len(undoable[d]) + 1
            new == Entry(tx, content[d])
<1>1. /\ undoable \in [Documents -> Seq(UndoEntries)]
      /\ audited \in Seq([tx : 1..MaxChanges, count : 1..MaxUndo])
      /\ new \in UndoEntries
      /\ changes + 1 \in 1..MaxChanges
    <2>1. changes + 1 \in 1..MaxChanges
        BY CommitType
    <2>2. content[d] \in 0..MaxChanges /\ changes \in Nat
        BY TransactionsAssumption DEF TxTypeOK
    <2>4. tx \in 0..MaxChanges
        BY <2>1, <2>2, TransactionsAssumption
    <2>3. new \in UndoEntries
        BY <2>2, <2>4 DEF Entry, UndoEntries
    <2>. QED  BY <2>1, <2>3 DEF TxTypeOK, UndoEntries
<1>2. /\ undoable' = [undoable EXCEPT ![d] = Append(undoable[d], new)]
      /\ \A e \in Documents \ {d} : undoable[e] = <<>>
    BY CommitGrows
<1>3. /\ n \in Nat \ {0}
      /\ DOMAIN undoable[d] = 1..(n - 1)
      /\ DOMAIN undoable'[d] = 1..n
      /\ \A i \in 1..(n - 1) : undoable'[d][i] = undoable[d][i]
      /\ undoable'[d][n] = new
      /\ Len(undoable'[d]) = n
    <2>1. undoable[d] \in Seq(UndoEntries) /\ undoable'[d] = Append(undoable[d], new)
        BY <1>1, <1>2
    <2>2. Len(undoable[d]) \in Nat /\ DOMAIN undoable[d] = 1..Len(undoable[d])
        BY <2>1
    <2>. QED  BY <1>1, <2>1, <2>2, AppendFacts
<1>. HIDE DEF n, new
<1>4. OneStack'
    BY <1>1, <1>2 DEF OneStack
<1>5. /\ \A k \in DOMAIN audited : audited[k].count \in 1..n
      /\ \A k \in DOMAIN audited : LastOfCount(k) /\ audited[k].count # n
             => undoable[d][audited[k].count].tx = audited[k].tx
      /\ n = UndoCount(d) + 1
    <2>0. n = UndoCount(d) + 1 /\ \A e \in Documents : UndoCount(e) <= UndoCount(d) /\ UndoCount(e) \in Nat
        BY <1>1, <1>2 DEF n, UndoCount
    <2>1. ASSUME NEW k \in DOMAIN audited PROVE audited[k].count \in 1..n
        <3>1. audited[k].count \in Nat \ {0}
            BY CountsTyped
        <3>2. PICK e \in Documents : audited[k].count <= UndoCount(e) + 1
            BY DEF StacksAgree, CountsReach
        <3>. QED  BY <2>0, <3>1, <3>2
    <2>2. ASSUME NEW k \in DOMAIN audited, LastOfCount(k), audited[k].count # n
          PROVE  undoable[d][audited[k].count].tx = audited[k].tx
        <3>1. audited[k].count \in 1..(n - 1)
            BY <1>3, <2>1, <2>2
        <3>. QED  BY <1>3, <2>2, <3>1 DEF StacksAgree, RememberedAreEntries
    <2>. QED  BY <2>0, <2>1, <2>2
<1>5a. UndoCount(d)' = n
    BY <1>3 DEF UndoCount
<1>6. CASE tx = 0
    <2>1. audited' = audited /\ new.tx = 0
        BY <1>6 DEF new, Entry
    <2>1a. ASSUME NEW k \in DOMAIN audited PROVE audited[k].count \in 1..(n - 1)
        <3>1. ~(audited[k].count > UndoCount(d))
            BY <1>6 DEF Stale
        <3>2. audited[k].count \in 1..n /\ UndoCount(d) = n - 1
            <4>1. UndoCount(d) \in Nat
                BY <1>1 DEF UndoCount
            <4>. QED  BY <1>3, <1>5, <4>1
        <3>. QED  BY <1>3, <3>1, <3>2
    <2>1b. \A k \in DOMAIN audited : LastOfCount(k)' = LastOfCount(k)
        BY <2>1 DEF LastOfCount
    <2>2. RememberedAreEntries'
        <3>. SUFFICES ASSUME NEW e \in Documents, NEW k \in DOMAIN audited,
                             audited[k].count \in DOMAIN undoable'[e], LastOfCount(k)
                      PROVE  undoable'[e][audited[k].count].tx = audited[k].tx
            BY <2>1, <2>1b DEF RememberedAreEntries
        <3>1. e = d
            BY <1>1, <1>2
        <3>2. audited[k].count \in 1..(n - 1)
            BY <2>1a
        <3>3. undoable'[d][audited[k].count] = undoable[d][audited[k].count]
            BY <1>3, <3>2
        <3>4. audited[k].count # n
            BY <1>3, <3>2
        <3>5. undoable[d][audited[k].count].tx = audited[k].tx
            BY <1>5, <3>4
        <3>. QED  BY <3>1, <3>3, <3>5
    <2>2a. CountsReach'
        BY <1>3, <1>5, <1>5a, <2>1 DEF CountsReach
    <2>3. EntriesAreRemembered'
        <3>. SUFFICES ASSUME NEW e \in Documents, NEW i \in DOMAIN undoable'[e],
                             undoable'[e][i].tx # 0
                      PROVE  \E k \in DOMAIN audited : audited[k].count = i
            BY <2>1 DEF EntriesAreRemembered
        <3>1. e = d
            BY <1>1, <1>2
        <3>2. i \in 1..(n - 1)
            BY <1>3, <2>1, <3>1
        <3>. QED  BY <1>3, <3>1, <3>2 DEF StacksAgree, EntriesAreRemembered
    <2>. QED  BY <1>4, <2>1, <2>2, <2>2a, <2>3 DEF StacksAgree, CountsGrow
<1>7. CASE tx # 0
    <2>. DEFINE last == [tx |-> tx, count |-> n]
    <2>1. audited' = Append(audited, last) /\ new.tx = tx
        BY <1>3, <1>7 DEF RememberAudited, new, Entry
    <2>2. n \in 1..MaxUndo /\ last \in [tx : 1..MaxChanges, count : 1..MaxUndo]
        <3>1. Len(undoable'[d]) \in 1..MaxUndo
            BY CommitType
        <3>. QED  BY <1>1, <1>3, <1>7, <3>1
    <2>3. /\ DOMAIN audited' = 1..(Len(audited) + 1)
          /\ \A k \in 1..Len(audited) : audited'[k] = audited[k]
          /\ audited'[Len(audited) + 1] = last
          /\ DOMAIN audited = 1..Len(audited) /\ Len(audited) \in Nat
        <3>1. DOMAIN audited = 1..Len(audited) /\ Len(audited) \in Nat
            BY <1>1
        <3>2. audited' = Append(audited, last)
            BY <2>1
        <3>. DEFINE Remembered == [tx : 1..MaxChanges, count : 1..MaxUndo]
        <3>3. last \in Remembered /\ audited \in Seq(Remembered)
            BY <1>1, <2>2
        <3>. HIDE DEF last, Remembered
        <3>4. /\ DOMAIN Append(audited, last) = 1..(Len(audited) + 1)
              /\ \A k \in 1..Len(audited) : Append(audited, last)[k] = audited[k]
              /\ Append(audited, last)[Len(audited) + 1] = last
            BY <3>3, AppendFacts
        <3>. QED  BY <3>1, <3>2, <3>4, SMTT(30), ZenonT(20)
    <2>. HIDE DEF last
    <2>4. RememberedAreEntries'
        <3>. SUFFICES ASSUME NEW e \in Documents, NEW k \in DOMAIN audited',
                             audited'[k].count \in DOMAIN undoable'[e], LastOfCount(k)'
                      PROVE  undoable'[e][audited'[k].count].tx = audited'[k].tx
            BY DEF RememberedAreEntries
        <3>0. e = d
            BY <1>1, <1>2
        <3>1. CASE k \in 1..Len(audited)
            <4>1. \A j \in (k + 1)..(Len(audited) + 1) : audited'[j].count > audited'[k].count
                <5>1. Len(audited') = Len(audited) + 1
                    BY <1>1, <2>1, <2>2, AppendFacts
                <5>. QED  BY <5>1 DEF LastOfCount
            <4>2. audited[k].count # n
                <5>1. Len(audited) + 1 \in (k + 1)..(Len(audited) + 1)
                    BY <2>3, <3>1
                <5>2. n > audited[k].count
                    BY <2>3, <3>1, <4>1, <5>1 DEF last
                <5>. QED  BY <1>3, <5>2
            <4>3. LastOfCount(k)
                BY <2>3, <3>1, <4>1 DEF LastOfCount
            <4>4. k \in DOMAIN audited /\ audited'[k] = audited[k]
                BY <2>3, <3>1
            <4>5. audited[k].count \in 1..(n - 1)
                BY <1>3, <1>5, <4>2, <4>4
            <4>6. undoable'[d][audited[k].count] = undoable[d][audited[k].count]
                BY <1>3, <4>5
            <4>7. undoable[d][audited[k].count].tx = audited[k].tx
                BY <1>5, <4>2, <4>3, <4>4
            <4>. QED  BY <3>0, <4>4, <4>6, <4>7
        <3>2. CASE k = Len(audited) + 1
            <4>1. audited'[k].count = n /\ audited'[k].tx = tx
                BY <2>3, <3>2 DEF last
            <4>2. new.tx = tx
                BY <2>1
            <4>. QED  BY <1>3, <3>0, <4>1, <4>2
        <3>. QED  BY <2>3, <3>1, <3>2
    <2>5. CountsGrow'
        <3>. SUFFICES ASSUME NEW j \in DOMAIN audited', NEW k \in DOMAIN audited', j < k
                      PROVE  audited'[j].count <= audited'[k].count
            BY DEF CountsGrow
        <3>1. j \in 1..Len(audited)
            BY <2>3
        <3>2. CASE k \in 1..Len(audited)
            BY <2>3, <3>1, <3>2 DEF StacksAgree, CountsGrow
        <3>3. CASE k = Len(audited) + 1
            <4>1. audited[j].count \in 1..n
                BY <1>5, <2>3, <3>1
            <4>2. audited'[k].count = n /\ audited'[j] = audited[j]
                BY <2>3, <3>1, <3>3 DEF last
            <4>. QED  BY <1>3, <4>1, <4>2
        <3>. QED  BY <2>3, <3>2, <3>3
    <2>5a. CountsReach'
        <3>. SUFFICES ASSUME NEW k \in DOMAIN audited' PROVE audited'[k].count <= UndoCount(d)' + 1
            BY DEF CountsReach
        <3>1. audited'[k].count \in 1..n
            <4>1. CASE k \in 1..Len(audited)
                BY <1>5, <2>3, <4>1
            <4>2. CASE k = Len(audited) + 1
                BY <1>3, <2>3, <4>2 DEF last
            <4>. QED  BY <2>3, <4>1, <4>2
        <3>. QED  BY <1>3, <1>5a, <3>1
    <2>6. EntriesAreRemembered'
        <3>. SUFFICES ASSUME NEW e \in Documents, NEW i \in DOMAIN undoable'[e],
                             undoable'[e][i].tx # 0
                      PROVE  \E k \in DOMAIN audited' : audited'[k].count = i
            BY DEF EntriesAreRemembered
        <3>1. e = d
            BY <1>1, <1>2
        <3>2. CASE i = n
            BY <2>3, <3>2 DEF last
        <3>3. CASE i \in 1..(n - 1)
            <4>1. \E k \in DOMAIN audited : audited[k].count = i
                BY <1>3, <3>1, <3>3 DEF StacksAgree, EntriesAreRemembered
            <4>. QED  BY <2>3, <4>1
        <3>. QED  BY <1>3, <3>1, <3>2, <3>3
    <2>. QED  BY <1>4, <2>4, <2>5, <2>5a, <2>6 DEF StacksAgree
<1>. QED  BY <1>6, <1>7

\* A stack may lose its last entry when what is forgotten is above it and what is kept
\* reaches it at most.
LEMMA ForgettingAgrees ==
    ASSUME TxTypeOK, StacksAgree, NEW d \in Documents,
           NEW m \in Nat, m <= UndoCount(d), UndoCount(d) > 0,
           NEW c \in 0..Len(audited),
           \A e \in Documents \ {d} : undoable'[e] = undoable[e],
           Len(undoable'[d]) = m, DOMAIN undoable'[d] = 1..m,
           \A i \in 1..m : undoable'[d][i] = undoable[d][i],
           Len(audited') = c, DOMAIN audited' = 1..c,
           \A k \in 1..c : audited'[k] = audited[k],
           \A k \in 1..c : audited[k].count <= m + 1,
           \A k \in (c + 1)..Len(audited) : audited[k].count > m
    PROVE  StacksAgree'
<1>1. /\ DOMAIN audited = 1..Len(audited) /\ Len(audited) \in Nat
      /\ \A k \in 1..Len(audited) : audited[k].count \in Nat
    BY CountsTyped
<1>2. \A e \in Documents \ {d} : undoable[e] = <<>> /\ undoable'[e] = <<>>
    <2>1. undoable[d] # <<>>
        BY DEF UndoCount
    <2>. QED  BY <2>1 DEF StacksAgree, OneStack
<1>3. UndoCount(d) \in Nat /\ DOMAIN undoable[d] = 1..UndoCount(d)
    BY DEF TxTypeOK, UndoCount
<1>4. OneStack'
    BY <1>2 DEF OneStack
<1>5. RememberedAreEntries'
    <2>. SUFFICES ASSUME NEW e \in Documents, NEW k \in 1..c,
                         audited[k].count \in DOMAIN undoable'[e], LastOfCount(k)'
                  PROVE  undoable'[e][audited[k].count].tx = audited[k].tx
        BY DEF RememberedAreEntries
    <2>1. e = d
        BY <1>2
    <2>2. audited[k].count \in 1..m
        BY <2>1
    <2>3. \A j \in (k + 1)..c : audited[j].count > audited[k].count
        BY DEF LastOfCount
    <2>4. LastOfCount(k)
        <3>. SUFFICES ASSUME NEW j \in (k + 1)..Len(audited)
                      PROVE  audited[j].count > audited[k].count
            BY DEF LastOfCount
        <3>1. CASE j \in (k + 1)..c
            BY <2>3, <3>1
        <3>2. CASE j \in (c + 1)..Len(audited)
            BY <1>1, <2>2, <3>2
        <3>. QED  BY <1>1, <3>1, <3>2
    <2>5. k \in DOMAIN audited /\ audited[k].count \in DOMAIN undoable[d]
        BY <1>1, <1>3, <2>2
    <2>. QED  BY <2>1, <2>2, <2>4, <2>5 DEF StacksAgree, RememberedAreEntries
<1>6. CountsGrow'
    BY <1>1 DEF StacksAgree, CountsGrow
<1>7. CountsReach'
    <2>1. UndoCount(d)' = m
        BY DEF UndoCount
    <2>. QED  BY <2>1 DEF CountsReach
<1>8. EntriesAreRemembered'
    <2>. SUFFICES ASSUME NEW e \in Documents, NEW i \in DOMAIN undoable'[e],
                         undoable'[e][i].tx # 0
                  PROVE  \E k \in DOMAIN audited' : audited'[k].count = i
        BY DEF EntriesAreRemembered
    <2>1. e = d
        BY <1>2
    <2>2. i \in 1..m /\ i \in DOMAIN undoable[d] /\ undoable[d][i].tx # 0
        BY <1>3, <2>1
    <2>3. PICK k \in DOMAIN audited : audited[k].count = i
        BY <2>2 DEF StacksAgree, EntriesAreRemembered
    <2>4. k \in 1..c
        BY <1>1, <2>2, <2>3
    <2>. QED  BY <2>3, <2>4
<1>. QED  BY <1>4, <1>5, <1>6, <1>7, <1>8 DEF StacksAgree

\* What an undo keeps of the list, and what it does to the stack.
LEMMA UndoShape ==
    ASSUME TxTypeOK, NEW d \in Documents, UndoCount(d) > 0, TakeBack(d)
    PROVE  /\ UndoCount(d) - 1 \in Nat /\ UndoCount(d) \in Nat
           /\ \A e \in Documents \ {d} : undoable'[e] = undoable[e]
           /\ Len(undoable'[d]) = UndoCount(d) - 1
           /\ DOMAIN undoable'[d] = 1..(UndoCount(d) - 1)
           /\ \A i \in 1..(UndoCount(d) - 1) : undoable'[d][i] = undoable[d][i]
<1>1. /\ undoable \in [Documents -> Seq(UndoEntries)]
      /\ undoable[d] \in Seq(UndoEntries) /\ undoable[d] # <<>>
    <2>1. undoable \in [Documents -> Seq(UndoEntries)]
        BY DEF TxTypeOK, UndoEntries
    <2>2. undoable[d] # <<>>
        BY DEF UndoCount
    <2>. QED  BY <2>1, <2>2
<1>2. undoable' = [undoable EXCEPT ![d] = SubSeq(undoable[d], 1, Len(undoable[d]) - 1)]
    BY DEF TakeBack
<1>3. undoable'[d] = SubSeq(undoable[d], 1, Len(undoable[d]) - 1)
    BY <1>1, <1>2
<1>. QED  BY <1>1, <1>2, <1>3, FrontFacts DEF UndoCount

\* With the counts in order, everything that is kept reaches the stack at most.
LEMMA KeptReaches ==
    ASSUME TxTypeOK, StacksAgree, NEW n \in Nat, NEW top \in 0..Len(audited),
           top = 0 \/ audited[top].count <= n
    PROVE  \A k \in 1..top : audited[k].count <= n
<1>1. /\ DOMAIN audited = 1..Len(audited) /\ Len(audited) \in Nat
      /\ \A k \in 1..Len(audited) : audited[k].count \in Nat
    BY CountsTyped
<1>. SUFFICES ASSUME NEW k \in 1..top PROVE audited[k].count <= n
    OBVIOUS
<1>2. k = top \/ audited[k].count <= audited[top].count
    BY <1>1, SMTT(30), ZenonT(20) DEF StacksAgree, CountsGrow
<1>. QED  BY <1>1, <1>2

\* cad.undo names what it takes back.
LEMMA UndoAgrees ==
    ASSUME TxTypeOK, StacksAgree, active # NoDocument, Undo
    PROVE  /\ StacksAgree'
           /\ trace'.tx = trace'.took
<1>. DEFINE d == active
            n == UndoCount(active)
            kept == KeptAudited(n)
            Remembered == [tx : 1..MaxChanges, count : 1..MaxUndo]
<1>1. /\ d \in Documents /\ n > 0 /\ TakeBack(d)
      /\ audited \in Seq(Remembered)
    BY DEF TxTypeOK, Undo
<1>2. /\ n - 1 \in Nat /\ n \in Nat
      /\ \A e \in Documents \ {d} : undoable'[e] = undoable[e]
      /\ Len(undoable'[d]) = n - 1
      /\ DOMAIN undoable'[d] = 1..(n - 1)
      /\ \A i \in 1..(n - 1) : undoable'[d][i] = undoable[d][i]
    BY <1>1, UndoShape
<1>3. PICK top \in 0..Len(audited) :
          /\ kept \in Seq(Remembered)
          /\ Len(kept) = top
          /\ \A k \in 1..top : kept[k] = audited[k]
          /\ top = 0 \/ audited[top].count <= n
          /\ \A k \in (top + 1)..Len(audited) : audited[k].count > n
    BY <1>1, <1>2, KeptFacts
<1>4. /\ trace'.took = undoable[d][n].tx
      /\ IF Matches(kept, n)
         THEN audited' = SubSeq(kept, 1, Len(kept) - 1) /\ trace'.tx = kept[Len(kept)].tx
         ELSE audited' = kept /\ trace'.tx = 0
    BY DEF Undo, Trace
<1>5. \A k \in 1..top : audited[k].count <= n
    BY <1>2, <1>3, KeptReaches
<1>6. /\ DOMAIN audited = 1..Len(audited) /\ Len(audited) \in Nat
      /\ \A k \in 1..Len(audited) : audited[k].count \in Nat \ {0}
      /\ n \in DOMAIN undoable[d]
    <2>1. undoable[d] \in Seq([tx : 0..MaxChanges, before : 0..MaxChanges])
        BY <1>1 DEF TxTypeOK
    <2>2. n \in 1..Len(undoable[d])
        BY <1>1, <1>2 DEF UndoCount
    <2>3. n \in DOMAIN undoable[d]
        BY <2>1, <2>2
    <2>. QED  BY <2>3, CountsTyped
<1>. HIDE DEF d, n, kept, Remembered
<1>7. CASE Matches(kept, n)
    <2>1. /\ top # 0 /\ kept # <<>> /\ kept[top] = audited[top] /\ audited[top].count = n
        BY <1>3, <1>7 DEF Matches
    <2>2. LastOfCount(top) /\ top \in DOMAIN audited
        BY <1>3, <1>6, <2>1 DEF LastOfCount
    <2>3. undoable[d][n].tx = audited[top].tx
        BY <1>1, <1>6, <2>1, <2>2 DEF StacksAgree, RememberedAreEntries
    <2>4. /\ audited' = SubSeq(kept, 1, top - 1)
          /\ Len(audited') = top - 1 /\ DOMAIN audited' = 1..(top - 1)
          /\ \A k \in 1..(top - 1) : audited'[k] = audited[k]
        <3>1. audited' = SubSeq(kept, 1, Len(kept) - 1)
            BY <1>4, <1>7
        <3>2. /\ Len(audited') = top - 1 /\ DOMAIN audited' = 1..(top - 1)
              /\ \A k \in 1..(top - 1) : audited'[k] = kept[k]
            BY <1>3, <2>1, <3>1, FrontFacts
        <3>3. \A k \in 1..(top - 1) : k \in 1..top
            OBVIOUS
        <3>4. \A k \in 1..(top - 1) : audited'[k] = audited[k]
            BY <1>3, <3>2, <3>3, Zenon
        <3>5. audited' = SubSeq(kept, 1, top - 1)
            BY <1>3, <3>1, Zenon
        <3>. QED  BY <3>2, <3>4, <3>5, Zenon
    <2>5. /\ top - 1 \in 0..Len(audited) /\ n - 1 <= n
          /\ \A k \in 1..(top - 1) : audited[k].count <= (n - 1) + 1
          /\ \A k \in ((top - 1) + 1)..Len(audited) : audited[k].count > n - 1
        <3>1. \A k \in top..Len(audited) : audited[k].count > n - 1
            BY <1>2, <1>3, <1>6, <2>1
        <3>. QED  BY <1>2, <1>5, <1>6, <2>1, <3>1
    <2>6. StacksAgree'
        BY <1>1, <1>2, <2>4, <2>5, ForgettingAgrees DEF d, n
    <2>. QED  BY <1>3, <1>4, <1>7, <2>1, <2>3, <2>6
<1>8. CASE ~Matches(kept, n)
    <2>1. audited' = kept /\ trace'.tx = 0 /\ DOMAIN audited' = 1..top
        BY <1>3, <1>4, <1>8
    <2>2. \A k \in DOMAIN audited : audited[k].count # n
        <3>. SUFFICES ASSUME NEW k \in DOMAIN audited, audited[k].count = n PROVE FALSE
            OBVIOUS
        <3>1. k \in 1..top
            BY <1>2, <1>3, <1>6
        <3>2. top # 0 /\ audited[k].count <= audited[top].count
            BY <1>6, <3>1 DEF StacksAgree, CountsGrow
        <3>3. audited[top].count = n
            BY <1>2, <1>3, <1>6, <3>2
        <3>. QED  BY <1>3, <1>8, <3>2, <3>3 DEF Matches
    <2>3. undoable[d][n].tx = 0
        BY <1>1, <1>6, <2>2 DEF StacksAgree, EntriesAreRemembered
    <2>4. /\ n - 1 <= n /\ \A k \in 1..top : audited[k].count <= (n - 1) + 1
          /\ \A k \in (top + 1)..Len(audited) : audited[k].count > n - 1
        BY <1>2, <1>3, <1>5, <1>6
    <2>5. StacksAgree'
        BY <1>1, <1>2, <1>3, <2>1, <2>4, ForgettingAgrees DEF d, n
    <2>. QED  BY <1>4, <2>1, <2>3, <2>5
<1>. QED  BY <1>7, <1>8

\* A cad.undo that raises remembers at most one count too many.
LEMMA RaisedUndoAgrees ==
    ASSUME TxTypeOK, StacksAgree, UndoRaises
    PROVE  StacksAgree'
<1>. DEFINE d == active
            n == UndoCount(active)
            Remembered == [tx : 1..MaxChanges, count : 1..MaxUndo]
<1>1. /\ d \in Documents /\ n > 0 /\ audited' = KeptAudited(n)
      /\ audited \in Seq(Remembered) /\ n \in Nat /\ n - 1 \in Nat
    BY DEF TxTypeOK, UndoRaises, UndoCount
<1>3. PICK top \in 0..Len(audited) :
          /\ audited' \in Seq(Remembered)
          /\ Len(audited') = top
          /\ \A k \in 1..top : audited'[k] = audited[k]
          /\ top = 0 \/ audited[top].count <= n
          /\ \A k \in (top + 1)..Len(audited) : audited[k].count > n
    BY <1>1, KeptFacts
<1>4. \A k \in 1..top : audited[k].count <= n
    BY <1>1, <1>3, KeptReaches
<1>5. /\ Len(audited) \in Nat /\ DOMAIN audited' = 1..top
      /\ \A k \in 1..Len(audited) : audited[k].count \in Nat
    BY <1>3, CountsTyped
<1>. HIDE DEF n, Remembered
<1>6. CASE TakeBack(active)
    <2>1. /\ \A e \in Documents \ {d} : undoable'[e] = undoable[e]
          /\ Len(undoable'[d]) = n - 1
          /\ DOMAIN undoable'[d] = 1..(n - 1)
          /\ \A i \in 1..(n - 1) : undoable'[d][i] = undoable[d][i]
        BY <1>1, <1>6, UndoShape DEF n
    <2>2. /\ n - 1 <= n /\ \A k \in 1..top : audited[k].count <= (n - 1) + 1
          /\ \A k \in (top + 1)..Len(audited) : audited[k].count > n - 1
        BY <1>1, <1>3, <1>4, <1>5
    <2>. QED  BY <1>1, <1>3, <1>5, <2>1, <2>2, ForgettingAgrees DEF n
<1>7. CASE UNCHANGED <<content, undoable, redoable>>
    <2>1. Len(undoable'[d]) = n /\ DOMAIN undoable'[d] = 1..n /\ undoable' = undoable
        BY <1>1, <1>7 DEF TxTypeOK, UndoCount, n
    <2>2. n <= n /\ \A k \in 1..top : audited[k].count <= n + 1
        BY <1>1, <1>4, <1>5, SMTT(30), ZenonT(20)
    <2>. QED  BY <1>1, <1>3, <1>5, <2>1, <2>2, ForgettingAgrees DEF n
<1>. QED  BY <1>6, <1>7 DEF UndoRaises

-----------------------------------------------------------------------------
(* The theorems *)

LEMMA InitTxIInv == TxInit => TxIInv
<1>. SUFFICES ASSUME TxInit PROVE TxIInv
    OBVIOUS
<1>1. TxTypeOK
    <2>1. /\ content \in [Documents -> 0..MaxChanges]
          /\ undoable \in [Documents -> Seq(UndoEntries)]
          /\ redoable \in [Documents -> Seq(RedoEntries)]
          /\ audited \in Seq([tx : 1..MaxChanges, count : 1..MaxUndo])
          /\ changes \in 0..MaxChanges
        BY TransactionsAssumption DEF TxInit
    <2>2. \A d \in Documents : UndoCount(d) <= MaxUndo
        <3>1. \A d \in Documents : undoable[d] = <<>>
            BY DEF TxInit
        <3>2. Len(<<>>) <= MaxUndo
            BY TransactionsAssumption
        <3>. QED  BY <3>1, <3>2 DEF UndoCount
    <2>3. trace \in [tx : 0..MaxChanges, outcome : Outcomes, took : 0..MaxChanges]
        BY TransactionsAssumption DEF TxInit, Trace, Outcomes
    <2>. QED  BY <2>1, <2>2, <2>3 DEF TxInit, TxTypeOK, UndoEntries, RedoEntries
<1>2. StacksAgree
    BY DEF TxInit, StacksAgree, OneStack, RememberedAreEntries, CountsGrow, CountsReach,
           EntriesAreRemembered
<1>3. UndisturbedUndoIsExact
    BY DEF TxInit, UndisturbedUndoIsExact, Trace
<1>. QED  BY <1>1, <1>2, <1>3 DEF TxIInv

\* What a transaction on a document does to the invariant.
LEMMA CommitsKeep ==
    ASSUME TxIInv, NEW d \in Documents, TransactionCommits(d),
           active' \in Documents, active' \in opened', opened' \subseteq Documents
    PROVE  TxIInv'
<1>1. TxTypeOK /\ Commit(d, changes + 1) /\ RememberAudited(d, changes + 1)
    BY DEF TxIInv, TransactionCommits
<1>2. /\ changes' \in 0..MaxChanges /\ changes + 1 \in 1..MaxChanges
      /\ content' \in [Documents -> 0..MaxChanges]
      /\ undoable' \in [Documents -> Seq(UndoEntries)]
      /\ \A e \in Documents : Len(undoable'[e]) <= MaxUndo
      /\ Len(undoable'[d]) \in 1..MaxUndo
      /\ redoable' \in [Documents -> Seq(RedoEntries)]
    BY <1>1, CommitType
<1>3. trace' = [tx |-> changes + 1, outcome |-> "COMMITTED", took |-> 0]
    BY DEF TransactionCommits, Trace
<1>4. TxTypeOK'
    <2>1. audited' \in Seq([tx : 1..MaxChanges, count : 1..MaxUndo])
        <3>. DEFINE last == [tx |-> changes + 1, count |-> Len(undoable'[d])]
        <3>1. last \in [tx : 1..MaxChanges, count : 1..MaxUndo]
            BY <1>2
        <3>2. audited \in Seq([tx : 1..MaxChanges, count : 1..MaxUndo])
            BY <1>1 DEF TxTypeOK
        <3>3. audited' = Append(audited, last)
            BY <1>1 DEF RememberAudited
        <3>. HIDE DEF last
        <3>. QED  BY <3>1, <3>2, <3>3
    <2>2. trace' \in [tx : 0..MaxChanges, outcome : Outcomes, took : 0..MaxChanges]
        BY <1>2, <1>3, TransactionsAssumption DEF Outcomes
    <2>3. disturbed' \in BOOLEAN
        BY <1>1 DEF TransactionCommits, TxTypeOK, Disturbs, Overflows
    <2>. QED  BY <1>2, <2>1, <2>2, <2>3 DEF TxTypeOK, UndoCount, UndoEntries, RedoEntries
<1>5. ~disturbed' => StacksAgree'
    <2>. SUFFICES ASSUME ~disturbed' PROVE StacksAgree'
        OBVIOUS
    <2>1. ~disturbed /\ ~Disturbs(d)
        BY DEF TransactionCommits
    <2>2. StacksAgree /\ changes + 1 # 0
        BY <1>2, <2>1 DEF TxIInv
    <2>. QED  BY <1>1, <2>1, <2>2, CommitAgrees
<1>6. UndisturbedUndoIsExact'
    BY <1>3 DEF UndisturbedUndoIsExact
<1>. QED  BY <1>4, <1>5, <1>6 DEF TxIInv

LEMMA AbortsKeep ==
    ASSUME TxIInv, NEW d \in Documents, TransactionAborts(d),
           active' \in Documents, active' \in opened', opened' \subseteq Documents
    PROVE  TxIInv'
<1>1. TxTypeOK /\ UNCHANGED <<content, undoable, changes, audited, disturbed>>
    BY DEF TxIInv, TransactionAborts, Abort
<1>2. trace' = [tx |-> 0, outcome |-> "ABORTED", took |-> 0]
    BY DEF TransactionAborts, Trace
<1>3. redoable' \in [Documents -> Seq(RedoEntries)]
    <2>1. redoable \in [Documents -> Seq(RedoEntries)]
        BY <1>1 DEF TxTypeOK, RedoEntries
    <2>2. redoable' = redoable \/ redoable' = [redoable EXCEPT ![d] = <<>>]
        BY DEF TransactionAborts, Abort
    <2>3. <<>> \in Seq(RedoEntries)
        OBVIOUS
    <2>. QED  BY <2>1, <2>2, <2>3
<1>4. trace' \in [tx : 0..MaxChanges, outcome : Outcomes, took : 0..MaxChanges]
    BY <1>2, TransactionsAssumption DEF Outcomes
<1>5. TxTypeOK'
    BY <1>1, <1>3, <1>4 DEF TxTypeOK, UndoCount, RedoEntries
<1>6. ~disturbed' => StacksAgree'
    BY <1>1 DEF TxIInv, StacksAgree, OneStack, RememberedAreEntries, LastOfCount, CountsGrow,
                CountsReach, UndoCount, EntriesAreRemembered
<1>7. UndisturbedUndoIsExact'
    BY <1>2 DEF UndisturbedUndoIsExact
<1>. QED  BY <1>5, <1>6, <1>7 DEF TxIInv

LEMMA RunKeeps == TxIInv /\ RunTransaction => TxIInv'
<1>. SUFFICES ASSUME TxIInv, RunTransaction PROVE TxIInv'
    OBVIOUS
<1>1. active \in opened /\ opened \subseteq Documents /\ UNCHANGED <<opened, active>>
    BY DEF TxIInv, TxTypeOK, RunTransaction
<1>. QED  BY <1>1, CommitsKeep, AbortsKeep DEF RunTransaction

LEMMA CreateKeeps == TxIInv /\ CreateValidatedShape => TxIInv'
<1>. SUFFICES ASSUME TxIInv, CreateValidatedShape PROVE TxIInv'
    OBVIOUS
<1>1. PICK d \in Documents : /\ opened' = opened \cup {d}
                             /\ active' = d
                             /\ TransactionCommits(d) \/ TransactionAborts(d)
    BY DEF CreateValidatedShape
<1>2. opened' \subseteq Documents /\ active' \in opened'
    BY <1>1 DEF TxIInv, TxTypeOK
<1>. QED  BY <1>1, <1>2, CommitsKeep, AbortsKeep

LEMMA UndoKeeps == TxIInv /\ Undo => TxIInv'
<1>. SUFFICES ASSUME TxIInv, Undo PROVE TxIInv'
    OBVIOUS
<1>. DEFINE d == active
            n == UndoCount(active)
            Remembered == [tx : 1..MaxChanges, count : 1..MaxUndo]
<1>1. /\ TxTypeOK /\ d \in Documents /\ n > 0 /\ TakeBack(d)
      /\ UNCHANGED <<opened, active, changes, disturbed>>
    BY DEF TxIInv, TxTypeOK, Undo
<1>2. /\ content' \in [Documents -> 0..MaxChanges]
      /\ undoable' \in [Documents -> Seq(UndoEntries)]
      /\ \A e \in Documents : Len(undoable'[e]) <= MaxUndo
      /\ redoable' \in [Documents -> Seq(RedoEntries)]
      /\ undoable[d][n].tx \in 0..MaxChanges
    BY <1>1, TakeBackType
<1>3. audited \in Seq(Remembered)
    BY <1>1 DEF TxTypeOK
<1>4. n \in Nat
    BY <1>1 DEF TxTypeOK, UndoCount
<1>5. KeptAudited(n) \in Seq(Remembered)
    BY <1>3, <1>4, KeptFacts
<1>. DEFINE kept == KeptAudited(n)
<1>6. IF Matches(kept, n)
      THEN /\ audited' = SubSeq(kept, 1, Len(kept) - 1)
           /\ trace' = [tx |-> kept[Len(kept)].tx, outcome |-> "UNDONE",
                        took |-> undoable[d][n].tx]
      ELSE /\ audited' = kept
           /\ trace' = [tx |-> 0, outcome |-> "UNDONE", took |-> undoable[d][n].tx]
    BY DEF Undo, Trace
<1>. HIDE DEF kept
<1>7. /\ audited' \in Seq(Remembered)
      /\ trace' \in [tx : 0..MaxChanges, outcome : Outcomes, took : 0..MaxChanges]
    <2>1. CASE Matches(kept, n)
        <3>1. kept # <<>>
            BY <2>1 DEF Matches
        <3>. HIDE DEF Remembered
        <3>2. audited' \in Seq(Remembered)
            BY <1>5, <1>6, <2>1, <3>1, FrontFacts DEF kept
        <3>3. kept[Len(kept)] \in Remembered
            BY <1>5, <3>1 DEF kept
        <3>4. kept[Len(kept)].tx \in 0..MaxChanges
            BY <3>3 DEF Remembered
        <3>. QED  BY <1>2, <1>6, <2>1, <3>2, <3>4 DEF Outcomes
    <2>2. CASE ~Matches(kept, n)
        <3>1. audited' \in Seq(Remembered)
            BY <1>5, <1>6, <2>2 DEF kept
        <3>2. 0 \in 0..MaxChanges
            BY TransactionsAssumption
        <3>. QED  BY <1>2, <1>6, <2>2, <3>1, <3>2 DEF Outcomes
    <2>. QED  BY <2>1, <2>2
<1>8. TxTypeOK'
    BY <1>1, <1>2, <1>7 DEF TxTypeOK, UndoCount, UndoEntries, RedoEntries
<1>9. ~disturbed' => StacksAgree' /\ trace'.tx = trace'.took
    <2>. SUFFICES ASSUME ~disturbed' PROVE StacksAgree' /\ trace'.tx = trace'.took
        OBVIOUS
    <2>1. StacksAgree /\ active # NoDocument
        BY <1>1 DEF TxIInv, Undo
    <2>. QED  BY <1>1, <2>1, UndoAgrees
<1>. QED  BY <1>8, <1>9 DEF TxIInv, UndisturbedUndoIsExact

LEMMA RaisedUndoKeeps == TxIInv /\ UndoRaises => TxIInv'
<1>. SUFFICES ASSUME TxIInv, UndoRaises PROVE TxIInv'
    OBVIOUS
<1>1. /\ TxTypeOK /\ active \in Documents /\ UndoCount(active) > 0
      /\ UNCHANGED <<opened, active, changes, disturbed>>
      /\ audited' = KeptAudited(UndoCount(active)) /\ UndoCount(active) \in Nat
      /\ audited \in Seq([tx : 1..MaxChanges, count : 1..MaxUndo])
    <2>1. TxTypeOK /\ active \in Documents /\ UndoCount(active) > 0
        BY DEF TxIInv, TxTypeOK, UndoRaises
    <2>2. /\ UNCHANGED <<opened, active, changes, disturbed>>
          /\ audited' = KeptAudited(UndoCount(active))
        BY DEF UndoRaises
    <2>3. UndoCount(active) \in Nat
        BY <2>1 DEF TxTypeOK, UndoCount
    <2>4. audited \in Seq([tx : 1..MaxChanges, count : 1..MaxUndo])
        BY <2>1 DEF TxTypeOK
    <2>. QED  BY <2>1, <2>2, <2>3, <2>4
<1>2. /\ content' \in [Documents -> 0..MaxChanges]
      /\ undoable' \in [Documents -> Seq(UndoEntries)]
      /\ \A e \in Documents : Len(undoable'[e]) <= MaxUndo
      /\ redoable' \in [Documents -> Seq(RedoEntries)]
    <2>1. CASE TakeBack(active)
        BY <1>1, <2>1, TakeBackType
    <2>2. CASE UNCHANGED <<content, undoable, redoable>>
        BY <1>1, <2>2 DEF TxTypeOK, UndoCount, UndoEntries, RedoEntries
    <2>. QED  BY <2>1, <2>2 DEF UndoRaises
<1>3. audited' \in Seq([tx : 1..MaxChanges, count : 1..MaxUndo])
    BY <1>1, KeptFacts
<1>4. /\ trace' = [tx |-> 0, outcome |-> "UNKNOWN", took |-> 0]
      /\ trace' \in [tx : 0..MaxChanges, outcome : Outcomes, took : 0..MaxChanges]
    BY TransactionsAssumption DEF UndoRaises, Trace, Outcomes
<1>5. TxTypeOK'
    BY <1>1, <1>2, <1>3, <1>4 DEF TxTypeOK, UndoCount, UndoEntries, RedoEntries
<1>6. ~disturbed' => StacksAgree'
    BY <1>1, RaisedUndoAgrees DEF TxIInv
<1>7. UndisturbedUndoIsExact'
    BY <1>4 DEF UndisturbedUndoIsExact
<1>. QED  BY <1>5, <1>6, <1>7 DEF TxIInv

\* The steps that leave the stacks and the remembered counts alone.
LEMMA OthersKeep == TxIInv /\ (UndoNothing \/ NewDocument \/ SetActiveDocument) => TxIInv'
<1>. SUFFICES ASSUME TxIInv, UndoNothing \/ NewDocument \/ SetActiveDocument PROVE TxIInv'
    OBVIOUS
<1>1. UNCHANGED <<content, undoable, redoable, audited, changes, disturbed>>
    BY DEF UndoNothing, NewDocument, SetActiveDocument
<1>2. trace' = trace \/ trace' = [tx |-> 0, outcome |-> "UNKNOWN", took |-> 0]
    BY DEF UndoNothing, NewDocument, SetActiveDocument, Trace
<1>3. opened' \subseteq Documents /\ active' \in opened' \cup {NoDocument}
    BY DEF TxIInv, TxTypeOK, UndoNothing, NewDocument, SetActiveDocument
<1>4. trace' \in [tx : 0..MaxChanges, outcome : Outcomes, took : 0..MaxChanges]
    BY <1>2, TransactionsAssumption DEF TxIInv, TxTypeOK, Outcomes
<1>5. TxTypeOK'
    BY <1>1, <1>3, <1>4 DEF TxIInv, TxTypeOK, UndoCount
<1>6. ~disturbed' => StacksAgree'
    BY <1>1 DEF TxIInv, StacksAgree, OneStack, RememberedAreEntries, LastOfCount, CountsGrow,
                CountsReach, UndoCount, EntriesAreRemembered
<1>7. UndisturbedUndoIsExact'
    BY <1>1, <1>2 DEF TxIInv, UndisturbedUndoIsExact
<1>. QED  BY <1>5, <1>6, <1>7 DEF TxIInv

LEMMA EditKeeps == TxIInv /\ UserEdits => TxIInv'
<1>. SUFFICES ASSUME TxIInv, UserEdits PROVE TxIInv'
    OBVIOUS
<1>1. /\ TxTypeOK /\ active \in Documents /\ Commit(active, 0)
      /\ disturbed' = (disturbed \/ Disturbs(active) \/ Stale(active))
      /\ UNCHANGED <<opened, active, audited, trace>>
    BY DEF TxIInv, TxTypeOK, UserEdits
<1>2. /\ changes' \in 0..MaxChanges
      /\ content' \in [Documents -> 0..MaxChanges]
      /\ undoable' \in [Documents -> Seq(UndoEntries)]
      /\ \A e \in Documents : Len(undoable'[e]) <= MaxUndo
      /\ redoable' \in [Documents -> Seq(RedoEntries)]
    BY <1>1, CommitType
<1>3. disturbed' \in BOOLEAN
    BY <1>1 DEF TxTypeOK, Disturbs, Overflows, Stale
<1>4. TxTypeOK'
    BY <1>1, <1>2, <1>3 DEF TxTypeOK, UndoCount, UndoEntries, RedoEntries
<1>5. ~disturbed' => StacksAgree'
    <2>. SUFFICES ASSUME ~disturbed' PROVE StacksAgree'
        OBVIOUS
    <2>1. StacksAgree /\ ~Disturbs(active) /\ ~Stale(active)
        BY <1>1 DEF TxIInv
    <2>. QED  BY <1>1, <2>1, CommitAgrees
<1>6. UndisturbedUndoIsExact'
    BY <1>1 DEF TxIInv, UndisturbedUndoIsExact
<1>. QED  BY <1>4, <1>5, <1>6 DEF TxIInv

\* What the user undoes, redoes or closes is disturbing: only types are kept.
LEMMA UserKeeps == TxIInv /\ (UserUndoes \/ UserRedoes \/ UserCloses) => TxIInv'
<1>. SUFFICES ASSUME TxIInv, UserUndoes \/ UserRedoes \/ UserCloses PROVE TxIInv'
    OBVIOUS
<1>1. TxTypeOK /\ disturbed' = TRUE /\ UNCHANGED <<audited, changes, trace>>
    BY DEF TxIInv, UserUndoes, UserRedoes, UserCloses
<1>2. CASE UserUndoes
    <2>1. /\ active \in Documents /\ UndoCount(active) > 0 /\ TakeBack(active)
          /\ UNCHANGED <<opened, active>>
        BY <1>1, <1>2 DEF TxTypeOK, UserUndoes
    <2>2. /\ content' \in [Documents -> 0..MaxChanges]
          /\ undoable' \in [Documents -> Seq(UndoEntries)]
          /\ \A e \in Documents : Len(undoable'[e]) <= MaxUndo
          /\ redoable' \in [Documents -> Seq(RedoEntries)]
        BY <1>1, <2>1, TakeBackType
    <2>3. TxTypeOK'
        BY <1>1, <2>1, <2>2 DEF TxTypeOK, UndoCount, UndoEntries, RedoEntries
    <2>. QED  BY <1>1, <2>3 DEF TxIInv, UndisturbedUndoIsExact
<1>3. CASE UserRedoes
    <2>. DEFINE top == redoable[active][Len(redoable[active])]
    <2>1. /\ active \in Documents /\ redoable[active] # <<>>
          /\ content' = [content EXCEPT ![active] = top.after]
          /\ undoable' = [undoable EXCEPT ![active] =
                             Pushed(undoable[active], Entry(top.tx, content[active]))]
          /\ redoable' = [redoable EXCEPT ![active] =
                             SubSeq(redoable[active], 1, Len(redoable[active]) - 1)]
          /\ UNCHANGED <<opened, active>>
        BY <1>1, <1>3 DEF TxTypeOK, UserRedoes
    <2>2. /\ content \in [Documents -> 0..MaxChanges]
          /\ undoable \in [Documents -> Seq(UndoEntries)]
          /\ \A e \in Documents : Len(undoable[e]) <= MaxUndo
          /\ redoable \in [Documents -> Seq(RedoEntries)]
        BY <1>1 DEF TxTypeOK, UndoCount, UndoEntries, RedoEntries
    <2>3. redoable[active] \in Seq(RedoEntries)
        BY <2>1, <2>2
    <2>4. top \in RedoEntries
        BY <2>1, <2>3
    <2>5. SubSeq(redoable[active], 1, Len(redoable[active]) - 1) \in Seq(RedoEntries)
        BY <2>1, <2>3, FrontFacts
    <2>6. Entry(top.tx, content[active]) \in UndoEntries
        BY <2>1, <2>2, <2>4 DEF Entry, UndoEntries, RedoEntries
    <2>7. /\ Pushed(undoable[active], Entry(top.tx, content[active])) \in Seq(UndoEntries)
          /\ Len(Pushed(undoable[active], Entry(top.tx, content[active]))) \in 1..MaxUndo
        BY <2>1, <2>2, <2>6, PushedType
    <2>8. content' \in [Documents -> 0..MaxChanges] /\ redoable' \in [Documents -> Seq(RedoEntries)]
        BY <2>1, <2>2, <2>4, <2>5 DEF RedoEntries
    <2>9. /\ undoable' \in [Documents -> Seq(UndoEntries)]
          /\ \A e \in Documents : Len(undoable'[e]) <= MaxUndo
        BY <2>1, <2>2, <2>7
    <2>10. TxTypeOK'
        BY <1>1, <2>1, <2>8, <2>9 DEF TxTypeOK, UndoCount, UndoEntries, RedoEntries
    <2>. QED  BY <1>1, <2>10 DEF TxIInv, UndisturbedUndoIsExact
<1>4. CASE UserCloses
    <2>1. PICK d \in opened :
              /\ opened' = opened \ {d}
              /\ active' \in IF active # d THEN {active}
                             ELSE IF opened = {d} THEN {NoDocument} ELSE opened \ {d}
              /\ content' = [content EXCEPT ![d] = 0]
              /\ undoable' = [undoable EXCEPT ![d] = <<>>]
              /\ redoable' = [redoable EXCEPT ![d] = <<>>]
        BY <1>4 DEF UserCloses
    <2>2. /\ content \in [Documents -> 0..MaxChanges]
          /\ undoable \in [Documents -> Seq(UndoEntries)]
          /\ \A e \in Documents : Len(undoable[e]) <= MaxUndo
          /\ redoable \in [Documents -> Seq(RedoEntries)]
          /\ d \in Documents
        BY <1>1 DEF TxTypeOK, UndoCount, UndoEntries, RedoEntries
    <2>3. /\ content' \in [Documents -> 0..MaxChanges]
          /\ undoable' \in [Documents -> Seq(UndoEntries)]
          /\ redoable' \in [Documents -> Seq(RedoEntries)]
        BY <2>1, <2>2, TransactionsAssumption
    <2>4. \A e \in Documents : Len(undoable'[e]) <= MaxUndo
        BY <2>1, <2>2, TransactionsAssumption
    <2>5. opened' \subseteq Documents /\ active' \in opened' \cup {NoDocument}
        BY <1>1, <2>1 DEF TxTypeOK
    <2>6. TxTypeOK'
        BY <1>1, <2>3, <2>4, <2>5 DEF TxTypeOK, UndoCount, UndoEntries, RedoEntries
    <2>. QED  BY <1>1, <2>6 DEF TxIInv, UndisturbedUndoIsExact
<1>. QED  BY <1>2, <1>3, <1>4

LEMMA StutterKeeps == TxIInv /\ UNCHANGED txVars => TxIInv'
<1>. SUFFICES ASSUME TxIInv, UNCHANGED txVars PROVE TxIInv'
    OBVIOUS
<1>1. TxTypeOK'
    BY DEF TxIInv, txVars, TxTypeOK, UndoCount
<1>2. ~disturbed' => StacksAgree'
    BY DEF TxIInv, txVars, StacksAgree, OneStack, RememberedAreEntries, LastOfCount, CountsGrow,
           CountsReach, UndoCount, EntriesAreRemembered
<1>3. UndisturbedUndoIsExact'
    BY DEF TxIInv, txVars, UndisturbedUndoIsExact
<1>. QED  BY <1>1, <1>2, <1>3 DEF TxIInv

THEOREM TransactionsInvariant == TxSpec => []TxIInv
<1>1. TxIInv /\ [TxNext]_txVars => TxIInv'
    BY RunKeeps, CreateKeeps, UndoKeeps, RaisedUndoKeeps, OthersKeep, EditKeeps, UserKeeps, StutterKeeps
    DEF TxNext
<1>. QED  BY <1>1, InitTxIInv, PTL DEF TxSpec

(* Every state of the transaction core has the types TxTypeOK states.       *)
THEOREM TransactionsTyped == TxSpec => []TxTypeOK
<1>1. TxIInv => TxTypeOK
    BY DEF TxIInv
<1>. QED  BY <1>1, TransactionsInvariant, PTL

(* As long as one document is edited, its stack does not overflow, the user *)
(* undoes, redoes and closes nothing and changes nothing right after a      *)
(* cad.undo that raised, cad.undo (base.py:285-312) names the transaction   *)
(* it took back: remembering counts is enough then, however the user's own  *)
(* edits, those of the tools and undos that raise alternate.                *)
THEOREM UndoIsExact == TxSpec => []UndisturbedUndoIsExact
<1>1. TxIInv => UndisturbedUndoIsExact
    BY DEF TxIInv
<1>. QED  BY <1>1, TransactionsInvariant, PTL

-------------------------------------------------------------------------------
(***************************************************************************)
(* What the state token of an inspection is worth, for any number of       *)
(* documents, objects, versions and observers.                             *)
(*                                                                         *)
(* The revision of a document only grows, and every observation that finds *)
(* something else than the one before raises it.  While a client inspects, *)
(* the revision of its document is therefore either still the one of its   *)
(* first token, and then nobody has seen anything but what that token      *)
(* stands for, or it is greater and the last token will not be the first.  *)
(***************************************************************************)

Doings == {"nothing", "inspecting", "inspected", "paging", "paged"}

RevisionsOK ==
    /\ current \in Models
    /\ DOMAIN tracked = Models
    /\ \A d \in Models : tracked[d].revision \in Nat

FirstTokenHolds ==
    client.doing = "inspecting" =>
        /\ client.first.document \in Models
        /\ client.first.revision \in Nat \ {0}
        /\ client.first.revision <= tracked[client.first.document].revision
        /\ client.first.revision = tracked[client.first.document].revision =>
               /\ tracked[client.first.document].print = client.first.print
               /\ client.seen = {client.first.print}

ClientIsRecord ==
    client \in [doing : Doings, first : {client.first}, targets : {client.targets},
                got : {client.got}, cursor : {client.cursor}, partial : BOOLEAN,
                seen : {client.seen}]

ContextIInv ==
    /\ RevisionsOK
    /\ ClientIsRecord
    /\ FirstTokenHolds
    /\ CompletedInspectionSawOneState

-----------------------------------------------------------------------------
(* Observations *)

\* What an observation does to the document it looks at, and to the others.
LEMMA Observed ==
    ASSUME RevisionsOK, Observe
    PROVE  /\ RevisionsOK'
           /\ tracked'[current].revision = Revision(current)
           /\ tracked'[current].print = DocumentFingerprint(current)
           /\ \A d \in Models \ {current} : tracked'[d] = tracked[d]
           /\ Revision(current) \in Nat \ {0}
           /\ tracked[current].revision <= Revision(current)
           /\ tracked[current].revision # 0 /\ Revision(current) = tracked[current].revision
              => DocumentFingerprint(current) = tracked[current].print
<1>. DEFINE now == [print |-> DocumentFingerprint(current), selection |-> selected,
                    revision |-> Revision(current), recent |-> RecentItems(current)]
<1>1. tracked' = [tracked EXCEPT ![current] = now] /\ current' = current
    BY DEF Observe
<1>2. /\ Revision(current) \in Nat \ {0}
      /\ tracked[current].revision <= Revision(current)
      /\ tracked[current].revision # 0 /\ Revision(current) = tracked[current].revision
         => DocumentFingerprint(current) = tracked[current].print
    <2>1. tracked[current].revision \in Nat
        BY DEF RevisionsOK
    <2>. QED  BY <2>1 DEF Revision
<1>3. /\ tracked'[current] = now
      /\ \A d \in Models \ {current} : tracked'[d] = tracked[d]
      /\ DOMAIN tracked' = Models
    BY <1>1 DEF RevisionsOK
<1>4. now.revision = Revision(current) /\ now.print = DocumentFingerprint(current)
    OBVIOUS
<1>. HIDE DEF now
<1>5. RevisionsOK'
    BY <1>1, <1>2, <1>3, <1>4 DEF RevisionsOK
<1>. QED  BY <1>2, <1>3, <1>4, <1>5

\* An observation by somebody, while the client inspects.
LEMMA WitnessedHolds ==
    ASSUME ContextIInv, Observe, client.doing = "inspecting", NEW seen,
           seen = Witnessed(client.seen)
    PROVE  /\ client.first.revision <= tracked'[client.first.document].revision
           /\ client.first.revision = tracked'[client.first.document].revision =>
                  /\ tracked'[client.first.document].print = client.first.print
                  /\ seen = {client.first.print}
<1>. DEFINE d == client.first.document
<1>1. /\ RevisionsOK /\ d \in Models /\ client.first.revision \in Nat \ {0}
      /\ client.first.revision <= tracked[d].revision
      /\ tracked[d].revision \in Nat
    BY DEF ContextIInv, FirstTokenHolds, RevisionsOK
<1>2. client.first.revision = tracked[d].revision =>
          tracked[d].print = client.first.print /\ client.seen = {client.first.print}
    BY DEF ContextIInv, FirstTokenHolds
<1>3. CASE d = current
    <2>1. seen = client.seen \cup {DocumentFingerprint(current)}
        BY <1>3 DEF Witnessed
    <2>. HIDE DEF d
    <2>2. /\ tracked'[d].revision = Revision(d) /\ Revision(d) \in Nat
          /\ tracked[d].revision <= Revision(d)
          /\ tracked'[d].print = DocumentFingerprint(d)
        BY <1>1, <1>3, Observed
    <2>3. ASSUME client.first.revision = tracked'[d].revision
          PROVE  tracked'[d].print = client.first.print /\ seen = {client.first.print}
        <3>1. tracked[d].revision = Revision(d) /\ tracked[d].revision # 0
              /\ client.first.revision = tracked[d].revision
            BY <1>1, <2>2, <2>3
        <3>2. DocumentFingerprint(d) = tracked[d].print
            BY <1>1, <1>3, <3>1, Observed
        <3>. QED  BY <1>2, <1>3, <2>1, <2>2, <3>1, <3>2
    <2>4. client.first.revision <= tracked'[d].revision
        BY <1>1, <2>2
    <2>. QED  BY <2>3, <2>4 DEF d
<1>4. CASE d # current
    <2>1. seen = client.seen
        BY <1>4 DEF Witnessed
    <2>2. tracked'[d] = tracked[d]
        BY <1>1, <1>4, Observed
    <2>. QED  BY <1>1, <1>2, <2>1, <2>2
<1>. QED  BY <1>3, <1>4

-----------------------------------------------------------------------------
(* The steps *)

LEMMA InitContextIInv == ContextInit => ContextIInv
BY DEF ContextInit, ContextIInv, RevisionsOK, ClientIsRecord, FirstTokenHolds, Untracked, Resting,
       Doings, CompletedInspectionSawOneState

LEMMA StartKeeps == ContextIInv /\ StartInspection => ContextIInv'
<1>. SUFFICES ASSUME ContextIInv, StartInspection PROVE ContextIInv'
    OBVIOUS
<1>1. Observe /\ RevisionsOK
    BY DEF StartInspection, ContextIInv
<1>2. PICK targets : client' = [Resting EXCEPT
          !.doing = "inspecting", !.first = Token(current), !.targets = targets,
          !.seen = {DocumentFingerprint(current)}]
    BY SMTT(30), ZenonT(20) DEF StartInspection
<1>3. /\ client'.doing = "inspecting" /\ client'.first = Token(current)
      /\ client'.seen = {DocumentFingerprint(current)}
      /\ ClientIsRecord'
    BY <1>2 DEF Resting, ClientIsRecord, Doings
<1>4. /\ Token(current).document = current
      /\ Token(current).revision = Revision(current)
      /\ Token(current).print = DocumentFingerprint(current)
    BY DEF Token
<1>5. FirstTokenHolds'
    BY <1>1, <1>3, <1>4, Observed DEF FirstTokenHolds, RevisionsOK
<1>. QED  BY <1>1, <1>3, <1>5, Observed DEF ContextIInv, CompletedInspectionSawOneState

LEMMA MeasureKeeps == ContextIInv /\ MeasureTarget => ContextIInv'
<1>. SUFFICES ASSUME ContextIInv, MeasureTarget PROVE ContextIInv'
    OBVIOUS
<1>1. /\ UNCHANGED <<current, tracked>>
      /\ client.doing = "inspecting" /\ ClientIsRecord
    BY DEF MeasureTarget, ContextIInv
<1>2. PICK partial \in BOOLEAN : \E targets, got :
          client' = [client EXCEPT !.targets = targets, !.got = got, !.partial = partial]
    <2>1. PICK failed \in BOOLEAN :
              LET i == Head(client.targets)
                  found == model[current][i] # 0 /\ ~failed
              IN  client' = [client EXCEPT
                      !.targets = Tail(@),
                      !.got = IF found THEN Append(@, i) ELSE @,
                      !.partial = @ \/ ~found]
        BY SMTT(30), ZenonT(20) DEF MeasureTarget
    <2>. DEFINE found == model[current][Head(client.targets)] # 0 /\ ~failed
    <2>2. (client.partial \/ ~found) \in BOOLEAN
        BY <1>1 DEF ClientIsRecord
    <2>. QED  BY <2>1, <2>2, SMTT(30), ZenonT(20)
<1>3. /\ client'.doing = "inspecting" /\ client'.first = client.first
      /\ client'.seen = client.seen /\ ClientIsRecord'
    BY <1>1, <1>2 DEF ClientIsRecord
<1>. QED  BY <1>1, <1>3 DEF ContextIInv, RevisionsOK, FirstTokenHolds, CompletedInspectionSawOneState

\* The last token is the first one only when the revision has not moved.
LEMMA EndKeeps == ContextIInv /\ EndInspection => ContextIInv'
<1>. SUFFICES ASSUME ContextIInv, EndInspection PROVE ContextIInv'
    OBVIOUS
<1>1. client.doing = "inspecting" /\ ClientIsRecord /\ RevisionsOK
    BY DEF EndInspection, ContextIInv
<1>2. CASE /\ Observe
           /\ client' = [client EXCEPT
                  !.doing = "inspected",
                  !.partial = client.partial \/ Token(current) # client.first,
                  !.seen = Witnessed(client.seen)]
    <2>1. /\ client'.doing = "inspected" /\ client'.first = client.first
          /\ client'.seen = Witnessed(client.seen)
          /\ client'.partial = (client.partial \/ Token(current) # client.first)
          /\ ClientIsRecord'
        BY <1>1, <1>2 DEF ClientIsRecord, Doings
    <2>2. ASSUME ~client'.partial PROVE client'.seen = {client.first.print}
        <3>1. Token(current) = client.first
            BY <2>1, <2>2
        <3>2. client.first.document = current /\ client.first.revision = Revision(current)
            BY <3>1 DEF Token
        <3>3. client.first.revision = tracked'[client.first.document].revision
            BY <1>1, <1>2, <3>2, Observed
        <3>. QED  BY <1>1, <1>2, <2>1, <3>3, WitnessedHolds
    <2>. QED  BY <1>1, <1>2, <2>1, <2>2, Observed
              DEF ContextIInv, FirstTokenHolds, CompletedInspectionSawOneState
<1>3. CASE /\ client' = [client EXCEPT !.doing = "inspected", !.partial = TRUE]
           /\ UNCHANGED <<current, model, selected, tracked, pending, moves>>
    <2>1. client'.doing = "inspected" /\ client'.partial = TRUE /\ ClientIsRecord'
        BY <1>1, <1>3 DEF ClientIsRecord, Doings
    <2>. QED  BY <1>1, <1>3, <2>1
              DEF ContextIInv, RevisionsOK, FirstTokenHolds, CompletedInspectionSawOneState
<1>. QED  BY <1>2, <1>3 DEF EndInspection

LEMMA ObserversKeep == ContextIInv /\ OtherSnapshot => ContextIInv'
<1>. SUFFICES ASSUME ContextIInv, OtherSnapshot PROVE ContextIInv'
    OBVIOUS
<1>1. /\ Observe /\ ClientIsRecord /\ RevisionsOK
      /\ client' = [client EXCEPT !.seen = Witnessed(client.seen)]
    BY DEF OtherSnapshot, ContextIInv
<1>2. /\ client'.doing = client.doing /\ client'.first = client.first
      /\ client'.partial = client.partial
      /\ client'.seen = Witnessed(client.seen)
      /\ ClientIsRecord'
    BY <1>1 DEF ClientIsRecord
<1>3. FirstTokenHolds'
    <2>. SUFFICES ASSUME client.doing = "inspecting" PROVE FirstTokenHolds'
        BY <1>2 DEF FirstTokenHolds
    <2>. QED  BY <1>1, <1>2, WitnessedHolds DEF ContextIInv, FirstTokenHolds
<1>4. CompletedInspectionSawOneState'
    <2>1. client.doing = "inspected" => Witnessed(client.seen) = client.seen
        BY DEF Witnessed
    <2>. QED  BY <1>2, <2>1 DEF ContextIInv, CompletedInspectionSawOneState
<1>. QED  BY <1>1, <1>2, <1>3, <1>4, Observed DEF ContextIInv

\* A client that reads pages is not inspecting.
LEMMA PageKeeps == ContextIInv /\ (ReadPage \/ PageRefused \/ ClientDone) => ContextIInv'
<1>. SUFFICES ASSUME ContextIInv, ReadPage \/ PageRefused \/ ClientDone PROVE ContextIInv'
    OBVIOUS
<1>1. RevisionsOK /\ ClientIsRecord
    BY DEF ContextIInv
<1>2. RevisionsOK'
    <2>1. Observe => RevisionsOK'
        BY <1>1, Observed
    <2>2. UNCHANGED <<current, tracked>> => RevisionsOK'
        BY <1>1 DEF RevisionsOK
    <2>. QED  BY <2>1, <2>2 DEF ReadPage, PageRefused, ClientDone
<1>3. client'.doing \in {"nothing", "paging", "paged"} /\ ClientIsRecord'
    <2>1. CASE ReadPage
        <3>. DEFINE all == InOrder(Present(current))
                    last == Least(client.cursor + PageSize, Len(all))
                    doing == IF last < Len(all) THEN "paging" ELSE "paged"
                    first == IF client = Resting THEN Token(current) ELSE client.first
                    partial == client.partial \/ (client # Resting /\ Token(current) # client.first)
                    got == client.got \o SubSeq(all, client.cursor + 1, last)
                    seen == IF client = Resting THEN {DocumentFingerprint(current)}
                            ELSE Witnessed(client.seen)
        <3>1. client' = [client EXCEPT !.doing = doing, !.first = first, !.partial = partial,
                                       !.got = got, !.cursor = last, !.seen = seen]
            BY <2>1, Zenon DEF ReadPage
        <3>2. doing \in {"paging", "paged"} /\ partial \in BOOLEAN
            BY <1>1 DEF ClientIsRecord
        <3>. HIDE DEF doing, first, partial, got, last, seen
        <3>. QED  BY <1>1, <3>1, <3>2 DEF ClientIsRecord, Doings
    <2>2. CASE PageRefused \/ ClientDone
        <3>1. client' = Resting
            BY <2>2 DEF PageRefused, ClientDone
        <3>. QED  BY <3>1 DEF Resting, ClientIsRecord, Doings
    <2>. QED  BY <2>1, <2>2
<1>. QED  BY <1>2, <1>3 DEF ContextIInv, FirstTokenHolds, CompletedInspectionSawOneState

LEMMA ChangesKeep ==
    ContextIInv /\ (ToolChanges \/ UserChanges \/ UserSelects \/ UserSwitches
             \/ UNCHANGED contextVars) => ContextIInv'
<1>. SUFFICES ASSUME ContextIInv, \/ ToolChanges \/ UserChanges \/ UserSelects \/ UserSwitches
                           \/ UNCHANGED contextVars
              PROVE  ContextIInv'
    OBVIOUS
<1>1. UNCHANGED <<tracked, client>> /\ current' \in Models
    BY DEF ContextIInv, RevisionsOK, ToolChanges, UserChanges, UserSelects, UserSwitches,
           contextVars
<1>. QED  BY <1>1 DEF ContextIInv, RevisionsOK, ClientIsRecord, FirstTokenHolds,
                      CompletedInspectionSawOneState

-----------------------------------------------------------------------------
THEOREM ContextInvariant == ContextSpec => []ContextIInv
<1>1. ContextIInv /\ [ContextNext]_contextVars => ContextIInv'
    BY StartKeeps, MeasureKeeps, EndKeeps, ObserversKeep, PageKeeps, ChangesKeep
    DEF ContextNext
<1>. QED  BY <1>1, InitContextIInv, PTL DEF ContextSpec

(* An inspection that is reported complete (inspection.py compares the last *)
(* state token with the first) saw one state as far as anyone observed it.  *)
THEOREM CompletedIsOneState == ContextSpec => []CompletedInspectionSawOneState
<1>1. ContextIInv => CompletedInspectionSawOneState
    BY DEF ContextIInv
<1>. QED  BY <1>1, ContextInvariant, PTL

-------------------------------------------------------------------------------
(* Pages: what a client has read is the objects in the order of their     *)
(* names up to its cursor, as long as every page carried the first token. *)

\* What comes before an element is less than what comes before a later one.
LEMMA EarlierIsLess ==
    ASSUME NEW S \in SUBSET Nat, IsFiniteSet(S), NEW x \in S, NEW y \in S, x < y
    PROVE  Cardinality({j \in S : j < x}) < Cardinality({j \in S : j < y})
<1>. DEFINE A == {j \in S : j < x}
            B == {j \in S : j < y}
<1>1. IsFiniteSet(A) /\ IsFiniteSet(B)
    <2>1. A \in SUBSET S /\ B \in SUBSET S
        OBVIOUS
    <2>. HIDE DEF A, B
    <2>. QED  BY <2>1, FS_Subset
<1>2. A \cup {x} \subseteq B /\ x \notin A
    <2>1. x \in Nat /\ y \in Nat /\ \A j \in S : j \in Nat
        OBVIOUS
    <2>2. ~(x < x) /\ \A j \in S : j < x => j < y
        BY <2>1
    <2>. QED  BY <2>2
<1>. HIDE DEF A, B
<1>3. Cardinality(A \cup {x}) = Cardinality(A) + 1
    BY <1>1, <1>2, FS_AddElement
<1>4. Cardinality(A \cup {x}) <= Cardinality(B)
    BY <1>1, <1>2, FS_Subset
<1>5. Cardinality(A) \in Nat /\ Cardinality(B) \in Nat
    BY <1>1, FS_CardinalityType
<1>6. Cardinality(A) < Cardinality(B)
    BY <1>3, <1>4, <1>5
<1>. QED  BY <1>6 DEF A, B

\* A finite set of numbers has an element with n others before it, for every n below
\* its size.
LEMMA RanksExist ==
    ASSUME NEW S \in SUBSET Nat, IsFiniteSet(S), NEW n \in 0..(Cardinality(S) - 1)
    PROVE  \E i \in S : Cardinality({j \in S : j < i}) = n
<1>. DEFINE Below(i) == {j \in S : j < i}
            f == [i \in S |-> Cardinality(Below(i))]
            T == 0..(Cardinality(S) - 1)
<1>1. Cardinality(S) \in Nat
    BY FS_CardinalityType
<1>2. ASSUME NEW i \in S
      PROVE  Cardinality(Below(i)) \in T
    <2>1. Below(i) \in SUBSET (S \ {i})
        OBVIOUS
    <2>. HIDE DEF Below
    <2>2. IsFiniteSet(S \ {i}) /\ Cardinality(S \ {i}) = Cardinality(S) - 1
        BY FS_RemoveElement
    <2>3. IsFiniteSet(Below(i)) /\ Cardinality(Below(i)) <= Cardinality(S \ {i})
        BY <2>1, <2>2, FS_Subset
    <2>4. Cardinality(Below(i)) \in Nat
        BY <2>3, FS_CardinalityType
    <2>. QED  BY <1>1, <2>2, <2>3, <2>4
<1>3. ASSUME NEW x \in S, NEW y \in S, x # y
      PROVE  Cardinality(Below(x)) # Cardinality(Below(y))
    <2>1. Cardinality(Below(x)) \in Int /\ Cardinality(Below(y)) \in Int
        BY <1>2
    <2>2. CASE x < y
        <3>1. Cardinality(Below(x)) < Cardinality(Below(y))
            BY <2>2, EarlierIsLess
        <3>. HIDE DEF Below
        <3>. QED  BY <2>1, <3>1
    <2>3. CASE y < x
        <3>1. Cardinality(Below(y)) < Cardinality(Below(x))
            BY <2>3, EarlierIsLess
        <3>. HIDE DEF Below
        <3>. QED  BY <2>1, <3>1
    <2>4. x < y \/ y < x
        BY <1>3
    <2>. QED  BY <2>2, <2>3, <2>4
<1>4. f \in [S -> T] /\ \A x, y \in S : f[x] = f[y] => x = y
    <2>. HIDE DEF Below, T
    <2>. QED  BY <1>2, <1>3
<1>5. f \in Injection(S, T)
    <2>. HIDE DEF f, T
    <2>. QED  BY <1>4 DEF Injection, IsInjective
<1>6. IsFiniteSet(T) /\ Cardinality(T) = Cardinality(S)
    <2>1. PICK c \in Nat : c = Cardinality(S)
        BY <1>1
    <2>2. IsFiniteSet(0..(c - 1)) /\ Cardinality(0..(c - 1)) = c
        BY FS_Interval
    <2>. QED  BY <2>1, <2>2
<1>7. f \in Surjection(S, T)
    <2>. HIDE DEF f, T
    <2>. QED  BY <1>5, <1>6, FS_Injection
<1>8. \E i \in S : f[i] = n
    <2>. HIDE DEF f
    <2>. QED  BY <1>7 DEF Surjection
<1>. QED  BY <1>8

\* InOrder lists a finite set of numbers, each of its elements once, the smaller ones
\* first.
LEMMA InOrderLists ==
    ASSUME NEW S \in SUBSET Nat, IsFiniteSet(S)
    PROVE  /\ InOrder(S) \in Seq(S)
           /\ Len(InOrder(S)) = Cardinality(S)
           /\ \A x \in S : \E n \in 1..Len(InOrder(S)) : InOrder(S)[n] = x
           /\ \A m, n \in 1..Len(InOrder(S)) : m < n => InOrder(S)[m] < InOrder(S)[n]
<1>. DEFINE Rank(i) == Cardinality({j \in S : j < i})
            Nth(n) == CHOOSE i \in S : Rank(i) = n - 1
<1>1. PICK c \in Nat : c = Cardinality(S)
    BY FS_CardinalityType
<1>2. ASSUME NEW n \in 1..c PROVE Nth(n) \in S /\ Rank(Nth(n)) = n - 1
    <2>1. n - 1 \in 0..(Cardinality(S) - 1)
        BY <1>1
    <2>2. \E i \in S : Rank(i) = n - 1
        BY <2>1, RanksExist
    <2>. HIDE DEF Rank
    <2>. QED  BY <2>2
<1>3. InOrder(S) = [n \in 1..c |-> Nth(n)]
    BY <1>1 DEF InOrder
<1>4. \A x, y \in S : x < y => Rank(x) < Rank(y)
    BY EarlierIsLess
<1>. HIDE DEF Nth
<1>5. InOrder(S) \in [1..c -> S]
    BY <1>2, <1>3
<1>6. InOrder(S) \in Seq(S) /\ Len(InOrder(S)) = c
    BY <1>5
<1>7. ASSUME NEW x \in S PROVE \E n \in 1..c : InOrder(S)[n] = x
    <2>1. PICK r \in 0..(c - 1) : r = Rank(x)
        <3>1. {j \in S : j < x} \in SUBSET (S \ {x})
            OBVIOUS
        <3>2. IsFiniteSet(S \ {x}) /\ Cardinality(S \ {x}) = c - 1
            BY <1>1, FS_RemoveElement
        <3>3. PICK L \in SUBSET (S \ {x}) : L = {j \in S : j < x}
            BY <3>1
        <3>4. IsFiniteSet(L) /\ Cardinality(L) <= c - 1
            BY <3>2, FS_Subset, SMTT(30), ZenonT(20)
        <3>5. Cardinality(L) \in Nat
            BY <3>4, FS_CardinalityType
        <3>6. Cardinality(L) \in 0..(c - 1)
            BY <3>4, <3>5
        <3>. QED  BY <3>3, <3>6
    <2>5. PICK n \in 1..c : n = r + 1
        BY <1>1
    <2>2. PICK y \in S : y = Nth(n)
        BY <1>2
    <2>3. Rank(y) = r
        BY <1>2, <2>2, <2>5
    <2>4. y = x
        <3>1. Rank(x) = Rank(y) /\ Rank(x) \in Nat
            BY <2>1, <2>3
        <3>. HIDE DEF Rank
        <3>2. ~(x < y) /\ ~(y < x)
            BY <1>4, <3>1
        <3>3. x \in Nat /\ y \in Nat
            OBVIOUS
        <3>. QED  BY <3>2, <3>3
    <2>. QED  BY <1>3, <2>2, <2>4
<1>8. ASSUME NEW m \in 1..c, NEW n \in 1..c, m < n
      PROVE  InOrder(S)[m] < InOrder(S)[n]
    <2>1. PICK x \in S : x = Nth(m)
        BY <1>2
    <2>2. PICK y \in S : y = Nth(n)
        BY <1>2
    <2>3. Rank(x) = m - 1 /\ Rank(y) = n - 1
        BY <1>2, <2>1, <2>2
    <2>. HIDE DEF Rank
    <2>4. Rank(x) < Rank(y)
        BY <1>8, <2>3
    <2>5. x \in Nat /\ y \in Nat /\ x # y
        <3>1. m - 1 # n - 1
            BY <1>8
        <3>. QED  BY <2>3, <3>1
    <2>7. ~(y < x)
        <3>1. ~(Rank(y) < Rank(x))
            BY <1>8, <2>3
        <3>. QED  BY <1>4, <3>1
    <2>6. x < y
        BY <2>5, <2>7
    <2>. QED  BY <1>3, <2>1, <2>2, <2>6
<1>. QED  BY <1>1, <1>6, <1>7, <1>8
-----------------------------------------------------------------------------
\* A page is what comes next.
LEMMA PageAdds ==
    ASSUME NEW S, NEW s \in Seq(S), NEW c \in Nat, NEW l \in Nat, c <= l, l <= Len(s)
    PROVE  /\ SubSeq(s, 1, c) \o SubSeq(s, c + 1, l) = SubSeq(s, 1, l)
           /\ SubSeq(s, 1, Len(s)) = s
<1>. PICK n \in Nat : n = Len(s)
    OBVIOUS
<1>1. /\ SubSeq(s, 1, c) \in Seq(S) /\ Len(SubSeq(s, 1, c)) = c
      /\ \A k \in 1..c : SubSeq(s, 1, c)[k] = s[k]
    OBVIOUS
<1>2. /\ SubSeq(s, c + 1, l) \in Seq(S) /\ Len(SubSeq(s, c + 1, l)) = l - c
      /\ \A k \in 1..(l - c) : SubSeq(s, c + 1, l)[k] = s[c + k]
    OBVIOUS
<1>3. /\ SubSeq(s, 1, l) \in Seq(S) /\ Len(SubSeq(s, 1, l)) = l
      /\ \A k \in 1..l : SubSeq(s, 1, l)[k] = s[k]
    OBVIOUS
<1>4. SubSeq(s, 1, c) \o SubSeq(s, c + 1, l) = SubSeq(s, 1, l)
    <2>1. PICK a \in Seq(S) : a = SubSeq(s, 1, c)
        BY <1>1
    <2>2. PICK b \in Seq(S) : b = SubSeq(s, c + 1, l)
        BY <1>2
    <2>3. PICK w \in Seq(S) : w = SubSeq(s, 1, l)
        BY <1>3
    <2>4. /\ Len(a) = c /\ \A k \in 1..c : a[k] = s[k]
          /\ Len(b) = l - c /\ \A k \in 1..(l - c) : b[k] = s[c + k]
          /\ Len(w) = l /\ \A k \in 1..l : w[k] = s[k]
        BY <1>1, <1>2, <1>3, <2>1, <2>2, <2>3
    <2>5. /\ a \o b \in Seq(S) /\ Len(a \o b) = Len(a) + Len(b)
          /\ \A k \in 1..(Len(a) + Len(b)) :
                (a \o b)[k] = IF k <= Len(a) THEN a[k] ELSE b[k - Len(a)]
        BY ConcatProperties
    <2>6. Len(a) + Len(b) = l
        BY <2>4
    <2>7. ASSUME NEW k \in 1..l PROVE (a \o b)[k] = w[k]
        <3>1. CASE k <= c
            BY <2>4, <2>5, <2>6, <3>1
        <3>2. CASE k > c
            <4>1. PICK m \in 1..(l - c) : m = k - c /\ k = c + m
                BY <3>2
            <4>2. (a \o b)[k] = b[m]
                <5>1. k \in 1..(Len(a) + Len(b)) /\ ~(k <= Len(a)) /\ k - Len(a) = m
                    BY ONLY <2>4, <2>6, <3>2, <4>1, c \in Nat, l \in Nat
                <5>. QED  BY ONLY <2>5, <5>1
            <4>3. b[m] = s[k]
                BY ONLY <2>4, <4>1
            <4>4. w[k] = s[k]
                BY ONLY <2>4, k \in 1..l
            <4>. QED  BY <4>2, <4>3, <4>4, Zenon
        <3>3. k <= c \/ k > c
            BY ONLY k \in 1..l, c \in Nat
        <3>. QED  BY <3>1, <3>2, <3>3, Zenon
    <2>8. PICK ab \in Seq(S) : ab = a \o b
        BY <2>5
    <2>9. ab = w
        <3>1. /\ ab = [k \in 1..Len(ab) |-> ab[k]] /\ w = [k \in 1..Len(w) |-> w[k]]
            OBVIOUS
        <3>2. Len(ab) = l /\ Len(w) = l /\ \A k \in 1..l : ab[k] = w[k]
            BY <2>4, <2>5, <2>6, <2>7, <2>8
        <3>. QED  BY ONLY <3>1, <3>2
    <2>. QED  BY <2>1, <2>2, <2>3, <2>8, <2>9
<1>5. SubSeq(s, 1, Len(s)) = s
    OBVIOUS
<1>. QED  BY <1>4, <1>5

ModelFinite ==
    /\ model \in [Models -> [Items -> Versions]]
    /\ \A d \in Models : IsFiniteSet(Present(d))

\* As long as the tokens agree, the pages read are the objects in order, up to the cursor.
PagesAgree ==
    client.doing = "paging" /\ ~client.partial =>
        /\ client.cursor \in Nat
        /\ client.cursor < Len(InOrder(DOMAIN client.first.print))
        /\ client.got = SubSeq(InOrder(DOMAIN client.first.print), 1, client.cursor)

PagesInv == ModelFinite /\ PagesAgree /\ PagesAreTheDocument

LEMMA InitPages == ContextInit => PagesInv
<1>. SUFFICES ASSUME ContextInit PROVE PagesInv
    OBVIOUS
<1>1. \A d \in Models : Present(d) = {}
    BY DEF ContextInit, Present
<1>2. ModelFinite
    BY <1>1, FS_EmptySet, ContextAssumption DEF ContextInit, ModelFinite
<1>3. client.doing = "nothing"
    BY DEF ContextInit, Resting
<1>. QED  BY <1>2, <1>3 DEF PagesInv, PagesAgree, PagesAreTheDocument

LEMMA ModelStaysFinite ==
    ASSUME ModelFinite, current \in Models, [ContextNext]_contextVars
    PROVE  ModelFinite'
<1>1. CASE model' = model
    BY <1>1 DEF ModelFinite, Present
<1>2. ASSUME NEW i \in Items, NEW v \in Versions, model' = [model EXCEPT ![current][i] = v]
      PROVE  ModelFinite'
    <2>1. model' \in [Models -> [Items -> Versions]]
        BY <1>2 DEF ModelFinite
    <2>2. ASSUME NEW d \in Models PROVE IsFiniteSet(Present(d)')
        <3>1. \A j \in Items \ {i} : model'[d][j] = model[d][j]
            BY <1>2 DEF ModelFinite
        <3>2. PICK A : A = Present(d)'
            OBVIOUS
        <3>3. A \in SUBSET (Present(d) \cup {i})
            BY <3>1, <3>2 DEF Present
        <3>4. IsFiniteSet(Present(d) \cup {i})
            BY FS_AddElement DEF ModelFinite
        <3>. QED  BY <3>2, <3>3, <3>4, FS_Subset
    <2>. QED  BY <2>1, <2>2 DEF ModelFinite
<1>3. CASE ToolChanges \/ UserChanges
    BY <1>2, <1>3 DEF ToolChanges, UserChanges
<1>4. CASE ~(ToolChanges \/ UserChanges)
    BY <1>1, <1>4, SMTT(30), ZenonT(20) DEF ContextNext, contextVars, StartInspection, MeasureTarget, EndInspection,
       ReadPage, PageRefused, OtherSnapshot, ClientDone, UserSelects, UserSwitches, Observe
<1>. QED  BY <1>3, <1>4

LEMMA PageKeepsAgreement ==
    ASSUME ContextIInv, PagesInv, ReadPage
    PROVE  PagesAgree' /\ PagesAreTheDocument'
<1>. DEFINE S == Present(current)
            all == InOrder(S)
            last == Least(client.cursor + PageSize, Len(all))
            doing == IF last < Len(all) THEN "paging" ELSE "paged"
            first == IF client = Resting THEN Token(current) ELSE client.first
            partial == client.partial \/ (client # Resting /\ Token(current) # client.first)
            got == client.got \o SubSeq(all, client.cursor + 1, last)
            seen == IF client = Resting THEN {DocumentFingerprint(current)}
                    ELSE Witnessed(client.seen)
<1>1. client' = [client EXCEPT !.doing = doing, !.first = first, !.partial = partial,
                               !.got = got, !.cursor = last, !.seen = seen]
    BY Zenon DEF ReadPage
<1>2. /\ client'.doing = doing /\ client'.first = first /\ client'.got = got
      /\ client'.cursor = last /\ client'.partial = partial
    <2>1. partial \in BOOLEAN /\ ClientIsRecord
        BY DEF ContextIInv, ClientIsRecord
    <2>. HIDE DEF doing, first, partial, got, last, seen
    <2>. QED  BY <1>1, <2>1 DEF ClientIsRecord
<1>3. S \in SUBSET Nat /\ IsFiniteSet(S)
    BY ContextAssumption DEF PagesInv, ModelFinite, Present, ContextIInv, RevisionsOK
<1>4. all \in Seq(S) /\ Len(all) \in Nat
    <2>. HIDE DEF S
    <2>. QED  BY <1>3, InOrderLists
<1>. SUFFICES ASSUME ~client'.partial
              PROVE  /\ last \in Nat /\ last <= Len(all)
                     /\ got = SubSeq(all, 1, last) /\ SubSeq(all, 1, Len(all)) = all
                     /\ DOMAIN first.print = S
    <2>. HIDE DEF S, last, first, partial, got
    <2>. QED  BY <1>2, <1>4 DEF PagesAgree, PagesAreTheDocument, doing
<1>5. ~client.partial /\ (client = Resting \/ Token(current) = client.first)
    BY <1>2
<1>6. DOMAIN Token(current).print = S
    BY DEF Token, DocumentFingerprint
<1>7. DOMAIN first.print = S
    <2>. HIDE DEF S
    <2>. QED  BY <1>5, <1>6
<1>8. client.cursor \in Nat /\ client.cursor <= Len(all) /\ client.got = SubSeq(all, 1, client.cursor)
    <2>1. CASE client = Resting
        <3>1. client.cursor = 0 /\ client.got = <<>>
            BY <2>1 DEF Resting
        <3>. HIDE DEF all
        <3>. QED  BY <1>4, <3>1
    <2>2. CASE client # Resting
        <3>1. client.doing = "paging" /\ DOMAIN client.first.print = S
            BY <1>5, <1>6, <2>2 DEF ReadPage
        <3>. HIDE DEF S
        <3>. QED  BY <1>4, <1>5, <3>1 DEF PagesInv, PagesAgree
    <2>. QED  BY <2>1, <2>2
<1>9. last \in Nat /\ client.cursor <= last /\ last <= Len(all)
    <2>. HIDE DEF all
    <2>. QED  BY <1>4, <1>8, ContextAssumption DEF Least
<1>10. got = SubSeq(all, 1, last) /\ SubSeq(all, 1, Len(all)) = all
    <2>1. PICK T : T = S
        OBVIOUS
    <2>2. PICK s \in Seq(T) : s = all
        BY <1>4, <2>1
    <2>3. PICK c \in Nat : c = client.cursor
        BY <1>8
    <2>4. PICK l \in Nat : l = last
        BY <1>9
    <2>5. c <= l /\ l <= Len(s)
        BY <1>9, <2>2, <2>3, <2>4
    <2>6. SubSeq(s, 1, c) \o SubSeq(s, c + 1, l) = SubSeq(s, 1, l) /\ SubSeq(s, 1, Len(s)) = s
        BY <2>5, PageAdds
    <2>. HIDE DEF all, last
    <2>. QED  BY <1>8, <2>2, <2>3, <2>4, <2>6
<1>. QED  BY <1>7, <1>9, <1>10

LEMMA PagesKept ==
    ASSUME ContextIInv, PagesInv, [ContextNext]_contextVars
    PROVE  PagesInv'
<1>1. ModelFinite'
    BY ModelStaysFinite DEF PagesInv, ContextIInv, RevisionsOK
<1>2. CASE ReadPage
    BY <1>1, <1>2, PageKeepsAgreement DEF PagesInv
<1>3. CASE client' = Resting
    BY <1>1, <1>3 DEF Resting, PagesInv, PagesAgree, PagesAreTheDocument
<1>4. CASE client'.doing \in {"inspecting", "inspected"}
    BY <1>1, <1>4 DEF PagesInv, PagesAgree, PagesAreTheDocument
<1>5. CASE client' = client
    BY <1>1, <1>5 DEF PagesInv, PagesAgree, PagesAreTheDocument
<1>6. CASE OtherSnapshot
    <2>1. client' = [client EXCEPT !.seen = Witnessed(client.seen)] /\ ClientIsRecord
        BY <1>6 DEF OtherSnapshot, ContextIInv
    <2>2. /\ client'.doing = client.doing /\ client'.first = client.first
          /\ client'.partial = client.partial /\ client'.cursor = client.cursor
          /\ client'.got = client.got
        BY <2>1 DEF ClientIsRecord
    <2>. QED  BY <1>1, <2>2 DEF PagesInv, PagesAgree, PagesAreTheDocument
<1>7. CASE StartInspection
    <2>1. \E targets : client' = [Resting EXCEPT
              !.doing = "inspecting", !.first = Token(current), !.targets = targets,
              !.seen = {DocumentFingerprint(current)}]
        BY <1>7, SMTT(30), ZenonT(20) DEF StartInspection
    <2>. QED  BY <1>4, <2>1 DEF Resting
<1>8. CASE MeasureTarget
    <2>1. client.doing = "inspecting" /\ ClientIsRecord
        BY <1>8 DEF MeasureTarget, ContextIInv
    <2>2. \E targets, got, partial :
            client' = [client EXCEPT !.targets = targets, !.got = got, !.partial = partial]
        BY <1>8, Zenon DEF MeasureTarget
    <2>3. client'.doing = "inspecting"
        BY <2>1, <2>2 DEF ClientIsRecord
    <2>. QED  BY <1>4, <2>3
<1>9. CASE EndInspection
    <2>1. ClientIsRecord
        BY DEF ContextIInv
    <2>2. PICK partial, seen :
            \/ client' = [client EXCEPT !.doing = "inspected", !.partial = partial, !.seen = seen]
            \/ client' = [client EXCEPT !.doing = "inspected", !.partial = partial]
        BY <1>9, SMTT(30), ZenonT(20) DEF EndInspection
    <2>3. client'.doing = "inspected"
        BY <2>1, <2>2 DEF ClientIsRecord
    <2>. QED  BY <1>4, <2>3
<1>. QED  BY <1>2, <1>3, <1>5, <1>6, <1>7, <1>8, <1>9
     DEF ContextNext, contextVars, PageRefused, ClientDone, ToolChanges, UserChanges,
         UserSelects, UserSwitches

\* Pages that carry one token are the document, for any number of objects, whatever the
\* page size and whatever happens between the pages.
THEOREM PagesAreAllObjects == ContextSpec => []PagesAreTheDocument
<1>1. ContextIInv /\ PagesInv /\ [ContextNext]_contextVars => PagesInv'
    BY PagesKept
<1>2. PagesInv => PagesAreTheDocument
    BY DEF PagesInv
<1>. QED  BY <1>1, <1>2, InitPages, ContextInvariant, PTL DEF ContextSpec

-------------------------------------------------------------------------------
(***************************************************************************)
(* The session record: unless the newest session is published while a      *)
(* record is aside, no older session's record is ever in its place again.  *)
(***************************************************************************)

Recorded == Sessions \cup {NoSession}

Clearers == {s \in Sessions : process[s] \in Holding}

\* What may be found while the newest session runs.
Current == {newest} \cup spoiled

\* Until a publication crosses, every record in its place or in someone's hands is a
\* current one, and one of them is in its place or will be put back, unless it is lost.
RecordsAreCurrent ==
    /\ published \in Current \cup {NoSession}
    /\ \A s \in Clearers : tombstone[s] \in Current
    /\ \/ lost
       \/ published # NoSession
       \/ \E s \in Clearers : process[s] # "discarding"

SessionInv ==
    /\ published \in Recorded
    /\ tombstone \in [Sessions -> Recorded]
    /\ process \in [Sessions -> Steps]
    /\ newest \in Recorded
    /\ crossed \in BOOLEAN
    /\ lost \in BOOLEAN
    /\ \A s \in spoiled : s \in Sessions /\ process[s] = "gone"
    /\ ~crossed /\ newest # NoSession /\ process[newest] = "running" => RecordsAreCurrent

LEMMA InitSession == SessionInit => SessionInv
BY SessionAssumption DEF SessionInit, SessionInv, Recorded, Steps

LEMMA SessionInvKept == SessionInv /\ [SessionNext]_sessionVars => SessionInv'
<1>. SUFFICES ASSUME SessionInv, [SessionNext]_sessionVars PROVE SessionInv'
    OBVIOUS
<1>. USE SessionAssumption DEF SessionInv, Recorded, Steps, Proceeds, Mishap, historyVars
<1>1. CASE UNCHANGED sessionVars
    BY <1>1 DEF sessionVars, RecordsAreCurrent, Clearers, Current
<1>2. ASSUME NEW s \in Sessions, ServerStarts(s) PROVE SessionInv'
    BY <1>2 DEF ServerStarts, RecordsAreCurrent, Clearers, Current, Holding
<1>3. ASSUME NEW s \in Sessions, Publishes(s) PROVE SessionInv'
    <2>1. /\ published' = s /\ newest' = s /\ tombstone' = tombstone
          /\ process' = [process EXCEPT ![s] = "running"]
          /\ crossed' \in BOOLEAN /\ lost' = FALSE /\ spoiled' = {}
          /\ ~crossed' => Clearers = {}
        BY <1>3 DEF Publishes, Clearers
    <2>2. ~crossed' => Clearers' = {}
        BY <2>1 DEF Clearers, Holding
    <2>. QED  BY <2>1, <2>2 DEF RecordsAreCurrent, Current
<1>4. ASSUME NEW s \in Sessions, PublishFails(s) PROVE SessionInv'
    <2>1. /\ process[s] = "serving" /\ process' = [process EXCEPT ![s] = "gone"]
          /\ newest' = newest /\ tombstone' = tombstone
          /\ crossed' = crossed /\ lost' = lost
          /\ \/ published' = published /\ spoiled' = spoiled
             \/ published' = s /\ spoiled' = spoiled \cup {s}
        BY <1>4 DEF PublishFails
    <2>2. Clearers' = Clearers
        BY <2>1 DEF Clearers, Holding
    <2>3. \A t \in Sessions : process'[t] = "running" \/ t \in Clearers => process[t] = process'[t]
        BY <2>1 DEF Clearers, Holding
    <2>. QED  BY <2>1, <2>2, <2>3 DEF RecordsAreCurrent, Current
<1>5. ASSUME NEW s \in Sessions, Stops(s) PROVE SessionInv'
    BY <1>5 DEF Stops, RecordsAreCurrent, Clearers, Current, Holding
<1>6. ASSUME NEW s \in Sessions, ClearLooks(s) PROVE SessionInv'
    BY <1>6 DEF ClearLooks, RecordsAreCurrent, Clearers, Current, Holding
<1>7. ASSUME NEW s \in Sessions, ClearClaims(s) PROVE SessionInv'
    BY <1>7 DEF ClearClaims, RecordsAreCurrent, Clearers, Current, Holding
<1>8. ASSUME NEW s \in Sessions, ClearDecides(s) PROVE SessionInv'
    BY <1>8 DEF ClearDecides, Own, RecordsAreCurrent, Clearers, Current, Holding
<1>9. ASSUME NEW s \in Sessions, ClearRestores(s) PROVE SessionInv'
    BY <1>9 DEF ClearRestores, RecordsAreCurrent, Clearers, Current, Holding
<1>10. ASSUME NEW s \in Sessions, ClearDiscards(s) PROVE SessionInv'
    BY <1>10 DEF ClearDiscards, RecordsAreCurrent, Clearers, Current, Holding
<1>11. ASSUME NEW s \in Sessions, ClearFails(s) PROVE SessionInv'
    <2>0. /\ published' = published /\ tombstone' = tombstone /\ newest' = newest
          /\ crossed' = crossed /\ spoiled' = spoiled
        BY <1>11 DEF ClearFails
    <2>1. CASE process[s] = "claiming" /\ Proceeds(s, "gone") /\ lost' = lost
        BY <2>0, <2>1 DEF RecordsAreCurrent, Clearers, Current, Holding
    <2>2. CASE /\ process[s] = "claimed" /\ lost' = lost
               /\ Proceeds(s, IF published = NoSession THEN "restoring" ELSE "gone")
        BY <2>0, <2>2 DEF RecordsAreCurrent, Clearers, Current, Holding
    <2>3. CASE process[s] = "restoring" /\ Proceeds(s, "gone") /\ lost' = TRUE
        BY <2>0, <2>3 DEF RecordsAreCurrent, Clearers, Current, Holding
    <2>. QED  BY <1>11, <2>1, <2>2, <2>3 DEF ClearFails
<1>12. ASSUME NEW s \in Sessions, Killed(s) PROVE SessionInv'
    BY <1>12 DEF Killed, RecordsAreCurrent, Clearers, Current, Holding
<1>. QED  BY <1>1, <1>2, <1>3, <1>4, <1>5, <1>6, <1>7, <1>8, <1>9, <1>10, <1>11, <1>12 DEF SessionNext

\* The invariant of the session record's life.
THEOREM SessionInvariant == SessionSpec => []SessionInv
BY InitSession, SessionInvKept, PTL DEF SessionSpec

\* However many sessions publish, stop, fail and crash, and whatever of it fails: when no
\* record was aside as the newest running session was published, a client finds that
\* session, or one whose start failed after its record was in place since then, or, when
\* a record taken aside since then was not put back, none.
THEOREM NewestSessionKept == SessionSpec => []UncrossedSessionKept
<1>1. SessionInv => UncrossedSessionKept
    BY DEF SessionInv, RecordsAreCurrent, Current, Clearers, Clearing, UncrossedSessionKept, NewestRuns
<1>. QED  BY SessionInvariant, <1>1, PTL

-------------------------------------------------------------------------------
(***************************************************************************)
(* The view a capture borrows, and the pictures it takes, whichever of its *)
(* calls into FreeCAD fail.                                                *)
(***************************************************************************)

Views ==
    [camera : {"user", "shot", "section"}, animated : {"user", "off"},
     overlays : {"user", "hidden"}, clipping : {"user", "off", "section"}]

Saveds ==
    [camera : {"none", "user", "shot", "section"}, animated : {"none", "user", "off"},
     overlays : BOOLEAN]

Aiming == {"clip", "aim", "shoot"}
Shooting == {"still", "hide", "frame", "grab"}
Restoring == {"camera", "overlays", "animated", "return"}

CaptureTyped ==
    /\ view \in Views
    /\ clipped \in BOOLEAN
    /\ at \in {"idle", "unclip", "answer"} \cup Aiming \cup Shooting \cup Restoring
    /\ left \in Nat /\ faults \in Nat
    /\ broken \in {"no", "error", "not_restored"}
    /\ saved \in Saveds
    /\ at \in Shooting \cup Restoring => saved.camera # "none" /\ saved.animated # "none"

\* Nothing has gone wrong before the view is given back.
AllWellSoFar == at \in Aiming \cup Shooting => broken = "no"

\* A section capture puts back what it found; another one what the user had.
SectionKept ==
    /\ at \in {"unclip"} \cup Aiming => InSection
    /\ at \in {"idle", "answer"} => ~InSection
    /\ InSection => section.camera = "user" /\ section.animated = "user"
    /\ at \in Shooting \cup Restoring /\ ~InSection =>
        saved.camera = "user" /\ saved.animated = "user"

\* What has been given back at each step, if nothing failed to be.
GivenBack ==
    /\ at \in {"idle", "clip", "aim"} => view.camera = "user" /\ view.animated = "user"
    /\ broken # "not_restored" =>
        /\ at \in {"overlays", "animated", "return"} => view.camera = saved.camera
        /\ at = "return" => view.animated = saved.animated
        /\ at = "answer" => view.camera = "user" /\ view.animated = "user"
    /\ view.clipping = "section" => InSection \/ (at = "answer" /\ broken = "not_restored")

OverlaysBack ==
    view.overlays = "hidden" =>
        /\ at # "idle"
        /\ \/ faults > 1 \/ broken = "not_restored"
           \/ at \in {"frame", "grab", "camera", "overlays"} /\ saved.overlays

\* The pictures of a call are the newest of the cache, and there is room for them.
PicturesKept ==
    /\ cache \subseteq Nat /\ IsFiniteSet(cache)
    /\ at \in Aiming \cup Shooting => left # 0
    /\ at # "idle" =>
        /\ taken \subseteq cache
        /\ \A p \in taken, q \in cache : q > p => q \in taken
        /\ Cardinality(taken) + left <= MaxShots

SaidIsTrue ==
    said.verdict \in {"ok", "error"} =>
        /\ said.view.camera = "user" /\ said.view.animated = "user"
        /\ said.view.clipping # "section"
        /\ ~said.twice => said.view.overlays = "user"

CaptureInv ==
    /\ CaptureTyped /\ AllWellSoFar /\ SectionKept /\ GivenBack /\ OverlaysBack
    /\ PicturesKept /\ SaidIsTrue
    /\ at = "idle" => said.pictures \subseteq cache

\* Records read field by field.
LEMMA SavesFields ==
    ASSUME view \in Views
    PROVE  /\ Saves \in Saveds
           /\ Saves.camera # "none" /\ Saves.animated # "none"
           /\ Saves.camera = view.camera
           /\ Saves.animated = view.animated
           /\ Saves.overlays = FALSE
<1>1. PICK c : c = view.camera
    OBVIOUS
<1>2. PICK a : a = view.animated
    OBVIOUS
<1>3. Saves = [camera |-> c, animated |-> a, overlays |-> FALSE]
    BY <1>1, <1>2, Zenon DEF Saves
<1>4. /\ Saves.camera = c
      /\ Saves.animated = a
      /\ Saves.overlays = FALSE
    BY <1>3, Zenon
<1>5. c \in {"none", "user", "shot", "section"} /\ a \in {"none", "user", "off"}
    BY <1>1, <1>2 DEF Views
<1>6. [camera |-> c, animated |-> a, overlays |-> FALSE] \in Saveds
    BY <1>5, Zenon DEF Saveds
<1>7. c # "none" /\ a # "none"
    BY <1>1, <1>2 DEF Views
<1>. QED  BY <1>1, <1>2, <1>3, <1>4, <1>6, <1>7

LEMMA NothingSavedFields ==
    /\ NothingSaved \in Saveds
    /\ NothingSaved.camera = "none"
    /\ NothingSaved.animated = "none"
<1>1. "none" \in {"none", "user", "shot", "section"} /\ "none" \in {"none", "user", "off"}
    OBVIOUS
<1>. QED  BY <1>1, Zenon DEF NothingSaved, Saveds

LEMMA UserViewFields ==
    /\ UserView \in Views
    /\ UserView.camera = "user"
    /\ UserView.animated = "user"
    /\ UserView.overlays = "user"
    /\ UserView.clipping = IF clipped THEN "user" ELSE "off"
BY DEF UserView, Views

LEMMA InitCapture == CaptureInit => CaptureInv
<1>. SUFFICES ASSUME CaptureInit PROVE CaptureInv
    OBVIOUS
<1>1. CaptureTyped /\ AllWellSoFar
    BY UserViewFields, NothingSavedFields
    DEF CaptureInit, CaptureTyped, AllWellSoFar, Aiming, Shooting, Restoring
<1>2. SectionKept /\ GivenBack /\ OverlaysBack
    BY UserViewFields DEF CaptureInit, SectionKept, GivenBack, OverlaysBack, InSection,
       Aiming, Shooting, Restoring
<1>3. PicturesKept
    BY FS_EmptySet DEF CaptureInit, PicturesKept, Aiming, Shooting
<1>4. said.verdict = "none" /\ said.pictures = {}
    BY Zenon DEF CaptureInit
<1>. QED  BY <1>1, <1>2, <1>3, <1>4 DEF CaptureInv, SaidIsTrue
\* What the steps that take no picture and give no answer leave alone.
LEMMA PicturesStay ==
    ASSUME CaptureInv, UNCHANGED <<cache, taken, left>>, at # "idle",
           at' \in Aiming \cup Shooting => left # 0
    PROVE  PicturesKept'
BY DEF CaptureInv, PicturesKept, Aiming, Shooting

LEMMA SaidStays ==
    ASSUME CaptureInv, said' = said
    PROVE  SaidIsTrue'
BY Zenon DEF CaptureInv, SaidIsTrue

LEMMA CaptureInvKept == CaptureInv /\ [CaptureNext]_captureVars => CaptureInv'
<1>. SUFFICES ASSUME CaptureInv, [CaptureNext]_captureVars PROVE CaptureInv'
    OBVIOUS
<1>. USE CaptureAssumption
<1>0. /\ CaptureTyped /\ AllWellSoFar /\ SectionKept /\ GivenBack /\ OverlaysBack
      /\ PicturesKept /\ SaidIsTrue
      /\ at = "idle" => said.pictures \subseteq cache
    BY DEF CaptureInv
<1>1. CASE UNCHANGED captureVars
    <2>1. CaptureTyped' /\ AllWellSoFar' /\ SectionKept' /\ GivenBack' /\ OverlaysBack'
        BY <1>0, <1>1 DEF captureVars, CaptureTyped, AllWellSoFar, SectionKept, GivenBack,
           OverlaysBack, InSection
    <2>2. PicturesKept' /\ SaidIsTrue'
        BY <1>0, <1>1 DEF captureVars, PicturesKept, SaidIsTrue
    <2>. QED  BY <1>0, <1>1, <2>1, <2>2 DEF captureVars, CaptureInv
<1>2. CASE StartCapture
    <2>1. PICK shots \in 1..MaxShots :
            /\ at = "idle" /\ left' = shots /\ saved' = Saves /\ at' = "still"
            /\ taken' = {} /\ broken' = "no" /\ faults' = 0
            /\ UNCHANGED <<view, clipped, section, cache, said>>
        BY <1>2 DEF StartCapture
    <2>2. /\ Saves \in Saveds
          /\ Saves.camera # "none" /\ Saves.animated # "none"
          /\ Saves.camera = view.camera
          /\ Saves.animated = view.animated
        BY <1>0, SavesFields DEF CaptureTyped
    <2>3. CaptureTyped' /\ AllWellSoFar'
        BY <1>0, <2>1, <2>2 DEF CaptureTyped, AllWellSoFar, Aiming, Shooting, Restoring
    <2>4. SectionKept' /\ GivenBack' /\ OverlaysBack'
        BY <1>0, <2>1, <2>2 DEF SectionKept, GivenBack, OverlaysBack, InSection,
           Aiming, Shooting, Restoring
    <2>5. PicturesKept'
        BY <1>0, <2>1, FS_EmptySet DEF PicturesKept
    <2>. QED  BY <2>1, <2>3, <2>4, <2>5, SaidStays DEF CaptureInv
<1>3. CASE StartSection
    <2>1. /\ at = "idle" /\ view.clipping = "off" /\ left' = 1 /\ section' = Saves
          /\ at' = "clip" /\ taken' = {} /\ broken' = "no" /\ faults' = 0
          /\ UNCHANGED <<view, clipped, saved, cache, said>>
        BY <1>3 DEF StartSection
    <2>2. /\ Saves.camera = view.camera
          /\ Saves.animated = view.animated
        BY <1>0, SavesFields DEF CaptureTyped
    <2>3. CaptureTyped' /\ AllWellSoFar'
        BY <1>0, <2>1, <2>2 DEF CaptureTyped, AllWellSoFar, Aiming, Shooting, Restoring
    <2>4. SectionKept' /\ GivenBack' /\ OverlaysBack'
        <3>1. section'.camera = "user" /\ section'.animated = "user"
            BY <1>0, <2>1, <2>2 DEF GivenBack
        <3>2. InSection'
            BY <3>1, NothingSavedFields DEF InSection
        <3>. QED  BY <1>0, <2>1, <3>1, <3>2 DEF SectionKept, GivenBack, OverlaysBack,
                  Aiming, Shooting, Restoring
    <2>5. PicturesKept'
        BY <1>0, <2>1, FS_EmptySet DEF PicturesKept
    <2>. QED  BY <2>1, <2>3, <2>4, <2>5, SaidStays DEF CaptureInv
<1>4. CASE UserClips
    <2>1. /\ at = "idle" /\ clipped' \in BOOLEAN
          /\ UNCHANGED <<saved, section, at, left, cache, taken, broken, faults, said>>
        BY <1>0, <1>4 DEF UserClips, CaptureTyped
    <2>2. \E c \in {"off", "user"} : view' = [view EXCEPT !["clipping"] = c]
        BY <1>4 DEF UserClips, Look
    <2>3. /\ view' \in Views /\ view'.camera = view.camera /\ view'.animated = view.animated
          /\ view'.overlays = view.overlays /\ view'.clipping # "section"
        BY <1>0, <2>2 DEF CaptureTyped, Views
    <2>4. CaptureTyped' /\ AllWellSoFar' /\ SectionKept' /\ GivenBack' /\ OverlaysBack'
        BY <1>0, <2>1, <2>3 DEF CaptureTyped, AllWellSoFar, SectionKept, GivenBack,
           OverlaysBack, InSection, Aiming, Shooting, Restoring
    <2>5. PicturesKept'
        BY <1>0, <2>1 DEF PicturesKept, Aiming, Shooting
    <2>. QED  BY <1>0, <2>1, <2>4, <2>5, SaidStays DEF CaptureInv
<1>5. CASE Clip
    <2>1. /\ at = "clip"
          /\ UNCHANGED <<left, said, cache, taken, saved, section, clipped>>
          /\ \E on \in {"off", "section"} : view' = [view EXCEPT !["clipping"] = on]
          /\ \/ at' = "aim" /\ UNCHANGED <<broken, faults>>
             \/ at' = "unclip" /\ broken' = "error" /\ faults' = faults + 1
        BY <1>5 DEF Clip, Look, Goes, Works, Raises, CacheAlone, SavedAlone
    <2>2. /\ view' \in Views /\ view'.camera = view.camera /\ view'.animated = view.animated
          /\ view'.overlays = view.overlays
        BY <1>0, <2>1 DEF CaptureTyped, Views
    <2>3. CaptureTyped' /\ AllWellSoFar' /\ SectionKept'
        BY <1>0, <2>1, <2>2 DEF CaptureTyped, AllWellSoFar, SectionKept, InSection,
           Aiming, Shooting, Restoring
    <2>4. GivenBack' /\ OverlaysBack'
        BY <1>0, <2>1, <2>2 DEF CaptureTyped, AllWellSoFar, SectionKept, GivenBack,
           OverlaysBack, InSection, Aiming
    <2>. QED  BY <1>0, <2>1, <2>3, <2>4, SaidStays, PicturesStay
          DEF CaptureInv, PicturesKept, Aiming, Shooting
<1>6. CASE Aim
    <2>1. /\ at = "aim"
          /\ UNCHANGED <<left, said, cache, taken, saved, section, clipped>>
          /\ \/ view' = view
             \/ \E camera \in {view.camera, "section"} :
                    view' = [view EXCEPT !.animated = "off", !.camera = camera]
          /\ \/ at' = "shoot" /\ UNCHANGED <<broken, faults>>
             \/ at' = "unclip" /\ broken' = "error" /\ faults' = faults + 1
        BY <1>6 DEF Aim, Goes, Works, Raises, CacheAlone, SavedAlone
    <2>2. /\ view' \in Views /\ view'.overlays = view.overlays
          /\ view'.clipping = view.clipping
        BY <1>0, <2>1 DEF CaptureTyped, Views
    <2>3. CaptureTyped' /\ AllWellSoFar' /\ SectionKept'
        BY <1>0, <2>1, <2>2 DEF CaptureTyped, AllWellSoFar, SectionKept, InSection,
           Aiming, Shooting, Restoring
    <2>4. GivenBack' /\ OverlaysBack'
        BY <1>0, <2>1, <2>2 DEF CaptureTyped, AllWellSoFar, SectionKept, GivenBack,
           OverlaysBack, InSection, Aiming
    <2>. QED  BY <1>0, <2>1, <2>3, <2>4, SaidStays, PicturesStay
          DEF CaptureInv, PicturesKept, Aiming, Shooting
<1>7. CASE Shoot
    <2>1. /\ at = "shoot" /\ at' = "still" /\ saved' = Saves
          /\ UNCHANGED <<view, clipped, section, left, said, cache, taken, broken, faults>>
        BY <1>7 DEF Shoot, Goes, Works, CacheAlone
    <2>2. /\ Saves \in Saveds
          /\ Saves.camera # "none" /\ Saves.animated # "none"
          /\ Saves.camera = view.camera
          /\ Saves.animated = view.animated
        BY <1>0, SavesFields DEF CaptureTyped
    <2>3. CaptureTyped' /\ AllWellSoFar' /\ SectionKept'
        BY <1>0, <2>1, <2>2 DEF CaptureTyped, AllWellSoFar, SectionKept, InSection,
           Aiming, Shooting, Restoring
    <2>4. GivenBack' /\ OverlaysBack'
        BY <1>0, <2>1, <2>2 DEF SectionKept, GivenBack, OverlaysBack, InSection, Aiming
    <2>. QED  BY <1>0, <2>1, <2>3, <2>4, SaidStays, PicturesStay
          DEF CaptureInv, PicturesKept, Aiming, Shooting
<1>8. CASE Still
    <2>1. /\ at = "still"
          /\ UNCHANGED <<left, said, cache, taken, saved, section, clipped>>
          /\ \/ /\ view' = [view EXCEPT !["animated"] = "off"]
                /\ at' = "hide" /\ UNCHANGED <<broken, faults>>
             \/ /\ view' = view
                /\ at' = "camera" /\ broken' = "error" /\ faults' = faults + 1
        BY <1>8 DEF Still, Look, Goes, Works, Raises, CacheAlone, SavedAlone
    <2>2. /\ view' \in Views /\ view'.camera = view.camera
          /\ view'.overlays = view.overlays /\ view'.clipping = view.clipping
        BY <1>0, <2>1 DEF CaptureTyped, Views
    <2>3. CaptureTyped' /\ AllWellSoFar' /\ SectionKept'
        BY <1>0, <2>1, <2>2 DEF CaptureTyped, AllWellSoFar, SectionKept, InSection,
           Aiming, Shooting, Restoring
    <2>4. GivenBack' /\ OverlaysBack'
        BY <1>0, <2>1, <2>2 DEF CaptureTyped, AllWellSoFar, SectionKept, GivenBack,
           OverlaysBack, InSection, Shooting
    <2>. QED  BY <1>0, <2>1, <2>3, <2>4, SaidStays, PicturesStay
          DEF CaptureInv, PicturesKept, Aiming, Shooting
<1>9. CASE Hide
    <2>1. /\ at = "hide"
          /\ UNCHANGED <<left, said, cache, taken, section, clipped>>
          /\ \/ /\ view' = [view EXCEPT !["overlays"] = "hidden"]
                /\ saved' = [saved EXCEPT !.overlays = TRUE]
                /\ at' = "frame" /\ UNCHANGED <<broken, faults>>
             \/ /\ view' = view /\ saved' = saved
                /\ at' = "camera" /\ broken' = "error" /\ faults' = faults + 1
             \/ /\ view' = [view EXCEPT !["overlays"] = "hidden"]
                /\ saved' = saved
                /\ at' = "camera" /\ broken' = "error" /\ faults' = faults + 2
        BY <1>9 DEF Hide, Look, Goes, Works, Raises, CacheAlone
    <2>2. /\ view' \in Views /\ view'.camera = view.camera
          /\ view'.animated = view.animated /\ view'.clipping = view.clipping
          /\ view'.overlays = "hidden" =>
                view.overlays = "hidden" \/ at' = "frame" \/ faults' = faults + 2
        BY <1>0, <2>1 DEF CaptureTyped, Views
    <2>3. /\ saved' \in Saveds /\ saved'.camera = saved.camera
          /\ saved'.animated = saved.animated
          /\ at' = "frame" => saved'.overlays
        <3>1. saved \in Saveds
            BY <1>0 DEF CaptureTyped
        <3>2. \A r \in Saveds :
                /\ [r EXCEPT !.overlays = TRUE] \in Saveds
                /\ [r EXCEPT !.overlays = TRUE].camera = r.camera
                /\ [r EXCEPT !.overlays = TRUE].animated = r.animated
                /\ [r EXCEPT !.overlays = TRUE].overlays
            BY Zenon DEF Saveds
        <3>3. saved' = [saved EXCEPT !.overlays = TRUE] \/ (saved' = saved /\ at' # "frame")
            BY <2>1
        <3>. QED  BY <3>1, <3>2, <3>3, Zenon
    <2>4. left # 0
        BY <1>0, <2>1 DEF PicturesKept, Aiming, Shooting
    <2>5. CaptureTyped' /\ AllWellSoFar' /\ SectionKept'
        BY <1>0, <2>1, <2>2, <2>3 DEF CaptureTyped, AllWellSoFar, SectionKept, InSection,
           Aiming, Shooting, Restoring
    <2>6. GivenBack' /\ OverlaysBack'
        BY <1>0, <2>1, <2>2, <2>3 DEF CaptureTyped, AllWellSoFar, SectionKept, GivenBack,
           OverlaysBack, InSection, Shooting
    <2>. QED  BY <1>0, <2>1, <2>4, <2>5, <2>6, SaidStays, PicturesStay
          DEF CaptureInv, PicturesKept, Aiming, Shooting
<1>10. CASE Frame
    <2>1. /\ at = "frame"
          /\ UNCHANGED <<left, said, cache, taken, saved, section, clipped>>
          /\ \E camera \in {saved.camera, "shot"} : view' = [view EXCEPT !["camera"] = camera]
          /\ \/ at' = "grab" /\ UNCHANGED <<broken, faults>>
             \/ at' = "camera" /\ broken' = "error" /\ faults' = faults + 1
        BY <1>10 DEF Frame, Look, Goes, Works, Raises, CacheAlone, SavedAlone
    <2>2. /\ view' \in Views /\ view'.animated = view.animated
          /\ view'.overlays = view.overlays /\ view'.clipping = view.clipping
        BY <1>0, <2>1 DEF CaptureTyped, Views, Saveds, Shooting
    <2>3. CaptureTyped' /\ AllWellSoFar' /\ SectionKept'
        BY <1>0, <2>1, <2>2 DEF CaptureTyped, AllWellSoFar, SectionKept, InSection,
           Aiming, Shooting, Restoring
    <2>4. GivenBack' /\ OverlaysBack'
        BY <1>0, <2>1, <2>2 DEF CaptureTyped, AllWellSoFar, SectionKept, GivenBack,
           OverlaysBack, InSection, Shooting
    <2>5. left # 0
        BY <1>0, <2>1 DEF PicturesKept, Aiming, Shooting
    <2>. QED  BY <1>0, <2>1, <2>3, <2>4, <2>5, SaidStays, PicturesStay
          DEF CaptureInv, PicturesKept, Aiming, Shooting
<1>11. CASE Grab
    <2>1. /\ at = "grab"
          /\ UNCHANGED <<view, said, saved, section, clipped>>
          /\ \/ /\ \E p \in NewPictures : cache' = cache \cup {p} /\ taken' = taken \cup {p}
                /\ left' = left - 1
                /\ at' = IF left > 1 THEN "frame" ELSE "camera"
                /\ UNCHANGED <<broken, faults>>
             \/ /\ at' = "camera" /\ broken' = "error" /\ faults' = faults + 1
                /\ cache' = cache \ taken /\ taken' = {} /\ left' = left
        BY <1>11 DEF Grab, Goes, Works, Raises, Removed, SavedAlone
    <2>2. left # 0 /\ left \in Nat
        BY <1>0, <2>1 DEF PicturesKept, CaptureTyped, Aiming, Shooting
    <2>3. CaptureTyped' /\ AllWellSoFar' /\ SectionKept'
        BY <1>0, <2>1, <2>2 DEF CaptureTyped, AllWellSoFar, SectionKept, InSection,
           Aiming, Shooting, Restoring
    <2>4. GivenBack' /\ OverlaysBack'
        BY <1>0, <2>1 DEF CaptureTyped, AllWellSoFar, SectionKept, GivenBack,
           OverlaysBack, InSection, Shooting
    <2>5. PicturesKept'
        <3>1. CASE left' = left
            <4>1. cache' \subseteq cache /\ taken' = {} /\ at' = "camera" /\ at # "idle"
                BY <2>1, <2>2, <3>1
            <4>2. IsFiniteSet(cache') /\ Cardinality(taken') = 0
                BY <1>0, <4>1, FS_Subset, FS_EmptySet DEF PicturesKept
            <4>3. Cardinality(taken) \in Nat /\ Cardinality(taken) + left <= MaxShots
                BY <1>0, <4>1, FS_Subset, FS_CardinalityType DEF PicturesKept
            <4>. QED  BY <1>0, <2>2, <3>1, <4>1, <4>2, <4>3 DEF PicturesKept, Aiming, Shooting
        <3>2. CASE left' # left
            <4>1. PICK p \in NewPictures : cache' = cache \cup {p} /\ taken' = taken \cup {p}
                BY <2>1, <3>2
            <4>2. p \in Nat /\ p \notin cache /\ \A q \in cache : q < p
                BY <1>0, <4>1 DEF NewPictures, PicturesKept
            <4>3. /\ IsFiniteSet(cache) /\ taken \subseteq cache
                  /\ \A r \in taken, q \in cache : q > r => q \in taken
                  /\ Cardinality(taken) + left <= MaxShots
                BY <1>0, <2>1 DEF PicturesKept
            <4>4. IsFiniteSet(cache') /\ Cardinality(taken') = Cardinality(taken) + 1
                BY <4>1, <4>2, <4>3, FS_Subset, FS_AddElement
            <4>5. Cardinality(taken) \in Nat
                BY <4>3, FS_Subset, FS_CardinalityType
            <4>6. left' = left - 1 /\ (left > 1 => left' # 0)
                BY <2>1, <2>2, <3>2
            <4>7. \A r \in taken', q \in cache' : q > r => q \in taken'
                BY <1>0, <4>1, <4>2, <4>3 DEF PicturesKept
            <4>8. cache' \subseteq Nat /\ taken' \subseteq cache'
                BY <1>0, <4>1, <4>2, <4>3 DEF PicturesKept
            <4>9. at' \in Aiming \cup Shooting => left' # 0
                BY <2>1, <2>2, <3>2, <4>6 DEF Aiming, Shooting
            <4>10. Cardinality(taken') + left' <= MaxShots
                BY <2>2, <4>3, <4>4, <4>5, <4>6
            <4>. QED  BY <4>4, <4>7, <4>8, <4>9, <4>10 DEF PicturesKept
        <3>. QED  BY <3>1, <3>2
    <2>. QED  BY <1>0, <2>1, <2>3, <2>4, <2>5, SaidStays DEF CaptureInv
<1>12. CASE RestoreCamera
    <2>1. /\ at = "camera"
          /\ UNCHANGED <<left, said, cache, taken, saved, section, clipped>>
          /\ at' = "overlays"
          /\ \/ /\ view' = [view EXCEPT !["camera"] = saved.camera]
                /\ UNCHANGED <<broken, faults>>
             \/ /\ view' = view
                /\ broken' = "not_restored" /\ faults' = faults + 1
        BY <1>12, Zenon DEF RestoreCamera, Restores, Look, Goes, Works, Raises, CacheAlone, SavedAlone
    <2>2. /\ view' \in Views /\ view'.animated = view.animated
          /\ view'.overlays = view.overlays /\ view'.clipping = view.clipping
          /\ broken' # "not_restored" => view'.camera = saved.camera
        BY <1>0, <2>1 DEF CaptureTyped, Views, Saveds, Restoring
    <2>3. CaptureTyped' /\ AllWellSoFar' /\ SectionKept'
        BY <1>0, <2>1, <2>2 DEF CaptureTyped, AllWellSoFar, SectionKept, InSection,
           Aiming, Shooting, Restoring
    <2>4. GivenBack' /\ OverlaysBack'
        BY <1>0, <2>1, <2>2 DEF CaptureTyped, SectionKept, GivenBack,
           OverlaysBack, InSection, Restoring
    <2>. QED  BY <1>0, <2>1, <2>3, <2>4, SaidStays, PicturesStay
          DEF CaptureInv, PicturesKept, Aiming, Shooting
<1>13. CASE RestoreOverlays
    <2>1. /\ at = "overlays"
          /\ UNCHANGED <<left, said, cache, taken, saved, section, clipped>>
          /\ at' = "animated"
          /\ \/ view' = view /\ ~saved.overlays /\ UNCHANGED <<broken, faults>>
             \/ /\ view' = [view EXCEPT !["overlays"] = "user"]
                /\ UNCHANGED <<broken, faults>>
             \/ /\ view' = view
                /\ broken' = "not_restored" /\ faults' = faults + 1
        BY <1>13 DEF RestoreOverlays, Look, Goes, Works, Raises, CacheAlone, SavedAlone
    <2>2. /\ view' \in Views /\ view'.animated = view.animated
          /\ view'.camera = view.camera /\ view'.clipping = view.clipping
          /\ view'.overlays = "hidden" =>
                view.overlays = "hidden" /\ (~saved.overlays \/ broken' = "not_restored")
        BY <1>0, <2>1 DEF CaptureTyped, Views
    <2>3. CaptureTyped' /\ AllWellSoFar' /\ SectionKept'
        BY <1>0, <2>1, <2>2 DEF CaptureTyped, AllWellSoFar, SectionKept, InSection,
           Aiming, Shooting, Restoring
    <2>4. GivenBack' /\ OverlaysBack'
        BY <1>0, <2>1, <2>2 DEF CaptureTyped, SectionKept, GivenBack,
           OverlaysBack, InSection, Restoring
    <2>. QED  BY <1>0, <2>1, <2>3, <2>4, SaidStays, PicturesStay
          DEF CaptureInv, PicturesKept, Aiming, Shooting
<1>14. CASE RestoreAnimation
    <2>1. /\ at = "animated"
          /\ UNCHANGED <<left, said, cache, taken, saved, section, clipped>>
          /\ at' = "return"
          /\ \/ /\ view' = [view EXCEPT !["animated"] = saved.animated]
                /\ UNCHANGED <<broken, faults>>
             \/ /\ view' = view
                /\ broken' = "not_restored" /\ faults' = faults + 1
        BY <1>14, Zenon DEF RestoreAnimation, Restores, Look, Goes, Works, Raises, CacheAlone, SavedAlone
    <2>2. /\ view' \in Views /\ view'.camera = view.camera
          /\ view'.overlays = view.overlays /\ view'.clipping = view.clipping
          /\ broken' # "not_restored" => view'.animated = saved.animated
        BY <1>0, <2>1 DEF CaptureTyped, Views, Saveds, Restoring
    <2>3. CaptureTyped' /\ AllWellSoFar' /\ SectionKept'
        BY <1>0, <2>1, <2>2 DEF CaptureTyped, AllWellSoFar, SectionKept, InSection,
           Aiming, Shooting, Restoring
    <2>4. GivenBack' /\ OverlaysBack'
        BY <1>0, <2>1, <2>2 DEF CaptureTyped, SectionKept, GivenBack,
           OverlaysBack, InSection, Restoring
    <2>. QED  BY <1>0, <2>1, <2>3, <2>4, SaidStays, PicturesStay
          DEF CaptureInv, PicturesKept, Aiming, Shooting
<1>15. CASE ReturnCapture
    <2>1. /\ at = "return" /\ saved' = NothingSaved
          /\ at' = IF InSection THEN "unclip" ELSE "answer"
          /\ UNCHANGED <<view, clipped, section, left, said>>
          /\ \/ /\ broken = "not_restored" /\ UNCHANGED <<broken, faults>>
                /\ cache' = cache \ taken /\ taken' = {}
             \/ UNCHANGED <<broken, faults, cache, taken>>
             \/ broken = "no" /\ UNCHANGED <<broken, faults, taken>> /\ cache' = Newest
             \/ /\ broken = "no" /\ broken' = "error" /\ faults' = faults + 1
                /\ UNCHANGED <<cache, taken>>
        BY <1>15 DEF ReturnCapture, Goes, Works, Removed, CacheAlone
    <2>2. CaptureTyped' /\ AllWellSoFar'
        BY <1>0, <2>1, NothingSavedFields DEF CaptureTyped, AllWellSoFar,
           Aiming, Shooting, Restoring
    <2>3. SectionKept' /\ GivenBack' /\ OverlaysBack'
        BY <1>0, <2>1 DEF CaptureTyped, SectionKept, GivenBack,
           OverlaysBack, InSection, Aiming, Shooting, Restoring
    <2>4. taken \subseteq Newest
        <3>1. /\ IsFiniteSet(cache) /\ taken \subseteq cache /\ cache \subseteq Nat
              /\ \A p \in taken, q \in cache : q > p => q \in taken
              /\ Cardinality(taken) + left <= MaxShots
            BY <1>0, <2>1 DEF PicturesKept
        <3>2. IsFiniteSet(taken) /\ Cardinality(taken) \in Nat
            BY <3>1, FS_Subset, FS_CardinalityType
        <3>3. ASSUME NEW p \in taken
              PROVE  Cardinality({q \in cache : q > p}) < MaxCached
            <4>1. PICK L : L = {q \in cache : q > p}
                OBVIOUS
            <4>2. L \subseteq taken \ {p}
                <5>1. \A q \in L : q \in taken
                    BY <3>1, <4>1
                <5>2. p \in Nat /\ ~(p > p)
                    BY <3>1
                <5>. QED  BY <4>1, <5>1, <5>2
            <4>3. /\ IsFiniteSet(taken \ {p})
                  /\ Cardinality(taken \ {p}) = Cardinality(taken) - 1
                BY <3>2, FS_RemoveElement
            <4>4. /\ Cardinality(L) \in Nat
                  /\ Cardinality(L) <= Cardinality(taken \ {p})
                BY <4>2, <4>3, FS_Subset, FS_CardinalityType
            <4>5. left \in Nat
                BY <1>0 DEF CaptureTyped
            <4>6. Cardinality(L) < MaxCached
                BY <3>1, <3>2, <4>3, <4>4, <4>5
            <4>. QED  BY <4>1, <4>6
        <3>. QED  BY <3>1, <3>3 DEF Newest
    <2>5. PicturesKept'
        <3>1. cache' \subseteq cache /\ at # "idle" /\ at' \notin Aiming \cup Shooting
            BY <2>1 DEF Newest, Aiming, Shooting
        <3>2. /\ taken' \subseteq cache' /\ taken' \subseteq taken
              /\ taken' = taken \/ taken' = {}
            BY <1>0, <2>1, <2>4 DEF PicturesKept
        <3>3. IsFiniteSet(cache') /\ Cardinality(taken') + left' <= MaxShots
            <4>1. /\ IsFiniteSet(cache) /\ taken \subseteq cache
                  /\ Cardinality(taken) + left <= MaxShots /\ left \in Nat
                BY <1>0, <3>1 DEF PicturesKept, CaptureTyped
            <4>2. Cardinality(taken) \in Nat
                BY <4>1, FS_Subset, FS_CardinalityType
            <4>3. left' = left
                BY <2>1
            <4>4. IsFiniteSet(cache')
                BY <3>1, <4>1, FS_Subset
            <4>5. Cardinality({}) = 0
                BY FS_EmptySet
            <4>6. Cardinality(taken') + left' <= MaxShots
                <5>1. CASE taken' = taken
                    BY <4>1, <4>3, <5>1
                <5>2. CASE taken' = {}
                    BY <4>1, <4>2, <4>3, <4>5, <5>2
                <5>. QED  BY <3>2, <5>1, <5>2
            <4>. QED  BY <4>4, <4>6
        <3>. QED  BY <1>0, <3>1, <3>2, <3>3 DEF PicturesKept
    <2>. QED  BY <1>0, <2>1, <2>2, <2>3, <2>5, SaidStays DEF CaptureInv
<1>16. CASE Unclip
    <2>1. /\ at = "unclip" /\ at' = "answer" /\ section' = NothingSaved
          /\ UNCHANGED <<clipped, saved, left, said>>
          /\ \/ /\ view' = [view EXCEPT !.clipping = "off", !.camera = section.camera,
                                        !.animated = section.animated]
                /\ UNCHANGED <<broken, faults, cache, taken>>
             \/ /\ view' \in {view, [view EXCEPT !.clipping = "off"],
                              [view EXCEPT !.clipping = "off", !.camera = section.camera]}
                /\ broken' = "not_restored" /\ faults' = faults + 1
                /\ \/ cache' = cache \ taken /\ taken' = {}
                   \/ UNCHANGED <<cache, taken>>
        BY <1>16, Zenon DEF Unclip, Goes, Works, Raises, Removed, CacheAlone
    <2>2. section.camera = "user" /\ section.animated = "user"
        BY <1>0, <2>1 DEF SectionKept
    <2>3. /\ view' \in Views /\ view'.overlays = view.overlays
          /\ broken' # "not_restored" =>
                view'.camera = "user" /\ view'.animated = "user" /\ view'.clipping = "off"
        BY <1>0, <2>1, <2>2 DEF CaptureTyped, Views
    <2>4. CaptureTyped' /\ AllWellSoFar' /\ SectionKept'
        BY <1>0, <2>1, <2>3 DEF CaptureTyped, AllWellSoFar, SectionKept, InSection,
           Aiming, Shooting, Restoring
    <2>5. GivenBack' /\ OverlaysBack'
        BY <1>0, <2>1, <2>3 DEF CaptureTyped, GivenBack, OverlaysBack, InSection
    <2>6. PicturesKept'
        <3>1. /\ cache \subseteq Nat /\ IsFiniteSet(cache) /\ taken \subseteq cache
              /\ \A p \in taken, q \in cache : q > p => q \in taken
              /\ Cardinality(taken) + left <= MaxShots /\ left \in Nat
            BY <1>0, <2>1 DEF PicturesKept, CaptureTyped
        <3>2. Cardinality(taken) \in Nat
            BY <3>1, FS_Subset, FS_CardinalityType
        <3>3. cache' \subseteq cache /\ left' = left
            BY <2>1
        <3>4. taken' = {} \/ (taken' = taken /\ cache' = cache)
            BY <2>1
        <3>5. IsFiniteSet(cache') /\ Cardinality({}) = 0
            BY <3>1, <3>3, FS_Subset, FS_EmptySet
        <3>6. Cardinality(taken') + left' <= MaxShots
            <4>1. CASE taken' = taken
                BY <3>1, <3>3, <4>1
            <4>2. CASE taken' = {}
                BY <3>1, <3>2, <3>3, <3>5, <4>2
            <4>. QED  BY <3>4, <4>1, <4>2
        <3>. QED  BY <2>1, <3>1, <3>3, <3>4, <3>5, <3>6 DEF PicturesKept, Aiming, Shooting
    <2>. QED  BY <1>0, <2>1, <2>4, <2>5, <2>6, SaidStays DEF CaptureInv
<1>17. CASE Answer
    <2>1. /\ at = "answer" /\ at' = "idle" /\ view' = UserView
          /\ UNCHANGED <<left, cache, taken, saved, section, clipped, broken, faults>>
        BY <1>17 DEF Answer, Goes, Works, CacheAlone, SavedAlone
    <2>2. /\ said'.verdict = IF broken = "no" THEN "ok" ELSE broken
          /\ said'.pictures = IF broken = "no" THEN taken ELSE {}
          /\ said'.view = view
          /\ said'.twice <=> faults > 1
        <3>. DEFINE Said(v, p, w, t) ==
                [verdict |-> v, pictures |-> p, view |-> w, twice |-> t]
        <3>1. \A v, p, w, t : /\ Said(v, p, w, t).verdict = v
                              /\ Said(v, p, w, t).pictures = p
                              /\ Said(v, p, w, t).view = w
                              /\ Said(v, p, w, t).twice = t
            BY Zenon
        <3>2. said' = Said(IF broken = "no" THEN "ok" ELSE broken,
                           IF broken = "no" THEN taken ELSE {}, view, faults > 1)
            BY <1>17, Zenon DEF Answer
        <3>. QED  BY <3>1, <3>2, Zenon
    <2>3. /\ view' \in Views /\ view'.camera = "user" /\ view'.animated = "user"
          /\ view'.overlays = "user" /\ view'.clipping # "section"
        BY <2>1, UserViewFields
    <2>4. CaptureTyped' /\ AllWellSoFar' /\ SectionKept'
        BY <1>0, <2>1, <2>3 DEF CaptureTyped, AllWellSoFar, SectionKept, InSection,
           Aiming, Shooting, Restoring
    <2>5. GivenBack' /\ OverlaysBack'
        BY <1>0, <2>1, <2>3 DEF CaptureTyped, GivenBack, OverlaysBack, InSection, Aiming
    <2>6. PicturesKept'
        BY <1>0, <2>1 DEF PicturesKept, Aiming, Shooting
    <2>7. SaidIsTrue'
        <3>1. SUFFICES ASSUME broken # "not_restored"
              PROVE  /\ view.camera = "user" /\ view.animated = "user"
                     /\ view.clipping # "section"
                     /\ ~(faults > 1) => view.overlays = "user"
            BY <1>0, <2>2 DEF SaidIsTrue, CaptureTyped
        <3>. QED  BY <1>0, <2>1, <3>1 DEF CaptureTyped, Views, SectionKept, GivenBack, OverlaysBack
    <2>8. said'.pictures \subseteq cache'
        BY <1>0, <2>1, <2>2 DEF PicturesKept
    <2>. QED  BY <2>4, <2>5, <2>6, <2>7, <2>8 DEF CaptureInv
<1>. QED  BY <1>1, <1>2, <1>3, <1>4, <1>5, <1>6, <1>7, <1>8, <1>9, <1>10, <1>11, <1>12,
          <1>13, <1>14, <1>15, <1>16, <1>17 DEF CaptureNext

\* What is borrowed is known at every step of a capture.
THEOREM CaptureInvariant == CaptureSpec => []CaptureInv
BY InitCapture, CaptureInvKept, PTL DEF CaptureSpec

\* Whatever fails, and for any number of views, a capture that answers, or fails without
\* saying otherwise, has given the user's view back, and its pictures are in the cache:
\* pruning never removes those of the call itself.
THEOREM ViewIsGivenBack == CaptureSpec => []ViewGivenBack
<1>1. CaptureInv => ViewGivenBack
    BY DEF CaptureInv, SaidIsTrue, ViewGivenBack
<1>. QED  BY <1>1, CaptureInvariant, PTL

-------------------------------------------------------------------------------
(***************************************************************************)
(* Mechanical parts: for each tool, the arithmetic of the dimensions it    *)
(* accepts.                                                                *)
(***************************************************************************)

LEMMA DimensionsAreNumbers ==
    ASSUME NEW p, p.bore \in Bores, p.outer \in Outers, p.width \in Widths,
           p.element \in Elements, p.clearance \in Clearances, p.count \in Counts
    PROVE  /\ p.bore \in Nat \ {0} /\ p.outer \in Nat \ {0} /\ p.width \in Nat \ {0}
           /\ p.element \in Nat \ {0} /\ p.clearance \in Nat /\ p.count \in 2..64
BY PartsAssumption

LEMMA SinesAreNumbers == \A k \in 2..128 : Sine[k] \in Int
BY DEF Sine

LEMMA ChordsAreNumbers ==
    ASSUME NEW a \in Int, NEW k \in 2..64
    PROVE  Chord(a, k) \in Int /\ Chord(a, 2 * k) \in Int
<1>1. Sine[k] \in Int /\ Sine[2 * k] \in Int
    BY SinesAreNumbers, k \in 2..128, 2 * k \in 2..128
<1>2. 2 * (a \div 100) \in Int
    OBVIOUS
<1>3. 2 * (a \div 100) * Sine[k] \in Int /\ 2 * (a \div 100) * Sine[2 * k] \in Int
    BY <1>1, <1>2
<1>. QED  BY <1>3 DEF Chord

\* Up to six neighbours on a circle are at least half its diameter apart.
LEMMA SixApart ==
    ASSUME NEW n \in 2..6
    PROVE  Sine[n] >= 5000
<1>1. n = 2 \/ n = 3 \/ n = 4 \/ n = 5 \/ n = 6
    OBVIOUS
<1>. QED  BY <1>1 DEF Sine

\* The chords of four or more neighbours are at least nine tenths of the circle.
LEMMA ChordsOfTheCircle ==
    ASSUME NEW n \in 4..64
    PROVE  Sine[n] \in Nat /\ n * Sine[n] >= 28284
<1>1. \/ n = 4 \/ n = 5 \/ n = 6 \/ n = 7 \/ n = 8 \/ n = 9 \/ n = 10 \/ n = 11
          \/ n = 12 \/ n = 13 \/ n = 14 \/ n = 15 \/ n = 16 \/ n = 17 \/ n = 18 \/ n = 19
          \/ n = 20 \/ n = 21 \/ n = 22 \/ n = 23 \/ n = 24 \/ n = 25 \/ n = 26 \/ n = 27
          \/ n = 28 \/ n = 29 \/ n = 30 \/ n = 31 \/ n = 32 \/ n = 33 \/ n = 34 \/ n = 35
          \/ n = 36 \/ n = 37 \/ n = 38 \/ n = 39 \/ n = 40 \/ n = 41 \/ n = 42 \/ n = 43
          \/ n = 44 \/ n = 45 \/ n = 46 \/ n = 47 \/ n = 48 \/ n = 49 \/ n = 50 \/ n = 51
          \/ n = 52 \/ n = 53 \/ n = 54 \/ n = 55 \/ n = 56 \/ n = 57 \/ n = 58 \/ n = 59
          \/ n = 60 \/ n = 61 \/ n = 62 \/ n = 63 \/ n = 64
    OBVIOUS
<1>. QED  BY <1>1 DEF Sine

LEMMA MoreTimes ==
    ASSUME NEW a \in Int, NEW b \in Int, NEW d \in Nat, a <= b
    PROVE  a * d <= b * d
OBVIOUS

\* Balls that the arc between them parts overlap by less than an eighth of a diameter.
LEMMA ArcsNearlyPart ==
    ASSUME NEW P \in Nat, NEW n \in 4..64, NEW E \in Nat \ {0}, NEW C \in Nat,
           NEW s \in Nat, n * s >= 28284,
           62832 * P > 40000 * n * (E + C)
    PROVE  8 * ((2 * P * s) \div 100) > 2800 * E
<1>1. PICK x \in Nat : x = n * E
    OBVIOUS
<1>2. 40000 * x <= 62832 * P
  <2>1. PICK y \in Nat : y = n * C
    OBVIOUS
  <2>2. 40000 * n * (E + C) = 40000 * x + 40000 * y
    BY <1>1, <2>1
  <2>. QED  BY <2>2
<1>3. (40000 * x) * s <= (62832 * P) * s
    BY <1>2, MoreTimes
<1>4. PICK v \in Nat : v = P * s
    OBVIOUS
<1>5. PICK u \in Nat : u = x * s
    OBVIOUS
<1>6. 40000 * u <= 62832 * v
  <2>1. (40000 * x) * s = 40000 * u
    BY <1>5
  <2>2. (62832 * P) * s = 62832 * v
    BY <1>4
  <2>. QED  BY <1>3, <2>1, <2>2
<1>7. 28284 * E <= u
  <2>1. PICK z \in Nat : z = n * s
    OBVIOUS
  <2>2. 28284 * E <= z * E
    BY <2>1, MoreTimes
  <2>3. z * E = u
    BY <1>1, <1>5, <2>1
  <2>. QED  BY <2>2, <2>3
<1>8. v >= 18000 * E
    BY <1>6, <1>7
<1>9. 2 * P * s = 2 * v
    BY <1>4
<1>. QED  BY <1>8, <1>9

\* What nothing was cut into has nothing missing behind a cut.
LEMMA NothingCut ==
    ASSUME NEW part, part.channel.half = 0, NEW s, s.snug = FALSE
    PROVE  GrooveBacked(part, s) /\ ChannelBacked(part, s)
BY DEF GrooveBacked, ChannelBacked

\* A post is thinner than the gap it stands in.
LEMMA PostsInGap ==
    ASSUME NEW half \in Int, NEW gap \in Int, gap > 0
    PROVE  PostRadius(half, gap) \in Int /\ PostRadius(half, gap) < gap
BY DEF PostRadius, Lesser

LEMMA BallBearingFits ==
    ASSUME NEW p \in BearingDimensions, BallBearingAccepted(p)
    PROVE  Fits("ball_bearing", BallBearing(p))
<1>. DEFINE b == Radius(p.bore)
            o == Radius(p.outer)
            m == Pitch(p)
            e == Radius(p.element)
            c == (Scale \div 2) * p.clearance
            w == Scale * p.width
            inner == Ring(b, m - e - c, 0, w)
            ring == Ring(m + e + c, o, 0, w)
            part == Part({inner, ring}, p.count, m, e, w \div 2 - e, w \div 2 + e)
<1>1. /\ p.bore \in Nat \ {0} /\ p.outer \in Nat \ {0} /\ p.width \in Nat \ {0}
      /\ p.element \in Nat \ {0} /\ p.clearance \in Nat /\ p.count \in 2..64
    BY PartsAssumption DEF BearingDimensions
<1>2. 2 * (p.element + p.clearance) < p.outer - p.bore
    BY DEF BallBearingAccepted
<1>3. /\ b \in Nat /\ o \in Nat /\ m \in Nat /\ e \in Nat /\ c \in Nat /\ w \in Nat
      /\ b < m - e - c /\ m + e + c < o /\ 0 < w /\ 0 <= m + e + c
      /\ m - e - c <= m + e + c
    BY <1>1, <1>2 DEF Radius, Pitch, Scale
<1>4. BallBearing(p) = part
    BY DEF BallBearing
<1>. HIDE DEF b, o, m, e, c, w
<1>5. Proper(inner) /\ Proper(ring)
    BY <1>3 DEF Proper, Ring
<1>6. Apart(inner, ring) /\ Apart(ring, inner)
    BY <1>3 DEF Apart, Ring
<1>7. ElementsClear(part, inner) /\ ElementsClear(part, ring)
    BY <1>3 DEF ElementsClear, Part, Ring
<1>8. /\ part.solids = {inner, ring} /\ part.post = 0 /\ part.sections = 0
      /\ part.n = p.count /\ part.pitch = m /\ part.r = e /\ part.channel.half = 0
      /\ inner.snug = FALSE /\ ring.snug = FALSE
    BY DEF Part, Ring, NoChannel
<1>9. PostsClear(part)
    BY <1>8 DEF PostsClear
<1>. HIDE DEF inner, ring, part
<1>10. GrooveBacked(part, inner) /\ ChannelBacked(part, inner)
    BY <1>8, NothingCut
<1>11. GrooveBacked(part, ring) /\ ChannelBacked(part, ring)
    BY <1>8, NothingCut
<1>12. ElementsApart("ball_bearing", part)
  <2>. DEFINE across == p.bore + p.outer
  <2>1. /\ m \div 100 = across /\ across \in Nat /\ e = 200 * p.element
        /\ 62832 * across > 40000 * p.count * (p.element + p.clearance)
    <3>1. m = 100 * across /\ across \in Nat /\ e = 200 * p.element
      BY <1>1 DEF m, e, Pitch, Radius, Scale
    <3>2. m \div 100 = across
      BY <3>1
    <3>3. 2 * 31416 * (m \div 100) > 100 * Scale * p.count * (p.element + p.clearance)
      BY DEF BallBearingAccepted, m
    <3>. QED  BY <3>1, <3>2, <3>3 DEF Scale
  <2>2. p.count \in 4..64
    BY DEF BallBearingAccepted, DimensionsAccepted
  <2>3. PICK s \in Nat : s = Sine[p.count] /\ p.count * s >= 28284
    BY <2>2, ChordsOfTheCircle
  <2>. HIDE DEF across
  <2>4. 8 * ((2 * across * s) \div 100) > 2800 * p.element
    <3>. DEFINE E == p.element
                C == p.clearance
                n == p.count
    <3>1. /\ across \in Nat /\ n \in 4..64 /\ E \in Nat \ {0} /\ C \in Nat
          /\ s \in Nat /\ n * s >= 28284 /\ 62832 * across > 40000 * n * (E + C)
      BY <1>1, <2>1, <2>2, <2>3
    <3>. HIDE DEF E, C, n
    <3>2. 8 * ((2 * across * s) \div 100) > 2800 * E
      BY <3>1, ArcsNearlyPart
    <3>. QED  BY <3>2 DEF E
  <2>5. Chord(m, p.count) = (2 * across * s) \div 100
    BY <2>1, <2>3 DEF Chord
  <2>6. 7 * (2 * e) = 2800 * p.element
    BY <1>1, <2>1
  <2>. QED  BY <1>8, <2>4, <2>5, <2>6 DEF ElementsApart
<1>. QED  BY <1>4, <1>5, <1>6, <1>7, <1>8, <1>9, <1>10, <1>11, <1>12 DEF Fits

RingsFit(part, rings) ==
    \A s \in rings : Proper(s) /\ ElementsClear(part, s) /\ GrooveBacked(part, s)
CageFits(part, cage) ==
    \A s \in cage : Proper(s) /\ ElementsClear(part, s) /\ s.snug = FALSE
RoomFor(rings, cage) ==
    /\ \A s, t \in rings : s = t \/ Apart(s, t)
    /\ \A s \in cage, t \in rings \cup cage : s = t \/ Apart(s, t)

LEMMA CagedFits ==
    ASSUME NEW tool, tool \notin {"ball_bearing", "carrier"},
           NEW p, p.cage \in BOOLEAN,
           NEW rings, NEW cage, NEW post, NEW lo, NEW hi,
           RingsFit(Part(rings, p.count, Pitch(p), Radius(p.element), lo, hi), rings),
           CageFits(Part(rings, p.count, Pitch(p), Radius(p.element), lo, hi), cage),
           RoomFor(rings, cage),
           Chord(Pitch(p), p.count) > 2 * Radius(p.element),
           p.cage => (post > 0 =>
                          Chord(Pitch(p), 2 * p.count) > Radius(p.element) + post)
    PROVE  Fits(tool, Caged(p, rings, cage, post, lo, hi))
<1>. DEFINE bare == Part(rings, p.count, Pitch(p), Radius(p.element), lo, hi)
            part == Caged(p, rings, cage, post, lo, hi)
<1>1. /\ part.n = bare.n /\ part.pitch = bare.pitch /\ part.r = bare.r
      /\ part.lo = bare.lo /\ part.hi = bare.hi /\ part.sections = 0
      /\ part.solids = IF p.cage THEN rings \cup cage ELSE rings
      /\ part.post = IF p.cage THEN post ELSE 0
      /\ part.channel.half = 0
    BY DEF Caged, Part, NoChannel
<1>2. \A s : ElementsClear(bare, s) => ElementsClear(part, s)
    BY <1>1 DEF ElementsClear
<1>3. \A s, t : Apart(s, t) => Apart(t, s)
    BY DEF Apart
<1>4. bare.n = p.count /\ bare.pitch = Pitch(p) /\ bare.r = Radius(p.element)
    BY DEF Part
<1>5. ElementsApart(tool, part) /\ PostsClear(part)
    BY <1>1, <1>4 DEF ElementsApart, PostsClear
<1>6. \A s : GrooveBacked(bare, s) => GrooveBacked(part, s)
    BY <1>1 DEF GrooveBacked
<1>7. \A s : ChannelBacked(part, s)
    BY <1>1 DEF ChannelBacked
<1>8. RingsFit(bare, rings) /\ CageFits(bare, cage)
    OBVIOUS
<1>. HIDE DEF bare, part
<1>9. \A s \in part.solids : Proper(s)
    BY <1>1, <1>8 DEF RingsFit, CageFits
<1>10. \A s, t \in part.solids : s = t \/ Apart(s, t)
    BY <1>1, <1>3 DEF RoomFor
<1>11. \A s \in part.solids : ElementsClear(part, s)
    BY <1>1, <1>2, <1>8 DEF RingsFit, CageFits
<1>12. \A s \in part.solids : GrooveBacked(part, s) /\ ChannelBacked(part, s)
  <2>1. \A s \in rings : GrooveBacked(part, s)
    BY <1>6, <1>8 DEF RingsFit
  <2>2. \A s \in cage : GrooveBacked(part, s)
    BY <1>8 DEF CageFits, GrooveBacked
  <2>. QED  BY <1>1, <1>7, <2>1, <2>2
<1>. QED  BY <1>1, <1>5, <1>9, <1>10, <1>11, <1>12 DEF Fits, part

LEMMA DeepGrooveFits ==
    ASSUME NEW p \in GroovedDimensions, DeepGrooveAccepted(p)
    PROVE  Fits("deep_groove", DeepGroove(p))
<1>. DEFINE b == Radius(p.bore)
            o == Radius(p.outer)
            m == Pitch(p)
            e == Radius(p.element)
            g == Shoulder(p)
            w == Scale * p.width
            mid == w \div 2
            half == (28 * 2 * g) \div 100
            rail == Lesser((6 * w) \div 100, (10 * Scale * p.element) \div 100)
            reach == e + Scale * p.clearance
            groove == 2 * p.element * p.conformity + (Scale \div 2) * p.clearance
            gap == CageGap(m, p.count, e)
            inner == Grooved(Ring(b, m - g, 0, w), p)
            ring == Grooved(Ring(m + g, o, 0, w), p)
            low == Ring(m - half, m + half, mid - reach - rail, mid - reach - rail + rail)
            high == Ring(m - half, m + half, mid + reach, mid + reach + rail)
            bare == Part({inner, ring}, p.count, m, e, mid - e, mid + e)
<1>1. /\ p.bore \in Nat \ {0} /\ p.outer \in Nat \ {0} /\ p.width \in Nat \ {0}
      /\ p.element \in Nat \ {0} /\ p.clearance \in Nat /\ p.count \in 2..64
      /\ p.conformity \in {100, 104, 125} /\ p.cage \in BOOLEAN
  <2>1. /\ p.bore \in Bores /\ p.outer \in Outers /\ p.width \in Widths
        /\ p.element \in Elements /\ p.clearance \in Clearances /\ p.count \in Counts
    BY Zenon DEF GroovedDimensions
  <2>2. p.conformity \in {100, 104, 125} /\ p.cage \in BOOLEAN
    BY Zenon DEF GroovedDimensions
  <2>. QED  BY <2>1, <2>2, DimensionsAreNumbers, Zenon
<1>2. /\ 2 * (p.element + p.clearance) < p.outer - p.bore
      /\ m - g > b /\ m + g < o
      /\ Chord(m, p.count) > Scale * (p.element + p.clearance)
      /\ p.cage => gap > 0
    BY DEF DeepGrooveAccepted, SpacingAccepted
<1>3. /\ b \in Nat /\ o \in Nat /\ m \in Nat /\ e \in Nat /\ g \in Nat /\ w \in Nat
      /\ half \in Nat /\ half > 0 /\ half < g /\ half < m
      /\ Scale * (p.element + p.clearance) >= 2 * e
      /\ reach \in Nat /\ e <= reach
  <2>1. b \in Nat /\ o \in Nat /\ m \in Nat /\ e \in Nat /\ e >= 200 /\ w \in Nat
    BY <1>1 DEF Radius, Pitch, Scale
  <2>2. g \in Nat /\ g >= 124 /\ g <= e
    BY <2>1 DEF Shoulder
  <2>3. m - g > b
    BY <1>2
  <2>4. half \in Nat /\ half > 0 /\ half < g
    BY <2>2
  <2>5. Scale * (p.element + p.clearance) >= 2 * e /\ reach \in Nat /\ e <= reach
    BY <1>1, <2>1 DEF Radius, Scale
  <2>. HIDE DEF b, o, m, e, g, w, half, reach
  <2>. QED  BY <2>1, <2>2, <2>3, <2>4, <2>5
<1>4. mid \in Nat /\ w > 0 /\ rail \in Nat /\ rail > 0
    BY <1>1 DEF Scale, Lesser
<1>5. groove \in Nat /\ groove >= e
  <2>1. 2 * p.element * p.conformity >= 200 * p.element
        /\ 2 * p.element * p.conformity \in Nat
    BY <1>1
  <2>. QED  BY <1>1, <2>1 DEF Radius, Scale
<1>6. Chord(m, p.count) > 2 * e
  <2>1. Chord(m, p.count) \in Int
    <3>1. m \in Int /\ p.count \in 2..64
      BY <1>1, <1>3
    <3>. HIDE DEF m
    <3>. QED  BY <3>1, ChordsAreNumbers
  <2>2. Scale * (p.element + p.clearance) \in Int
    BY <1>1 DEF Scale
  <2>. HIDE DEF m, e
  <2>. QED  BY <1>2, <1>3, <2>1, <2>2
<1>7. p.cage => Chord(m, 2 * p.count) > e + PostRadius(half, gap)
  <2>1. Chord(m, 2 * p.count) \in Int
    <3>1. m \in Int /\ p.count \in 2..64
      BY <1>1, <1>3
    <3>. HIDE DEF m
    <3>. QED  BY <3>1, ChordsAreNumbers
  <2>2. gap = Chord(m, 2 * p.count) - e
    BY DEF CageGap
  <2>3. p.cage => PostRadius(half, gap) \in Int /\ PostRadius(half, gap) < gap
    BY <1>2, <1>3, <2>1, <2>2, PostsInGap
  <2>. HIDE DEF m, e, gap, half
  <2>. QED  BY <1>3, <2>1, <2>2, <2>3
<1>8. DeepGroove(p) = Caged(p, {inner, ring}, {low, high}, PostRadius(half, gap),
                            mid - e, mid + e)
  <2>1. Rails(m, half, mid - reach - rail, mid + reach, rail) = {low, high}
    BY DEF Rails
  <2>. QED  BY <2>1 DEF DeepGroove
<1>13. p.conformity = 100 => m - groove > b /\ m + groove < o
  <2>1. p.conformity = 100 => groove = 200 * p.element + 200 * p.clearance
    BY <1>1 DEF Scale
  <2>2. m - b = 100 * (p.outer - p.bore) /\ o - m = 100 * (p.outer - p.bore)
    BY <1>1 DEF Pitch, Radius, Scale
  <2>3. b \in Nat /\ o \in Nat /\ m \in Nat
    BY <1>3
  <2>. HIDE DEF b, o, m, groove
  <2>. QED  BY <1>1, <1>2, <2>1, <2>2, <2>3
<1>14. /\ inner.in = b /\ inner.out = m - g /\ inner.lo = 0 /\ inner.hi = w
       /\ ring.in = m + g /\ ring.out = o /\ ring.lo = 0 /\ ring.hi = w
       /\ inner.pocket = groove /\ ring.pocket = groove
       /\ inner.snug = (p.conformity = 100) /\ ring.snug = (p.conformity = 100)
       /\ low.snug = FALSE /\ high.snug = FALSE
    BY DEF Grooved, Ring
<1>. HIDE DEF b, o, m, e, g, w, mid, half, rail, reach, groove
<1>15. GrooveBacked(bare, inner) /\ GrooveBacked(bare, ring)
  <2>1. bare.pitch = m /\ ~(m < m - g) /\ ~(m + g < m)
    BY <1>3 DEF Part
  <2>. HIDE DEF bare, inner, ring
  <2>2. GrooveBacked(bare, inner)
    BY <1>13, <1>14, <2>1 DEF GrooveBacked
  <2>3. GrooveBacked(bare, ring)
    BY <1>13, <1>14, <2>1 DEF GrooveBacked
  <2>. QED  BY <2>2, <2>3
<1>9. /\ Proper(inner) /\ Proper(ring) /\ Proper(low) /\ Proper(high)
    BY <1>2, <1>3, <1>4 DEF Proper, Ring, Grooved
<1>10. /\ Apart(inner, ring) /\ Apart(ring, inner)
       /\ Apart(low, inner) /\ Apart(low, ring) /\ Apart(high, inner) /\ Apart(high, ring)
       /\ Apart(low, high) /\ Apart(high, low)
    BY <1>2, <1>3, <1>4 DEF Apart, Ring, Grooved
<1>11. ElementsClear(bare, inner) /\ ElementsClear(bare, ring)
    BY <1>3, <1>5, <1>14 DEF ElementsClear, Part
<1>12. ElementsClear(bare, low) /\ ElementsClear(bare, high)
    BY <1>3, <1>4 DEF ElementsClear, Part, Ring
<1>. QED
  <2>. DEFINE rings == {inner, ring}
              frame == {low, high}
              lo == mid - e
              hi == mid + e
              post == PostRadius(half, gap)
              plain == Part(rings, p.count, Pitch(p), Radius(p.element), lo, hi)
  <2>1. plain = bare
    BY DEF m, e
  <2>2. RingsFit(plain, rings)
    <3>. HIDE DEF plain, bare, inner, ring
    <3>. QED  BY <1>9, <1>11, <1>15, <2>1 DEF RingsFit
  <2>3. CageFits(plain, frame)
    <3>. HIDE DEF plain, bare, low, high
    <3>. QED  BY <1>9, <1>12, <1>14, <2>1 DEF CageFits
  <2>4. RoomFor(rings, frame)
    <3>. HIDE DEF inner, ring, low, high
    <3>. QED  BY <1>10 DEF RoomFor
  <2>5. Chord(Pitch(p), p.count) > 2 * Radius(p.element)
    BY <1>6 DEF m, e
  <2>6. p.cage => (post > 0 => Chord(Pitch(p), 2 * p.count) > Radius(p.element) + post)
    BY <1>7 DEF m, e
  <2>7. DeepGroove(p) = Caged(p, rings, frame, post, lo, hi)
    BY <1>8
  <2>8. p.cage \in BOOLEAN
    BY <1>1
  <2>. HIDE DEF rings, frame, lo, hi, post
  <2>10. "deep_groove" \notin {"ball_bearing", "carrier"}
    OBVIOUS
  <2>9. Fits("deep_groove", Caged(p, rings, frame, post, lo, hi))
    BY <2>2, <2>3, <2>4, <2>5, <2>6, <2>8, <2>10, CagedFits
  <2>. QED  BY <2>7, <2>9

LEMMA ThrustFits ==
    ASSUME NEW p \in GroovedDimensions, ThrustAccepted(p)
    PROVE  Fits("thrust", Thrust(p))
<1>. DEFINE b == Radius(p.bore)
            o == Radius(p.outer)
            m == Pitch(p)
            e == Radius(p.element)
            h == Scale * p.width
            mid == h \div 2
            wash == Washer(p)
            margin == (12 * (o - b)) \div 100
            cage == Lesser((42 * Scale * p.element) \div 100, (18 * h) \div 100)
            pocket == e + Greater(Scale * p.clearance, (8 * e) \div 100)
            groove == 2 * p.element * p.conformity + (Scale \div 2) * p.clearance
            lower == Grooved(Ring(b, o, 0, 0 + wash), p)
            upper == Grooved(Ring(b, o, h - wash, h - wash + wash), p)
            ring == Pocketed(Ring(b + margin, o - margin,
                                  (h - cage) \div 2, (h + cage) \div 2), pocket)
            bare == Part({lower, upper}, p.count, m, e, mid - e, mid + e)
<1>1. /\ p.bore \in Nat \ {0} /\ p.outer \in Nat \ {0} /\ p.width \in Nat \ {0}
      /\ p.element \in Nat \ {0} /\ p.clearance \in Nat /\ p.count \in 2..64
      /\ p.conformity \in {100, 104, 125} /\ p.cage \in BOOLEAN
  <2>1. /\ p.bore \in Bores /\ p.outer \in Outers /\ p.width \in Widths
        /\ p.element \in Elements /\ p.clearance \in Clearances /\ p.count \in Counts
    BY Zenon DEF GroovedDimensions
  <2>2. p.conformity \in {100, 104, 125} /\ p.cage \in BOOLEAN
    BY Zenon DEF GroovedDimensions
  <2>. QED  BY <2>1, <2>2, DimensionsAreNumbers, Zenon
<1>2. /\ p.bore < p.outer
      /\ p.element + p.clearance < p.width
      /\ Chord(m, p.count) > Scale * (p.element + p.clearance)
    BY DEF ThrustAccepted, SpacingAccepted, DimensionsAccepted
<1>3. /\ b \in Nat /\ o \in Nat /\ m \in Nat /\ e \in Nat /\ b < o
      /\ Scale * (p.element + p.clearance) >= 2 * e
    BY <1>1, <1>2 DEF Radius, Pitch, Scale
<1>4. margin \in Nat /\ b + margin < o - margin
    BY <1>3
<1>5. /\ h \in Nat /\ wash \in Nat /\ wash > 0 /\ wash <= h - wash
      /\ (h - cage) \div 2 \in Int /\ (h + cage) \div 2 \in Int
      /\ wash <= (h - cage) \div 2 /\ (h - cage) \div 2 < (h + cage) \div 2
      /\ (h + cage) \div 2 <= h - wash
  <2>1. /\ wash = 200 * (p.width - p.element - p.clearance) + 64 * p.element
        /\ h = 400 * p.width
    BY <1>1, <1>2 DEF Washer, Radius, Scale
  <2>2. cage \in Nat /\ cage <= 168 * p.element /\ cage >= 0
        /\ (cage = 168 * p.element \/ cage = 72 * p.width)
    BY <1>1 DEF Lesser, Scale
  <2>3. PICK k \in Nat : cage = 2 * k /\ k > 0
    <3>. DEFINE j == IF cage = 168 * p.element THEN 84 * p.element ELSE 36 * p.width
    <3>. HIDE DEF cage
    <3>1. j \in Nat /\ cage = 2 * j /\ j > 0
      BY <1>1, <2>2
    <3>. QED  BY <3>1 DEF CageFits
  <2>. HIDE DEF wash, h, cage
  <2>4. (h - cage) \div 2 = 200 * p.width - k /\ (h + cage) \div 2 = 200 * p.width + k
    BY <1>1, <2>1, <2>3
  <2>. QED  BY <1>1, <1>2, <2>1, <2>2, <2>3, <2>4
<1>6. groove \in Nat /\ groove >= e
  <2>1. 2 * p.element * p.conformity >= 200 * p.element
        /\ 2 * p.element * p.conformity \in Nat
    BY <1>1
  <2>. QED  BY <1>1, <2>1 DEF Radius, Scale
<1>7. pocket \in Nat /\ pocket >= e
    BY <1>1, <1>3 DEF Greater, Scale
<1>8. Chord(m, p.count) > 2 * e
  <2>1. m \in Int /\ Scale * (p.element + p.clearance) \in Int
    BY <1>1, <1>3 DEF Scale
  <2>. HIDE DEF m, e
  <2>2. Chord(m, p.count) \in Int
    BY <1>1, <2>1, ChordsAreNumbers, SMTT(30), ZenonT(20)
  <2>. QED  BY <1>2, <1>3, <2>1, <2>2
<1>9. Thrust(p) = Caged(p, {lower, upper}, {ring}, 0, mid - e, mid + e)
  <2>1. {Grooved(Ring(b, o, z, z + wash), p) : z \in {0, h - wash}} = {lower, upper}
    OBVIOUS
  <2>. QED  BY <2>1 DEF Thrust
<1>13. p.conformity = 100 => mid - groove > 0 /\ mid + groove < h
  <2>1. p.conformity = 100 => groove = 200 * p.element + 200 * p.clearance
    BY <1>1 DEF Scale
  <2>2. mid = 200 * p.width /\ h = 400 * p.width
    BY <1>1 DEF Scale
  <2>. HIDE DEF mid, h, groove
  <2>. QED  BY <1>1, <1>2, <2>1, <2>2
<1>14. b < m /\ m < o
    BY <1>1, <1>2 DEF Radius, Pitch, Scale
<1>15. /\ lower.in = b /\ lower.out = o /\ lower.lo = 0 /\ upper.hi = h - wash + wash
       /\ upper.in = b /\ upper.out = o
       /\ lower.pocket = groove /\ upper.pocket = groove
       /\ lower.snug = (p.conformity = 100) /\ upper.snug = (p.conformity = 100)
       /\ ring.snug = FALSE
    BY DEF Grooved, Pocketed, Ring
<1>16. (mid - e + (mid + e)) \div 2 = mid /\ h - wash + wash = h
  <2>1. mid \in Int /\ h \in Int /\ e \in Int /\ wash \in Int
    BY <1>1, <1>3, <1>5 DEF Scale
  <2>. HIDE DEF mid, h, e, wash
  <2>. QED  BY <2>1
<1>. HIDE DEF b, o, m, e, h, mid, wash, margin, cage, pocket, groove
<1>17. GrooveBacked(bare, lower) /\ GrooveBacked(bare, upper)
  <2>1. bare.pitch = m /\ bare.lo = mid - e /\ bare.hi = mid + e
    BY DEF Part
  <2>. HIDE DEF bare, lower, upper
  <2>2. GrooveBacked(bare, lower)
    BY <1>13, <1>14, <1>15, <1>16, <2>1 DEF GrooveBacked
  <2>3. GrooveBacked(bare, upper)
    BY <1>13, <1>14, <1>15, <1>16, <2>1, SMTT(30), ZenonT(20) DEF GrooveBacked
  <2>. QED  BY <2>2, <2>3
<1>10. /\ Proper(lower) /\ Proper(upper) /\ Proper(ring)
    BY <1>3, <1>4, <1>5 DEF Proper, Ring, Grooved, Pocketed
<1>11. /\ Apart(lower, upper) /\ Apart(upper, lower)
       /\ Apart(ring, lower) /\ Apart(ring, upper)
    BY <1>3, <1>4, <1>5 DEF Apart, Ring, Grooved, Pocketed
<1>12. ElementsClear(bare, lower) /\ ElementsClear(bare, upper) /\ ElementsClear(bare, ring)
    BY <1>3, <1>6, <1>7, <1>15 DEF ElementsClear, Part, Ring, Pocketed
<1>. QED
  <2>. DEFINE rings == {lower, upper}
              frame == {ring}
              lo == mid - e
              hi == mid + e
              post == 0
              plain == Part(rings, p.count, Pitch(p), Radius(p.element), lo, hi)
  <2>1. plain = bare
    BY DEF m, e
  <2>2. RingsFit(plain, rings)
    <3>. HIDE DEF plain, bare, lower, upper
    <3>. QED  BY <1>10, <1>12, <1>17, <2>1 DEF RingsFit
  <2>3. CageFits(plain, frame)
    <3>. HIDE DEF plain, bare, ring
    <3>. QED  BY <1>10, <1>12, <1>15, <2>1 DEF CageFits
  <2>4. RoomFor(rings, frame)
    <3>. HIDE DEF lower, upper, ring
    <3>. QED  BY <1>11 DEF RoomFor
  <2>5. Chord(Pitch(p), p.count) > 2 * Radius(p.element)
    BY <1>8 DEF m, e
  <2>6. p.cage => (post > 0 => Chord(Pitch(p), 2 * p.count) > Radius(p.element) + post)
    BY <1>8 DEF m, e
  <2>7. Thrust(p) = Caged(p, rings, frame, post, lo, hi)
    BY <1>9
  <2>8. p.cage \in BOOLEAN
    BY <1>1
  <2>. HIDE DEF rings, frame, lo, hi, post
  <2>10. "thrust" \notin {"ball_bearing", "carrier"}
    OBVIOUS
  <2>9. Fits("thrust", Caged(p, rings, frame, post, lo, hi))
    BY <2>2, <2>3, <2>4, <2>5, <2>6, <2>8, <2>10, CagedFits
  <2>. QED  BY <2>7, <2>9

LEMMA RollerFits ==
    ASSUME NEW p, p.bore \in Bores, p.outer \in Outers, p.width \in Widths,
           p.element \in Elements, p.clearance \in Clearances, p.count \in Counts,
           p.length \in Widths, p.cage \in BOOLEAN, RollerAccepted(p)
    PROVE  Fits("roller", Roller(p))
<1>. DEFINE b == Radius(p.bore)
            o == Radius(p.outer)
            m == Pitch(p)
            e == Radius(p.element)
            c == (Scale \div 2) * p.clearance
            w == Scale * p.width
            end == (Scale \div 2) * (p.width - p.length)
            rail == (30 * end) \div 100
            foot == (20 * end) \div 100
            half == (30 * 2 * (e + c)) \div 100
            gap == CageGap(m, p.count, e)
            inner == Ring(b, m - e - c, 0, w)
            ring == Ring(m + e + c, o, 0, w)
            low == Ring(m - half, m + half, foot, foot + rail)
            high == Ring(m - half, m + half, w - foot - rail, w - foot - rail + rail)
            bare == Part({inner, ring}, p.count, m, e, end, w - end)
<1>1. /\ p.bore \in Nat \ {0} /\ p.outer \in Nat \ {0} /\ p.width \in Nat \ {0}
      /\ p.element \in Nat \ {0} /\ p.clearance \in Nat /\ p.count \in 2..64
      /\ p.length \in Nat \ {0}
    BY DimensionsAreNumbers, PartsAssumption
<1>2. /\ 2 * (p.element + p.clearance) < p.outer - p.bore
      /\ p.length < p.width
      /\ Chord(m, p.count) > Scale * (p.element + p.clearance)
      /\ p.cage => gap > 0
    BY DEF RollerAccepted, SpacingAccepted
<1>3. /\ b \in Nat /\ o \in Nat /\ m \in Nat /\ e \in Nat /\ e >= 200 /\ c \in Nat
      /\ b < m - e - c /\ m + e + c < o
      /\ Scale * (p.element + p.clearance) >= 2 * e
    BY <1>1, <1>2 DEF Radius, Pitch, Scale
<1>4. half \in Nat /\ half > 0 /\ half <= e + c
    BY <1>3
<1>5. /\ w \in Nat /\ end \in Nat /\ end >= 200 /\ 2 * end < w
    BY <1>1, <1>2 DEF Scale
<1>6. /\ rail \in Nat /\ rail > 0 /\ foot \in Nat /\ 2 * (foot + rail) <= end
    BY <1>5
<1>7. Chord(m, p.count) > 2 * e
  <2>1. m \in Int /\ Scale * (p.element + p.clearance) \in Int
    BY <1>1, <1>3 DEF Scale
  <2>. HIDE DEF m, e
  <2>2. Chord(m, p.count) \in Int
    BY <1>1, <2>1, ChordsAreNumbers
  <2>. QED  BY <1>2, <1>3, <2>1, <2>2
<1>8. p.cage => Chord(m, 2 * p.count) > e + PostRadius(half, gap)
  <2>1. Chord(m, 2 * p.count) \in Int
    <3>1. m \in Int /\ p.count \in 2..64
      BY <1>1, <1>3
    <3>. HIDE DEF m
    <3>. QED  BY <3>1, ChordsAreNumbers
  <2>2. gap = Chord(m, 2 * p.count) - e
    BY DEF CageGap
  <2>3. p.cage => PostRadius(half, gap) \in Int /\ PostRadius(half, gap) < gap
    BY <1>2, <1>3, <1>4, <2>1, <2>2, PostsInGap
  <2>. HIDE DEF m, e, gap, half
  <2>. QED  BY <1>3, <2>1, <2>2, <2>3
<1>9. Roller(p) = Caged(p, {inner, ring}, {low, high}, PostRadius(half, gap), end, w - end)
  <2>1. Rails(m, half, foot, w - foot - rail, rail) = {low, high}
    BY DEF Rails
  <2>. QED  BY <2>1 DEF Roller
<1>. HIDE DEF b, o, m, e, c, w, end, rail, foot, half
<1>10. Proper(inner) /\ Proper(ring) /\ Proper(low) /\ Proper(high)
    BY <1>3, <1>4, <1>5, <1>6 DEF Proper, Ring
<1>11. /\ Apart(inner, ring) /\ Apart(ring, inner)
       /\ Apart(low, inner) /\ Apart(low, ring) /\ Apart(high, inner) /\ Apart(high, ring)
       /\ Apart(low, high) /\ Apart(high, low)
    BY <1>3, <1>4, <1>5, <1>6 DEF Apart, Ring
<1>12. /\ ElementsClear(bare, inner) /\ ElementsClear(bare, ring)
       /\ ElementsClear(bare, low) /\ ElementsClear(bare, high)
    BY <1>3, <1>4, <1>5, <1>6 DEF ElementsClear, Part, Ring
<1>13. inner.snug = FALSE /\ ring.snug = FALSE /\ low.snug = FALSE /\ high.snug = FALSE
    BY DEF Ring
<1>14. GrooveBacked(bare, inner) /\ GrooveBacked(bare, ring)
    BY <1>13 DEF GrooveBacked
<1>. QED
  <2>. DEFINE rings == {inner, ring}
              frame == {low, high}
              lo == end
              hi == w - end
              post == PostRadius(half, gap)
              plain == Part(rings, p.count, Pitch(p), Radius(p.element), lo, hi)
  <2>1. plain = bare
    BY DEF m, e
  <2>2. RingsFit(plain, rings)
    <3>. HIDE DEF plain, bare, inner, ring
    <3>. QED  BY <1>10, <1>12, <1>14, <2>1 DEF RingsFit
  <2>3. CageFits(plain, frame)
    <3>. HIDE DEF plain, bare, low, high
    <3>. QED  BY <1>10, <1>12, <1>13, <2>1 DEF CageFits
  <2>4. RoomFor(rings, frame)
    <3>. HIDE DEF inner, ring, low, high
    <3>. QED  BY <1>11 DEF RoomFor
  <2>5. Chord(Pitch(p), p.count) > 2 * Radius(p.element)
    BY <1>7 DEF m, e
  <2>6. p.cage => (post > 0 => Chord(Pitch(p), 2 * p.count) > Radius(p.element) + post)
    BY <1>8 DEF m, e
  <2>7. Roller(p) = Caged(p, rings, frame, post, lo, hi)
    BY <1>9
  <2>. HIDE DEF rings, frame, lo, hi, post
  <2>10. "roller" \notin {"ball_bearing", "carrier"}
    OBVIOUS
  <2>9. Fits("roller", Caged(p, rings, frame, post, lo, hi))
    BY <2>2, <2>3, <2>4, <2>5, <2>6, <2>10, CagedFits
  <2>. QED  BY <2>7, <2>9

LEMMA PrintInPlaceFits ==
    ASSUME NEW p, p.bore \in Bores, p.outer \in Outers, p.width \in Widths,
           p.element \in Elements, p.clearance \in Clearances, p.count \in Counts,
           p.axial \in Modules \cup Widths, PrintInPlaceAccepted(p)
    PROVE  Fits("print_in_place", PrintInPlace(p))
<1>. DEFINE b == Radius(p.bore)
            o == Radius(p.outer)
            m == Pitch(p)
            e == Radius(p.element)
            reach == e + Scale * p.clearance
            w == Scale * p.width
            lip == Lip(p)
            axial == Scale * p.axial
            inner == Ring(b, m - reach, 0, w)
            ring == Ring(m + reach, o, 0, w)
            low == Ring(m + reach - lip, m + reach, 0, lip)
            high == Ring(m + reach - lip, m + reach, w - lip, w)
            part == Part({inner, ring, low, high}, p.count, m, e, axial, w - axial)
<1>1. /\ p.bore \in Nat \ {0} /\ p.outer \in Nat \ {0} /\ p.width \in Nat \ {0}
      /\ p.element \in Nat \ {0} /\ p.clearance \in Nat /\ p.count \in 2..64
      /\ p.axial \in Nat \ {0}
    BY DimensionsAreNumbers, PartsAssumption
<1>2. /\ 2 * (p.element + 2 * p.clearance) < p.outer - p.bore
      /\ Chord(m, p.count) > Scale * (p.element + p.clearance)
      /\ Scale * p.axial > lip + Scale * p.clearance
      /\ p.width > 2 * p.axial
    BY DEF PrintInPlaceAccepted, SpacingAccepted
<1>3. /\ b \in Nat /\ o \in Nat /\ m \in Nat /\ e \in Nat
      /\ reach \in Nat /\ e <= reach /\ b < m - reach /\ m + reach < o
      /\ Scale * (p.element + p.clearance) >= 2 * e
    BY <1>1, <1>2 DEF Radius, Pitch, Scale
<1>4. lip \in Nat /\ lip > 0 /\ lip <= reach
    BY <1>1 DEF Lip, Radius, Scale
<1>5. w \in Nat /\ axial \in Nat /\ lip <= axial /\ 2 * axial < w
    BY <1>1, <1>2, <1>4 DEF Scale
<1>6. Chord(m, p.count) > 2 * e
  <2>1. m \in Int /\ Scale * (p.element + p.clearance) \in Int
    BY <1>1, <1>3 DEF Scale
  <2>. HIDE DEF m, e
  <2>2. Chord(m, p.count) \in Int
    BY <1>1, <2>1, ChordsAreNumbers
  <2>. QED  BY <1>2, <1>3, <2>1, <2>2
<1>7. PrintInPlace(p) = part
    BY DEF PrintInPlace
<1>. HIDE DEF b, o, m, e, reach, w, lip, axial
<1>8. Proper(inner) /\ Proper(ring) /\ Proper(low) /\ Proper(high)
    BY <1>3, <1>4, <1>5 DEF Proper, Ring
<1>9. /\ Apart(inner, ring) /\ Apart(inner, low) /\ Apart(inner, high)
      /\ Apart(ring, inner) /\ Apart(ring, low) /\ Apart(ring, high)
      /\ Apart(low, inner) /\ Apart(low, ring) /\ Apart(low, high)
      /\ Apart(high, inner) /\ Apart(high, ring) /\ Apart(high, low)
    BY <1>3, <1>4, <1>5 DEF Apart, Ring
<1>10. /\ ElementsClear(part, inner) /\ ElementsClear(part, ring)
       /\ ElementsClear(part, low) /\ ElementsClear(part, high)
    BY <1>3, <1>4, <1>5 DEF ElementsClear, Part, Ring
<1>11. /\ part.solids = {inner, ring, low, high} /\ part.post = 0 /\ part.sections = 0
       /\ part.n = p.count /\ part.pitch = m /\ part.r = e /\ part.channel.half = 0
       /\ inner.snug = FALSE /\ ring.snug = FALSE /\ low.snug = FALSE /\ high.snug = FALSE
    BY DEF Part, Ring, NoChannel
<1>. HIDE DEF inner, ring, low, high, part
<1>12. PostsClear(part) /\ ElementsApart("print_in_place", part)
    BY <1>6, <1>11 DEF PostsClear, ElementsApart
<1>13. \A s \in part.solids : GrooveBacked(part, s) /\ ChannelBacked(part, s)
    BY <1>11, NothingCut
<1>. QED  BY <1>7, <1>8, <1>9, <1>10, <1>11, <1>12, <1>13 DEF Fits

\* A part without elements or posts need only consist of solids apart.
LEMMA PlainFits ==
    ASSUME NEW tool, tool \notin {"ball_bearing", "carrier"}, NEW solids,
           \A s \in solids : Proper(s) /\ s.snug = FALSE,
           \A s, t \in solids : s = t \/ Apart(s, t)
    PROVE  Fits(tool, Plain(solids))
<1>. DEFINE part == Plain(solids)
<1>1. /\ part.solids = solids /\ part.n = 0 /\ part.post = 0 /\ part.sections = 0
      /\ part.channel.half = 0
    BY DEF Plain, Part, NoChannel
<1>. HIDE DEF part
<1>2. \A s \in solids : ElementsClear(part, s)
    BY <1>1 DEF ElementsClear
<1>3. ElementsApart(tool, part) /\ PostsClear(part)
    BY <1>1 DEF ElementsApart, PostsClear
<1>4. \A s \in solids : GrooveBacked(part, s) /\ ChannelBacked(part, s)
    BY <1>1, NothingCut
<1>5. Fits(tool, part)
    BY <1>1, <1>2, <1>3, <1>4 DEF Fits
<1>. QED  BY <1>5 DEF part

LEMMA SingleFits ==
    ASSUME NEW tool, tool \notin {"ball_bearing", "carrier"}, NEW s, Proper(s), s.snug = FALSE
    PROVE  Fits(tool, Plain({s}))
BY PlainFits

\* The far corners of a channel: x and h are where its floor is and half its width,
\* in a wall w behind a bore b.
LEMMA CornersInside ==
    ASSUME NEW b \in Nat, NEW k \in Nat, NEW d \in Nat \ {0}, NEW h \in Nat,
           200 * d < 65 * k, 2 * h <= 200 * k
    PROVE  LET x == b + 400 * d + 4
               out == b + 200 * k
           IN  x * x + h * h < out * out
<1>. DEFINE x == b + 400 * d + 4
            out == b + 200 * k
<1>1. k >= 4
    OBVIOUS
<1>2. out - x >= 60 * k /\ out + x >= 200 * k /\ x \in Nat /\ out \in Nat
    BY <1>1
<1>3. h <= 100 * k
    OBVIOUS
<1>4. PICK e \in Nat : e = out - x
    BY <1>1, <1>2
<1>5. PICK f \in Nat : f = out + x
    BY <1>2
<1>6. out * out - x * x = e * f
    BY <1>2, <1>4, <1>5
<1>7. (60 * k) * (200 * k) <= e * f
  <2>1. (60 * k) * (200 * k) <= e * (200 * k)
    BY <1>2, <1>4, MoreTimes
  <2>2. (200 * k) * e <= f * e
    BY <1>2, <1>5, MoreTimes
  <2>. QED  BY <2>1, <2>2
<1>8. h * h <= (100 * k) * (100 * k)
  <2>1. h * h <= (100 * k) * h
    BY <1>3, MoreTimes
  <2>2. h * (100 * k) <= (100 * k) * (100 * k)
    BY <1>3, MoreTimes
  <2>. QED  BY <2>1, <2>2
<1>9. (100 * k) * (100 * k) < (60 * k) * (200 * k)
  <2>1. PICK q \in Nat : q = k * k
    OBVIOUS
  <2>2. q >= 1
    BY <1>1, <2>1
  <2>3. (100 * k) * (100 * k) = 10000 * q /\ (60 * k) * (200 * k) = 12000 * q
    BY <2>1
  <2>. QED  BY <2>2, <2>3
<1>10. h * h < out * out - x * x
    BY <1>6, <1>7, <1>8, <1>9
<1>11. h * h \in Nat /\ x * x \in Nat /\ out * out \in Nat
    BY <1>2
<1>12. x * x + h * h < out * out
    BY <1>10, <1>11
<1>. QED  BY <1>12

LEMMA BushingFits ==
    ASSUME NEW p, p.shaft \in Bores, p.outer \in Outers, p.clearance \in Clearances,
           p.count \in Counts \cup {0}, p.width \in Modules, p.depth \in Modules,
           p.relief \in Clearances, BushingAccepted(p)
    PROVE  Fits("bushing", Bushing(p))
<1>. DEFINE depth == Greater(IF p.count = 0 THEN 0 ELSE p.depth, p.relief)
            bore == Radius(p.shaft + p.clearance)
            in == bore + Scale * depth
            s == Ring(in, Radius(p.outer), 0, Scale)
            shell == Plain({s})
            box == [floor |-> bore + Scale * p.depth + Scale \div 100,
                    half |-> (Scale \div 2) * p.width, wall |-> Radius(p.outer) - bore]
            part == [shell EXCEPT !.channel = box]
<1>1. /\ p.shaft \in Nat \ {0} /\ p.outer \in Nat \ {0} /\ p.clearance \in Nat
      /\ p.depth \in Nat \ {0} /\ p.relief \in Nat /\ p.width \in Nat \ {0}
    BY PartsAssumption
<1>2. /\ p.shaft + p.clearance < p.outer
      /\ 200 * p.depth < 65 * (p.outer - (p.shaft + p.clearance))
      /\ 4 * p.relief < p.outer - (p.shaft + p.clearance)
    BY DEF BushingAccepted
<1>3. 0 <= in /\ in < Radius(p.outer) /\ 0 < Scale
  <2>1. depth \in Nat /\ (depth = 0 \/ depth = p.depth \/ depth = p.relief)
    BY <1>1 DEF Greater
  <2>. HIDE DEF depth
  <2>2. 2 * depth < p.outer - (p.shaft + p.clearance)
    BY <1>1, <1>2, <2>1
  <2>. QED  BY <1>1, <2>1, <2>2 DEF Radius, Scale
<1>4. Bushing(p) = IF p.count = 0 THEN shell ELSE part
    BY DEF Bushing
<1>5. Proper(s) /\ s.out = Radius(p.outer) /\ s.snug = FALSE
  <2>. HIDE DEF in
  <2>. QED  BY <1>3 DEF Proper, Ring
<1>6. 2 * box.half <= box.wall => box.floor * box.floor + box.half * box.half < s.out * s.out
  <2>. DEFINE k == p.outer - (p.shaft + p.clearance)
  <2>1. k \in Nat /\ 200 * p.depth < 65 * k /\ bore \in Nat
    BY <1>1, <1>2 DEF Radius, Scale
  <2>2. /\ box.floor = bore + 400 * p.depth + 4 /\ box.half = 200 * p.width
        /\ box.wall = 200 * k /\ s.out = bore + 200 * k
    BY <1>1, <1>5 DEF Radius, Scale
  <2>. HIDE DEF k, bore, box, s
  <2>3. ASSUME 2 * box.half <= box.wall
        PROVE  box.floor * box.floor + box.half * box.half < s.out * s.out
    <3>1. 2 * (200 * p.width) <= 200 * k /\ 200 * p.width \in Nat
      BY <1>1, <2>2, <2>3
    <3>. QED  BY <1>1, <2>1, <2>2, <3>1, CornersInside
  <2>. QED  BY <2>3
<1>. HIDE DEF s
<1>7. Fits("bushing", shell)
    BY <1>5, SingleFits
<1>8. /\ shell.solids = {s} /\ part.solids = {s} /\ part.channel = box
      /\ part.n = shell.n /\ part.pitch = shell.pitch /\ part.r = shell.r
      /\ part.lo = shell.lo /\ part.hi = shell.hi /\ part.post = shell.post
      /\ part.twist = shell.twist /\ part.sections = shell.sections
    BY DEF Plain, Part
<1>. HIDE DEF shell, part, box
<1>9. /\ \A t : ElementsClear(shell, t) => ElementsClear(part, t)
      /\ \A t : GrooveBacked(shell, t) => GrooveBacked(part, t)
      /\ ElementsApart("bushing", shell) => ElementsApart("bushing", part)
      /\ PostsClear(shell) => PostsClear(part)
    BY <1>8 DEF ElementsClear, GrooveBacked, ElementsApart, PostsClear
<1>10. ChannelBacked(part, s)
    BY <1>6, <1>8 DEF ChannelBacked
<1>11. Fits("bushing", part)
    BY <1>7, <1>8, <1>9, <1>10 DEF Fits
<1>. QED  BY <1>4, <1>7, <1>11

LEMMA CarrierFits ==
    ASSUME NEW p, p.plate \in Outers, p.bore \in Bores \cup {0},
           p.pitch \in Widths \cup Outers, p.pin \in Elements \cup Modules,
           p.count \in Counts,
           CarrierAccepted(p)
    PROVE  Fits("carrier", Carrier(p))
<1>. DEFINE disc == Ring(Radius(p.bore), Radius(p.plate), 0, Scale)
            part == Part({disc}, p.count, Radius(p.pitch), Radius(p.pin), 0, Scale)
<1>1. /\ p.plate \in Nat \ {0} /\ p.bore \in Nat /\ p.pitch \in Nat \ {0}
      /\ p.pin \in Nat \ {0}
  <2>1. p.plate \in Nat \ {0} /\ p.pitch \in Nat \ {0}
    BY PartsAssumption
  <2>2. p.bore \in Nat
    BY PartsAssumption
  <2>3. p.pin \in Nat \ {0}
    BY PartsAssumption
  <2>. QED  BY <2>1, <2>2, <2>3
<1>2. p.pitch + 2 * p.pin <= p.plate /\ p.bore + 2 * p.pin < p.pitch
    BY DEF CarrierAccepted
<1>3. Proper(disc)
    BY <1>1, <1>2 DEF Proper, Ring, Radius, Scale
<1>4. HolesInside(part, disc)
    BY <1>1, <1>2 DEF HolesInside, Part, Ring, Radius, Scale
<1>5. /\ part.solids = {disc} /\ part.post = 0 /\ part.sections = 0
      /\ part.n = p.count /\ part.pitch = Radius(p.pitch) /\ part.r = Radius(p.pin)
      /\ part.channel.half = 0 /\ disc.snug = FALSE
      /\ Carrier(p) = part
    BY DEF Part, Carrier, Ring, NoChannel
<1>. HIDE DEF disc, part
<1>6. GrooveBacked(part, disc) /\ ChannelBacked(part, disc)
    BY <1>5, NothingCut
<1>7. ASSUME p.count <= 6
      PROVE  Chord(Radius(p.pitch), p.count) > 2 * Radius(p.pin)
  <2>1. p.count \in 2..6
    BY <1>7 DEF CarrierAccepted
  <2>2. PICK s \in Int : s = Sine[p.count] /\ s >= 5000
    BY <2>1, SixApart, SinesAreNumbers, p.count \in 2..128
  <2>3. Radius(p.pitch) \div 100 = 2 * p.pitch /\ Radius(p.pin) = 200 * p.pin
    BY <1>1 DEF Radius, Scale
  <2>4. Chord(Radius(p.pitch), p.count) = (2 * (2 * p.pitch) * s) \div 100
    BY <2>2, <2>3 DEF Chord
  <2>5. PICK v \in Int : v = p.pitch * s
    BY <1>1, <2>2
  <2>6. v >= 5000 * p.pitch
    <3>1. 5000 * p.pitch <= s * p.pitch
      BY <1>1, <2>2, MoreTimes
    <3>. QED  BY <1>1, <2>2, <2>5, <3>1
  <2>7. 2 * (2 * p.pitch) * s = 4 * v
    BY <1>1, <2>2, <2>5
  <2>8. (4 * v) \div 100 >= 200 * p.pitch
    BY <1>1, <2>6
  <2>. QED  BY <1>1, <1>2, <2>3, <2>4, <2>7, <2>8
<1>8. ElementsApart("carrier", part)
    BY <1>5, <1>7 DEF ElementsApart
<1>. QED  BY <1>3, <1>4, <1>5, <1>6, <1>8 DEF Fits, PostsClear

LEMMA RingUncut ==
    ASSUME NEW in, NEW out, NEW lo, NEW hi
    PROVE  Ring(in, out, lo, hi).snug = FALSE
BY DEF Ring

LEMMA ToothedIsProper ==
    ASSUME NEW p, p.teeth \in Teeth, p.module \in Modules,
           p.bore \in Bores \cup Outers \cup {0}, ToothedAccepted(p)
    PROVE  Proper(Ring(Radius(p.bore),
                       (Scale * p.module * (2 * p.teeth - 5)) \div 4, 0, Scale))
<1>. DEFINE across == p.module * (2 * p.teeth - 5)
<1>1. /\ p.teeth \in 6..200 /\ p.module \in Nat \ {0} /\ p.bore \in Nat
    BY PartsAssumption DEF ToothedAccepted
<1>2. across \in Int
    BY <1>1
<1>3. Scale * p.module * (2 * p.teeth - 5) = 400 * across
    BY <1>1 DEF Scale
<1>4. 2 * p.bore < across
    BY DEF ToothedAccepted
<1>. HIDE DEF across
<1>5. (400 * across) \div 4 = 100 * across
    BY <1>2
<1>. QED  BY <1>1, <1>2, <1>3, <1>4, <1>5 DEF Proper, Ring, Radius, Scale

LEMMA SpurGearFits ==
    ASSUME NEW p, p.teeth \in Teeth, p.module \in Modules,
           p.bore \in Bores \cup Outers \cup {0}, ToothedAccepted(p)
    PROVE  Fits("spur", Toothed(p))
BY ToothedIsProper, RingUncut, SingleFits DEF Toothed

\* As many sections as the twist asks for, whatever it is.
LEMMA SectionsSuffice ==
    ASSUME NEW t \in Int
    PROVE  /\ Greater(2, (t + 499) \div 500 + 1) \in Int
           /\ t <= 500 * (Greater(2, (t + 499) \div 500 + 1) - 1)
BY DEF Greater

LEMMA HelicalGearFits ==
    ASSUME NEW p, p.teeth \in Teeth, p.module \in Modules,
           p.bore \in Bores \cup Outers \cup {0}, p.thickness \in Widths,
           p.helix \in Helix, ToothedAccepted(p)
    PROVE  Fits("helical", [Toothed(p) EXCEPT !.twist = Twist(p), !.sections = Sections(p)])
<1>. DEFINE gear == Toothed(p)
            part == [gear EXCEPT !.twist = Twist(p), !.sections = Sections(p)]
<1>1. /\ p.teeth \in 6..200 /\ p.module \in Nat \ {0} /\ p.thickness \in Nat
      /\ p.helix \in Nat
    BY PartsAssumption DEF ToothedAccepted, Helix
<1>2. Twist(p) \in Int
  <2>1. p.thickness * p.helix * 1146 \in Int
    BY <1>1
  <2>2. p.module * p.teeth * 1000 \in Nat \ {0}
    BY <1>1
  <2>. QED  BY <2>1, <2>2 DEF Twist
<1>3. Twist(p) <= 500 * (Sections(p) - 1)
  <2>. DEFINE t == Twist(p)
  <2>. HIDE DEF t
  <2>1. t <= 500 * (Greater(2, (t + 499) \div 500 + 1) - 1)
    <3>1. t \in Int
      BY <1>2 DEF t
    <3>. QED  BY <3>1, SectionsSuffice
  <2>. QED  BY <2>1 DEF Sections, t
<1>4. Fits("helical", gear)
    BY ToothedIsProper, RingUncut, SingleFits DEF Toothed
<1>5. /\ part.solids = gear.solids /\ part.n = gear.n /\ part.pitch = gear.pitch
      /\ part.r = gear.r /\ part.lo = gear.lo /\ part.hi = gear.hi
      /\ part.post = gear.post /\ part.channel = gear.channel /\ part.twist = Twist(p) /\ part.sections = Sections(p)
    BY DEF Toothed, Plain, Part
<1>. HIDE DEF gear, part
<1>6. /\ \A s : ElementsClear(gear, s) => ElementsClear(part, s)
      /\ \A s : GrooveBacked(gear, s) => GrooveBacked(part, s)
      /\ \A s : ChannelBacked(gear, s) => ChannelBacked(part, s)
      /\ ElementsApart("helical", gear) => ElementsApart("helical", part)
      /\ PostsClear(gear) => PostsClear(part)
    BY <1>5 DEF ElementsClear, GrooveBacked, ChannelBacked, ElementsApart, PostsClear
<1>7. Fits("helical", part)
    BY <1>3, <1>4, <1>5, <1>6 DEF Fits
<1>. QED  BY <1>7 DEF part, gear

LEMMA InternalGearFits ==
    ASSUME NEW p, p.teeth \in Teeth, p.module \in Modules, p.rim \in Modules
    PROVE  Fits("internal", InternalGear(p))
<1>. DEFINE root == (Scale * (2 * p.module * p.teeth + 5 * p.module)) \div 4
<1>1. p.teeth \in Nat /\ p.module \in Nat \ {0} /\ p.rim \in Nat \ {0}
    BY PartsAssumption DEF Teeth
<1>2. 2 * p.module * p.teeth + 5 * p.module \in Nat
    BY <1>1
<1>3. root \in Nat
    BY <1>2 DEF Scale
<1>. HIDE DEF root
<1>4. Proper(Ring(root, root + Scale * p.rim, 0, Scale))
    BY <1>1, <1>3 DEF Proper, Ring, Scale
<1>. QED  BY <1>4, RingUncut, SingleFits DEF InternalGear, root

LEMMA BacklashFits ==
    ASSUME NEW p, p.module \in Modules, p.backlash \in Modules, BacklashAccepted(p)
    PROVE  Fits("backlash", Thinned(p))
<1>1. p.module \in Nat \ {0} /\ p.backlash \in Nat \ {0}
    BY PartsAssumption
<1>2. PICK x \in Int : x = (15708 * Scale * p.module) \div 10000 - Scale * p.backlash
    BY <1>1 DEF Scale
<1>3. x > 0
    BY <1>1, <1>2 DEF BacklashAccepted, Scale
<1>4. Proper(Ring(0, x, 0, Scale))
    BY <1>3 DEF Proper, Ring, Scale
<1>5. Thinned(p) = Plain({Ring(0, x, 0, Scale)})
    BY <1>2 DEF Thinned
<1>. QED  BY <1>4, <1>5, RingUncut, SingleFits

LEMMA ThreadFits ==
    ASSUME NEW p, p.diameter \in Outers \cup Widths, p.pitch \in Modules,
           p.length \in ThreadLengths, ThreadAccepted(p),
           NEW tool, tool \notin {"ball_bearing", "carrier"}, NEW from \in Int
    PROVE  Fits(tool, Thread(p, from))
<1>. DEFINE root == Minor(p) - (Scale * p.pitch) \div 10
            half == (7 * Scale * p.pitch) \div 16
            turn == from + Scale * p.pitch
            end == from + Scale * p.length
            rim == Radius(p.diameter)
            core == Ring(0, root, from, end)
            first == Ring(root, rim, from - half, from + half)
            second == Ring(root, rim, turn - half, turn + half)
<1>1. p.diameter \in Nat \ {0} /\ p.pitch \in Nat \ {0} /\ p.length \in Nat \ {0}
    BY PartsAssumption DEF ThreadLengths
<1>2. 4 * p.pitch < p.diameter
    BY DEF ThreadAccepted
<1>3. root \in Int /\ rim \in Int /\ 0 < root /\ root < rim
    BY <1>1, <1>2 DEF Minor, Radius, Scale
<1>4. /\ half \in Int /\ turn \in Int /\ end \in Int
      /\ 0 < half /\ from + half <= turn - half /\ from < end
    BY <1>1 DEF Scale
<1>5. Thread(p, from) = Plain({core, first, second})
    BY DEF Thread
<1>. HIDE DEF root, half, turn, end, rim
<1>6. Proper(core) /\ Proper(first) /\ Proper(second)
    BY <1>3, <1>4 DEF Proper, Ring
<1>7. /\ Apart(core, first) /\ Apart(core, second) /\ Apart(first, core)
      /\ Apart(second, core) /\ Apart(first, second) /\ Apart(second, first)
    BY <1>3, <1>4 DEF Apart, Ring
<1>8. core.snug = FALSE /\ first.snug = FALSE /\ second.snug = FALSE
    BY DEF Ring
<1>. HIDE DEF core, first, second
<1>. QED  BY <1>5, <1>6, <1>7, <1>8, PlainFits

LEMMA AnswerFits ==
    ASSUME NEW tool, NEW accepted, NEW part, accepted => Fits(tool, part),
           Answered(tool, accepted, part)
    PROVE  AcceptedPartsFit'
<1>1. answer' = [tool |-> tool, built |-> accepted,
                 part |-> IF accepted THEN part ELSE NoPart]
    BY DEF Answered
<1>2. /\ answer'.built <=> accepted
      /\ answer'.tool = tool /\ (accepted => answer'.part = part)
    BY <1>1, Zenon
<1>. QED  BY <1>2, Zenon DEF AcceptedPartsFit

LEMMA PartsStep ==
    ASSUME AcceptedPartsFit, [PartsNext]_partsVars
    PROVE  AcceptedPartsFit'
<1>1. CASE CreateBallBearing
    BY <1>1, BallBearingFits, AnswerFits, Zenon DEF CreateBallBearing
<1>2. CASE CreateDeepGrooveBallBearing
    BY <1>2, DeepGrooveFits, AnswerFits, Zenon DEF CreateDeepGrooveBallBearing
<1>3. CASE CreateThrustBallBearing
    BY <1>3, ThrustFits, AnswerFits, Zenon DEF CreateThrustBallBearing
<1>4. CASE CreateCylindricalRollerBearing
    BY <1>4, RollerFits, AnswerFits, Zenon DEF CreateCylindricalRollerBearing
<1>5. CASE CreatePrintInPlaceRollerBearing
    BY <1>5, PrintInPlaceFits, AnswerFits, Zenon DEF CreatePrintInPlaceRollerBearing
<1>6. CASE CreatePrintedPlainBushing
    BY <1>6, BushingFits, AnswerFits, Zenon DEF CreatePrintedPlainBushing
<1>7. CASE CreatePlanetaryCarrier
    BY <1>7, CarrierFits, AnswerFits, Zenon DEF CreatePlanetaryCarrier
<1>8. CASE CreateSpurGear
    BY <1>8, SpurGearFits, AnswerFits, Zenon DEF CreateSpurGear
<1>9. CASE CreateHelicalGear
    BY <1>9, HelicalGearFits, AnswerFits, Zenon DEF CreateHelicalGear
<1>10. CASE CreateInternalGear
    BY <1>10, InternalGearFits, AnswerFits, Zenon DEF CreateInternalGear
<1>11. CASE ApplyGearBacklash
    BY <1>11, BacklashFits, AnswerFits, Zenon DEF ApplyGearBacklash
<1>12. CASE CreateExternalThread
    BY <1>12, ThreadFits, AnswerFits, 0 \in Int, "thread" \notin {"ball_bearing", "carrier"}
       DEF CreateExternalThread
<1>13. CASE CreateThreadedHole
  <2>1. PICK p \in [diameter : Outers \cup Widths, pitch : Modules, length : ThreadLengths,
                    height : Widths] :
            Answered("threaded_hole", ThreadedHoleAccepted(p),
                     Thread(p, Scale * (p.height - p.length)))
    BY <1>13, Zenon DEF CreateThreadedHole
  <2>2. /\ p.diameter \in Outers \cup Widths /\ p.pitch \in Modules
        /\ p.length \in ThreadLengths /\ p.height \in Widths
    OBVIOUS
  <2>3. Scale * (p.height - p.length) \in Int
    BY <2>2, PartsAssumption DEF ThreadLengths, Scale
  <2>4. ThreadedHoleAccepted(p) =>
            Fits("threaded_hole", Thread(p, Scale * (p.height - p.length)))
    BY <2>2, <2>3, ThreadFits, "threaded_hole" \notin {"ball_bearing", "carrier"}
       DEF ThreadedHoleAccepted
  <2>. QED  BY <2>1, <2>4, AnswerFits, Zenon
<1>14. CASE ReturnPart
    BY <1>14, Zenon DEF ReturnPart, AcceptedPartsFit, Idle
<1>15. CASE UNCHANGED partsVars
    BY <1>15 DEF partsVars, AcceptedPartsFit
<1>. QED  BY <1>1, <1>2, <1>3, <1>4, <1>5, <1>6, <1>7, <1>8, <1>9, <1>10, <1>11,
              <1>12, <1>13, <1>14, <1>15 DEF PartsNext

(* Whatever the dimensions, a part that a mechanical tool agrees to build   *)
(* has solids with material that do not run into one another or into the    *)
(* rolling elements; the elements of every caged or printed bearing are     *)
(* apart, the balls of a plain ball bearing overlap by less than an eighth  *)
(* of a diameter, and up to six pin holes are apart and inside the disc; a  *)
(* groove of conformity 1.00 and a channel no wider than its wall leave     *)
(* metal behind; a helical gear has sections enough.                        *)
THEOREM PartsFit == PartsSpec => []AcceptedPartsFit
<1>1. PartsInit => AcceptedPartsFit
  <2>1. ~Idle.built
    BY Zenon DEF Idle
  <2>. QED  BY <2>1, Zenon DEF PartsInit, AcceptedPartsFit
<1>2. AcceptedPartsFit /\ [PartsNext]_partsVars => AcceptedPartsFit'
    BY PartsStep
<1>. QED  BY <1>1, <1>2, PTL DEF PartsSpec

-------------------------------------------------------------------------------
(***************************************************************************)
(* Holes, patterns, profiles, paths and measurements: for each tool, what  *)
(* it accepts is what its name says.                                       *)
(***************************************************************************)

LEMMA CutsTold ==
    ASSUME NEW c, NEW t
    PROVE  [Nothing EXCEPT !.cuts = c, !.told = t].cuts = c
BY Zenon DEF Nothing

LEMMA PlacesTold ==
    ASSUME NEW c, NEW t
    PROVE  LET facts == [Nothing EXCEPT !.places = c, !.told = t]
           IN  facts.places = c /\ facts.told = t /\ facts.span = 0
BY Zenon DEF Nothing

LEMMA CutsAndPlacesTold ==
    ASSUME NEW b, NEW c, NEW t
    PROVE  LET facts == [Nothing EXCEPT !.cuts = b, !.places = c, !.told = t]
           IN  facts.cuts = b /\ facts.places = c /\ facts.told = t
BY Zenon DEF Nothing

LEMMA DirectionsTold ==
    ASSUME NEW b, NEW c, NEW t
    PROVE  LET facts == [Nothing EXCEPT !.places = b, !.told = c, !.span = t]
           IN  facts.places = b /\ facts.told = c /\ facts.span = t
BY Zenon DEF Nothing

LEMMA PiecesTold ==
    ASSUME NEW b, NEW c, NEW t
    PROVE  LET facts == [Nothing EXCEPT !.pieces = b, !.told = c, !.span = t]
           IN  facts.pieces = b /\ facts.told = c /\ facts.span = t
BY Zenon DEF Nothing

LEMMA BarsTold ==
    ASSUME NEW b, NEW c, NEW t
    PROVE  LET facts == [Nothing EXCEPT !.bars = b, !.told = c, !.span = t]
           IN  facts.bars = b /\ facts.span = t
BY Zenon DEF Nothing

LEMMA VerdictTold ==
    ASSUME NEW b, NEW c, NEW t
    PROVE  /\ [Nothing EXCEPT !.bars = b, !.span = c, !.verdict = t].bars = b
           /\ [Nothing EXCEPT !.bars = b, !.span = c, !.verdict = t].span = c
           /\ [Nothing EXCEPT !.bars = b, !.span = c, !.verdict = t].verdict = t
           /\ [Nothing EXCEPT !.bars = b, !.told = c, !.verdict = t].bars = b
           /\ [Nothing EXCEPT !.bars = b, !.told = c, !.verdict = t].verdict = t
BY Zenon DEF Nothing

LEMMA ThroughCutsOpen ==
    ASSUME NEW place, NEW radius, NEW height \in Nat
    PROVE  LET cut == ThroughCut(place, radius, height)
           IN  /\ cut.lo < 0 /\ cut.hi > height /\ cut.top = radius /\ cut.radius = radius
               /\ ~(cut.lo >= 0)
               /\ Meets(cut, height) => Opens(cut, height)
<1>1. Margin(height) \in Nat /\ Margin(height) > 0
    BY DEF Margin, Larger
<1>. DEFINE cut == ThroughCut(place, radius, height)
<1>2. cut.lo < 0 /\ cut.hi > height /\ cut.top = radius /\ cut.radius = radius /\ ~(cut.lo >= 0)
    BY <1>1 DEF ThroughCut, Cut
<1>. HIDE DEF cut
<1>3. Meets(cut, height) => Opens(cut, height)
    BY <1>2, Zenon DEF Opens
<1>. QED  BY <1>2, <1>3 DEF cut

\* Equal drills: the one that was found to cut opens on both faces.
LEMMA DrillsOpen ==
    ASSUME NEW places, NEW radius \in Nat, NEW height \in Nat, NEW facts,
           facts.cuts = HoleCuts(places, radius, NoWindow, height),
           HoleCutChecked(facts.cuts, height)
    PROVE  /\ HolesOpen(facts, height)
           /\ \E cut \in facts.cuts : Opens(cut, height)
<1>1. facts.cuts = {ThroughCut(place, radius, height) : place \in places}
    BY Zenon DEF HoleCuts
<1>2. \A cut \in facts.cuts :
          /\ cut.lo < 0 /\ cut.hi > height /\ cut.top = radius
          /\ Meets(cut, height) => Opens(cut, height)
  <2>. SUFFICES ASSUME NEW place \in places
                PROVE  LET cut == ThroughCut(place, radius, height)
                       IN  /\ cut.lo < 0 /\ cut.hi > height /\ cut.top = radius
                           /\ Meets(cut, height) => Opens(cut, height)
    BY <1>1, Zenon
  <2>. QED  BY ThroughCutsOpen
<1>3. PICK drill \in facts.cuts : Meets(drill, height)
    BY Zenon DEF HoleCutChecked
<1>4. \A cut \in facts.cuts : cut.top <= drill.top
    BY <1>2
<1>. QED  BY <1>2, <1>3, <1>4, Zenon DEF HolesOpen

LEMMA ThroughHoleFits ==
    ASSUME NEW height \in Heights, NEW radius \in Radii, NEW x,
           HoleCutChecked(HoleCuts({<<x, x>>}, radius, NoWindow, height), height)
    PROVE  Sound("through_hole", height,
                 [Nothing EXCEPT !.cuts = HoleCuts({<<x, x>>}, radius, NoWindow, height),
                                 !.told = 1])
<1>. DEFINE facts == [Nothing EXCEPT !.cuts = HoleCuts({<<x, x>>}, radius, NoWindow, height),
                                     !.told = 1]
<1>1. height \in Nat /\ radius \in Nat
    BY FeaturesAssumption
<1>2. facts.cuts = HoleCuts({<<x, x>>}, radius, NoWindow, height)
    BY CutsTold
<1>. HIDE DEF facts
<1>3. HolesOpen(facts, height) /\ \E cut \in facts.cuts : Opens(cut, height)
    BY <1>1, <1>2, DrillsOpen
<1>. QED  BY <1>3 DEF Sound, facts

LEMMA CounterboreFits ==
    ASSUME NEW height \in Heights, NEW radius \in Radii, NEW recess \in Radii,
           NEW depth \in Offsets, NEW x, depth > 0, radius < recess, depth < height
    PROVE  LET cuts == {ThroughCut(<<x, x>>, radius, height),
                     Cut(<<x, x>>, recess, recess, height - depth, height + Margin(height))}
           IN  HoleCutChecked(cuts, height) =>
                   Sound("counterbore_hole", height,
                         [Nothing EXCEPT !.cuts = cuts, !.told = 1])
<1>. DEFINE through == ThroughCut(<<x, x>>, radius, height)
            seat == Cut(<<x, x>>, recess, recess, height - depth, height + Margin(height))
            facts == [Nothing EXCEPT !.cuts = {through, seat}, !.told = 1]
<1>. SUFFICES ASSUME HoleCutChecked({through, seat}, height)
              PROVE  Sound("counterbore_hole", height, facts)
    OBVIOUS
<1>1. height \in Nat /\ radius \in Nat /\ recess \in Nat /\ depth \in Int
    BY FeaturesAssumption
<1>2. facts.cuts = {through, seat}
    BY CutsTold
<1>3. /\ through.lo < 0 /\ through.hi > height /\ through.radius = radius
      /\ through.top = radius
    BY <1>1, ThroughCutsOpen
<1>0. Meets(through, height) => Opens(through, height)
    BY <1>1, ThroughCutsOpen
<1>4. /\ seat.lo \in Int /\ 0 < seat.lo /\ seat.hi > height /\ seat.top = recess
  <2>1. Margin(height) \in Nat /\ Margin(height) > 0
    BY <1>1 DEF Margin, Larger
  <2>. QED  BY <1>1, <2>1 DEF Cut
<1>. HIDE DEF through, seat, facts
<1>5. HolesOpen(facts, height)
  <2>1. \E cut \in facts.cuts : Meets(cut, height)
    BY <1>2, Zenon DEF HoleCutChecked
  <2>2. /\ ~(seat.lo < 0) /\ through.radius < seat.top
        /\ through.top <= seat.top /\ seat.top <= seat.top
    BY <1>1, <1>3, <1>4
  <2>. QED  BY <1>0, <1>2, <1>3, <1>4, <2>1, <2>2, Zenon DEF HolesOpen
<1>. QED  BY <1>5 DEF Sound, facts, through, seat

LEMMA CountersinkFits ==
    ASSUME NEW height \in Heights, NEW radius \in Radii, NEW recess \in Radii,
           NEW depth \in Int, NEW x, radius < recess, depth < height
    PROVE  LET cuts == {ThroughCut(<<x, x>>, radius, height),
                     Cut(<<x, x>>, radius, recess, height - depth, height),
                     Cut(<<x, x>>, recess, recess, height, height + Margin(height))}
           IN  HoleCutChecked(cuts, height) =>
                   Sound("countersunk_hole", height,
                         [Nothing EXCEPT !.cuts = cuts, !.told = 1])
<1>. DEFINE through == ThroughCut(<<x, x>>, radius, height)
            cone == Cut(<<x, x>>, radius, recess, height - depth, height)
            above == Cut(<<x, x>>, recess, recess, height, height + Margin(height))
            facts == [Nothing EXCEPT !.cuts = {through, cone, above}, !.told = 1]
<1>. SUFFICES ASSUME HoleCutChecked({through, cone, above}, height)
              PROVE  Sound("countersunk_hole", height, facts)
    OBVIOUS
<1>1. height \in Nat \ {0} /\ radius \in Nat /\ recess \in Nat
    BY FeaturesAssumption
<1>2. facts.cuts = {through, cone, above}
    BY CutsTold
<1>3. /\ through.lo < 0 /\ through.hi > height /\ through.radius = radius
      /\ through.top = radius
    BY <1>1, ThroughCutsOpen
<1>0. Meets(through, height) => Opens(through, height)
    BY <1>1, ThroughCutsOpen
<1>4. /\ cone.lo \in Int /\ 0 < cone.lo /\ cone.top = recess
      /\ above.lo \in Int /\ 0 < above.lo /\ above.hi > height /\ above.top = recess
  <2>1. Margin(height) \in Nat /\ Margin(height) > 0
    BY <1>1 DEF Margin, Larger
  <2>. QED  BY <1>1, <2>1 DEF Cut
<1>. HIDE DEF through, cone, above, facts
<1>5. HolesOpen(facts, height)
  <2>1. \E cut \in facts.cuts : Meets(cut, height)
    BY <1>2, Zenon DEF HoleCutChecked
  <2>2. /\ ~(cone.lo < 0) /\ through.radius < cone.top
        /\ ~(above.lo < 0) /\ through.radius < above.top
        /\ through.top <= above.top /\ cone.top <= above.top /\ above.top <= above.top
    BY <1>1, <1>3, <1>4
  <2>. QED  BY <1>0, <1>2, <1>3, <1>4, <2>1, <2>2, Zenon DEF HolesOpen
<1>. QED  BY <1>5 DEF Sound, facts, through, cone, above

LEMMA RevolvedFits ==
    ASSUME NEW lo \in Offsets, NEW hi \in Offsets, ~(lo < 0 /\ hi > 0)
    PROVE  Sound("revolve", 0, [Nothing EXCEPT !.bars = {<<lo, hi>>}])
<1>1. lo \in Int /\ hi \in Int
    BY FeaturesAssumption
<1>2. [Nothing EXCEPT !.bars = {<<lo, hi>>}].bars = {<<lo, hi>>}
    BY Zenon DEF Nothing
<1>3. \A bar \in {<<lo, hi>>} : bar[1] >= 0 \/ bar[2] <= 0
    BY <1>1
<1>. HIDE DEF Nothing
<1>. QED  BY <1>2, <1>3 DEF Sound

LEMMA SectionFits ==
    ASSUME NEW axis \in 1..3, NEW flip \in BOOLEAN
    PROVE  LET z == CameraZ(axis, flip)
               x == Cross(Axis[3], z)
           IN  Sound("section", 0,
                     [Nothing EXCEPT !.places = <<SectionNormal(axis, flip), x, Cross(z, x), z>>])
<1>. DEFINE z == CameraZ(axis, flip)
            x == Cross(Axis[3], z)
            axes == <<SectionNormal(axis, flip), x, Cross(z, x), z>>
            facts == [Nothing EXCEPT !.places = axes]
<1>1. facts.places = axes
    BY Zenon DEF Nothing
<1>2. CameraFacesCut(axes)
  <2>. DEFINE w == SectionNormal(axis, flip)
              y == Cross(z, x)
  <2>1. /\ x[1] = 0 - z[2] /\ x[2] = z[1] /\ x[3] = 0
        /\ y[1] = z[2] * x[3] - z[3] * x[2] /\ y[2] = z[3] * x[1] - z[1] * x[3]
        /\ y[3] = z[1] * x[2] - z[2] * x[1]
        /\ z[1] \in {1, 0 - 1} /\ z[2] \in {1, 0 - 1} /\ z[3] \in {1, 0 - 1}
    BY SMTT(30), ZenonT(20) DEF Cross, Axis, CameraZ
  <2>2. Dot(z, w) > 0
    <3>1. CASE axis = 1
      BY <3>1 DEF Dot, SectionNormal, Scaled, Axis, CameraZ
    <3>2. CASE axis = 2
      BY <3>2 DEF Dot, SectionNormal, Scaled, Axis, CameraZ
    <3>3. CASE axis = 3
      BY <3>3 DEF Dot, SectionNormal, Scaled, Axis, CameraZ
    <3>. QED  BY <3>1, <3>2, <3>3
  <2>. HIDE DEF w, x, y, z
  <2>3. Dot(x, z) = 0 /\ Dot(y, z) = 0 /\ Dot(x, y) = 0 /\ Dot(Cross(x, y), z) > 0
        /\ x[3] = 0 /\ y[3] > 0
    BY <2>1 DEF Dot, Cross
  <2>. QED  BY <2>2, <2>3 DEF CameraFacesCut, w, y
<1>. HIDE DEF axes, facts
<1>. QED  BY <1>1, <1>2 DEF Sound, facts, axes, x, z

LEMMA Quotient ==
    ASSUME NEW n \in Int, NEW d \in Nat \ {0}
    PROVE  /\ n \div d \in Int /\ n % d \in 0..(d - 1)
           /\ n % d = n - (n \div d) * d
<1>1. n \div d \in Int
    OBVIOUS
<1>2. n % d \in Int /\ 0 <= n % d /\ n % d < d
    OBVIOUS
<1>3. n % d = n - (n \div d) * d
    BY Z3
<1>. QED  BY <1>1, <1>2, <1>3

\* What is shared out equally is not more than there was.
LEMMA EqualShares ==
    ASSUME NEW d \in Nat \ {0}, NEW n \in Nat, d <= n
    PROVE  /\ n \div d \in Nat \ {0} /\ d * (n \div d) \in 0..n
           /\ n < d * (n \div d) + d
<1>1. PICK q \in Int : q = n \div d
    BY Quotient
<1>2. n % d = n - q * d /\ n % d \in 0..(d - 1)
    BY <1>1, Quotient
<1>3. PICK r \in 0..(d - 1) : r = n - q * d
    BY <1>2
<1>4. q * d = d * q /\ d * q \in Int
    BY <1>1
<1>5. d * q \in 0..n
    <2>1. PICK t \in Int : t = d * q
        BY <1>4
    <2>2. ASSUME t < 0 PROVE FALSE
        <3>1. r >= n + 1
            BY <1>3, <1>4, <2>1, <2>2
        <3>. QED  BY <3>1
    <2>. QED  BY <1>3, <1>4, <2>1, <2>2
<1>6. q >= 1
    BY <1>3, <1>4
<1>7. n < d * q + d
    BY <1>3, <1>4
<1>. QED  BY <1>1, <1>5, <1>6, <1>7

LEMMA SameQuotient ==
    ASSUME NEW n \in Int, NEW m \in Int, NEW d \in Nat \ {0},
           n % d = m % d, n \div d = m \div d
    PROVE  n = m
<1>1. n % d = n - (n \div d) * d /\ m % d = m - (m \div d) * d
    BY Quotient
<1>2. n \div d \in Int /\ (n \div d) * d \in Int
    BY Quotient
<1>. QED  BY <1>1, <1>2

LEMMA Cancel ==
    ASSUME NEW a \in Int, NEW b \in Int, NEW d \in Nat \ {0}, a * d = b * d
    PROVE  a = b
OBVIOUS

LEMMA CancelFrom ==
    ASSUME NEW o \in Int, NEW a \in Int, NEW b \in Int, NEW d \in Nat \ {0},
           o + a * d = o + b * d
    PROVE  a = b
<1>1. PICK x \in Int : x = a * d
    OBVIOUS
<1>2. PICK y \in Int : y = b * d
    OBVIOUS
<1>3. x = y
    BY <1>1, <1>2
<1>. QED  BY <1>1, <1>2, <1>3, Cancel

LEMMA Monotone ==
    ASSUME NEW a \in Int, NEW b \in Int, NEW d \in Nat, a <= b
    PROVE  a * d <= b * d
OBVIOUS

\* A step of at least the divisor reaches the next quotient.
LEMMA QuotientsGrow ==
    ASSUME NEW n \in Int, NEW m \in Int, NEW d \in Nat \ {0}, n + d <= m
    PROVE  n \div d < m \div d
OBVIOUS
LEMMA QuotientBound ==
    ASSUME NEW n \in Int, NEW q \in Int, NEW d \in Nat \ {0}, n < d * q
    PROVE  n \div d < q
OBVIOUS

LEMMA GridFits ==
    ASSUME NEW rows \in Numbers \ {0, 1}, NEW columns \in Numbers \ {0},
           NEW sx \in Radii, NEW sy \in Radii, NEW origin \in Offsets, NEW height \in Heights
    PROVE  LET places == GridPlaces(rows, columns, sx, sy, origin)
               cuts == HoleCuts({places[k] : k \in DOMAIN places}, 5, NoWindow, height)
           IN  HoleCutChecked(cuts, height) =>
                   Sound("rectangular_hole_pattern", height,
                         [Nothing EXCEPT !.cuts = cuts, !.places = places,
                                         !.told = rows * columns])
<1>. DEFINE places == GridPlaces(rows, columns, sx, sy, origin)
            cuts == HoleCuts({places[k] : k \in DOMAIN places}, 5, NoWindow, height)
            facts == [Nothing EXCEPT !.cuts = cuts, !.places = places,
                                     !.told = rows * columns]
<1>1. /\ rows \in Nat \ {0} /\ columns \in Nat \ {0} /\ sx \in Nat \ {0} /\ sy \in Nat \ {0}
      /\ origin \in Int
  <2>1. \A n \in Numbers : n \in Nat
    BY FeaturesAssumption
  <2>2. \A n \in Radii : n \in Nat \ {0}
    BY FeaturesAssumption
  <2>3. \A n \in Offsets : n \in Int
    BY FeaturesAssumption
  <2>. QED  BY <2>1, <2>2, <2>3
<1>2. rows * columns \in Nat
    BY <1>1
<1>. SUFFICES ASSUME HoleCutChecked(cuts, height)
              PROVE  Sound("rectangular_hole_pattern", height, facts)
    OBVIOUS
<1>3. facts.cuts = cuts /\ facts.places = places /\ facts.told = rows * columns
    BY CutsAndPlacesTold
<1>4. DOMAIN places = 1..(rows * columns) /\ Len(places) = rows * columns
  <2>. DEFINE n == rows * columns
  <2>1. places = [k \in 1..n |->
                     <<origin + ((k - 1) % columns) * sx, origin + ((k - 1) \div columns) * sy>>]
    BY DEF GridPlaces
  <2>0. n \in Nat
    BY <1>2
  <2>. HIDE DEF n, places
  <2>2. DOMAIN places = 1..n
    BY <2>1
  <2>3. Len(places) = n
    BY <2>0, <2>1
  <2>. QED  BY <2>2, <2>3 DEF n
<1>5. Distinct(places)
  <2>. SUFFICES ASSUME NEW j \in 1..(rows * columns), NEW k \in 1..(rows * columns),
                       places[j] = places[k]
                PROVE  j = k
    BY <1>4 DEF Distinct
  <2>0. places[j] = places[k]
    OBVIOUS
  <2>1. j - 1 \in Int /\ k - 1 \in Int
    BY <1>2
  <2>2. /\ (j - 1) % columns \in Int /\ (j - 1) \div columns \in Int
        /\ (k - 1) % columns \in Int /\ (k - 1) \div columns \in Int
    BY <1>1, <2>1
  <2>. DEFINE a == (j - 1) % columns
              b == (j - 1) \div columns
              c == (k - 1) % columns
              d == (k - 1) \div columns
  <2>3. places[j] = <<origin + a * sx, origin + b * sy>>
    BY DEF GridPlaces
  <2>4. places[k] = <<origin + c * sx, origin + d * sy>>
    BY DEF GridPlaces
  <2>5. a \in Int /\ b \in Int /\ c \in Int /\ d \in Int
    BY <2>2
  <2>. HIDE DEF a, b, c, d, places
  <2>6. <<origin + a * sx, origin + b * sy>> = <<origin + c * sx, origin + d * sy>>
    BY <2>0, <2>3, <2>4
  <2>7. origin + a * sx = origin + c * sx /\ origin + b * sy = origin + d * sy
    BY <2>6, Zenon
  <2>9. a = c /\ b = d
    BY <1>1, <2>5, <2>7, CancelFrom
  <2>10. j - 1 = k - 1
    BY <1>1, <2>1, <2>9, SameQuotient DEF a, b, c, d
  <2>. QED  BY <1>2, <2>10
<1>6. HolesOpen(facts, height) /\ \E cut \in facts.cuts : Opens(cut, height)
  <2>1. height \in Nat /\ 5 \in Nat
    BY FeaturesAssumption
  <2>. HIDE DEF places, facts
  <2>. QED  BY <1>3, <2>1, DrillsOpen
<1>. HIDE DEF places, facts, cuts
<1>. QED  BY <1>3, <1>4, <1>5, <1>6 DEF Sound, facts, places, cuts

CirclePlaces(count, start) ==
    [k \in 1..count |-> (Hundredths(start) + ((k - 1) * FullTurn) \div count) % FullTurn]

CircleCuts(places, pitch, radius, height) ==
    HoleCuts({Around(pitch, places[k]) : k \in DOMAIN places}, radius, NoWindow, height)

LEMMA CircleFits ==
    ASSUME NEW count \in Numbers \ {0}, NEW start \in Angles, count <= 64,
           NEW height \in Heights, NEW radius \in Radii, NEW pitch,
           HoleCutChecked(CircleCuts(CirclePlaces(count, start), pitch, radius, height), height)
    PROVE  LET places == CirclePlaces(count, start)
           IN  Sound("circular_hole_pattern", height,
                     [Nothing EXCEPT !.cuts = CircleCuts(places, pitch, radius, height),
                                     !.places = places, !.told = count])
<1>. DEFINE turned(k) == ((k - 1) * FullTurn) \div count
            places == [k \in 1..count |-> (Hundredths(start) + turned(k)) % FullTurn]
            cuts == HoleCuts({Around(pitch, places[k]) : k \in DOMAIN places},
                             radius, NoWindow, height)
            facts == [Nothing EXCEPT !.cuts = cuts, !.places = places, !.told = count]
<1>. SUFFICES ASSUME HoleCutChecked(cuts, height)
              PROVE  Sound("circular_hole_pattern", height, facts)
    BY Zenon DEF CirclePlaces, CircleCuts
<1>1. count \in Nat \ {0} /\ Hundredths(start) \in Int /\ FullTurn = 36000
    BY FeaturesAssumption DEF Hundredths, FullTurn
<1>2. facts.cuts = cuts /\ facts.places = places /\ facts.told = count
    BY CutsAndPlacesTold
<1>3. Len(places) = count /\ DOMAIN places = 1..count
  <2>1. count \in Nat
    BY <1>1
  <2>. HIDE DEF turned
  <2>. QED  BY <2>1
<1>4. \A k \in 1..count : turned(k) \in Int /\ 0 <= turned(k) /\ turned(k) < FullTurn
  <2>. TAKE k \in 1..count
  <2>1. (k - 1) * FullTurn \in Nat /\ (k - 1) * FullTurn < count * FullTurn
    BY <1>1
  <2>2. turned(k) \in Int /\ 0 <= turned(k)
    BY <1>1, <2>1
  <2>. QED  BY <1>1, <2>1, <2>2, QuotientBound
<1>5. \A j, k \in 1..count : j < k => turned(j) < turned(k)
  <2>. TAKE j, k \in 1..count
  <2>. HAVE j < k
  <2>1. (j - 1) * FullTurn \in Int /\ (k - 1) * FullTurn \in Int
        /\ (j - 1) * FullTurn + count <= (k - 1) * FullTurn
    BY <1>1
  <2>. QED  BY <1>1, <2>1, QuotientsGrow
<1>6. Distinct(places)
  <2>. SUFFICES ASSUME NEW j \in 1..count, NEW k \in 1..count, places[j] = places[k]
                PROVE  j = k
    BY <1>3 DEF Distinct
  <2>1. (Hundredths(start) + turned(j)) % FullTurn = (Hundredths(start) + turned(k)) % FullTurn
    OBVIOUS
  <2>2. PICK a \in Int, b \in Int : a = turned(j) /\ b = turned(k) /\ 0 <= a /\ 0 <= b
                                    /\ a < FullTurn /\ b < FullTurn
                                    /\ (j < k => a < b) /\ (k < j => b < a)
    BY <1>4, <1>5
  <2>. HIDE DEF turned
  <2>3. PICK s \in Int : s = Hundredths(start)
    BY <1>1
  <2>4. (s + a) % 36000 = (s + b) % 36000
    BY <1>1, <2>1, <2>2, <2>3
  <2>5. a = b
    BY <1>1, <2>2, <2>4
  <2>6. ~(j < k) /\ ~(k < j)
    BY <2>2, <2>5
  <2>. QED  BY <1>1, <2>6
<1>7. HolesOpen(facts, height) /\ \E cut \in facts.cuts : Opens(cut, height)
  <2>0. height \in Heights /\ radius \in Radii
    OBVIOUS
  <2>. HIDE DEF places, facts, cuts, turned
  <2>1. height \in Nat /\ radius \in Nat
    BY <2>0, FeaturesAssumption
  <2>. USE DEF cuts
  <2>. HIDE DEF places, facts
  <2>. QED  BY <1>2, <2>1, DrillsOpen
<1>. HIDE DEF places, facts, cuts
<1>. QED  BY <1>2, <1>3, <1>6, <1>7 DEF Sound, facts, places, cuts, turned

LEMMA LineFits ==
    ASSUME NEW count \in Numbers, NEW spacing \in Radii
    PROVE  Sound("linear_pattern", 0,
                 [Nothing EXCEPT !.places = [k \in 1..count |-> (k - 1) * spacing],
                                 !.told = count])
<1>. DEFINE places == [k \in 1..count |-> (k - 1) * spacing]
            facts == [Nothing EXCEPT !.places = places, !.told = count]
<1>1. count \in Nat /\ spacing \in Nat \ {0}
  <2>1. count \in 1..128
    BY FeaturesAssumption
  <2>2. spacing \in Nat \ {0}
    BY FeaturesAssumption
  <2>. QED  BY <2>1, <2>2
<1>2. facts.places = places /\ facts.told = count
    BY PlacesTold
<1>3. Len(places) = count /\ DOMAIN places = 1..count
  <2>1. count \in Nat
    BY <1>1
  <2>. QED  BY <2>1
<1>4. Distinct(places)
  <2>. SUFFICES ASSUME NEW j \in 1..count, NEW k \in 1..count, places[j] = places[k]
                PROVE  j = k
    BY <1>3 DEF Distinct
  <2>1. (j - 1) * spacing = (k - 1) * spacing
    OBVIOUS
  <2>2. j - 1 \in Int /\ k - 1 \in Int
    BY <1>1
  <2>3. j - 1 = k - 1
    BY <1>1, <2>1, <2>2, Cancel
  <2>. QED  BY <1>1, <2>3
<1>. HIDE DEF places, facts
<1>. QED  BY <1>2, <1>3, <1>4 DEF Sound, facts, places

\* The gaps between the instances of an arc, in hundredths of a degree.
LEMMA ArcShared ==
    ASSUME NEW count \in 2..64, NEW angle \in 1..359, NEW step,
           step = (100 * angle) \div (count - 1)
    PROVE  /\ step \in Nat \ {0}
           /\ (count - 1) * step \in 0..(100 * angle)
           /\ 100 * angle < (count - 1) * step + (count - 1)
<1>1. PICK gaps \in Nat \ {0} : gaps = count - 1
  OBVIOUS
<1>2. PICK arc \in Nat : arc = 100 * angle
  OBVIOUS
<1>3. gaps <= arc
  BY <1>1, <1>2
<1>4. step = arc \div gaps
  BY <1>1, <1>2
<1>5. /\ arc \div gaps \in Nat \ {0} /\ gaps * (arc \div gaps) \in 0..arc
      /\ arc < gaps * (arc \div gaps) + gaps
  BY ONLY <1>3, gaps \in Nat \ {0}, arc \in Nat, EqualShares
<1>. QED  BY ONLY <1>1, <1>2, <1>4, <1>5

LEMMA TurnFits ==
    ASSUME NEW count \in Numbers, NEW angle \in Angles,
           PatternCountChecked(count), angle \in 1..360
    PROVE  Sound("polar_pattern", 0,
                 [Nothing EXCEPT
                      !.places = [k \in 1..count |->
                                     ((k - 1) * PolarStep(angle, count)) % FullTurn],
                      !.told = count,
                      !.span = IF angle = 360 THEN 0 ELSE Hundredths(angle)])
<1>. DEFINE step == PolarStep(angle, count)
            span == IF angle = 360 THEN 0 ELSE Hundredths(angle)
            places == [k \in 1..count |-> ((k - 1) * step) % FullTurn]
            facts == [Nothing EXCEPT !.places = places, !.told = count, !.span = span]
<1>1. count \in 2..64 /\ angle \in 1..360 /\ FullTurn = 36000
    BY DEF PatternCountChecked, FullTurn, Hundredths
<1>2. facts.places = places /\ facts.told = count /\ facts.span = span
    BY DirectionsTold
<1>3. Len(places) = count /\ DOMAIN places = 1..count
  <2>1. count \in Nat
    BY <1>1
  <2>. HIDE DEF step
  <2>. QED  BY <2>1
\* The last instance stays short of a full turn, and of the arc by less than one
\* hundredth of a degree for each gap.
<1>4. /\ step \in Nat \ {0} /\ (count - 1) * step < FullTurn
      /\ angle # 360 => /\ (count - 1) * step <= 100 * angle
                        /\ 100 * angle < (count - 1) * step + (count - 1)
  <2>1. CASE angle = 360
    <3>1. step = 36000 \div count
      BY <2>1, <1>1 DEF PolarStep
    <3>. DEFINE q == 36000 \div count
    <3>2. q \in Int /\ 36000 % count = 36000 - q * count /\ 36000 % count \in 0..(count - 1)
      <4>1. PICK t \in Int : t = 36000
        OBVIOUS
      <4>2. count \in Nat \ {0}
        BY <1>1
      <4>3. t \div count \in Int /\ t % count = t - (t \div count) * count
            /\ t % count \in 0..(count - 1)
        BY <4>2, Quotient
      <4>. QED  BY <4>1, <4>3
    <3>3. PICK r \in 0..(count - 1) : r = 36000 - q * count
      BY <3>2
    <3>. HIDE DEF q
    <3>4. q >= 1
      BY <1>1, <3>2, <3>3
    <3>5. (count - 1) * q = q * count - q
      BY <1>1, <3>2
    <3>6. q * count \in Int
      BY <1>1, <3>2
    <3>7. (count - 1) * q < 36000
      BY <1>1, <3>2, <3>3, <3>4, <3>5, <3>6
    <3>. QED  BY <1>1, <2>1, <3>1, <3>2, <3>4, <3>7 DEF q
  <2>2. CASE angle # 360
    <3>1. step = (100 * angle) \div (count - 1)
      BY <2>2 DEF PolarStep, Hundredths
    <3>2. count \in 2..64 /\ angle \in 1..359
      BY <1>1, <2>2
    <3>. HIDE DEF step, places, facts, span
    <3>3. /\ step \in Nat \ {0}
          /\ (count - 1) * step \in 0..(100 * angle)
          /\ 100 * angle < (count - 1) * step + (count - 1)
      BY ONLY <3>1, <3>2, ArcShared, SMTT(30), ZenonT(20)
    <3>4. PICK covered : covered = (count - 1) * step
      OBVIOUS
    <3>5. /\ covered \in 0..(100 * angle) /\ 100 * angle < covered + (count - 1)
      BY ONLY <3>3, <3>4
    <3>6. covered <= 100 * angle /\ covered < 36000
      BY ONLY <3>2, <3>5
    <3>. QED  BY ONLY <1>1, <3>3, <3>4, <3>5, <3>6
  <2>. QED  BY <2>1, <2>2
<1>. HIDE DEF step
<1>5. \A k \in 1..count : /\ (k - 1) * step \in Int /\ 0 <= (k - 1) * step
                          /\ (k - 1) * step <= (count - 1) * step
  <2>. TAKE k \in 1..count
  <2>1. k - 1 \in Int /\ count - 1 \in Int /\ k - 1 <= count - 1 /\ 0 <= k - 1
    BY <1>1
  <2>2. (k - 1) * step <= (count - 1) * step
    BY <1>4, <2>1, Monotone
  <2>. QED  BY <1>4, <2>1, <2>2
<1>6. \A k \in 1..count : places[k] = (k - 1) * step
  <2>. TAKE k \in 1..count
  <2>1. PICK a \in Int : a = (k - 1) * step /\ 0 <= a /\ a < 36000
    BY <1>1, <1>4, <1>5
  <2>2. a % 36000 = a
    BY <2>1
  <2>3. places[k] = a % 36000
    BY <1>1, <2>1
  <2>. QED  BY <2>1, <2>2, <2>3
<1>. HIDE DEF places
<1>7. Distinct(places)
  <2>. SUFFICES ASSUME NEW j \in 1..count, NEW k \in 1..count, places[j] = places[k]
                PROVE  j = k
    BY <1>3 DEF Distinct
  <2>1. (j - 1) * step = (k - 1) * step /\ j - 1 \in Int /\ k - 1 \in Int
    BY <1>1, <1>6
  <2>2. j - 1 = k - 1
    BY <1>4, <2>1, Cancel
  <2>. QED  BY <1>1, <2>2
<1>8. span > 0 => Distance(places[count], span) < count
  <2>1. places[count] = (count - 1) * step
    BY <1>1, <1>6
  <2>2. PICK a \in Int : a = (count - 1) * step
    BY <1>1, <1>5
  <2>3. angle # 360 => a <= 100 * angle /\ 100 * angle < a + (count - 1)
    BY <1>4, <2>2
  <2>. QED  BY <1>1, <2>1, <2>2, <2>3 DEF Distance, Hundredths
<1>. HIDE DEF span, facts
<1>. QED
  <2>1. facts.span > 0 => Distance(facts.places[facts.told], facts.span) < facts.told
    BY <1>2, <1>8
  <2>2. Distinct(facts.places) /\ Len(facts.places) = facts.told
    BY <1>2, <1>3, <1>7
  <2>3. Sound("polar_pattern", 0, facts)
    BY <2>1, <2>2 DEF Sound
  <2>. QED  BY <2>3 DEF facts, places, span, step

LEMMA FewAreFew ==
    ASSUME NEW x, NEW y
    PROVE  Cardinality({x}) = 1 /\ Cardinality({x, y}) \in Nat /\ Cardinality({x, y}) <= 2
<1>1. IsFiniteSet({x}) /\ Cardinality({x}) = 1
    BY FS_Singleton
<1>2. Cardinality({x} \cup {y}) = IF y \in {x} THEN Cardinality({x}) ELSE Cardinality({x}) + 1
    BY <1>1, FS_AddElement
<1>3. {x} \cup {y} = {x, y}
    OBVIOUS
<1>. QED  BY <1>1, <1>2, <1>3

LEMMA LoftFits ==
    ASSUME NEW n \in 1..3, NEW sketches \in [1..n -> 1..3], Len(sketches) >= 2,
           Cardinality({sketches[k] : k \in DOMAIN sketches}) = Len(sketches)
    PROVE  Sound("loft", 0, [Nothing EXCEPT !.places = sketches, !.told = Len(sketches)])
<1>. DEFINE facts == [Nothing EXCEPT !.places = sketches, !.told = Len(sketches)]
<1>1. facts.places = sketches /\ facts.told = Len(sketches)
    BY PlacesTold
<1>2. Len(sketches) = n /\ DOMAIN sketches = 1..n
    OBVIOUS
<1>3. Distinct(sketches)
  <2>1. n \in {2, 3}
    BY <1>2
  <2>2. CASE n = 2
    <3>1. {sketches[k] : k \in 1..2} = {sketches[1], sketches[2]}
      OBVIOUS
    <3>2. sketches[1] # sketches[2]
      <4>1. SUFFICES ASSUME sketches[1] = sketches[2] PROVE FALSE
        OBVIOUS
      <4>2. {sketches[k] : k \in 1..2} = {sketches[1]}
        BY <3>1, <4>1
      <4>3. Cardinality({sketches[1]}) = 1
        BY FewAreFew
      <4>4. Cardinality({sketches[k] : k \in 1..2}) = 2
        BY <1>2, <2>2
      <4>5. Cardinality({sketches[k] : k \in 1..2}) = 1
        BY <4>2, <4>3, Zenon
      <4>. QED  BY <4>4, <4>5
    <3>. QED  BY <1>2, <2>2, <3>2 DEF Distinct
  <2>3. CASE n = 3
    <3>1. {sketches[k] : k \in 1..3} = {sketches[1], sketches[2], sketches[3]}
      OBVIOUS
    <3>2. \A a, b : {sketches[1], sketches[2], sketches[3]} # {a, b}
      <4>1. SUFFICES ASSUME NEW a, NEW b, {sketches[1], sketches[2], sketches[3]} = {a, b}
                     PROVE FALSE
        OBVIOUS
      <4>2. Cardinality({a, b}) = 3
        BY <1>2, <2>3, <3>1, <4>1
      <4>3. Cardinality({a, b}) \in Nat /\ Cardinality({a, b}) <= 2
        BY FewAreFew
      <4>. QED  BY <4>2, <4>3
    <3>3. /\ sketches[1] # sketches[2] /\ sketches[1] # sketches[3]
          /\ sketches[2] # sketches[3]
      <4>1. sketches[1] = sketches[2] =>
              {sketches[1], sketches[2], sketches[3]} = {sketches[1], sketches[3]}
        OBVIOUS
      <4>2. sketches[1] = sketches[3] =>
              {sketches[1], sketches[2], sketches[3]} = {sketches[1], sketches[2]}
        OBVIOUS
      <4>3. sketches[2] = sketches[3] =>
              {sketches[1], sketches[2], sketches[3]} = {sketches[1], sketches[2]}
        OBVIOUS
      <4>. QED  BY <3>2, <4>1, <4>2, <4>3
    <3>. QED  BY <1>2, <2>3, <3>3 DEF Distinct
  <2>. QED  BY <2>1, <2>2, <2>3
<1>. HIDE DEF facts
<1>. QED  BY <1>1, <1>3 DEF Sound, facts

LEMMA BarsAreNumbers ==
    ASSUME NEW bar \in Bars
    PROVE  bar[1] \in Int /\ bar[2] \in Int /\ bar[1] < bar[2]
BY FeaturesAssumption DEF Bars

LEMMA PairFits ==
    ASSUME NEW a \in Bars, NEW b \in Bars, NEW clearance \in {0, 10}, NEW tolerance \in {0, 10},
           a[1] <= b[1]
    PROVE  LET passes(x, y) == /\ PairStatus(x, y, clearance, tolerance) # "interference"
                               /\ ~(Gap(x, y) < clearance)
               clear == \/ b[1] - a[2] >= clearance
                        \/ clearance = 0 /\ Smaller(a[2], b[2]) - b[1] <= tolerance
           IN  (passes(a, b) <=> clear) /\ (passes(b, a) <=> clear)
<1>1. /\ a[1] \in Int /\ a[2] \in Int /\ a[1] < a[2]
      /\ b[1] \in Int /\ b[2] \in Int /\ b[1] < b[2]
    BY BarsAreNumbers
<1>2. /\ Gap(a, b) = Larger(0, b[1] - a[2]) /\ Gap(b, a) = Larger(0, b[1] - a[2])
    BY <1>1 DEF Gap, Larger
<1>3. /\ Common(a, b) = IF b[1] - a[2] > 0 THEN 0 ELSE Smaller(a[2], b[2]) - b[1]
      /\ Common(b, a) = IF b[1] - a[2] > 0 THEN 0 ELSE Smaller(a[2], b[2]) - b[1]
    BY <1>1, <1>2 DEF Common, Larger, Smaller
<1>4. \A x, y : PairStatus(x, y, clearance, tolerance) # "interference"
                    <=> ~(Common(x, y) > tolerance)
    BY DEF PairStatus
<1>5. CASE clearance = 0
    BY <1>1, <1>2, <1>3, <1>4, <1>5 DEF Larger, Smaller
<1>6. CASE clearance = 10
    BY <1>1, <1>2, <1>3, <1>4, <1>6 DEF Larger, Smaller
<1>. QED  BY <1>5, <1>6

LEMMA InterferencesFit ==
    ASSUME NEW bars \in SUBSET Bars, NEW clearance \in {0, 10}, NEW tolerance \in {0, 10}
    PROVE  Sound("interferences", clearance,
                 [Nothing EXCEPT !.bars = bars, !.span = tolerance,
                     !.verdict = InterferencePasses(bars, clearance, tolerance)])
<1>. DEFINE facts == [Nothing EXCEPT !.bars = bars, !.span = tolerance,
                          !.verdict = InterferencePasses(bars, clearance, tolerance)]
<1>1. /\ facts.bars = bars /\ facts.span = tolerance
      /\ facts.verdict = InterferencePasses(bars, clearance, tolerance)
    BY VerdictTold
<1>2. InterferencePasses(bars, clearance, tolerance) <=> BarsClear(bars, clearance, tolerance)
  <2>1. ASSUME InterferencePasses(bars, clearance, tolerance)
        PROVE  BarsClear(bars, clearance, tolerance)
    BY <2>1, PairFits DEF InterferencePasses, BarsClear
  <2>2. ASSUME BarsClear(bars, clearance, tolerance)
        PROVE  InterferencePasses(bars, clearance, tolerance)
    <3>. SUFFICES ASSUME NEW a \in bars, NEW b \in bars, a # b
                  PROVE  /\ PairStatus(a, b, clearance, tolerance) # "interference"
                         /\ ~(Gap(a, b) < clearance)
      BY DEF InterferencePasses
    <3>1. a[1] \in Int /\ b[1] \in Int
      BY BarsAreNumbers
    <3>2. CASE a[1] <= b[1]
      BY <2>2, <3>2, PairFits DEF BarsClear
    <3>3. CASE b[1] <= a[1]
      BY <2>2, <3>3, PairFits DEF BarsClear
    <3>. QED  BY <3>1, <3>2, <3>3
  <2>. QED  BY <2>1, <2>2
<1>. HIDE DEF facts
<1>3. Sound("interferences", clearance, facts)
    BY <1>1, <1>2, Zenon DEF Sound
<1>. QED  BY <1>3 DEF facts

LEMMA LowestExists ==
    ASSUME NEW bars \in SUBSET Bars, IsFiniteSet(bars), Cardinality(bars) \in 1..3
    PROVE  \E a \in bars : \A b \in bars : a[1] <= b[1]
<1>1. \A b \in bars : b[1] \in Int
    BY BarsAreNumbers
<1>2. PICK a \in bars : TRUE
    BY FS_EmptySet
<1>. DEFINE two == bars \ {a}
<1>3. IsFiniteSet(two) /\ Cardinality(two) \in 0..2
  <2>1. IsFiniteSet(two) /\ Cardinality(two) = Cardinality(bars) - 1
    BY <1>2, FS_RemoveElement
  <2>. QED  BY <2>1
<1>4. CASE two = {}
    BY <1>1, <1>2, <1>4
<1>5. CASE two # {}
  <2>1. PICK b \in two : TRUE
    BY <1>5
  <2>. DEFINE one == two \ {b}
  <2>2. IsFiniteSet(one) /\ Cardinality(one) \in 0..1
    <3>1. IsFiniteSet(one) /\ Cardinality(one) = Cardinality(two) - 1
      <4>. HIDE DEF two
      <4>. QED  BY <1>3, <2>1, FS_RemoveElement
    <3>2. Cardinality(two) # 0
      <4>. HIDE DEF two
      <4>. QED  BY <1>3, <1>5, FS_EmptySet
    <3>. HIDE DEF one, two
    <3>. QED  BY <1>3, <3>1, <3>2
  <2>3. \A c, d \in one : c = d
    <3>. HIDE DEF one
    <3>. SUFFICES ASSUME NEW c \in one, NEW d \in one, c # d PROVE FALSE
      OBVIOUS
    <3>1. IsFiniteSet(one \ {c}) /\ Cardinality(one \ {c}) = Cardinality(one) - 1
      BY <2>2, FS_RemoveElement
    <3>2. IsFiniteSet((one \ {c}) \ {d})
          /\ Cardinality((one \ {c}) \ {d}) = Cardinality(one \ {c}) - 1
      BY <3>1, FS_RemoveElement
    <3>3. Cardinality((one \ {c}) \ {d}) \in Nat
      BY <3>2, FS_CardinalityType
    <3>. QED  BY <2>2, <3>1, <3>2, <3>3
  <2>4. CASE one = {}
    BY <1>1, <1>2, <2>1, <2>4
  <2>5. CASE one # {}
    <3>1. PICK c \in one : TRUE
      BY <2>5
    <3>2. \A x \in bars : x = a \/ x = b \/ x = c
      BY <2>3, <3>1
    <3>3. a[1] \in Int /\ b[1] \in Int /\ c[1] \in Int
      BY <1>1, <1>2, <2>1, <3>1
    <3>4. \/ a[1] <= b[1] /\ a[1] <= c[1]
          \/ b[1] <= a[1] /\ b[1] <= c[1]
          \/ c[1] <= a[1] /\ c[1] <= b[1]
      BY <3>3
    <3>. QED  BY <1>2, <2>1, <3>1, <3>2, <3>3, <3>4
  <2>. QED  BY <2>4, <2>5
<1>. QED  BY <1>4, <1>5

LEMMA PrintFits ==
    ASSUME NEW bars \in SUBSET Bars, NEW limit \in DOMAIN Overhang, NEW facts,
           IsFiniteSet(bars), Cardinality(bars) \in 1..3,
           facts.bars = bars,
           facts.verdict = ~(\E bar \in Hanging(bars) : 1000 > Overhang[limit])
    PROVE  Sound("print_readiness", 0, facts)
<1>. DEFINE verdict == ~(\E bar \in Hanging(bars) : 1000 > Overhang[limit])
<1>1. facts.bars = bars /\ facts.verdict = verdict
    OBVIOUS
<1>2. verdict <=> Hanging(bars) = {}
  <2>1. 1000 > Overhang[limit]
    BY DEF Overhang
  <2>. QED  BY <2>1
<1>3. /\ BedOf(bars) \in {bar[1] : bar \in bars}
      /\ \A bar \in bars : BedOf(bars) <= bar[1]
  <2>1. \E z \in {bar[1] : bar \in bars} : \A bar \in bars : z <= bar[1]
    BY LowestExists
  <2>. QED  BY <2>1 DEF BedOf
<1>4. \A bar \in bars : bar[1] \in Int
    BY BarsAreNumbers
<1>5. Hanging(bars) = {} <=> \A a, b \in bars : a[1] = b[1]
    BY <1>3, <1>4 DEF Hanging, BedTolerance
<1>. HIDE DEF verdict
<1>6. facts.verdict <=> \A a, b \in bars : a[1] = b[1]
  <2>1. facts.verdict <=> verdict
    BY <1>1
  <2>. QED  BY <2>1, <1>2, <1>5, Zenon
<1>7. facts.verdict <=> \A a, b \in facts.bars : a[1] = b[1]
  <2>1. facts.bars = bars
    BY <1>1
  <2>2. PICK passes : passes <=> facts.verdict
    OBVIOUS
  <2>3. passes <=> \A a, b \in bars : a[1] = b[1]
    BY ONLY <1>6, <2>2, Zenon
  <2>4. passes <=> \A a, b \in facts.bars : a[1] = b[1]
    BY ONLY <2>1, <2>3, Zenon
  <2>. QED  BY ONLY <2>2, <2>4, Zenon
<1>. QED  BY <1>7, Zenon DEF Sound

\* A weighted mean lies between the values.
LEMMA MeanIsBetween ==
    ASSUME NEW x \in Int, NEW y \in Int, NEW v \in Nat \ {0}, NEW w \in Nat \ {0}, x <= y
    PROVE  /\ x <= (x * v + y * w) \div (v + w)
           /\ (x * v + y * w) \div (v + w) <= y
<1>. DEFINE n == x * v + y * w
            d == v + w
<1>1. n \in Int /\ d \in Nat \ {0}
    OBVIOUS
<1>2. x * w <= y * w /\ x * v <= y * v
    BY Monotone
<1>3. x * d = x * v + x * w /\ y * d = y * v + y * w
    OBVIOUS
<1>4. x * d \in Int /\ y * d \in Int /\ x * v \in Int /\ y * w \in Int /\ x * w \in Int
      /\ y * v \in Int
    OBVIOUS
<1>5. x * d <= n /\ n <= y * d
    BY <1>2, <1>3, <1>4
<1>. HIDE DEF n, d
<1>6. n \div d \in Int /\ n % d = n - (n \div d) * d /\ n % d \in 0..(d - 1)
    BY <1>1, Quotient
<1>7. x <= n \div d
  <2>1. SUFFICES ASSUME n \div d <= x - 1 PROVE FALSE
    BY <1>6
  <2>2. (n \div d) * d <= (x - 1) * d
    BY <1>1, <1>6, <2>1, Monotone
  <2>3. (x - 1) * d = x * d - d
    BY <1>1
  <2>4. (n \div d) * d \in Int
    BY <1>1, <1>6
  <2>. QED  BY <1>1, <1>4, <1>5, <1>6, <2>2, <2>3, <2>4
<1>8. n \div d <= y
  <2>1. SUFFICES ASSUME y + 1 <= n \div d PROVE FALSE
    BY <1>6
  <2>2. (y + 1) * d <= (n \div d) * d
    BY <1>1, <1>6, <2>1, Monotone
  <2>3. (y + 1) * d = y * d + d
    BY <1>1
  <2>4. (n \div d) * d \in Int
    BY <1>1, <1>6
  <2>. QED  BY <1>1, <1>4, <1>5, <1>6, <2>2, <2>3, <2>4
<1>. QED  BY <1>7, <1>8 DEF n, d

LEMMA MassFits ==
    ASSUME NEW a \in Bars, NEW b \in Bars
    PROVE  LET volume(bar) == bar[2] - bar[1]
               middle(bar) == (bar[1] + bar[2]) \div 2
           IN  Sound("mass", 0,
                     [Nothing EXCEPT !.bars = {a, b}, !.told = volume(a) + volume(b),
                      !.span = (middle(a) * volume(a) + middle(b) * volume(b))
                               \div (volume(a) + volume(b))])
<1>. DEFINE v == a[2] - a[1]
            w == b[2] - b[1]
            x == (a[1] + a[2]) \div 2
            y == (b[1] + b[2]) \div 2
            span == (x * v + y * w) \div (v + w)
            facts == [Nothing EXCEPT !.bars = {a, b}, !.told = v + w, !.span = span]
<1>1. facts.bars = {a, b} /\ facts.span = span
    BY BarsTold
<1>2. /\ a[1] \in Int /\ a[2] \in Int /\ a[1] < a[2]
      /\ b[1] \in Int /\ b[2] \in Int /\ b[1] < b[2]
    BY BarsAreNumbers
<1>3. /\ v \in Nat \ {0} /\ w \in Nat \ {0} /\ x \in Int /\ y \in Int
      /\ a[1] <= x /\ x <= a[2] /\ b[1] <= y /\ y <= b[2]
    BY <1>2
<1>. HIDE DEF v, w, x, y
<1>4. span \in Int
    BY <1>3
<1>5. x <= y => a[1] <= span /\ span <= b[2]
  <2>1. x <= y => x <= span /\ span <= y
    BY <1>3, MeanIsBetween
  <2>. HIDE DEF span
  <2>. QED  BY <1>2, <1>3, <1>4, <2>1
<1>6. y <= x => b[1] <= span /\ span <= a[2]
  <2>1. (y * w + x * v) \div (w + v) = span
    BY <1>3
  <2>2. y <= x => /\ y <= (y * w + x * v) \div (w + v)
                  /\ (y * w + x * v) \div (w + v) <= x
    BY <1>3, MeanIsBetween
  <2>. HIDE DEF span
  <2>. QED  BY <1>2, <1>3, <1>4, <2>1, <2>2
<1>7. (\E bar \in {a, b} : bar[1] <= span) /\ (\E bar \in {a, b} : span <= bar[2])
  <2>. HIDE DEF span
  <2>. QED  BY <1>3, <1>5, <1>6
<1>. HIDE DEF span, facts
<1>8. Sound("mass", 0, facts)
    BY <1>1, <1>7 DEF Sound
<1>. QED  BY <1>8 DEF facts, span, v, w, x, y

-------------------------------------------------------------------------------
(* Sweep paths: what has been laid out always leads up to the next move. *)

Pieces == [move : Int, from : Int, to : Int]
Begins(p) == IF p.move < 0 THEN <<0 - p.move, p.from>> ELSE <<p.move, p.from>>
Ends(p) == IF p.move < 0 THEN <<1 - p.move, p.to>> ELSE <<p.move, p.to>>

\* q goes on from where p ends, on the same move or at the start of the next.
Follows(p, q) ==
    \/ Ends(p) = Begins(q)
    \/ Begins(q) = <<p.move + 1, 0>> /\ p.move > 0

\* The pieces form a path, and a piece that begins at the place goes on from it.
Leads(pieces, place) ==
    /\ pieces \in Seq(Pieces)
    /\ \A k \in 1..Len(pieces) : pieces[k].move > 0 => pieces[k].from < pieces[k].to
    /\ \A k \in 1..(Len(pieces) - 1) : Follows(pieces[k], pieces[k + 1])
    /\ Len(pieces) > 0 => Begins(pieces[1]) = <<1, 0>>
    /\ IF Len(pieces) = 0 THEN place = <<1, 0>>
       ELSE \/ Ends(pieces[Len(pieces)]) = place
            \/ place = <<pieces[Len(pieces)].move + 1, 0>> /\ pieces[Len(pieces)].move > 0

LEMMA PieceAppended ==
    ASSUME NEW pieces, NEW place, Leads(pieces, place),
           NEW p \in Pieces, Begins(p) = place, p.move > 0 => p.from < p.to
    PROVE  /\ Leads(pieces \o <<p>>, Ends(p))
           /\ p.move > 0 => Leads(pieces \o <<p>>, <<p.move + 1, 0>>)
           /\ Len(pieces \o <<p>>) > 0 /\ (pieces \o <<p>>)[Len(pieces \o <<p>>)] = p
<1>. DEFINE more == pieces \o <<p>>
<1>1. PICK n \in Nat : n = Len(pieces)
    BY DEF Leads
<1>2. /\ more \in Seq(Pieces) /\ Len(more) = n + 1 /\ more[n + 1] = p
      /\ \A k \in 1..n : more[k] = pieces[k]
    BY <1>1 DEF Leads
<1>. HIDE DEF more
<1>3. \A k \in 1..(n + 1) : more[k].move > 0 => more[k].from < more[k].to
    BY <1>1, <1>2 DEF Leads
<1>4. \A k \in 1..n : Follows(more[k], more[k + 1])
  <2>. TAKE k \in 1..n
  <2>1. CASE k = n
    <3>1. n > 0 /\ more[k] = pieces[n] /\ more[k + 1] = p
      BY <1>2, <2>1
    <3>2. \/ Ends(pieces[n]) = place
          \/ place = <<pieces[n].move + 1, 0>> /\ pieces[n].move > 0
      BY <1>1, <3>1 DEF Leads
    <3>3. Follows(pieces[n], p)
      BY <3>2 DEF Follows
    <3>. QED  BY <3>1, <3>3
  <2>2. CASE k < n
    <3>1. k \in 1..(n - 1) /\ k + 1 \in 1..n
      BY <2>2
    <3>2. Follows(pieces[k], pieces[k + 1])
      BY <1>1, <3>1 DEF Leads
    <3>. QED  BY <1>2, <3>1, <3>2
  <2>. QED  BY <2>1, <2>2
<1>5. Begins(more[1]) = <<1, 0>>
  <2>1. CASE n = 0
    BY <1>1, <1>2, <2>1 DEF Leads
  <2>2. CASE n > 0
    BY <1>1, <1>2, <2>2 DEF Leads
  <2>. QED  BY <2>1, <2>2
<1>6. Leads(more, Ends(p))
    BY <1>2, <1>3, <1>4, <1>5 DEF Leads
<1>7. p.move > 0 => Leads(more, <<p.move + 1, 0>>)
    BY <1>2, <1>3, <1>4, <1>5 DEF Leads
<1>. QED  BY <1>2, <1>6, <1>7 DEF more

LEMMA LinesAndArcs ==
    ASSUME NEW i \in Nat \ {0}, NEW a \in Int, NEW b \in Int
    PROVE  /\ Line(i, a, b) \in Pieces /\ Arc(i, a, b) \in Pieces
           /\ Begins(Line(i, a, b)) = <<i, a>> /\ Ends(Line(i, a, b)) = <<i, b>>
           /\ Begins(Arc(i, a, b)) = <<i, a>> /\ Ends(Arc(i, a, b)) = <<i + 1, b>>
           /\ ~(Arc(i, a, b).move > 0)
<1>1. Line(i, a, b) = [move |-> i, from |-> a, to |-> b]
    BY DEF Line
<1>2. Arc(i, a, b) = [move |-> 0 - i, from |-> a, to |-> b]
    BY DEF Arc
<1>3. 0 - i \in Int /\ 0 - i < 0 /\ ~(i < 0) /\ 0 - (0 - i) = i /\ 1 - (0 - i) = i + 1
    OBVIOUS
<1>4. Line(i, a, b) \in Pieces /\ Arc(i, a, b) \in Pieces
    BY <1>1, <1>2, <1>3 DEF Pieces
<1>5. /\ Begins(Line(i, a, b)) = <<i, a>> /\ Ends(Line(i, a, b)) = <<i, b>>
    BY <1>1, <1>3 DEF Begins, Ends
<1>6. /\ Begins(Arc(i, a, b)) = <<i, a>> /\ Ends(Arc(i, a, b)) = <<i + 1, b>>
      /\ ~(Arc(i, a, b).move > 0)
    BY <1>2, <1>3 DEF Begins, Ends
<1>. QED  BY <1>4, <1>5, <1>6

\* The edges lead to the cursor, which is at most half way along the next move.
Reaches(path, i, state) ==
    /\ Leads(state.edges, <<i, state.cursor>>)
    /\ state.cursor \in Nat /\ 2 * state.cursor <= path[i].length

LEMMA CornerReached ==
    ASSUME NEW n \in Nat, NEW path \in [1..n -> PathMoves], NEW radius \in Nat,
           NEW i \in 1..(n - 1), CornerAccepted(path, i, radius),
           NEW before, Reaches(path, i, before)
    PROVE  Reaches(path, i + 1, AfterCorner(path, radius, i, before))
<1>. DEFINE c == before.cursor
            trim == Trim(Turn(path, i), radius)
            length == path[i].length
            start == length - trim
            after == AfterCorner(path, radius, i, before)
<1>1. /\ i \in Nat \ {0} /\ i + 1 \in 1..n /\ path[i] \in PathMoves
      /\ path[i + 1] \in PathMoves
    OBVIOUS
<1>0. i \in Nat \ {0}
    OBVIOUS
<1>2. length \in Nat \ {0} /\ path[i + 1].length \in Nat \ {0}
    BY <1>1, FeaturesAssumption DEF PathMoves
<1>3. c \in Nat /\ 2 * c <= length /\ Leads(before.edges, <<i, c>>)
    BY DEF Reaches
<1>4. CASE Rounded(path, i, radius)
  <2>1. /\ trim \in Nat /\ 2 * trim <= length /\ 2 * trim <= path[i + 1].length
    <3>1. /\ path[i].dir \in 0..7 /\ path[i + 1].dir \in 0..7
      BY <1>1 DEF PathMoves
    <3>2. Turn(path, i) \in 0..4
      BY <3>1, SMTT(20) DEF Turn, Smaller
    <3>3. Turn(path, i) \in 1..3
      BY <1>4, <3>2 DEF CornerAccepted, Rounded
    <3>4. <<414, 1000, 2414>>[Turn(path, i)] \in {414, 1000, 2414}
      BY <3>3
    <3>5. PICK tangent \in {414, 1000, 2414} :
              tangent = <<414, 1000, 2414>>[Turn(path, i)]
      BY <3>4
    <3>6. radius * tangent \in Nat
      OBVIOUS
    <3>7. trim \in Nat
      BY <3>5, <3>6 DEF Trim
    <3>. QED  BY <1>4, <3>7, SMTT(20) DEF CornerAccepted
  <2>. DEFINE run == IF start > c THEN <<Line(i, c, start)>> ELSE <<>>
  <2>2. after = [edges |-> before.edges \o run \o <<Arc(i, start, trim)>>, cursor |-> trim]
    BY <1>4 DEF AfterCorner
  <2>. HIDE DEF c, length, trim, after
  <2>3. start \in Int /\ c <= start
    BY <1>2, <1>3, <2>1
  <2>. HIDE DEF start
  <2>4. Leads(before.edges \o run, <<i, start>>)
    <3>1. CASE start > c
      <4>1. c \in Int /\ start \in Int
        BY <1>3, <2>3
      <4>. DEFINE p == Line(i, c, start)
      <4>2. /\ p \in Pieces /\ Begins(p) = <<i, c>> /\ Ends(p) = <<i, start>>
        BY <1>0, <4>1, LinesAndArcs, Zenon
      <4>a. p.from = c /\ p.to = start
        BY DEF Line
      <4>. HIDE DEF p
      <4>3. Leads(before.edges \o <<p>>, Ends(p))
        BY <1>3, <3>1, <4>2, <4>a, PieceAppended
      <4>. QED  BY <3>1, <4>2, <4>3 DEF p
    <3>2. CASE ~(start > c)
      <4>1. start = c
        BY <1>3, <2>3, <3>2
      <4>2. before.edges \o <<>> = before.edges
        BY <1>3 DEF Leads
      <4>. QED  BY <1>3, <3>2, <4>1, <4>2
    <3>. QED  BY <3>1, <3>2
  <2>. HIDE DEF run
  <2>5. Leads(before.edges \o run \o <<Arc(i, start, trim)>>, <<i + 1, trim>>)
    <3>1. /\ Arc(i, start, trim) \in Pieces /\ Begins(Arc(i, start, trim)) = <<i, start>>
          /\ Ends(Arc(i, start, trim)) = <<i + 1, trim>> /\ ~(Arc(i, start, trim).move > 0)
      <4>1. trim \in Int /\ start \in Int
        BY <2>1, <2>3
      <4>. QED  BY <1>0, <4>1, LinesAndArcs, Zenon
    <3>2. Leads((before.edges \o run) \o <<Arc(i, start, trim)>>, Ends(Arc(i, start, trim)))
      BY <2>4, <3>1, PieceAppended
    <3>. QED  BY <3>1, <3>2
  <2>6. after.edges = before.edges \o run \o <<Arc(i, start, trim)>> /\ after.cursor = trim
    BY <2>2
  <2>7. Reaches(path, i + 1, after)
    BY <2>1, <2>5, <2>6 DEF Reaches
  <2>. QED  BY <2>7 DEF after
<1>5. CASE ~Rounded(path, i, radius)
  <2>1. after = [edges |-> before.edges \o <<Line(i, c, length)>>, cursor |-> 0]
    BY <1>5 DEF AfterCorner
  <2>. HIDE DEF c, length, trim, after
  <2>2. c < length /\ c \in Int /\ length \in Int
    BY <1>2, <1>3
  <2>3. /\ Line(i, c, length) \in Pieces /\ Begins(Line(i, c, length)) = <<i, c>>
    BY <1>0, <2>2, LinesAndArcs, Zenon
  <2>a. /\ Line(i, c, length).move = i /\ Line(i, c, length).from = c
        /\ Line(i, c, length).to = length
    BY DEF Line
  <2>4. Leads(before.edges \o <<Line(i, c, length)>>, <<i + 1, 0>>)
    <3>1. i > 0
      BY <1>1
    <3>. QED  BY <1>3, <2>2, <2>3, <2>a, <3>1, PieceAppended
  <2>5. after.edges = before.edges \o <<Line(i, c, length)>> /\ after.cursor = 0
    BY <2>1
  <2>6. Reaches(path, i + 1, after)
    BY <1>2, <2>4, <2>5 DEF Reaches
  <2>. QED  BY <2>6 DEF after
<1>. QED  BY <1>4, <1>5

\* Of the recursive function, as far as the longest path needs it.
LEMMA EdgesUnfold ==
    ASSUME NEW path, NEW radius, Len(path) \in 2..3
    PROVE  LET edges == EdgesTo(path, radius)
           IN  /\ edges[0] = Start
               /\ edges[1] = AfterCorner(path, radius, 1, edges[0])
               /\ Len(path) = 3 => edges[2] = AfterCorner(path, radius, 2, edges[1])
<1>. DEFINE D == 0..(Len(path) - 1)
            Rule(f) == [i \in D |-> IF i = 0 THEN Start
                                    ELSE AfterCorner(path, radius, i, f[i - 1])]
            one == AfterCorner(path, radius, 1, Start)
            two == AfterCorner(path, radius, 2, one)
            g == [i \in D |-> IF i = 0 THEN Start ELSE IF i = 1 THEN one ELSE two]
            edges == EdgesTo(path, radius)
<1>1. D \subseteq 0..2 /\ 0 \in D /\ 1 \in D /\ (Len(path) = 3 => 2 \in D)
  <2>1. PICK n \in {2, 3} : n = Len(path)
    OBVIOUS
  <2>2. D = 0..(n - 1)
    BY <2>1
  <2>. HIDE DEF D
  <2>. QED  BY <2>1, <2>2, SMTT(30), ZenonT(20)
<1>2. edges = CHOOSE f : f = Rule(f)
    BY DEF EdgesTo
<1>. HIDE DEF D, edges
<1>3. g = Rule(g)
  <2>1. \A i \in D : g[i] = Rule(g)[i]
    <3>. TAKE i \in D
    <3>. HIDE DEF one, two
    <3>1. CASE i = 0
      BY <3>1
    <3>2. CASE i = 1
      BY <1>1, <3>2 DEF one
    <3>3. CASE i = 2
      BY <1>1, <3>3 DEF two
    <3>. QED  BY <1>1, <3>1, <3>2, <3>3
  <2>. QED  BY <2>1
<1>4. edges = Rule(edges)
    BY <1>2, <1>3
<1>. HIDE DEF g
<1>. QED  BY <1>1, <1>4 DEF edges

LEMMA PathFits ==
    ASSUME NEW n \in 2..3, NEW path \in [1..n -> PathMoves], NEW radius \in Radii \cup {0},
           PathAccepted(path, radius)
    PROVE  Sound("sweep_path", 0,
                 [Nothing EXCEPT !.pieces = SweepEdges(path, radius),
                                 !.told = Len(path),
                                 !.span = path[Len(path)].length])
<1>. DEFINE pieces == SweepEdges(path, radius)
            length == path[n].length
            facts == [Nothing EXCEPT !.pieces = pieces, !.told = Len(path),
                                     !.span = path[Len(path)].length]
            corners == EdgesTo(path, radius)
            last == corners[n - 1]
            end == Line(n, last.cursor, length)
<1>1. radius \in Nat /\ Len(path) = n
  <2>1. radius \in Nat
    <3>1. \A r \in Radii : r \in Nat
      BY FeaturesAssumption
    <3>. QED  BY <3>1
  <2>2. Len(path) = n
    OBVIOUS
  <2>. QED  BY <2>1, <2>2
<1>2. facts.pieces = pieces /\ facts.told = n /\ facts.span = length
    BY <1>1, PiecesTold
<1>3. Reaches(path, n, last)
  <2>1. /\ corners[0] = Start
        /\ corners[1] = AfterCorner(path, radius, 1, corners[0])
        /\ n = 3 => corners[2] = AfterCorner(path, radius, 2, corners[1])
    BY <1>1, EdgesUnfold
  <2>2. \A i \in 1..(n - 1) : CornerAccepted(path, i, radius)
    BY <1>1 DEF PathAccepted
  <2>. HIDE DEF corners
  <2>3. Reaches(path, 1, corners[0])
    <3>1. Start.edges = <<>> /\ Start.cursor = 0
      BY DEF Start
    <3>2. Leads(<<>>, <<1, 0>>)
      BY DEF Leads
    <3>3. path[1].length \in Nat
      BY FeaturesAssumption DEF PathMoves
    <3>. QED  BY <2>1, <3>1, <3>2, <3>3 DEF Reaches
  <2>4. Reaches(path, 2, corners[1])
    <3>1. 1 \in 1..(n - 1) /\ 1 + 1 = 2 /\ n \in Nat
      OBVIOUS
    <3>. QED  BY <1>1, <2>1, <2>2, <2>3, <3>1, CornerReached
  <2>5. n = 3 => Reaches(path, 3, corners[2])
    <3>1. n = 3 => 2 \in 1..(n - 1) /\ 2 + 1 = 3 /\ n \in Nat
      OBVIOUS
    <3>. QED  BY <1>1, <2>1, <2>2, <2>4, <3>1, CornerReached
  <2>. QED  BY <2>4, <2>5
<1>4. length \in Nat \ {0}
    BY FeaturesAssumption DEF PathMoves
<1>5. pieces = last.edges \o <<end>>
  <2>1. length > last.cursor
    BY <1>3, <1>4 DEF Reaches
  <2>. QED  BY <1>1, <2>1 DEF SweepEdges
<1>6. /\ Leads(pieces, <<n, length>>) /\ Len(pieces) > 0
      /\ pieces[Len(pieces)] = end /\ Ends(end) = <<n, length>>
  <2>1. last.cursor \in Int /\ length \in Int /\ last.cursor < length /\ n \in Nat \ {0}
    BY <1>3, <1>4 DEF Reaches
  <2>. HIDE DEF last, length, pieces
  <2>2. /\ end \in Pieces /\ Begins(end) = <<n, last.cursor>> /\ Ends(end) = <<n, length>>
    BY <2>1, LinesAndArcs, Zenon
  <2>a. end.from = last.cursor /\ end.to = length
    BY DEF Line
  <2>3. Leads(last.edges, <<n, last.cursor>>)
    BY <1>3 DEF Reaches
  <2>. HIDE DEF end
  <2>4. PICK done : done = last.edges
    OBVIOUS
  <2>5. PICK place : place = <<n, last.cursor>>
    OBVIOUS
  <2>6. Leads(done, place) /\ end \in Pieces /\ Begins(end) = place /\ end.from < end.to
    BY ONLY <2>1, <2>2, <2>a, <2>3, <2>4, <2>5
  <2>7. /\ Leads(done \o <<end>>, Ends(end)) /\ Len(done \o <<end>>) > 0
        /\ (done \o <<end>>)[Len(done \o <<end>>)] = end
    BY ONLY <2>6, PieceAppended
  <2>8. pieces = done \o <<end>>
    BY ONLY <1>5, <2>4
  <2>. QED  BY ONLY <2>2, <2>7, <2>8
<1>. HIDE DEF facts, pieces, length, end
<1>7. PathConnected(facts)
  <2>1. pieces # <<>>
    BY <1>6
  <2>2. Begins(pieces[1]) = <<1, 0>> /\ Ends(pieces[Len(pieces)]) = <<n, length>>
    BY <1>6 DEF Leads
  <2>3. \A k \in DOMAIN pieces : pieces[k].move > 0 => pieces[k].from < pieces[k].to
    <3>1. DOMAIN pieces = 1..Len(pieces)
      BY ONLY <1>6 DEF Leads
    <3>2. \A k \in 1..Len(pieces) : pieces[k].move > 0 => pieces[k].from < pieces[k].to
      BY ONLY <1>6, Zenon DEF Leads
    <3>. QED  BY ONLY <3>1, <3>2, Zenon
  <2>4. \A k \in 1..(Len(pieces) - 1) : Follows(pieces[k], pieces[k + 1])
    BY <1>6 DEF Leads
  <2>. QED  BY <1>2, <2>1, <2>2, <2>3, <2>4, Zenon DEF PathConnected, Begins, Ends, Follows
<1>. QED  BY <1>7 DEF Sound, facts, pieces

LEMMA ReportIsSound ==
    ASSUME NEW tool, NEW accepted, NEW height, NEW facts,
           accepted => Sound(tool, height, facts),
           Reported(tool, accepted, height, facts)
    PROVE  AcceptedFeaturesFit'
<1>1. report' = [tool |-> tool, done |-> accepted, height |-> height,
                 facts |-> IF accepted THEN facts ELSE Nothing]
    BY DEF Reported
<1>2. /\ report'.done <=> accepted
      /\ report'.tool = tool /\ report'.height = height
      /\ (accepted => report'.facts = facts)
    BY <1>1, Zenon
<1>. QED  BY <1>2, Zenon DEF AcceptedFeaturesFit

\* Only a hole through the whole part promises to open on both faces.
LEMMA WindowPromisesNothing ==
    ASSUME NEW height, NEW facts
    PROVE  Sound("windowed_hole", height, facts)
BY DEF Sound

LEMMA FeaturesStep ==
    ASSUME AcceptedFeaturesFit, [FeaturesNext]_featureVars
    PROVE  AcceptedFeaturesFit'
<1>1. CASE CreateThroughHole
  <2>1. PICK height \in Heights, radius \in Radii, x \in Offsets,
             window \in {NoWindow} \cup (Offsets \X Offsets) :
            LET cuts == HoleCuts({<<x, x>>}, radius, window, height)
            IN  Reported(IF window = NoWindow THEN "through_hole" ELSE "windowed_hole",
                         WindowChecked(window) /\ HoleCutChecked(cuts, height),
                         height, [Nothing EXCEPT !.cuts = cuts, !.told = 1])
    BY <1>1, Zenon DEF CreateThroughHole
  <2>. DEFINE cuts == HoleCuts({<<x, x>>}, radius, window, height)
              facts == [Nothing EXCEPT !.cuts = cuts, !.told = 1]
  <2>2. CASE window = NoWindow
    <3>1. HoleCutChecked(cuts, height) => Sound("through_hole", height, facts)
      BY <2>2, ThroughHoleFits, Zenon
    <3>2. Reported("through_hole", WindowChecked(window) /\ HoleCutChecked(cuts, height),
                   height, facts)
      BY <2>1, <2>2, Zenon
    <3>. QED  BY <3>1, <3>2, ReportIsSound, Zenon
  <2>3. CASE window # NoWindow
    <3>1. Reported("windowed_hole", WindowChecked(window) /\ HoleCutChecked(cuts, height),
                   height, facts)
      BY <2>1, <2>3, Zenon
    <3>. QED  BY <3>1, WindowPromisesNothing, ReportIsSound, Zenon
  <2>. QED  BY <2>2, <2>3
<1>2. CASE CreateRectangularHolePattern
  <2>1. PICK height \in Heights, rows \in Numbers \ {0, 1}, columns \in Numbers \ {0},
             sx \in Radii, sy \in Radii, origin \in Offsets :
            LET places == GridPlaces(rows, columns, sx, sy, origin)
                cuts == HoleCuts({places[k] : k \in DOMAIN places}, 5, NoWindow, height)
            IN  Reported("rectangular_hole_pattern",
                         rows * columns <= 64 /\ HoleCutChecked(cuts, height),
                         height, [Nothing EXCEPT !.cuts = cuts, !.places = places,
                                                 !.told = rows * columns])
    BY <1>2, Zenon DEF CreateRectangularHolePattern
  <2>. QED  BY <2>1, GridFits, ReportIsSound, Zenon
<1>3. CASE CreateCircularHolePattern
  <2>1. PICK height \in Heights, radius \in Radii, count \in Numbers \ {0},
             pitch \in PitchRadii, start \in Angles :
            LET places == [k \in 1..count |->
                              (Hundredths(start) + ((k - 1) * FullTurn) \div count) % FullTurn]
                cuts == HoleCuts({Around(pitch, places[k]) : k \in DOMAIN places},
                                 radius, NoWindow, height)
            IN  Reported("circular_hole_pattern", count <= 64 /\ HoleCutChecked(cuts, height),
                         height, [Nothing EXCEPT !.cuts = cuts, !.places = places,
                                                 !.told = count])
    BY <1>3, Zenon DEF CreateCircularHolePattern
  <2>. DEFINE places == CirclePlaces(count, start)
              cuts == CircleCuts(places, pitch, radius, height)
              facts == [Nothing EXCEPT !.cuts = cuts, !.places = places, !.told = count]
  <2>2. Reported("circular_hole_pattern", count <= 64 /\ HoleCutChecked(cuts, height),
                 height, facts)
    BY <2>1, Zenon DEF CirclePlaces, CircleCuts
  <2>3. count <= 64 /\ HoleCutChecked(cuts, height) =>
            Sound("circular_hole_pattern", height, facts)
    BY CircleFits, Zenon
  <2>. HIDE DEF places, cuts, facts
  <2>. QED  BY <2>2, <2>3, ReportIsSound, Zenon
<1>4. CASE CreateCounterboreHole
  <2>1. PICK height \in Heights, radius \in Radii, recess \in Radii,
             depth \in Offsets, x \in Offsets :
            LET cuts == {ThroughCut(<<x, x>>, radius, height),
                         Cut(<<x, x>>, recess, recess, height - depth,
                             height + Margin(height))}
            IN  Reported("counterbore_hole",
                         /\ depth > 0 /\ radius < recess /\ depth < height
                         /\ HoleCutChecked(cuts, height),
                         height, [Nothing EXCEPT !.cuts = cuts, !.told = 1])
    BY <1>4, Zenon DEF CreateCounterboreHole
  <2>. QED  BY <2>1, CounterboreFits, ReportIsSound, Zenon
<1>5. CASE CreateCountersunkHole
  <2>1. PICK height \in Heights, radius \in Radii, recess \in Radii,
             angle \in DOMAIN HalfTangent, x \in Offsets :
            LET depth == SinkDepth(radius, recess, angle)
                cuts == {ThroughCut(<<x, x>>, radius, height),
                         Cut(<<x, x>>, radius, recess, height - depth, height),
                         Cut(<<x, x>>, recess, recess, height, height + Margin(height))}
            IN  Reported("countersunk_hole",
                         radius < recess /\ depth < height /\ HoleCutChecked(cuts, height),
                         height, [Nothing EXCEPT !.cuts = cuts, !.told = 1])
    BY <1>5, Zenon DEF CreateCountersunkHole
  <2>2. SinkDepth(radius, recess, angle) \in Int
    <3>1. Radii \subseteq Nat \ {0}
      BY FeaturesAssumption, Zenon
    <3>2. HalfTangent[angle] \in {577, 1000, 1732}
      BY DEF HalfTangent
    <3>3. radius \in Int /\ recess \in Int
      BY <3>1
    <3>. QED  BY <3>2, <3>3 DEF SinkDepth
  <2>. QED  BY <2>1, <2>2, CountersinkFits, ReportIsSound, Zenon
<1>6. CASE LinearPattern
    BY <1>6, LineFits, ReportIsSound, Zenon DEF LinearPattern
<1>7. CASE PolarPattern
  <2>1. PICK count \in Numbers, angle \in Angles :
            Reported("polar_pattern", PatternCountChecked(count) /\ angle \in 1..360, 0,
                     IF PatternCountChecked(count)
                     THEN [Nothing EXCEPT
                              !.places = [k \in 1..count |->
                                             ((k - 1) * PolarStep(angle, count)) % FullTurn],
                              !.told = count,
                              !.span = IF angle = 360 THEN 0 ELSE Hundredths(angle)]
                     ELSE Nothing)
    BY <1>7, Zenon DEF PolarPattern
  <2>2. PatternCountChecked(count) /\ angle \in 1..360 =>
            Sound("polar_pattern", 0,
                     IF PatternCountChecked(count)
                     THEN [Nothing EXCEPT
                              !.places = [k \in 1..count |->
                                             ((k - 1) * PolarStep(angle, count)) % FullTurn],
                              !.told = count,
                              !.span = IF angle = 360 THEN 0 ELSE Hundredths(angle)]
                     ELSE Nothing)
    BY TurnFits, Zenon
  <2>. QED  BY <2>1, <2>2, ReportIsSound, Zenon
<1>8. CASE RevolveSketch
    BY <1>8, RevolvedFits, ReportIsSound, Zenon DEF RevolveSketch
<1>9. CASE LoftSketches
  <2>1. PICK n \in 1..3 :
            \E sketches \in [1..n -> 1..3] :
                Reported("loft",
                         /\ Len(sketches) >= 2
                         /\ Cardinality({sketches[k] : k \in DOMAIN sketches}) = Len(sketches),
                         0, [Nothing EXCEPT !.places = sketches, !.told = Len(sketches)])
    BY <1>9, Zenon DEF LoftSketches
  <2>. QED  BY <2>1, LoftFits, ReportIsSound, Zenon
<1>10. CASE CreateSweepPath
  <2>1. PICK n \in 2..3 :
            \E path \in [1..n -> PathMoves], radius \in Radii \cup {0} :
                Reported("sweep_path", PathAccepted(path, radius), 0,
                         IF PathAccepted(path, radius)
                         THEN [Nothing EXCEPT !.pieces = SweepEdges(path, radius),
                                              !.told = Len(path),
                                              !.span = path[Len(path)].length]
                         ELSE Nothing)
    BY <1>10, Zenon DEF CreateSweepPath, Paths
  <2>2. ASSUME NEW path \in [1..n -> PathMoves], NEW radius \in Radii \cup {0},
               PathAccepted(path, radius)
        PROVE  Sound("sweep_path", 0,
                     [Nothing EXCEPT !.pieces = SweepEdges(path, radius),
                                     !.told = Len(path),
                                     !.span = path[Len(path)].length])
    BY <2>2, PathFits, Zenon
  <2>3. ASSUME NEW path \in [1..n -> PathMoves], NEW radius \in Radii \cup {0},
               PathAccepted(path, radius)
        PROVE  Sound("sweep_path", 0,
                     IF PathAccepted(path, radius)
                     THEN [Nothing EXCEPT !.pieces = SweepEdges(path, radius),
                                          !.told = Len(path),
                                          !.span = path[Len(path)].length]
                     ELSE Nothing)
    BY <2>2, <2>3, Zenon
  <2>. QED  BY <2>1, <2>3, ReportIsSound, Zenon
<1>11. CASE AnalyzeInterferences
    BY <1>11, InterferencesFit, ReportIsSound, Zenon DEF AnalyzeInterferences
<1>12. CASE AnalyzePrintReadiness
  <2>1. PICK bars \in SUBSET Bars, limit \in DOMAIN Overhang :
            Reported("print_readiness", IsFiniteSet(bars) /\ Cardinality(bars) \in 1..3, 0,
                     [Nothing EXCEPT !.bars = bars, !.told = Cardinality(Hanging(bars)),
                      !.verdict = ~(\E bar \in Hanging(bars) : 1000 > Overhang[limit])])
    BY <1>12, Zenon DEF AnalyzePrintReadiness
  <2>. DEFINE verdict == ~(\E bar \in Hanging(bars) : 1000 > Overhang[limit])
              facts == [Nothing EXCEPT !.bars = bars, !.told = Cardinality(Hanging(bars)),
                                       !.verdict = verdict]
  <2>2. Reported("print_readiness", IsFiniteSet(bars) /\ Cardinality(bars) \in 1..3, 0, facts)
    BY <2>1
  <2>3. facts.bars = bars /\ facts.verdict = verdict
    BY VerdictTold
  <2>. HIDE DEF facts
  <2>4. IsFiniteSet(bars) /\ Cardinality(bars) \in 1..3 => Sound("print_readiness", 0, facts)
    BY <2>3, PrintFits
  <2>. QED  BY <2>2, <2>4, ReportIsSound, Zenon
<1>13. CASE MeasureMassProperties
    BY <1>13, MassFits, ReportIsSound, Zenon DEF MeasureMassProperties
<1>14. CASE SectionCamera
    BY <1>14, SectionFits, ReportIsSound, Zenon DEF SectionCamera
<1>15. CASE ReturnReport
  <2>1. ~Unasked.done
    BY Zenon DEF Unasked
  <2>. QED  BY <1>15, <2>1, Zenon DEF ReturnReport, AcceptedFeaturesFit
<1>16. CASE UNCHANGED featureVars
    BY <1>16 DEF featureVars, AcceptedFeaturesFit
<1>. QED  BY <1>1, <1>2, <1>3, <1>4, <1>5, <1>6, <1>7, <1>8, <1>9, <1>10, <1>11,
              <1>12, <1>13, <1>14, <1>15, <1>16 DEF FeaturesNext

(* Whatever the lengths, counts and angles, what a feature or measuring     *)
(* tool accepts is what its name says: a drill that reaches over the block  *)
(* opens on both of its faces, a through hole and some hole of a pattern    *)
(* does, a recess leaves a seat, instances are distinct, paths run forward  *)
(* without a gap, verdicts agree with the positions.                        *)
THEOREM FeaturesFit == FeaturesSpec => []AcceptedFeaturesFit
<1>1. FeaturesInit => AcceptedFeaturesFit
  <2>1. ~Unasked.done
    BY Zenon DEF Unasked
  <2>. QED  BY <2>1, Zenon DEF FeaturesInit, AcceptedFeaturesFit
<1>2. AcceptedFeaturesFit /\ [FeaturesNext]_featureVars => AcceptedFeaturesFit'
    BY FeaturesStep
<1>. QED  BY <1>1, <1>2, PTL DEF FeaturesSpec

-------------------------------------------------------------------------------
(***************************************************************************)
(* Sketches: what the indices a client read, and the reports of the tools, *)
(* say of the elements.                                                    *)
(***************************************************************************)

\* Induction up to a bound, by the least counterexample.
LEMMA UpTo ==
    ASSUME NEW n \in Nat, NEW Good, 0 \in Good, \A k \in 1..n : k - 1 \in Good => k \in Good
    PROVE  \A k \in 0..n : k \in Good
<1>. DEFINE Bad == {k \in 0..n : k \notin Good}
<1>. SUFFICES ASSUME Bad # {} PROVE FALSE
    OBVIOUS
<1>1. PICK least \in Bad : \A y \in Bad : least <= y
    <2>1. Bad \subseteq Nat /\ Bad # {}
        OBVIOUS
    <2>. HIDE DEF Bad
    <2>. QED  BY <2>1, LeastOf
<1>2. least \in 0..n /\ least \notin Good
    BY <1>1
<1>3. least # 0
    BY <1>2
<1>4. least - 1 \in 0..n /\ least \in 1..n
    BY <1>2, <1>3
<1>5. least - 1 \in Good
    <2>1. PICK p : p = least - 1
        OBVIOUS
    <2>2. p \in 0..n /\ ~(least <= p)
        BY <1>4, <2>1
    <2>. QED  BY <1>1, <2>1, <2>2
<1>. QED  BY <1>2, <1>4, <1>5

\* A function that is defined turn by turn exists.
LEMMA TurnsExist ==
    ASSUME NEW n \in Nat, NEW S, NEW start \in S, NEW step \in [1..n -> [S -> S]]
    PROVE  \E f \in [0..n -> S] :
               f[0] = start /\ \A k \in 1..n : f[k] = step[k][f[k - 1]]
<1>. DEFINE Starts(f, m) == f[0] = start /\ \A k \in 1..m : f[k] = step[k][f[k - 1]]
            Good == {m \in 0..n : \E f \in [0..m -> S] : Starts(f, m)}
<1>1. 0 \in Good
  <2>1. [k \in 0..0 |-> start] \in [0..0 -> S] /\ Starts([k \in 0..0 |-> start], 0)
    OBVIOUS
  <2>2. \E f \in [0..0 -> S] : Starts(f, 0)
    <3>. HIDE DEF Starts
    <3>. QED  BY <2>1
  <2>. QED  BY <2>2
<1>2. ASSUME NEW m \in 1..n, m - 1 \in Good PROVE m \in Good
  <2>1. PICK f \in [0..(m - 1) -> S] : Starts(f, m - 1)
    BY <1>2
  <2>. DEFINE g == [k \in 0..m |-> IF k = m THEN step[m][f[m - 1]] ELSE f[k]]
  <2>2. f[m - 1] \in S /\ step[m][f[m - 1]] \in S
    OBVIOUS
  <2>3. \A k \in 0..m : k # m => k \in 0..(m - 1)
    OBVIOUS
  <2>4. g \in [0..m -> S]
    BY <2>2, <2>3
  <2>5. g[0] = start
    BY <2>1
  <2>6. ASSUME NEW k \in 1..m PROVE g[k] = step[k][g[k - 1]]
    <3>1. k - 1 \in 0..m /\ k - 1 # m /\ k \in 0..m
      OBVIOUS
    <3>2. g[k - 1] = f[k - 1]
      BY <3>1
    <3>3. CASE k = m
      BY <3>1, <3>2, <3>3
    <3>4. CASE k # m
      <4>1. k \in 1..(m - 1)
        BY <3>4
      <4>. QED  BY <2>1, <3>1, <3>2, <3>4, <4>1
    <3>. QED  BY <3>3, <3>4
  <2>. HIDE DEF g
  <2>7. Starts(g, m)
    BY <2>5, <2>6
  <2>8. \E h \in [0..m -> S] : Starts(h, m)
    <3>. HIDE DEF Starts
    <3>. QED  BY <2>4, <2>7
  <2>9. m \in 0..n
    OBVIOUS
  <2>. QED  BY <2>8, <2>9
<1>3. n \in Good
  <2>1. \A m \in 1..n : m - 1 \in Good => m \in Good
    BY <1>2
  <2>. HIDE DEF Good
  <2>2. \A m \in 0..n : m \in Good
    BY <1>1, <2>1, UpTo
  <2>. QED  BY <2>2
<1>. QED  BY <1>3

\* A sequence without its i-th element.
LEMMA RemovedElements ==
    ASSUME NEW S, NEW s \in Seq(S), NEW i \in 1..Len(s)
    PROVE  /\ RemoveAt(s, i) \in Seq(S)
           /\ Len(RemoveAt(s, i)) = Len(s) - 1
           /\ \A j \in 1..(Len(s) - 1) :
                RemoveAt(s, i)[j] = IF j < i THEN s[j] ELSE s[j + 1]
<1>. DEFINE front == SubSeq(s, 1, i - 1)
            back  == SubSeq(s, i + 1, Len(s))
<1>1. /\ front \in Seq(S) /\ Len(front) = i - 1
      /\ \A j \in 1..(i - 1) : front[j] = s[j]
    OBVIOUS
<1>2. /\ back \in Seq(S) /\ Len(back) = Len(s) - i
      /\ \A j \in 1..(Len(s) - i) : back[j] = s[i + j]
    OBVIOUS
<1>. HIDE DEF front, back
<1>3. /\ front \o back \in Seq(S) /\ Len(front \o back) = Len(front) + Len(back)
      /\ \A j \in 1..(Len(front) + Len(back)) :
            (front \o back)[j] = IF j <= Len(front) THEN front[j] ELSE back[j - Len(front)]
    BY <1>1, <1>2, ConcatProperties
<1>4. Len(front) + Len(back) = Len(s) - 1 /\ Len(s) \in Nat
    BY <1>1, <1>2
<1>5. ASSUME NEW j \in 1..(Len(s) - 1)
      PROVE  (front \o back)[j] = IF j < i THEN s[j] ELSE s[j + 1]
  <2>1. (front \o back)[j] = IF j <= i - 1 THEN front[j] ELSE back[j - (i - 1)]
    BY <1>1, <1>3, <1>4
  <2>2. CASE j <= i - 1
    BY <1>1, <2>1, <2>2
  <2>3. CASE ~(j <= i - 1)
    <3>1. j - (i - 1) \in 1..(Len(s) - i)
      BY <1>4, <2>3
    <3>2. back[j - (i - 1)] = s[i + (j - (i - 1))]
      BY <1>2, <3>1
    <3>3. i + (j - (i - 1)) = j + 1
      OBVIOUS
    <3>. QED  BY <2>1, <2>3, <3>2, <3>3
  <2>. QED  BY <2>2, <2>3
<1>. QED  BY <1>3, <1>4, <1>5 DEF RemoveAt, front, back

\* Deleting one place of a sequence, if it is to go.
LEMMA DeletedType ==
    ASSUME NEW S, NEW s \in Seq(S), NEW index \in Nat, NEW gone
    PROVE  Deleted(s, index, gone) \in Seq(S)
<1>1. CASE index \in gone /\ index < Len(s)
  <2>1. index + 1 \in 1..Len(s)
    BY <1>1
  <2>. QED  BY <1>1, <2>1, RemovedElements DEF Deleted
<1>2. CASE ~(index \in gone /\ index < Len(s))
  BY <1>2 DEF Deleted
<1>. QED  BY <1>1, <1>2

\* The loop that deletes the places from the last one down, turn by turn.
LEMMA DeletionUnfolds ==
    ASSUME NEW S, NEW s \in Seq(S), NEW gone
    PROVE  \E rest :
               /\ \A k \in 0..Len(s) : rest[k] \in Seq(S)
               /\ rest[0] = s
               /\ \A k \in 1..Len(s) : rest[k] = Deleted(rest[k - 1], Len(s) - k, gone)
               /\ WithoutPlaces(s, gone) = rest[Len(s)]
<1>. DEFINE n == Len(s)
            turns(r) == [turn \in 0..n |->
                            IF turn = 0 THEN s
                            ELSE Deleted(r[turn - 1], DeletionOrder(turn, n), gone)]
            step == [k \in 1..n |-> [t \in Seq(S) |-> Deleted(t, n - k, gone)]]
            chosen == CHOOSE r : r = turns(r)
<1>0. n \in Nat
  OBVIOUS
<1>1. WithoutPlaces(s, gone) = chosen[n]
  BY DEF WithoutPlaces
<1>. HIDE DEF n
<1>2. step \in [1..n -> [Seq(S) -> Seq(S)]]
  <2>1. \A k \in 1..n, t \in Seq(S) : Deleted(t, n - k, gone) \in Seq(S)
    <3>1. \A k \in 1..n : n - k \in Nat
      BY <1>0
    <3>. QED  BY <3>1, DeletedType
  <2>. QED  BY <2>1
<1>3. PICK f \in [0..n -> Seq(S)] :
          f[0] = s /\ \A k \in 1..n : f[k] = step[k][f[k - 1]]
  <2>. HIDE DEF step, turns, chosen
  <2>1. PICK T : T = Seq(S)
    OBVIOUS
  <2>2. step \in [1..n -> [T -> T]] /\ s \in T
    BY <1>2, <2>1
  <2>3. \E f \in [0..n -> T] : f[0] = s /\ \A k \in 1..n : f[k] = step[k][f[k - 1]]
    BY ONLY <1>0, <2>2, TurnsExist, SMTT(30)
  <2>. QED  BY <2>1, <2>3
<1>4. f = turns(f)
  <2>1. ASSUME NEW k \in 0..n
        PROVE  f[k] = IF k = 0 THEN s
                      ELSE Deleted(f[k - 1], DeletionOrder(k, n), gone)
    <3>1. CASE k = 0
      BY <1>3, <3>1
    <3>2. CASE k # 0
      <4>1. k \in 1..n /\ k - 1 \in 0..n
        BY <1>0, <3>2
      <4>2. f[k] = Deleted(f[k - 1], n - k, gone)
        BY <1>3, <4>1
      <4>. QED  BY <3>2, <4>2 DEF DeletionOrder
    <3>. QED  BY <3>1, <3>2
  <2>2. f = [k \in 0..n |-> f[k]]
    OBVIOUS
  <2>. QED  BY <2>1, <2>2
<1>5. chosen = turns(chosen)
  <2>. HIDE DEF turns
  <2>. QED  BY <1>4
<1>. HIDE DEF chosen
<1>6. chosen[0] = s /\ \A k \in 1..n : chosen[k] = Deleted(chosen[k - 1], n - k, gone)
  <2>1. 0 \in 0..n /\ \A k \in 1..n : k \in 0..n /\ k # 0
    BY <1>0
  <2>2. \A k \in 1..n : DeletionOrder(k, n) = n - k
    BY DEF DeletionOrder
  <2>. QED  BY <1>5, <2>1, <2>2
<1>7. \A k \in 0..n : chosen[k] \in Seq(S)
  <2>. DEFINE Good == {k \in 0..n : chosen[k] \in Seq(S)}
  <2>1. 0 \in Good
    BY <1>0, <1>6
  <2>2. ASSUME NEW k \in 1..n, k - 1 \in Good PROVE k \in Good
    <3>1. chosen[k - 1] \in Seq(S) /\ n - k \in Nat /\ k \in 0..n
      BY <1>0, <2>2
    <3>2. chosen[k] = Deleted(chosen[k - 1], n - k, gone)
      BY <1>6
    <3>. QED  BY <3>1, <3>2, DeletedType
  <2>. HIDE DEF Good
  <2>3. \A k \in 0..n : k \in Good
    BY <1>0, <2>1, <2>2, UpTo
  <2>. QED  BY <2>3 DEF Good
<1>. QED  BY <1>1, <1>6, <1>7 DEF n

\* What is left once the places from p on have had their turn: the places
\* below p as they were, then those that were to stay.
Left(s, gone, p, t) ==
    /\ p - 1 <= Len(t)
    /\ \A j \in 1..(p - 1) : t[j] = s[j]
    /\ \A j \in p..Len(t) : \E i \in p..Len(s) : i - 1 \notin gone /\ t[j] = s[i]
    /\ \A i \in p..Len(s) : i - 1 \notin gone => \E j \in p..Len(t) : t[j] = s[i]

Separate(s) == \A i, j \in 1..Len(s) : s[i] = s[j] => i = j

LEMMA PlaceGone ==
    ASSUME NEW S, NEW s \in Seq(S), NEW gone, NEW p \in 1..Len(s),
           NEW t \in Seq(S), Left(s, gone, p + 1, t)
    PROVE  /\ Left(s, gone, p, Deleted(t, p - 1, gone))
           /\ Separate(t) => Separate(Deleted(t, p - 1, gone))
<1>. DEFINE r == Deleted(t, p - 1, gone)
<1>1. p \in 1..Len(t) /\ Len(t) \in Nat /\ Len(s) \in Nat /\ p \in Nat
  BY DEF Left
<1>2. CASE p - 1 \in gone
  <2>1. r = RemoveAt(t, p)
    BY <1>1, <1>2 DEF Deleted
  <2>2. /\ Len(r) = Len(t) - 1
        /\ \A j \in 1..(Len(t) - 1) : r[j] = IF j < p THEN t[j] ELSE t[j + 1]
    BY <1>1, <2>1, RemovedElements
  <2>. HIDE DEF r
  <2>3. ASSUME NEW j \in 1..(p - 1) PROVE r[j] = s[j]
    <3>1. j \in 1..(Len(t) - 1) /\ j < p /\ j \in 1..((p + 1) - 1)
      BY <1>1
    <3>. QED  BY <2>2, <3>1 DEF Left
  <2>4. ASSUME NEW j \in p..Len(r)
        PROVE  \E i \in p..Len(s) : i - 1 \notin gone /\ r[j] = s[i]
    <3>1. j \in 1..(Len(t) - 1) /\ ~(j < p) /\ j + 1 \in (p + 1)..Len(t)
      BY <1>1, <2>2
    <3>2. PICK i \in (p + 1)..Len(s) : i - 1 \notin gone /\ t[j + 1] = s[i]
      BY <3>1 DEF Left
    <3>3. i \in p..Len(s)
      BY <1>1, <3>2
    <3>. QED  BY <2>2, <3>1, <3>2, <3>3
  <2>5. ASSUME NEW i \in p..Len(s), i - 1 \notin gone
        PROVE  \E j \in p..Len(r) : r[j] = s[i]
    <3>1. i \in (p + 1)..Len(s)
      <4>1. i # p
        BY <1>2, <2>5
      <4>. QED  BY <1>1, <4>1
    <3>2. PICK j \in (p + 1)..Len(t) : t[j] = s[i]
      BY <2>5, <3>1 DEF Left
    <3>3. PICK k : k = j - 1
      OBVIOUS
    <3>4. k \in p..Len(r) /\ k \in 1..(Len(t) - 1) /\ ~(k < p) /\ k + 1 = j
      BY <1>1, <2>2, <3>2, <3>3
    <3>5. r[k] = t[j]
      BY <2>2, <3>4
    <3>. QED  BY <3>2, <3>4, <3>5
  <2>6. ASSUME Separate(t), NEW i \in 1..Len(r), NEW j \in 1..Len(r), r[i] = r[j]
        PROVE  i = j
    <3>. DEFINE from(k) == IF k < p THEN k ELSE k + 1
    <3>1. \A k \in 1..Len(r) : from(k) \in 1..Len(t) /\ r[k] = t[from(k)]
      BY <1>1, <2>2
    <3>2. from(i) = from(j)
      BY <2>6, <3>1 DEF Separate
    <3>. QED  BY <1>1, <2>2, <3>2
  <2>7. Left(s, gone, p, r)
    <3>1. p - 1 <= Len(r)
      BY <1>1, <2>2
    <3>. QED  BY ONLY <2>3, <2>4, <2>5, <3>1, Zenon DEF Left
  <2>8. Separate(t) => Separate(r)
    BY ONLY <2>6, Zenon DEF Separate
  <2>. QED  BY <2>7, <2>8 DEF r
<1>3. CASE p - 1 \notin gone
  <2>1. r = t
    BY <1>3 DEF Deleted
  <2>2. t[p] = s[p]
    <3>1. p \in 1..((p + 1) - 1)
      BY <1>1
    <3>. QED  BY <3>1 DEF Left
  <2>3. ASSUME NEW j \in p..Len(t)
        PROVE  \E i \in p..Len(s) : i - 1 \notin gone /\ t[j] = s[i]
    <3>1. CASE j = p
      <4>1. p \in p..Len(s)
        BY <1>1
      <4>. QED  BY <1>3, <2>2, <3>1, <4>1
    <3>2. CASE j # p
      <4>1. j \in (p + 1)..Len(t)
        BY <1>1, <3>2
      <4>2. PICK i \in (p + 1)..Len(s) : i - 1 \notin gone /\ t[j] = s[i]
        BY <4>1 DEF Left
      <4>3. i \in p..Len(s)
        BY <1>1, <4>2
      <4>. QED  BY <4>2, <4>3
    <3>. QED  BY <3>1, <3>2
  <2>4. ASSUME NEW i \in p..Len(s), i - 1 \notin gone
        PROVE  \E j \in p..Len(t) : t[j] = s[i]
    <3>1. CASE i = p
      <4>1. p \in p..Len(t)
        BY <1>1
      <4>. QED  BY <2>2, <3>1, <4>1
    <3>2. CASE i # p
      <4>1. i \in (p + 1)..Len(s)
        BY <1>1, <3>2
      <4>2. PICK j \in (p + 1)..Len(t) : t[j] = s[i]
        BY <2>4, <4>1 DEF Left
      <4>3. j \in p..Len(t)
        BY <1>1, <4>2
      <4>. QED  BY <4>2, <4>3
    <3>. QED  BY <3>1, <3>2
  <2>5. \A j \in 1..(p - 1) : t[j] = s[j]
    <3>1. \A j \in 1..(p - 1) : j \in 1..((p + 1) - 1)
      BY <1>1
    <3>. QED  BY <3>1 DEF Left
  <2>6. Left(s, gone, p, t)
    <3>1. p - 1 <= Len(t)
      BY <1>1
    <3>. QED  BY ONLY <2>3, <2>4, <2>5, <3>1, Zenon DEF Left
  <2>. HIDE DEF r
  <2>. QED  BY <2>1, <2>6 DEF r
<1>. QED  BY <1>2, <1>3

\* What is left of a sequence is what stood at the other places.
LEMMA PlacesLeft ==
    ASSUME NEW S, NEW s \in Seq(S), NEW gone
    PROVE  /\ WithoutPlaces(s, gone) \in Seq(S)
           /\ Left(s, gone, 1, WithoutPlaces(s, gone))
           /\ Separate(s) => Separate(WithoutPlaces(s, gone))
<1>a. PICK rest :
          /\ \A k \in 0..Len(s) : rest[k] \in Seq(S)
          /\ rest[0] = s
          /\ \A k \in 1..Len(s) : rest[k] = Deleted(rest[k - 1], Len(s) - k, gone)
          /\ WithoutPlaces(s, gone) = rest[Len(s)]
  BY DeletionUnfolds, SMTT(30)
<1>0. PICK n \in Nat : n = Len(s)
  OBVIOUS
<1>1. /\ rest[0] = s
      /\ \A k \in 1..n : rest[k] = Deleted(rest[k - 1], n - k, gone)
      /\ \A k \in 0..n : rest[k] \in Seq(S)
      /\ WithoutPlaces(s, gone) = rest[n]
  BY <1>0, <1>a
<1>. DEFINE Fine(k) == /\ Left(s, gone, n - k + 1, rest[k])
                       /\ Separate(s) => Separate(rest[k])
            Good == {k \in 0..n : Fine(k)}
<1>2. 0 \in Good
  <2>1. Left(s, gone, n + 1, s)
    BY <1>0 DEF Left
  <2>2. n - 0 + 1 = n + 1 /\ 0 \in 0..n
    BY <1>0
  <2>. QED  BY <1>1, <2>1, <2>2
<1>3. ASSUME NEW k \in 1..n, k - 1 \in Good PROVE k \in Good
  <2>1. PICK p \in 1..n : p = n - k + 1
    <3>1. n - k + 1 \in 1..n
      BY <1>0
    <3>. QED  BY <3>1
  <2>2. n - (k - 1) + 1 = p + 1 /\ n - k = p - 1 /\ k \in 0..n /\ k - 1 \in 0..n
    BY <1>0, <2>1
  <2>3. rest[k - 1] \in Seq(S) /\ Left(s, gone, p + 1, rest[k - 1])
        /\ (Separate(s) => Separate(rest[k - 1]))
    BY <1>1, <1>3, <2>2
  <2>4. rest[k] = Deleted(rest[k - 1], p - 1, gone)
    BY <1>1, <2>2
  <2>5. Left(s, gone, p, rest[k]) /\ (Separate(rest[k - 1]) => Separate(rest[k]))
    BY <1>0, <2>3, <2>4, PlaceGone
  <2>6. Fine(k)
    BY <2>1, <2>3, <2>5
  <2>. HIDE DEF Fine
  <2>. QED  BY <2>2, <2>6
<1>4. n \in Good
  <2>1. \A k \in 1..n : k - 1 \in Good => k \in Good
    BY <1>3
  <2>. HIDE DEF Good
  <2>2. \A k \in 0..n : k \in Good
    BY <1>0, <1>2, <2>1, UpTo
  <2>. QED  BY <1>0, <2>2
<1>5. n - n + 1 = 1 /\ rest[n] \in Seq(S)
  BY <1>0, <1>1
<1>. QED  BY <1>0, <1>1, <1>4, <1>5

SketchElements == [id : Nat, construction : BOOLEAN]
SketchTies == [on : SUBSET Int, driving : BOOLEAN]

\* Elements with identities of their own, out of those made so far.
WellMade(elements, made) ==
    /\ elements \in Seq(SketchElements)
    /\ \A i, j \in 1..Len(elements) : elements[i].id = elements[j].id => i = j
    /\ \A i \in 1..Len(elements) : elements[i].id \in 1..made

\* The elements a client read, in their places.
Shows(elements, seen) ==
    /\ Len(seen) <= Len(elements)
    /\ \A k \in 1..Len(seen) : elements[k].id = seen[k]

\* What can be undone to: sketches of elements made so far, and, back to the last read,
\* sketches that show what was read.
PastWellMade ==
    \A k \in 1..Len(past) :
        /\ WellMade(past[k].geometry, elementsMade)
        /\ past[k].constraints \in Seq(SketchTies)
        /\ past[k].drawn \in BOOLEAN
        /\ ~past[k].drawn => past[k].geometry = <<>>

PastShows ==
    ~renumbered =>
        /\ readAt <= Len(past)
        /\ \A k \in (readAt + 1)..Len(past) : Shows(past[k].geometry, clientView)

SketchStates == [drawn : BOOLEAN, geometry : Seq(SketchElements), constraints : Seq(SketchTies)]

PastAgrees ==
    past \in Seq(SketchStates) /\ readAt \in Nat /\ PastWellMade /\ PastShows

SketchInv ==
    /\ WellMade(geometry, elementsMade)
    /\ constraints \in Seq(SketchTies)
    /\ elementsMade \in Nat
    /\ clientView \in Seq(Nat)
    /\ drawn \in BOOLEAN
    /\ ~drawn => geometry = <<>>
    /\ PastAgrees

LEMMA ElementFields ==
    ASSUME NEW i \in Nat, NEW c \in BOOLEAN
    PROVE  /\ [id |-> i, construction |-> c] \in SketchElements
           /\ [id |-> i, construction |-> c].id = i
BY Zenon DEF SketchElements

LEMMA ElementIds ==
    ASSUME NEW e \in SketchElements
    PROVE  e.id \in Nat /\ e.construction \in BOOLEAN
BY Zenon DEF SketchElements

LEMMA TieFields ==
    ASSUME NEW e, e \subseteq Int
    PROVE  Tie(e) \in SketchTies /\ Tie(e).on = e
BY Zenon DEF SketchTies, Tie

LEMMA TieEdited ==
    ASSUME NEW t \in SketchTies, NEW d \in BOOLEAN, NEW e, e \subseteq Int
    PROVE  [t EXCEPT !.driving = d] \in SketchTies /\ [t EXCEPT !.on = e] \in SketchTies
BY Zenon DEF SketchTies

LEMMA ElementToggled ==
    ASSUME NEW e \in SketchElements
    PROVE  /\ [e EXCEPT !.construction = ~@] \in SketchElements
           /\ [e EXCEPT !.construction = ~@].id = e.id
BY Zenon DEF SketchElements

LEMMA Concatenated ==
    ASSUME NEW S, NEW s \in Seq(S), NEW t \in Seq(S)
    PROVE  /\ s \o t \in Seq(S) /\ Len(s \o t) = Len(s) + Len(t)
           /\ \A i \in 1..Len(s) : (s \o t)[i] = s[i]
           /\ \A i \in 1..Len(t) : (s \o t)[Len(s) + i] = t[i]
<1>1. /\ s \o t \in Seq(S) /\ Len(s \o t) = Len(s) + Len(t)
      /\ \A i \in 1..(Len(s) + Len(t)) :
            (s \o t)[i] = IF i <= Len(s) THEN s[i] ELSE t[i - Len(s)]
  BY ConcatProperties
<1>2. Len(s) \in Nat /\ Len(t) \in Nat
  OBVIOUS
<1>3. ASSUME NEW i \in 1..Len(t) PROVE (s \o t)[Len(s) + i] = t[i]
  <2>1. Len(s) + i \in 1..(Len(s) + Len(t)) /\ ~(Len(s) + i <= Len(s))
        /\ (Len(s) + i) - Len(s) = i
    BY <1>2
  <2>. QED  BY <1>1, <2>1
<1>4. ASSUME NEW i \in 1..Len(s) PROVE (s \o t)[i] = s[i]
  <2>1. i \in 1..(Len(s) + Len(t)) /\ i <= Len(s)
    BY <1>2
  <2>. QED  BY <1>1, <2>1
<1>. QED  BY <1>1, <1>3, <1>4

LEMMA NewOnes ==
    ASSUME NEW n \in Nat, NEW c \in BOOLEAN, elementsMade \in Nat
    PROVE  /\ NewElements(n, c) \in Seq(SketchElements) /\ Len(NewElements(n, c)) = n
           /\ \A k \in 1..n : NewElements(n, c)[k].id = elementsMade + k
<1>. DEFINE el(k) == [id |-> elementsMade + k, construction |-> c]
<1>1. \A k \in 1..n : el(k) \in SketchElements /\ el(k).id = elementsMade + k
  <2>1. \A k \in 1..n : elementsMade + k \in Nat
    OBVIOUS
  <2>. QED  BY <2>1, ElementFields
<1>2. NewElements(n, c) = [k \in 1..n |-> el(k)]
  BY DEF NewElements
<1>. HIDE DEF el
<1>. QED  BY <1>1, <1>2

LEMMA GrownOnes ==
    ASSUME NEW n \in Nat, NEW c \in BOOLEAN, SketchInv
    PROVE  /\ WellMade(Grown(n, c), elementsMade + n)
           /\ Len(Grown(n, c)) = Len(geometry) + n
           /\ \A k \in 1..Len(geometry) : Grown(n, c)[k] = geometry[k]
           /\ \A k \in 1..n : Grown(n, c)[Len(geometry) + k].id = elementsMade + k
           /\ Ids(Grown(n, c)) \ Ids(geometry) = (elementsMade + 1)..(elementsMade + n)
           /\ Cardinality(Ids(Grown(n, c)) \ Ids(geometry)) = n
<1>. DEFINE e == Grown(n, c)
            old == Len(geometry)
<1>1. /\ geometry \in Seq(SketchElements) /\ elementsMade \in Nat
      /\ \A i, j \in 1..old : geometry[i].id = geometry[j].id => i = j
      /\ \A i \in 1..old : geometry[i].id \in 1..elementsMade
  BY DEF SketchInv, WellMade
<1>2. /\ NewElements(n, c) \in Seq(SketchElements) /\ Len(NewElements(n, c)) = n
      /\ \A k \in 1..n : NewElements(n, c)[k].id = elementsMade + k
  BY <1>1, NewOnes
<1>3. /\ e \in Seq(SketchElements) /\ Len(e) = old + n
      /\ \A k \in 1..old : e[k] = geometry[k]
      /\ \A k \in 1..n : e[old + k] = NewElements(n, c)[k]
  <2>1. e = geometry \o NewElements(n, c)
    BY DEF Grown
  <2>. HIDE DEF e
  <2>2. PICK w : w = NewElements(n, c)
    OBVIOUS
  <2>3. w \in Seq(SketchElements) /\ Len(w) = n /\ e = geometry \o w
    BY <1>2, <2>1, <2>2
  <2>4. /\ geometry \o w \in Seq(SketchElements)
        /\ Len(geometry \o w) = Len(geometry) + Len(w)
        /\ \A k \in 1..Len(geometry) : (geometry \o w)[k] = geometry[k]
        /\ \A k \in 1..Len(w) : (geometry \o w)[Len(geometry) + k] = w[k]
    <3>1. geometry \in Seq(SketchElements) /\ w \in Seq(SketchElements)
      BY <1>1, <2>3
    <3>. HIDE DEF old
    <3>. QED  BY ONLY <3>1, Concatenated
  <2>. QED  BY <2>2, <2>3, <2>4
<1>4. old \in Nat
  BY <1>1
<1>. HIDE DEF e, old
<1>5. \A k \in 1..n : e[old + k].id = elementsMade + k
  BY <1>2, <1>3
<1>6. ASSUME NEW i \in 1..Len(e)
      PROVE  \/ i \in 1..old /\ e[i].id = geometry[i].id /\ e[i].id \in 1..elementsMade
             \/ /\ i \in (old + 1)..(old + n) /\ e[i].id = elementsMade + (i - old)
                /\ e[i].id \in (elementsMade + 1)..(elementsMade + n)
  <2>1. CASE i <= old
    <3>1. i \in 1..old
      BY <1>3, <1>4, <2>1
    <3>. QED  BY <1>1, <1>3, <3>1
  <2>2. CASE ~(i <= old)
    <3>1. PICK k \in 1..n : i = old + k
      <4>1. i - old \in 1..n /\ i = old + (i - old)
        BY <1>3, <1>4, <2>2
      <4>. QED  BY <4>1
    <3>2. e[i].id = elementsMade + k /\ i - old = k
      BY <1>4, <1>5, <3>1
    <3>. QED  BY <1>1, <1>4, <3>1, <3>2
  <2>. QED  BY <2>1, <2>2
<1>7. WellMade(e, elementsMade + n)
  <2>1. ASSUME NEW i \in 1..Len(e), NEW j \in 1..Len(e), e[i].id = e[j].id PROVE i = j
    <3>1. CASE i \in 1..old /\ j \in 1..old
      <4>1. geometry[i].id = geometry[j].id
        BY <1>4, <1>6, <2>1, <3>1
      <4>. QED  BY <1>1, <3>1, <4>1 DEF old
    <3>2. CASE i \notin 1..old /\ j \notin 1..old
      <4>1. PICK a \in Nat : a = elementsMade
        BY <1>1
      <4>2. PICK x \in Int : x = e[i].id
        BY <1>6, <3>2, <4>1
      <4>3. x = a + (i - old) /\ x = a + (j - old)
        BY <1>6, <2>1, <3>2, <4>1, <4>2
      <4>. QED  BY <1>4, <4>1, <4>3
    <3>3. \A k \in 1..Len(e) : IF k \in 1..old THEN e[k].id \in 1..elementsMade
                               ELSE e[k].id \in (elementsMade + 1)..(elementsMade + n)
      BY <1>4, <1>6
    <3>4. \A x : ~(x \in 1..elementsMade /\ x \in (elementsMade + 1)..(elementsMade + n))
      BY <1>1
    <3>5. i \in 1..old <=> j \in 1..old
      BY <2>1, <3>3, <3>4
    <3>. QED  BY <3>1, <3>2, <3>5
  <2>2. \A i \in 1..Len(e) : e[i].id \in 1..(elementsMade + n)
    BY <1>1, <1>6
  <2>. QED  BY <1>3, <2>1, <2>2 DEF WellMade
<1>8. Ids(e) \ Ids(geometry) = (elementsMade + 1)..(elementsMade + n)
  <2>1. ASSUME NEW x \in Ids(e) \ Ids(geometry)
        PROVE  x \in (elementsMade + 1)..(elementsMade + n)
    <3>1. PICK i \in 1..Len(e) : x = e[i].id
      BY <1>3 DEF Ids
    <3>2. ~(i \in 1..old /\ e[i].id = geometry[i].id)
      BY <1>1, <3>1 DEF Ids, old
    <3>. QED  BY <1>6, <3>1, <3>2
  <2>2. ASSUME NEW x \in (elementsMade + 1)..(elementsMade + n)
        PROVE  x \in Ids(e) \ Ids(geometry)
    <3>1. PICK k \in 1..n : x = elementsMade + k
      <4>1. x - elementsMade \in 1..n /\ x = elementsMade + (x - elementsMade)
        BY <1>1
      <4>. QED  BY <4>1
    <3>2. old + k \in 1..Len(e) /\ e[old + k].id = x
      BY <1>3, <1>4, <1>5, <3>1
    <3>3. x \in Ids(e)
      BY <1>3, <3>2 DEF Ids
    <3>4. ASSUME x \in Ids(geometry) PROVE FALSE
      <4>1. PICK i \in 1..old : x = geometry[i].id
        BY <1>1, <3>4 DEF Ids, old
      <4>. QED  BY <1>1, <4>1
    <3>. QED  BY <3>3, <3>4
  <2>. QED  BY <2>1, <2>2
<1>9. Cardinality((elementsMade + 1)..(elementsMade + n)) = n
  <2>1. elementsMade + 1 \in Int /\ elementsMade + n \in Int
    BY <1>1
  <2>2. Cardinality((elementsMade + 1)..(elementsMade + n)) =
            IF elementsMade + 1 > elementsMade + n THEN 0
            ELSE (elementsMade + n) - (elementsMade + 1) + 1
    BY <2>1, FS_Interval
  <2>. QED  BY <1>1, <2>2
<1>. QED  BY <1>3, <1>5, <1>7, <1>8, <1>9 DEF e, old

Steady(elements) ==
    /\ Len(geometry) <= Len(elements)
    /\ \A k \in 1..Len(geometry) : elements[k].id = geometry[k].id

MadeBy(elements) == Cardinality(Ids(elements) \ Ids(geometry))

LEMMA SameOnes ==
    ASSUME SketchInv
    PROVE  WellMade(geometry, elementsMade) /\ MadeBy(geometry) = 0 /\ Steady(geometry)
<1>1. Ids(geometry) \ Ids(geometry) = {}
  OBVIOUS
<1>2. Cardinality({}) = 0
  BY FS_EmptySet
<1>3. WellMade(geometry, elementsMade)
  BY DEF SketchInv
<1>4. geometry \in Seq(SketchElements)
  BY <1>3 DEF WellMade
<1>5. Steady(geometry)
  BY <1>4 DEF Steady
<1>6. MadeBy(geometry) = 0
  BY <1>1, <1>2 DEF MadeBy
<1>. QED  BY <1>3, <1>5, <1>6

LEMMA MoreMade ==
    ASSUME NEW elements, NEW n \in Nat, NEW m \in Nat, n <= m, WellMade(elements, n)
    PROVE  WellMade(elements, m)
<1>1. \A i : i \in 1..n => i \in 1..m
  OBVIOUS
<1>. QED  BY <1>1 DEF WellMade

\* The sketch before a change joins those that can be undone to.
LEMMA PastGrows ==
    ASSUME SketchInv, IndicesHoldUntilRenumbered,
           past' = Append(past, Before), UNCHANGED <<clientView, readAt>>,
           elementsMade' \in Nat, elementsMade <= elementsMade',
           renumbered => renumbered'
    PROVE  PastAgrees'
<1>. DEFINE n == Len(past)
<1>1. /\ past \in Seq(SketchStates) /\ readAt \in Nat /\ PastWellMade /\ PastShows
      /\ elementsMade \in Nat /\ WellMade(geometry, elementsMade)
      /\ constraints \in Seq(SketchTies) /\ drawn \in BOOLEAN
      /\ ~drawn => geometry = <<>>
  BY DEF SketchInv, PastAgrees
<1>2. /\ Before \in SketchStates /\ Before.drawn = drawn /\ Before.geometry = geometry
      /\ Before.constraints = constraints
  BY <1>1 DEF Before, SketchStates, WellMade
<1>3. /\ past' \in Seq(SketchStates) /\ Len(past') = n + 1 /\ n \in Nat
      /\ \A k \in 1..n : past'[k] = past[k]
      /\ past'[n + 1] = Before
  BY <1>1, <1>2, AppendFacts
<1>. HIDE DEF n
<1>4. PastWellMade'
  <2>. SUFFICES ASSUME NEW k \in 1..(n + 1)
                PROVE  /\ WellMade(past'[k].geometry, elementsMade')
                       /\ past'[k].constraints \in Seq(SketchTies)
                       /\ past'[k].drawn \in BOOLEAN
                       /\ ~past'[k].drawn => past'[k].geometry = <<>>
    BY <1>3 DEF PastWellMade, WellMade
  <2>1. CASE k \in 1..n
    <3>1. /\ past'[k] = past[k] /\ WellMade(past[k].geometry, elementsMade)
          /\ past[k].constraints \in Seq(SketchTies) /\ past[k].drawn \in BOOLEAN
          /\ ~past[k].drawn => past[k].geometry = <<>>
      BY <1>1, <1>3, <2>1 DEF PastWellMade, n
    <3>. QED  BY <1>1, <3>1, MoreMade
  <2>2. CASE k = n + 1
    BY <1>1, <1>2, <1>3, <2>2, MoreMade
  <2>. QED  BY <1>3, <2>1, <2>2
<1>5. PastShows'
  <2>. SUFFICES ASSUME ~renumbered'
                PROVE  /\ readAt <= n + 1
                       /\ \A k \in (readAt + 1)..(n + 1) : Shows(past'[k].geometry, clientView)
    BY <1>3 DEF PastShows, Shows
  <2>1. ~renumbered /\ readAt <= n
    BY <1>1 DEF PastShows, n
  <2>2. Shows(geometry, clientView)
    <3>1. DOMAIN clientView = 1..Len(clientView)
      BY DEF SketchInv
    <3>. QED  BY <2>1, <3>1 DEF IndicesHoldUntilRenumbered, Shows
  <2>3. ASSUME NEW k \in (readAt + 1)..(n + 1) PROVE Shows(past'[k].geometry, clientView)
    <3>1. CASE k = n + 1
      BY <1>2, <1>3, <2>2, <3>1
    <3>2. CASE k # n + 1
      <4>1. k \in 1..n /\ k \in (readAt + 1)..n
        BY <1>1, <1>3, <3>2
      <4>2. Shows(past[k].geometry, clientView)
        BY <1>1, <2>1, <4>1 DEF PastShows, n
      <4>. QED  BY <1>3, <4>1, <4>2
    <3>. QED  BY <3>1, <3>2
  <2>4. readAt <= n + 1
    BY <1>1, <1>3, <2>1
  <2>. QED  BY <2>3, <2>4
<1>. QED  BY <1>1, <1>3, <1>4, <1>5 DEF PastAgrees

LEMMA PastRests ==
    ASSUME SketchInv, UNCHANGED <<past, clientView, readAt, elementsMade>>,
           renumbered => renumbered'
    PROVE  PastAgrees'
<1>1. past \in Seq(SketchStates) /\ readAt \in Nat /\ PastWellMade /\ PastShows
  BY DEF SketchInv, PastAgrees
<1>2. PastWellMade'
  BY <1>1 DEF PastWellMade, WellMade
<1>3. PastShows'
  BY <1>1 DEF PastShows, Shows
<1>. QED  BY <1>1, <1>2, <1>3 DEF PastAgrees

\* What a call on the sketch keeps: a call that moves an element says so.
LEMMA MutationKeeps ==
    ASSUME SketchInv, IndicesHoldUntilRenumbered,
           NEW call, NEW elements, NEW ties, NEW facts,
           MutateSketch(call, elements, ties, facts),
           ties \in Seq(SketchTies), MadeBy(elements) \in Nat,
           WellMade(elements, elementsMade + MadeBy(elements)),
           Renumbers \/ (Keeps /\ Steady(elements))
    PROVE  SketchInv' /\ IndicesHoldUntilRenumbered'
<1>1. /\ elementsMade \in Nat /\ clientView \in Seq(Nat) /\ constraints \in Seq(SketchTies)
      /\ geometry \in Seq(SketchElements)
  BY DEF SketchInv, WellMade
<1>2. /\ clientView' = clientView /\ drawn' = drawn /\ drawn /\ readAt' = readAt
      /\ renumbered => renumbered'
  BY DEF MutateSketch, Renumbers, Keeps
<1>3. \/ /\ geometry' = elements /\ constraints' = ties
         /\ elementsMade' = elementsMade + MadeBy(elements)
         /\ past' = Append(past, Before)
      \/ /\ geometry' = geometry /\ constraints' = constraints
         /\ elementsMade' = elementsMade /\ past' = past
  BY DEF MutateSketch, Rejected, MadeBy, Commits
<1>4. SketchInv'
  <2>1. CASE /\ geometry' = elements /\ constraints' = ties
             /\ elementsMade' = elementsMade + MadeBy(elements)
             /\ past' = Append(past, Before)
    <3>1. WellMade(geometry', elementsMade')
      BY <2>1
    <3>2. /\ constraints' \in Seq(SketchTies) /\ elementsMade' \in Nat
          /\ elementsMade <= elementsMade'
      BY <1>1, <2>1
    <3>3. PastAgrees'
      BY <1>2, <2>1, <3>2, PastGrows
    <3>. QED  BY <1>1, <1>2, <3>1, <3>2, <3>3 DEF SketchInv, WellMade
  <2>2. CASE /\ geometry' = geometry /\ constraints' = constraints
             /\ elementsMade' = elementsMade /\ past' = past
    <3>1. PastAgrees'
      BY <1>2, <2>2, PastRests
    <3>. QED  BY <1>2, <2>2, <3>1 DEF SketchInv, WellMade
  <2>. QED  BY <1>3, <2>1, <2>2
<1>5. IndicesHoldUntilRenumbered'
  <2>. SUFFICES ASSUME ~renumbered'
                PROVE  /\ Len(clientView') <= Len(geometry')
                       /\ \A k \in DOMAIN clientView' : geometry'[k].id = clientView'[k]
    BY DEF IndicesHoldUntilRenumbered
  <2>1. ~renumbered /\ Steady(elements)
    BY DEF Renumbers, Keeps
  <2>2. /\ Len(clientView) <= Len(geometry)
        /\ \A k \in 1..Len(clientView) : geometry[k].id = clientView[k]
    BY <1>1, <2>1, SMTT(30), ZenonT(20) DEF IndicesHoldUntilRenumbered
  <2>3. Len(elements) \in Nat /\ Len(geometry) \in Nat /\ Len(clientView) \in Nat
    BY <1>1 DEF WellMade
  <2>6. DOMAIN clientView' = 1..Len(clientView) /\ Len(clientView') = Len(clientView)
    BY <1>1, <1>2
  <2>4. CASE geometry' = geometry
    <3>1. \A k \in 1..Len(clientView) : geometry'[k].id = clientView'[k]
      BY <1>2, <2>2, <2>4
    <3>2. Len(clientView') <= Len(geometry')
      BY <1>2, <2>2, <2>4
    <3>. QED  BY <2>6, <3>1, <3>2
  <2>5. CASE geometry' = elements
    <3>1. Len(clientView) <= Len(elements)
      BY <2>1, <2>2, <2>3 DEF Steady
    <3>2. ASSUME NEW k \in 1..Len(clientView) PROVE elements[k].id = clientView[k]
      <4>1. k \in 1..Len(geometry)
        BY <2>2, <2>3
      <4>. QED  BY <2>1, <2>2, <4>1 DEF Steady
    <3>3. \A k \in 1..Len(clientView) : geometry'[k].id = clientView'[k]
      BY <1>2, <2>5, <3>2
    <3>4. Len(clientView') <= Len(geometry')
      BY <1>2, <2>5, <3>1
    <3>. QED  BY <2>6, <3>3, <3>4
  <2>. QED  BY <1>3, <2>4, <2>5
<1>. QED  BY <1>4, <1>5

Fields == {"call", "added", "removed", "from", "before", "loop", "place"}

\* The report of a call that made the sketch's elements what they are now.
LEMMA ReportTold ==
    ASSUME NEW call, NEW elements, NEW ties, NEW facts, DOMAIN facts = Fields,
           MutateSketch(call, elements, ties, facts)
    PROVE  \/ /\ told'.call = "rejected" /\ told'.added = {} /\ told'.removed = {}
              /\ told'.loop = <<>> /\ told'.place = <<>>
           \/ /\ geometry' = elements /\ constraints' = ties
              /\ told'.call = call /\ told'.added = facts.added
              /\ told'.removed = facts.removed /\ told'.loop = facts.loop
              /\ told'.place = facts.place /\ told'.from = elementsMade
              /\ told'.before = Ids(geometry)
<1>1. CASE told' = [Silent EXCEPT !.call = "rejected"]
  BY <1>1 DEF Silent
<1>2. CASE /\ geometry' = elements /\ constraints' = ties
           /\ told' = [facts EXCEPT !.call = call, !.from = elementsMade,
                                    !.before = Ids(geometry)]
  <2>1. told' = [facts EXCEPT !.call = call, !.from = elementsMade, !.before = Ids(geometry)]
    BY <1>2
  <2>2. /\ told'.call = call /\ told'.added = facts.added
        /\ told'.removed = facts.removed /\ told'.loop = facts.loop
        /\ told'.place = facts.place /\ told'.from = elementsMade
        /\ told'.before = Ids(geometry)
    BY <2>1 DEF Fields
  <2>. QED  BY <1>2, <2>2
<1>. QED  BY <1>1, <1>2 DEF MutateSketch, Rejected

LEMMA Nones ==
    /\ DOMAIN Silent = Fields /\ Silent.added = {} /\ Silent.removed = {}
    /\ Silent.loop = <<>> /\ Silent.place = <<>>
BY DEF Silent, Fields

LEMMA Addeds ==
    ASSUME NEW a, NEW l
    PROVE  LET facts == [Silent EXCEPT !.added = a, !.loop = l]
           IN  /\ DOMAIN facts = Fields /\ facts.added = a /\ facts.removed = {}
               /\ facts.loop = l /\ facts.place = <<>>
BY DEF Silent, Fields

LEMMA OnlyAddeds ==
    ASSUME NEW a
    PROVE  LET facts == [Silent EXCEPT !.added = a]
           IN  /\ DOMAIN facts = Fields /\ facts.added = a /\ facts.removed = {}
               /\ facts.loop = <<>> /\ facts.place = <<>>
BY DEF Silent, Fields

LEMMA Removeds ==
    ASSUME NEW a
    PROVE  LET facts == [Silent EXCEPT !.removed = a]
           IN  /\ DOMAIN facts = Fields /\ facts.added = {} /\ facts.removed = a
               /\ facts.loop = <<>> /\ facts.place = <<>>
BY DEF Silent, Fields

\* A report is true of the sketch if it is true of the elements and the ties
\* the call asked for.
LEMMA MutationTells ==
    ASSUME NEW call, NEW elements, NEW ties, NEW facts, DOMAIN facts = Fields,
           MutateSketch(call, elements, ties, facts),
           facts.added # {} => {elements[index + 1].id : index \in facts.added}
                                   = Ids(elements) \ Ids(geometry),
           facts.removed # {} => Ids(elements) = Ids(geometry) \ facts.removed,
           call = "add_sketch_rectangle" =>
               \A i \in facts.added :
                   LET next == elementsMade + ((elements[i + 1].id - elementsMade) % 4) + 1
                   IN  \E k \in DOMAIN ties : ties[k].on = {elements[i + 1].id, next},
           Closes(facts.loop), facts.place = <<>>
    PROVE  ReportsTellTheSketch'
<1>1. CASE /\ told'.call = "rejected" /\ told'.added = {} /\ told'.removed = {}
           /\ told'.loop = <<>> /\ told'.place = <<>>
  <2>1. Closes(<<>>)
    BY DEF Closes
  <2>. QED  BY <1>1, <2>1 DEF ReportsTellTheSketch, Closes
<1>2. CASE /\ geometry' = elements /\ constraints' = ties
           /\ told'.call = call /\ told'.added = facts.added
           /\ told'.removed = facts.removed /\ told'.loop = facts.loop
           /\ told'.place = facts.place /\ told'.from = elementsMade
           /\ told'.before = Ids(geometry)
  <2>1. told'.added # {} =>
           {ElementAt(index)' : index \in told'.added} = Ids(geometry') \ told'.before
    BY <1>2 DEF ElementAt
  <2>2. told'.removed # {} => Ids(geometry') = told'.before \ told'.removed
    BY <1>2
  <2>3. told'.call = "add_sketch_rectangle" =>
           \A i \in told'.added :
               \E k \in DOMAIN constraints' : constraints'[k].on =
                   {geometry'[i + 1].id,
                    told'.from + ((geometry'[i + 1].id - told'.from) % 4) + 1}
    BY <1>2
  <2>4. Closes(told'.loop) /\ told'.place = <<>>
    BY <1>2
  <2>. QED  BY <2>1, <2>2, <2>3, <2>4 DEF ReportsTellTheSketch, ElementAt, Ids, Closes
<1>. QED  BY <1>1, <1>2, ReportTold

\* The indices a call reports as added are those of the new elements.
LEMMA AddedAreNew ==
    ASSUME SketchInv, NEW n \in Nat, NEW c \in BOOLEAN
    PROVE  /\ AddedFrom(Grown(n, c)) = Len(geometry)..(Len(geometry) + n - 1)
           /\ {Grown(n, c)[index + 1].id : index \in AddedFrom(Grown(n, c))} =
                  Ids(Grown(n, c)) \ Ids(geometry)
<1>. DEFINE e == Grown(n, c)
            old == Len(geometry)
<1>1. /\ Len(e) = old + n /\ \A k \in 1..n : e[old + k].id = elementsMade + k
      /\ Ids(e) \ Ids(geometry) = (elementsMade + 1)..(elementsMade + n)
  BY GrownOnes
<1>2. old \in Nat /\ elementsMade \in Nat
  BY DEF SketchInv, WellMade
<1>. HIDE DEF e, old
<1>3. AddedFrom(e) = old..(old + n - 1)
  <2>1. AddedFrom(e) = old..(old + n - 1)
    BY <1>1 DEF AddedFrom, old
  <2>. QED  BY <2>1
<1>4. ASSUME NEW index \in old..(old + n - 1)
      PROVE  e[index + 1].id \in (elementsMade + 1)..(elementsMade + n)
  <2>1. PICK k \in 1..n : index + 1 = old + k
    <3>1. index + 1 - old \in 1..n /\ index + 1 = old + (index + 1 - old)
      BY <1>2
    <3>. QED  BY <3>1
  <2>2. e[index + 1].id = elementsMade + k
    BY <1>1, <2>1
  <2>. QED  BY <1>2, <2>1, <2>2
<1>5. ASSUME NEW x \in (elementsMade + 1)..(elementsMade + n)
      PROVE  \E index \in old..(old + n - 1) : x = e[index + 1].id
  <2>1. PICK k \in 1..n : x = elementsMade + k
    <3>1. x - elementsMade \in 1..n /\ x = elementsMade + (x - elementsMade)
      BY <1>2
    <3>. QED  BY <3>1
  <2>2. PICK index \in old..(old + n - 1) : index + 1 = old + k
    <3>1. old + k - 1 \in old..(old + n - 1) /\ (old + k - 1) + 1 = old + k
      BY <1>2
    <3>. QED  BY <3>1
  <2>3. e[index + 1].id = x
    BY <1>1, <2>1, <2>2
  <2>. QED  BY <2>3
<1>6. {e[index + 1].id : index \in AddedFrom(e)} = (elementsMade + 1)..(elementsMade + n)
  BY <1>3, <1>4, <1>5
<1>. QED  BY <1>1, <1>3, <1>6 DEF e, old

\* A call that adds elements and reports the indices from the old count on.
LEMMA GrowthKeeps ==
    ASSUME SketchInv, IndicesHoldUntilRenumbered,
           NEW n \in Nat, NEW c \in BOOLEAN, NEW call, NEW ties, NEW facts,
           ties \in Seq(SketchTies), MutateSketch(call, Grown(n, c), ties, facts), Keeps,
           DOMAIN facts = Fields, facts.added = AddedFrom(Grown(n, c)), facts.removed = {},
           facts.place = <<>>, Closes(facts.loop),
           call = "add_sketch_rectangle" =>
               /\ n = 4
               /\ \A k \in 1..4 : \E j \in DOMAIN ties :
                      ties[j].on = {elementsMade + k, elementsMade + (k % 4) + 1}
    PROVE  SketchInv' /\ IndicesHoldUntilRenumbered' /\ ReportsTellTheSketch'
<1>. DEFINE e == Grown(n, c)
            old == Len(geometry)
<1>1. /\ WellMade(e, elementsMade + n) /\ Len(e) = old + n
      /\ \A k \in 1..old : e[k] = geometry[k]
      /\ \A k \in 1..n : e[old + k].id = elementsMade + k
      /\ MadeBy(e) = n
  BY GrownOnes DEF MadeBy
<1>2. /\ AddedFrom(e) = old..(old + n - 1)
      /\ {e[index + 1].id : index \in AddedFrom(e)} = Ids(e) \ Ids(geometry)
  BY AddedAreNew
<1>3. old \in Nat /\ elementsMade \in Nat
  BY DEF SketchInv, WellMade
<1>4. MutateSketch(call, e, ties, facts) /\ facts.added = AddedFrom(e)
  OBVIOUS
<1>. HIDE DEF e
<1>5. Steady(e)
  BY <1>1, <1>3 DEF Steady
<1>. HIDE DEF old
<1>6. SketchInv' /\ IndicesHoldUntilRenumbered'
  BY <1>1, <1>4, <1>5, MutationKeeps
<1>7. ASSUME call = "add_sketch_rectangle", NEW i \in facts.added
      PROVE  LET next == elementsMade + ((e[i + 1].id - elementsMade) % 4) + 1
             IN  \E k \in DOMAIN ties : ties[k].on = {e[i + 1].id, next}
  <2>1. PICK k \in 1..4 : i + 1 = old + k
    <3>1. i \in old..(old + 4 - 1)
      BY <1>2, <1>4, <1>7
    <3>2. i + 1 - old \in 1..4 /\ i + 1 = old + (i + 1 - old)
      BY <1>3, <3>1
    <3>. QED  BY <3>2
  <2>2. e[i + 1].id = elementsMade + k
    BY <1>1, <1>7, <2>1
  <2>3. (elementsMade + k) - elementsMade = k
    BY <1>3
  <2>4. PICK j \in DOMAIN ties :
            ties[j].on = {elementsMade + k, elementsMade + (k % 4) + 1}
    BY <1>7
  <2>. QED  BY <2>2, <2>3, <2>4
<1>8. ReportsTellTheSketch'
  BY <1>2, <1>4, <1>7, MutationTells
<1>. QED  BY <1>6, <1>8

\* A call that changes no element and reports none.
LEMMA QuietKeeps ==
    ASSUME SketchInv, IndicesHoldUntilRenumbered, NEW call, NEW ties,
           ties \in Seq(SketchTies), MutateSketch(call, geometry, ties, Silent), Keeps,
           call # "add_sketch_rectangle"
    PROVE  SketchInv' /\ IndicesHoldUntilRenumbered' /\ ReportsTellTheSketch'
<1>1. elementsMade \in Nat
  BY DEF SketchInv
<1>2. /\ MadeBy(geometry) \in Nat /\ Steady(geometry)
      /\ WellMade(geometry, elementsMade + MadeBy(geometry))
  BY <1>1, SameOnes
<1>3. SketchInv' /\ IndicesHoldUntilRenumbered'
  BY <1>2, MutationKeeps
<1>4. Closes(Silent.loop)
  BY Nones DEF Closes
<1>5. ReportsTellTheSketch'
  BY <1>4, Nones, MutationTells
<1>. QED  BY <1>3, <1>5

\* A call that leaves some of the elements there are, in whatever places.
LEMMA ReductionKeeps ==
    ASSUME SketchInv, IndicesHoldUntilRenumbered, NEW call, NEW elements, NEW ties, NEW facts,
           ties \in Seq(SketchTies), MutateSketch(call, elements, ties, facts),
           Renumbers \/ (Keeps /\ Steady(elements)),
           WellMade(elements, elementsMade), Ids(elements) \subseteq Ids(geometry),
           call # "add_sketch_rectangle",
           DOMAIN facts = Fields, facts.added = {}, facts.place = <<>>, facts.loop = <<>>,
           facts.removed # {} => Ids(elements) = Ids(geometry) \ facts.removed
    PROVE  SketchInv' /\ IndicesHoldUntilRenumbered' /\ ReportsTellTheSketch'
<1>1. MadeBy(elements) = 0
  <2>1. Ids(elements) \ Ids(geometry) = {}
    OBVIOUS
  <2>. QED  BY <2>1, FS_EmptySet DEF MadeBy
<1>2. elementsMade \in Nat
  BY DEF SketchInv
<1>3. MadeBy(elements) \in Nat /\ WellMade(elements, elementsMade + MadeBy(elements))
  BY <1>1, <1>2
<1>4. SketchInv' /\ IndicesHoldUntilRenumbered'
  BY <1>3, MutationKeeps
<1>5. Closes(facts.loop)
  BY DEF Closes
<1>6. ReportsTellTheSketch'
  BY <1>5, MutationTells
<1>. QED  BY <1>4, <1>6

LEMMA IndicesFinite ==
    ASSUME SketchInv, NEW indices, indices \subseteq Indices
    PROVE  IsFiniteSet(indices) /\ Cardinality(indices) \in Nat
<1>1. 0 \in Int /\ Len(geometry) - 1 \in Int
  BY DEF SketchInv, WellMade
<1>2. IsFiniteSet(Indices)
  BY <1>1, FS_Interval DEF Indices
<1>3. IsFiniteSet(indices)
  BY <1>2, FS_Subset
<1>. QED  BY <1>3, FS_CardinalityType

LEMMA IdsAreInts ==
    ASSUME SketchInv
    PROVE  /\ \A index \in Indices : /\ index + 1 \in 1..Len(geometry)
                                     /\ ElementAt(index) \in Nat
           /\ \A anchor \in Anchors : BoundTo(anchor) \in Int
<1>1. geometry \in Seq(SketchElements)
  BY DEF SketchInv, WellMade
<1>2. \A index \in Indices : index + 1 \in 1..Len(geometry)
  BY <1>1 DEF Indices
<1>3. \A index \in Indices : ElementAt(index) \in Nat
  <2>. TAKE index \in Indices
  <2>1. geometry[index + 1] \in SketchElements
    BY <1>1, <1>2
  <2>. QED  BY <2>1, ElementIds DEF ElementAt
<1>4. \A anchor \in Anchors : BoundTo(anchor) \in Int
  BY <1>3 DEF Anchors, Axes, BoundTo
<1>. QED  BY <1>2, <1>3, <1>4

LEMMA MoreTies ==
    ASSUME SketchInv, NEW ties \in Seq(SketchTies)
    PROVE  /\ constraints \o ties \in Seq(SketchTies)
           /\ \A k \in 1..Len(ties) : /\ Len(constraints) + k \in DOMAIN (constraints \o ties)
                                      /\ (constraints \o ties)[Len(constraints) + k] = ties[k]
<1>1. constraints \in Seq(SketchTies)
  BY DEF SketchInv
<1>2. /\ constraints \o ties \in Seq(SketchTies)
      /\ Len(constraints \o ties) = Len(constraints) + Len(ties)
      /\ \A k \in 1..Len(ties) : (constraints \o ties)[Len(constraints) + k] = ties[k]
  BY <1>1, Concatenated
<1>3. ASSUME NEW k \in 1..Len(ties)
      PROVE  Len(constraints) + k \in DOMAIN (constraints \o ties)
  <2>1. DOMAIN (constraints \o ties) = 1..(Len(constraints) + Len(ties))
    BY <1>2
  <2>2. Len(constraints) \in Nat /\ Len(ties) \in Nat
    BY <1>1
  <2>. QED  BY <2>1, <2>2
<1>. QED  BY <1>2, <1>3

-----------------------------------------------------------------------------

LEMMA AdditionKeeps ==
    ASSUME SketchInv, IndicesHoldUntilRenumbered,
           NEW call, NEW n \in Nat, NEW c \in BOOLEAN, NEW ties \in Seq(SketchTies), NEW loop,
           AddElements(call, n, c, ties, loop), Closes(loop),
           call = "add_sketch_rectangle" =>
               /\ n = 4
               /\ \A k \in 1..4 : \E j \in 1..Len(ties) :
                      ties[j].on = {elementsMade + k, elementsMade + (k % 4) + 1}
    PROVE  SketchInv' /\ IndicesHoldUntilRenumbered' /\ ReportsTellTheSketch'
<1>. DEFINE facts == [Silent EXCEPT !.added = AddedFrom(Grown(n, c)), !.loop = loop]
<1>1. MutateSketch(call, Grown(n, c), constraints \o ties, facts) /\ Keeps
  BY DEF AddElements
<1>2. /\ DOMAIN facts = Fields /\ facts.added = AddedFrom(Grown(n, c)) /\ facts.removed = {}
      /\ facts.loop = loop /\ facts.place = <<>>
  BY Addeds
<1>. HIDE DEF facts
<1>3. constraints \o ties \in Seq(SketchTies)
  BY MoreTies
<1>4. ASSUME call = "add_sketch_rectangle", NEW k \in 1..4
      PROVE  \E j \in DOMAIN (constraints \o ties) :
                 (constraints \o ties)[j].on = {elementsMade + k, elementsMade + (k % 4) + 1}
  <2>1. PICK j \in 1..Len(ties) : ties[j].on = {elementsMade + k, elementsMade + (k % 4) + 1}
    BY <1>4
  <2>. QED  BY <2>1, MoreTies
<1>. QED  BY <1>1, <1>2, <1>3, <1>4, GrowthKeeps

LEMMA NoTies == <<>> \in Seq(SketchTies)
OBVIOUS

LEMMA OpenCloses == Closes(<<>>)
BY DEF Closes

LEMMA LooseAdditionKeeps ==
    ASSUME SketchInv, IndicesHoldUntilRenumbered,
           NEW call, call # "add_sketch_rectangle", NEW n \in Nat, NEW c \in BOOLEAN, NEW loop,
           AddElements(call, n, c, <<>>, loop), Closes(loop)
    PROVE  SketchInv' /\ IndicesHoldUntilRenumbered' /\ ReportsTellTheSketch'
BY NoTies, AdditionKeeps

LEMMA PlainAdditionsKeep ==
    ASSUME SketchInv, IndicesHoldUntilRenumbered,
           \/ AddSketchLine \/ AddSketchCircle \/ AddSketchArc \/ AddSketchEllipse
           \/ AddSketchSlot
    PROVE  SketchInv' /\ IndicesHoldUntilRenumbered' /\ ReportsTellTheSketch'
<1>0. Closes(<<>>)
  BY OpenCloses
<1>1. CASE AddSketchLine
  <2>1. PICK c \in BOOLEAN : AddElements("add_sketch_line", 1, c, <<>>, <<>>)
    BY <1>1 DEF AddSketchLine
  <2>2. "add_sketch_line" # "add_sketch_rectangle" /\ 1 \in Nat
    OBVIOUS
  <2>. QED  BY <2>1, <2>2, <1>0, LooseAdditionKeeps
<1>2. CASE AddSketchCircle
  <2>1. PICK c \in BOOLEAN : AddElements("add_sketch_circle", 1, c, <<>>, <<>>)
    BY <1>2 DEF AddSketchCircle
  <2>2. "add_sketch_circle" # "add_sketch_rectangle" /\ 1 \in Nat
    OBVIOUS
  <2>. QED  BY <2>1, <2>2, <1>0, LooseAdditionKeeps
<1>3. CASE AddSketchArc
  <2>1. PICK c \in BOOLEAN : AddElements("add_sketch_arc", 1, c, <<>>, <<>>)
    BY <1>3 DEF AddSketchArc
  <2>2. "add_sketch_arc" # "add_sketch_rectangle" /\ 1 \in Nat
    OBVIOUS
  <2>. QED  BY <2>1, <2>2, <1>0, LooseAdditionKeeps
<1>4. CASE AddSketchEllipse
  <2>1. PICK c \in BOOLEAN : AddElements("add_sketch_ellipse", 1, c, <<>>, <<>>)
    BY <1>4 DEF AddSketchEllipse
  <2>2. "add_sketch_ellipse" # "add_sketch_rectangle" /\ 1 \in Nat
    OBVIOUS
  <2>. QED  BY <2>1, <2>2, <1>0, LooseAdditionKeeps
<1>5. CASE AddSketchSlot
  <2>1. PICK c \in BOOLEAN : AddElements("add_sketch_slot", 4, c, <<>>, <<>>)
    BY <1>5 DEF AddSketchSlot
  <2>2. "add_sketch_slot" # "add_sketch_rectangle" /\ 4 \in Nat
    OBVIOUS
  <2>. QED  BY <2>1, <2>2, <1>0, LooseAdditionKeeps
<1>. QED  BY <1>1, <1>2, <1>3, <1>4, <1>5

\* Polylines.

LEMMA StepsRound ==
    ASSUME NEW n \in Nat \ {0}, NEW k \in 1..n
    PROVE  k % n = IF k = n THEN 0 ELSE k
<1>1. CASE k = n
  <2>1. n % n = 0
    BY Z3
  <2>. QED  BY <1>1, <2>1
<1>2. CASE k # n
  <2>1. k \in 0..(n - 1)
    BY <1>2
  <2>. QED  BY <1>2, <2>1, Z3
<1>. QED  BY <1>1, <1>2

LEMMA PolygonCloses ==
    ASSUME NEW sides \in 3..128
    PROVE  Closes([k \in 1..sides |-> <<k, (k % sides) + 1>>])
<1>. DEFINE loop == [k \in 1..sides |-> <<k, (k % sides) + 1>>]
<1>1. Len(loop) = sides /\ DOMAIN loop = 1..sides /\ sides \in Nat \ {0}
  <2>1. sides \in Nat
    OBVIOUS
  <2>. QED  BY <2>1
<1>2. ASSUME NEW k \in 1..sides
      PROVE  loop[k][1] # loop[k][2] /\ loop[k][2] = loop[(k % sides) + 1][1]
  <2>1. PICK next : next = (k % sides) + 1
    OBVIOUS
  <2>2. next = IF k = sides THEN 1 ELSE k + 1
    <3>1. k % sides = IF k = sides THEN 0 ELSE k
      <4>. HIDE DEF loop
      <4>. QED  BY <1>1, StepsRound
    <3>. QED  BY <2>1, <3>1
  <2>3. next \in 1..sides /\ next # k
    BY <1>1, <2>2
  <2>4. loop[k] = <<k, next>> /\ loop[next][1] = next
    BY <2>1, <2>3
  <2>. HIDE DEF loop
  <2>. QED  BY <2>1, <2>3, <2>4
<1>. HIDE DEF loop
<1>3. Closes(loop)
  BY <1>1, <1>2 DEF Closes
<1>. QED  BY <1>3 DEF loop

LEMMA PolygonKeeps ==
    ASSUME SketchInv, IndicesHoldUntilRenumbered, AddSketchRegularPolygon
    PROVE  SketchInv' /\ IndicesHoldUntilRenumbered' /\ ReportsTellTheSketch'
<1>1. PICK c \in BOOLEAN, sides \in 3..128 :
          AddElements("add_sketch_regular_polygon", sides, c, <<>>,
                      [k \in 1..sides |-> <<k, (k % sides) + 1>>])
  BY SMTT(30), ZenonT(20) DEF AddSketchRegularPolygon
<1>2. sides \in Nat /\ "add_sketch_regular_polygon" # "add_sketch_rectangle"
  OBVIOUS
<1>. QED  BY <1>1, <1>2, PolygonCloses, LooseAdditionKeeps, SMTT(30), ZenonT(20)

LEMMA SegmentsClose ==
    ASSUME NEW points \in Seq(Nat), Len(points) >= 2, PolylineAccepted(points, TRUE),
           PointsAccepted(points)
    PROVE  Closes(Segments(points, TRUE)) /\ Len(Segments(points, TRUE)) \in Nat
<1>. DEFINE open == Opened(points, TRUE)
            n == Len(open)
<1>1. /\ open \in Seq(Nat) /\ n \in Nat /\ n >= 3 /\ open[n] # open[1]
      /\ \A k \in 1..(n - 1) : open[k] # open[k + 1]
  <2>1. n >= 3
    BY DEF PolylineAccepted
  <2>2. \A k \in 1..(Len(points) - 1) : points[k] # points[k + 1]
    BY DEF PointsAccepted
  <2>3. CASE points[1] = points[Len(points)]
    <3>1. open = Front(points)
      BY <2>3 DEF Opened
    <3>2. /\ Front(points) \in Seq(Nat) /\ Len(Front(points)) = Len(points) - 1
          /\ \A i \in 1..(Len(points) - 1) : Front(points)[i] = points[i]
      <4>1. points # <<>>
        OBVIOUS
      <4>. QED  BY <4>1, FrontFacts DEF Front
    <3>3. PICK m \in Nat : m = Len(points)
      OBVIOUS
    <3>4. open \in Seq(Nat) /\ n = m - 1 /\ n >= 3 /\ \A i \in 1..n : open[i] = points[i]
      BY <2>1, <3>1, <3>2, <3>3
    <3>. HIDE DEF open, n
    <3>5. open[n] = points[n] /\ open[1] = points[1] /\ points[n] # points[n + 1]
          /\ points[n + 1] = points[1]
      <4>1. n \in Nat /\ m = n + 1 /\ n \in 1..n /\ 1 \in 1..n /\ n \in 1..(m - 1)
        BY ONLY <3>3, <3>4
      <4>2. open[n] = points[n] /\ open[1] = points[1]
        BY ONLY <3>4, <4>1
      <4>3. points[n] # points[n + 1]
        BY ONLY <2>2, <3>3, <4>1
      <4>4. points[n + 1] = points[1]
        BY ONLY <2>3, <3>3, <4>1
      <4>. QED  BY ONLY <4>2, <4>3, <4>4
    <3>6. ASSUME NEW k \in 1..(n - 1) PROVE open[k] # open[k + 1]
      <4>1. k \in 1..n /\ k + 1 \in 1..n /\ k \in 1..(m - 1)
        BY <3>3, <3>4, SMTT(30), ZenonT(20)
      <4>. QED  BY <2>2, <3>3, <3>4, <4>1
    <3>. QED  BY <3>3, <3>4, <3>5, <3>6
  <2>4. CASE points[1] # points[Len(points)]
    <3>1. open = points
      BY <2>4 DEF Opened
    <3>2. points \in Seq(Nat) /\ n = Len(points) /\ n \in Nat
      <4>1. n = Len(open)
        OBVIOUS
      <4>. HIDE DEF open, n
      <4>. QED  BY <3>1, <4>1
    <3>. HIDE DEF open, n
    <3>. QED  BY <2>1, <2>2, <2>4, <3>1, <3>2
  <2>. QED  BY <2>3, <2>4
<1>. HIDE DEF open, n
<1>. DEFINE chain == [k \in 1..(n - 1) |-> <<open[k], open[k + 1]>>]
            loop == Append(chain, <<open[n], open[1]>>)
<1>2. Segments(points, TRUE) = loop
  BY DEF Segments, open, n
<1>a. \A k \in 1..n : open[k] \in Nat
  <2>1. n = Len(open)
    BY DEF n
  <2>. QED  BY <1>1, <2>1, SMTT(30), ZenonT(20)
<1>3. /\ chain \in Seq(Nat \X Nat) /\ Len(chain) = n - 1
      /\ \A k \in 1..(n - 1) : chain[k] = <<open[k], open[k + 1]>>
  <2>1. ASSUME NEW k \in 1..(n - 1) PROVE <<open[k], open[k + 1]>> \in Nat \X Nat
    <3>1. k \in 1..n /\ k + 1 \in 1..n
      BY <1>1
    <3>. QED  BY <1>a, <3>1
  <2>2. n - 1 \in Nat
    BY <1>1
  <2>. HIDE DEF n
  <2>3. PICK m \in Nat : m = n - 1
    BY <2>2
  <2>4. chain = [k \in 1..m |-> <<open[k], open[k + 1]>>]
    BY ONLY <2>3, Zenon DEF chain
  <2>. HIDE DEF chain, open
  <2>5. /\ m \in Nat /\ \A k \in 1..m : chain[k] \in Nat \X Nat
        /\ chain = [k \in 1..m |-> chain[k]]
    BY <2>1, <2>3, <2>4
  <2>6. chain \in Seq(Nat \X Nat) /\ Len(chain) = m
    BY ONLY <2>5, SMTT(30), ZenonT(20)
  <2>. QED  BY ONLY <2>3, <2>4, <2>6
<1>4. <<open[n], open[1]>> \in Nat \X Nat
  <2>1. n \in 1..n /\ 1 \in 1..n
    BY <1>1
  <2>. QED  BY <1>a, <2>1
<1>. HIDE DEF chain
<1>5. /\ Len(loop) = n /\ DOMAIN loop = 1..n
      /\ \A k \in 1..(n - 1) : loop[k] = <<open[k], open[k + 1]>>
      /\ loop[n] = <<open[n], open[1]>>
  <2>1. /\ Len(loop) = Len(chain) + 1 /\ DOMAIN loop = 1..(Len(chain) + 1)
        /\ \A k \in 1..Len(chain) : loop[k] = chain[k]
        /\ loop[Len(chain) + 1] = <<open[n], open[1]>>
    BY <1>3, <1>4, AppendFacts
  <2>2. Len(chain) + 1 = n
    BY <1>1, <1>3
  <2>. HIDE DEF loop
  <2>. QED  BY <1>3, <2>1, <2>2
<1>. HIDE DEF loop
<1>6. ASSUME NEW k \in 1..n
      PROVE  loop[k][1] # loop[k][2] /\ loop[k][2] = loop[(k % n) + 1][1]
  <2>0. \A i \in 1..n : loop[i][1] = open[i]
    <3>. TAKE i \in 1..n
    <3>1. CASE i = n
      BY <1>5, <3>1
    <3>2. CASE i # n
      <4>1. i \in 1..(n - 1)
        BY <1>1, <3>2
      <4>. QED  BY <1>5, <4>1
    <3>. QED  BY <3>1, <3>2
  <2>1. CASE k = n
    <3>1. (k % n) + 1 = 1 /\ 1 \in 1..n
      <4>1. k % n = 0
        <5>1. n \in Nat \ {0}
          BY <1>1
        <5>. QED  BY <2>1, <5>1, StepsRound
      <4>. QED  BY <1>1, <4>1
    <3>. QED  BY <1>1, <1>5, <2>0, <2>1, <3>1
  <2>2. CASE k # n
    <3>1. (k % n) + 1 = k + 1 /\ k + 1 \in 1..n /\ k \in 1..(n - 1)
      <4>1. k % n = k
        <5>1. n \in Nat \ {0}
          BY <1>1
        <5>. QED  BY <2>2, <5>1, StepsRound
      <4>. QED  BY <1>1, <2>2, <4>1
    <3>2. loop[k] = <<open[k], open[k + 1]>> /\ loop[k + 1][1] = open[k + 1]
      BY <1>5, <2>0, <3>1
    <3>3. open[k] # open[k + 1]
      BY <1>1, <3>1
    <3>. QED  BY <3>1, <3>2, <3>3
  <2>. QED  BY <2>1, <2>2
<1>7. Closes(loop)
  BY <1>5, <1>6 DEF Closes
<1>. QED  BY <1>1, <1>2, <1>5, <1>7

\* The segments of an open polyline, as many as the call adds.
LEMMA SegmentsCounted ==
    ASSUME NEW points \in Seq(Nat), Len(points) >= 2
    PROVE  Len(Segments(points, FALSE)) \in Nat
<1>1. PICK n \in Nat : n = Len(points) /\ n >= 2
  OBVIOUS
<1>2. Opened(points, FALSE) = points
  BY DEF Opened
<1>3. Segments(points, FALSE) = [k \in 1..(n - 1) |-> <<points[k], points[k + 1]>>]
  BY <1>1, <1>2 DEF Segments
<1>4. PICK m \in Nat : m = n - 1
  BY <1>1
<1>5. Segments(points, FALSE) = [k \in 1..m |-> <<points[k], points[k + 1]>>]
  BY <1>3, <1>4
<1>6. Len([k \in 1..m |-> <<points[k], points[k + 1]>>]) = m
  OBVIOUS
<1>. QED  BY <1>5, <1>6

LEMMA PolylinePoints ==
    ASSUME NEW points \in Polylines
    PROVE  points \in Seq(Nat) /\ Len(points) >= 2
<1>1. PICK rest \in UNION {[1..n -> 1..3] : n \in 1..3} : points = <<1>> \o rest
  BY DEF Polylines
<1>2. PICK n \in 1..3 : rest \in [1..n -> 1..3]
  OBVIOUS
<1>3. rest \in Seq(Nat) /\ Len(rest) = n /\ n \in Nat
  BY <1>2
<1>4. <<1>> \in Seq(Nat) /\ Len(<<1>>) = 1
  OBVIOUS
<1>. QED  BY <1>1, <1>3, <1>4, Concatenated

LEMMA PolylineKeeps ==
    ASSUME SketchInv, IndicesHoldUntilRenumbered, AddSketchPolyline
    PROVE  SketchInv' /\ IndicesHoldUntilRenumbered' /\ ReportsTellTheSketch'
<1>1. PICK points \in Polylines, closed \in BOOLEAN, c \in BOOLEAN :
          /\ PolylineAccepted(points, closed)
          /\ AddElements("add_sketch_polyline", Len(Segments(points, closed)), c, <<>>,
                         IF closed THEN Segments(points, closed) ELSE <<>>)
  BY DEF AddSketchPolyline
<1>2. points \in Seq(Nat) /\ Len(points) >= 2
  BY PolylinePoints
<1>3. PointsAccepted(points)
  BY <1>1 DEF PolylineAccepted
<1>4. "add_sketch_polyline" # "add_sketch_rectangle"
  OBVIOUS
<1>5. CASE closed = TRUE
  <2>1. PolylineAccepted(points, TRUE)
    BY <1>1, <1>5
  <2>2. Closes(Segments(points, TRUE)) /\ Len(Segments(points, TRUE)) \in Nat
    BY <1>2, <1>3, <2>1, SegmentsClose
  <2>3. AddElements("add_sketch_polyline", Len(Segments(points, TRUE)), c, <<>>,
                    Segments(points, TRUE))
    BY <1>1, <1>5
  <2>. QED  BY <1>4, <2>2, <2>3, LooseAdditionKeeps
<1>6. CASE closed = FALSE
  <2>1. Len(Segments(points, FALSE)) \in Nat
    BY <1>2, SegmentsCounted
  <2>2. AddElements("add_sketch_polyline", Len(Segments(points, FALSE)), c, <<>>, <<>>)
    BY <1>1, <1>6
  <2>3. Closes(<<>>)
    BY OpenCloses
  <2>. QED  BY <1>4, <2>1, <2>2, <2>3, LooseAdditionKeeps
<1>. QED  BY <1>5, <1>6

\* Rectangles.
LEMMA RectangleTies ==
    ASSUME NEW first \in Nat
    PROVE  /\ Corners(first) \in Seq(SketchTies) /\ Len(Corners(first)) = 4
           /\ \A k \in 1..4 : Corners(first)[k].on = {first + k, first + (k % 4) + 1}
           /\ AlignedSides(first) \in Seq(SketchTies)
<1>1. \A k \in 1..4 : /\ {first + k, first + (k % 4) + 1} \subseteq Int
                      /\ {first + k} \subseteq Int
  OBVIOUS
<1>2. \A k \in 1..4 : /\ Tie({first + k, first + (k % 4) + 1}) \in SketchTies
                      /\ Tie({first + k, first + (k % 4) + 1}).on =
                             {first + k, first + (k % 4) + 1}
                      /\ Tie({first + k}) \in SketchTies
  BY <1>1, TieFields
<1>3. Corners(first) = [k \in 1..4 |-> Tie({first + k, first + (k % 4) + 1})]
  BY DEF Corners
<1>4. AlignedSides(first) = [k \in 1..4 |-> Tie({first + k})]
  BY DEF AlignedSides
<1>5. 4 \in Nat
  OBVIOUS
<1>6. Corners(first) \in Seq(SketchTies) /\ Len(Corners(first)) = 4
  BY <1>2, <1>3, <1>5
<1>7. AlignedSides(first) \in Seq(SketchTies)
  BY <1>2, <1>4, <1>5
<1>. QED  BY <1>2, <1>3, <1>6, <1>7

LEMMA RectangleKeeps ==
    ASSUME SketchInv, IndicesHoldUntilRenumbered, AddSketchRectangle
    PROVE  SketchInv' /\ IndicesHoldUntilRenumbered' /\ ReportsTellTheSketch'
<1>1. PICK c \in BOOLEAN, upright \in BOOLEAN :
          AddElements("add_sketch_rectangle", 4, c,
                      Corners(elementsMade)
                          \o (IF upright THEN AlignedSides(elementsMade) ELSE <<>>), <<>>)
  BY DEF AddSketchRectangle
<1>2. /\ Corners(elementsMade) \in Seq(SketchTies) /\ Len(Corners(elementsMade)) = 4
      /\ \A k \in 1..4 :
             Corners(elementsMade)[k].on = {elementsMade + k, elementsMade + (k % 4) + 1}
      /\ AlignedSides(elementsMade) \in Seq(SketchTies)
  BY RectangleTies DEF SketchInv
<1>3. PICK sides \in Seq(SketchTies) :
          sides = IF upright THEN AlignedSides(elementsMade) ELSE <<>>
  BY <1>2, NoTies
<1>4. PICK corners \in Seq(SketchTies) : corners = Corners(elementsMade)
  BY <1>2
<1>5. PICK ties : ties = corners \o sides
  OBVIOUS
<1>6. /\ ties \in Seq(SketchTies) /\ Len(ties) = Len(corners) + Len(sides)
      /\ \A i \in 1..Len(corners) : ties[i] = corners[i]
  BY <1>3, <1>4, <1>5, Concatenated
<1>7. \A k \in 1..4 : k \in 1..Len(ties) /\
          ties[k].on = {elementsMade + k, elementsMade + (k % 4) + 1}
  <2>1. Len(sides) \in Nat
    BY <1>3
  <2>2. \A k \in 1..4 : k \in 1..(4 + Len(sides))
    BY <2>1
  <2>. QED  BY <1>2, <1>4, <1>6, <2>2
<1>8. AddElements("add_sketch_rectangle", 4, c, ties, <<>>)
  BY <1>1, <1>3, <1>4, <1>5
<1>9. Closes(<<>>) /\ 4 \in Nat /\ \A k \in 1..4 : \E j \in 1..Len(ties) :
          ties[j].on = {elementsMade + k, elementsMade + (k % 4) + 1}
  BY <1>7, OpenCloses
<1>. QED  BY <1>6, <1>8, <1>9, AdditionKeeps

-----------------------------------------------------------------------------
(* Calls that change no element *)

LEMMA ConstraintKeeps ==
    ASSUME SketchInv, IndicesHoldUntilRenumbered, NEW call, NEW elements,
           elements \subseteq Int, AddConstraint(call, elements),
           call # "add_sketch_rectangle"
    PROVE  SketchInv' /\ IndicesHoldUntilRenumbered' /\ ReportsTellTheSketch'
<1>1. Tie(elements) \in SketchTies
  BY TieFields
<1>2. constraints \in Seq(SketchTies)
  BY DEF SketchInv
<1>3. Append(constraints, Tie(elements)) \in Seq(SketchTies)
  BY <1>1, <1>2, AppendFacts
<1>. QED  BY <1>3, QuietKeeps DEF AddConstraint

LEMMA GeometricConstraintKeeps ==
    ASSUME SketchInv, IndicesHoldUntilRenumbered, AddSketchGeometricConstraint
    PROVE  SketchInv' /\ IndicesHoldUntilRenumbered' /\ ReportsTellTheSketch'
<1>0. "add_sketch_geometric_constraint" # "add_sketch_rectangle"
  OBVIOUS
<1>1. PICK elements : /\ elements \subseteq Int
                      /\ AddConstraint("add_sketch_geometric_constraint", elements)
  <2>1. CASE \E first \in Indices, type \in Unary :
                 AddConstraint("add_sketch_geometric_constraint", {ElementAt(first)})
    <3>1. PICK first \in Indices :
              AddConstraint("add_sketch_geometric_constraint", {ElementAt(first)})
      BY <2>1
    <3>2. {ElementAt(first)} \subseteq Int
      BY IdsAreInts
    <3>. QED  BY <3>1, <3>2
  <2>2. CASE \E pair \in AcceptedPairs :
                 AddConstraint("add_sketch_geometric_constraint",
                               {BoundTo(pair[1]), BoundTo(pair[2])})
    <3>1. PICK pair \in AcceptedPairs :
              AddConstraint("add_sketch_geometric_constraint",
                            {BoundTo(pair[1]), BoundTo(pair[2])})
      BY <2>2
    <3>2. pair[1] \in Anchors /\ pair[2] \in Anchors
      BY DEF AcceptedPairs
    <3>3. {BoundTo(pair[1]), BoundTo(pair[2])} \subseteq Int
      BY <3>2, IdsAreInts
    <3>. QED  BY <3>1, <3>3
  <2>. QED  BY <2>1, <2>2 DEF AddSketchGeometricConstraint
<1>. QED  BY <1>0, <1>1, ConstraintKeeps

LEMMA DimensionalConstraintKeeps ==
    ASSUME SketchInv, IndicesHoldUntilRenumbered, AddSketchDimensionalConstraint
    PROVE  SketchInv' /\ IndicesHoldUntilRenumbered' /\ ReportsTellTheSketch'
<1>0. "add_sketch_dimensional_constraint" # "add_sketch_rectangle"
  OBVIOUS
<1>1. PICK elements : /\ elements \subseteq Int
                      /\ AddConstraint("add_sketch_dimensional_constraint", elements)
  <2>1. CASE \E first \in Anchors :
                 AddConstraint("add_sketch_dimensional_constraint", {BoundTo(first)})
    <3>1. PICK first \in Anchors :
              AddConstraint("add_sketch_dimensional_constraint", {BoundTo(first)})
      BY <2>1
    <3>2. {BoundTo(first)} \subseteq Int
      BY IdsAreInts
    <3>. QED  BY <3>1, <3>2
  <2>2. CASE \E first, second \in Anchors :
                 AddConstraint("add_sketch_dimensional_constraint",
                               {BoundTo(first), BoundTo(second)})
    <3>1. PICK first \in Anchors, second \in Anchors :
              AddConstraint("add_sketch_dimensional_constraint",
                            {BoundTo(first), BoundTo(second)})
      BY <2>2
    <3>2. {BoundTo(first), BoundTo(second)} \subseteq Int
      BY IdsAreInts
    <3>. QED  BY <3>1, <3>2
  <2>. QED  BY <2>1, <2>2 DEF AddSketchDimensionalConstraint, Measurable, SecondEnds
<1>. QED  BY <1>0, <1>1, ConstraintKeeps

LEMMA UnchangedKeeps ==
    ASSUME SketchInv, IndicesHoldUntilRenumbered,
           \/ AddSketchExternalGeometry \/ SetSketchConstraintValue
           \/ MoveSketchPoint \/ ExtendSketchGeometry
    PROVE  SketchInv' /\ IndicesHoldUntilRenumbered' /\ ReportsTellTheSketch'
<1>1. PICK call : /\ MutateSketch(call, geometry, constraints, Silent) /\ Keeps
                  /\ call # "add_sketch_rectangle"
  <2>1. /\ "add_sketch_external_geometry" # "add_sketch_rectangle"
        /\ "set_sketch_constraint_value" # "add_sketch_rectangle"
        /\ "move_sketch_point" # "add_sketch_rectangle"
        /\ "extend_sketch_geometry" # "add_sketch_rectangle"
    OBVIOUS
  <2>. QED  BY <2>1 DEF AddSketchExternalGeometry, SetSketchConstraintValue,
                        MoveSketchPoint, ExtendSketchGeometry
<1>2. constraints \in Seq(SketchTies)
  BY DEF SketchInv
<1>. QED  BY <1>1, <1>2, QuietKeeps

LEMMA DrivingKeeps ==
    ASSUME SketchInv, IndicesHoldUntilRenumbered, SetSketchConstraintDriving
    PROVE  SketchInv' /\ IndicesHoldUntilRenumbered' /\ ReportsTellTheSketch'
<1>0. "set_sketch_constraint_driving" # "add_sketch_rectangle"
  OBVIOUS
<1>1. PICK index \in ConstraintIndices, driving \in BOOLEAN :
          /\ MutateSketch("set_sketch_constraint_driving", geometry,
                          [constraints EXCEPT ![index + 1].driving = driving], Silent)
          /\ Keeps
  BY DEF SetSketchConstraintDriving
<1>2. constraints \in Seq(SketchTies)
  BY DEF SketchInv
<1>3. index + 1 \in 1..Len(constraints)
  BY <1>2 DEF ConstraintIndices
<1>4. PICK tie \in SketchTies : tie = [constraints[index + 1] EXCEPT !.driving = driving]
  <2>1. constraints[index + 1] \in SketchTies
    BY <1>2, <1>3
  <2>. QED  BY <2>1, TieEdited
<1>5. [constraints EXCEPT ![index + 1].driving = driving] =
          [constraints EXCEPT ![index + 1] = tie]
  BY <1>4, Zenon
<1>6. [constraints EXCEPT ![index + 1] = tie] \in Seq(SketchTies)
  BY <1>2, <1>3
<1>7. [constraints EXCEPT ![index + 1].driving = driving] \in Seq(SketchTies)
  BY <1>5, <1>6, Zenon
<1>. QED  BY <1>0, <1>1, <1>7, QuietKeeps, Zenon

LEMMA ConstraintDeletionKeeps ==
    ASSUME SketchInv, IndicesHoldUntilRenumbered, DeleteSketchConstraint
    PROVE  SketchInv' /\ IndicesHoldUntilRenumbered' /\ ReportsTellTheSketch'
<1>0. "delete_sketch_constraint" # "add_sketch_rectangle"
  OBVIOUS
<1>1. PICK indices : /\ MutateSketch("delete_sketch_constraint", geometry,
                                     WithoutPlaces(constraints, indices), Silent)
                     /\ Keeps
  BY DEF DeleteSketchConstraint
<1>2. WithoutPlaces(constraints, indices) \in Seq(SketchTies)
  BY PlacesLeft DEF SketchInv
<1>. QED  BY <1>0, <1>1, <1>2, QuietKeeps

LEMMA ToggleKeeps ==
    ASSUME SketchInv, IndicesHoldUntilRenumbered, ToggleSketchConstruction
    PROVE  SketchInv' /\ IndicesHoldUntilRenumbered' /\ ReportsTellTheSketch'
<1>0. "toggle_sketch_construction" # "add_sketch_rectangle"
  OBVIOUS
<1>1. PICK indices :
          /\ MutateSketch("toggle_sketch_construction",
                 [k \in DOMAIN geometry |->
                     IF k - 1 \in indices THEN [geometry[k] EXCEPT !.construction = ~@]
                     ELSE geometry[k]],
                 constraints, Silent)
          /\ Keeps
  BY DEF ToggleSketchConstruction
<1>2. PICK elements :
          elements = [k \in DOMAIN geometry |->
                         IF k - 1 \in indices THEN [geometry[k] EXCEPT !.construction = ~@]
                         ELSE geometry[k]]
  OBVIOUS
<1>3. PICK n \in Nat : n = Len(geometry) /\ DOMAIN geometry = 1..n
  BY DEF SketchInv, WellMade
<1>4. /\ \A k \in 1..n : geometry[k] \in SketchElements /\ geometry[k].id \in 1..elementsMade
      /\ \A i, j \in 1..n : geometry[i].id = geometry[j].id => i = j
  BY <1>3 DEF SketchInv, WellMade
<1>5. ASSUME NEW k \in 1..n
      PROVE  elements[k] \in SketchElements /\ elements[k].id = geometry[k].id
  <2>1. geometry[k] \in SketchElements
    BY <1>4
  <2>2. elements[k] = IF k - 1 \in indices THEN [geometry[k] EXCEPT !.construction = ~@]
                      ELSE geometry[k]
    BY <1>2, <1>3, Zenon
  <2>. QED  BY <2>1, <2>2, ElementToggled, Zenon
<1>6. DOMAIN elements = 1..n /\ elements = [k \in 1..n |-> elements[k]]
  BY <1>2, <1>3, Zenon
<1>7. elements \in Seq(SketchElements) /\ Len(elements) = n
  BY <1>5, <1>6
<1>8. WellMade(elements, elementsMade)
  BY <1>4, <1>5, <1>7 DEF WellMade
<1>9. Steady(elements)
  BY <1>3, <1>5, <1>7 DEF Steady
<1>10. Ids(elements) \subseteq Ids(geometry)
  BY <1>3, <1>5, <1>6 DEF Ids
<1>11. MutateSketch("toggle_sketch_construction", elements, constraints, Silent) /\ Keeps
  BY <1>1, <1>2, Zenon
<1>12. constraints \in Seq(SketchTies)
  BY DEF SketchInv
<1>. QED  BY <1>0, <1>8, <1>9, <1>10, <1>11, <1>12, Nones, ReductionKeeps

-----------------------------------------------------------------------------
(* Calls that take elements away *)

LEMMA UntiedTies ==
    ASSUME SketchInv, NEW ids
    PROVE  Untied(ids) \in Seq(SketchTies)
BY PlacesLeft DEF SketchInv, Untied

LEMMA GeometryDeletionKeeps ==
    ASSUME SketchInv, IndicesHoldUntilRenumbered, DeleteSketchGeometry
    PROVE  SketchInv' /\ IndicesHoldUntilRenumbered' /\ ReportsTellTheSketch'
<1>0. "delete_sketch_geometry" # "add_sketch_rectangle"
  OBVIOUS
<1>1. PICK indices \in IndexLists :
          /\ MutateSketch("delete_sketch_geometry", WithoutPlaces(geometry, indices),
                 Untied(Ids(geometry) \ Ids(WithoutPlaces(geometry, indices))),
                 [Silent EXCEPT !.removed = {ElementAt(index) : index \in indices}])
          /\ Renumbers
  BY DEF DeleteSketchGeometry
<1>2. PICK elements : elements = WithoutPlaces(geometry, indices)
  OBVIOUS
<1>3. /\ geometry \in Seq(SketchElements)
      /\ \A i, j \in 1..Len(geometry) : geometry[i].id = geometry[j].id => i = j
      /\ \A i \in 1..Len(geometry) : geometry[i].id \in 1..elementsMade
  BY DEF SketchInv, WellMade
<1>4. Separate(geometry)
  BY <1>3 DEF Separate
<1>5. /\ elements \in Seq(SketchElements) /\ Left(geometry, indices, 1, elements)
      /\ Separate(elements)
  BY <1>2, <1>3, <1>4, PlacesLeft
<1>6. ASSUME NEW j \in 1..Len(elements)
      PROVE  \E i \in 1..Len(geometry) : i - 1 \notin indices /\ elements[j] = geometry[i]
  BY <1>5 DEF Left
<1>7. WellMade(elements, elementsMade)
  <2>1. ASSUME NEW i \in 1..Len(elements), NEW j \in 1..Len(elements),
               elements[i].id = elements[j].id
        PROVE  i = j
    <3>1. PICK a \in 1..Len(geometry) : elements[i] = geometry[a]
      BY <1>6
    <3>2. PICK b \in 1..Len(geometry) : elements[j] = geometry[b]
      BY <1>6
    <3>3. elements[i] = elements[j]
      BY <1>3, <2>1, <3>1, <3>2
    <3>. QED  BY <1>5, <3>3 DEF Separate
  <2>2. \A j \in 1..Len(elements) : elements[j].id \in 1..elementsMade
    BY <1>3, <1>6
  <2>. QED  BY <1>5, <2>1, <2>2 DEF WellMade
<1>8. Ids(elements) = Ids(geometry) \ {ElementAt(index) : index \in indices}
  <2>0. DOMAIN elements = 1..Len(elements) /\ DOMAIN geometry = 1..Len(geometry)
    BY <1>3, <1>5
  <2>a. \A index \in indices : index + 1 \in 1..Len(geometry) /\ index \in Int
    <3>1. Len(geometry) \in Nat
      BY <1>3
    <3>. QED  BY <3>1 DEF IndexLists, Indices
  <2>1. ASSUME NEW x \in Ids(elements)
        PROVE  x \in Ids(geometry) \ {ElementAt(index) : index \in indices}
    <3>1. PICK j \in 1..Len(elements) : x = elements[j].id
      BY <2>0 DEF Ids
    <3>2. PICK i \in 1..Len(geometry) : i - 1 \notin indices /\ elements[j] = geometry[i]
      BY <1>6
    <3>3. x \in Ids(geometry)
      BY <2>0, <3>1, <3>2 DEF Ids
    <3>4. ASSUME NEW index \in indices, x = ElementAt(index) PROVE FALSE
      <4>1. geometry[index + 1].id = geometry[i].id
        BY <3>1, <3>2, <3>4 DEF ElementAt
      <4>2. index + 1 = i
        BY <1>3, <2>a, <4>1
      <4>. QED  BY <2>a, <3>2, <4>2
    <3>. QED  BY <3>3, <3>4
  <2>2. ASSUME NEW x \in Ids(geometry) \ {ElementAt(index) : index \in indices}
        PROVE  x \in Ids(elements)
    <3>1. PICK i \in 1..Len(geometry) : x = geometry[i].id
      BY <2>0 DEF Ids
    <3>2. i - 1 \notin indices
      <4>1. (i - 1) + 1 = i
        OBVIOUS
      <4>2. ASSUME i - 1 \in indices PROVE FALSE
        <5>1. x = ElementAt(i - 1)
          BY <3>1, <4>1 DEF ElementAt
        <5>. QED  BY <4>2, <5>1
      <4>. QED  BY <4>2
    <3>3. PICK j \in 1..Len(elements) : elements[j] = geometry[i]
      BY <1>5, <3>2 DEF Left
    <3>. QED  BY <2>0, <3>1, <3>3 DEF Ids
  <2>. QED  BY <2>1, <2>2
<1>9. PICK facts : facts = [Silent EXCEPT !.removed = {ElementAt(index) : index \in indices}]
  OBVIOUS
<1>10. /\ DOMAIN facts = Fields /\ facts.added = {}
       /\ facts.removed = {ElementAt(index) : index \in indices}
       /\ facts.loop = <<>> /\ facts.place = <<>>
  BY <1>9, Removeds
<1>11. PICK ties : ties = Untied(Ids(geometry) \ Ids(elements))
  OBVIOUS
<1>12. ties \in Seq(SketchTies)
  BY <1>11, UntiedTies
<1>13. MutateSketch("delete_sketch_geometry", elements, ties, facts) /\ Renumbers
  BY <1>1, <1>2, <1>9, <1>11
<1>14. Ids(elements) \subseteq Ids(geometry)
  BY <1>8
<1>15. facts.removed # {} => Ids(elements) = Ids(geometry) \ facts.removed
  BY <1>8, <1>10
<1>. QED  BY <1>0, <1>7, <1>10, <1>12, <1>13, <1>14, <1>15, ReductionKeeps

LEMMA SilentKeeps ==
    ASSUME SketchInv, IndicesHoldUntilRenumbered, NEW call, NEW elements, NEW ties,
           ties \in Seq(SketchTies), MutateSketch(call, elements, ties, Silent), Renumbers,
           call # "add_sketch_rectangle", MadeBy(elements) \in Nat,
           WellMade(elements, elementsMade + MadeBy(elements))
    PROVE  SketchInv' /\ IndicesHoldUntilRenumbered' /\ ReportsTellTheSketch'
<1>1. SketchInv' /\ IndicesHoldUntilRenumbered'
  BY MutationKeeps
<1>2. Closes(Silent.loop)
  BY Nones DEF Closes
<1>3. ReportsTellTheSketch'
  BY <1>2, Nones, MutationTells
<1>. QED  BY <1>1, <1>3

LEMMA TrimKeeps ==
    ASSUME SketchInv, IndicesHoldUntilRenumbered, TrimSketchGeometry
    PROVE  SketchInv' /\ IndicesHoldUntilRenumbered' /\ ReportsTellTheSketch'
<1>0. "trim_sketch_geometry" # "add_sketch_rectangle"
  OBVIOUS
<1>1. PICK index \in Indices :
          /\ \E elements \in {geometry, Grown(1, FALSE), RemoveAt(geometry, index + 1)} :
                 MutateSketch("trim_sketch_geometry", elements,
                              Untied({ElementAt(index)}), Silent)
          /\ Renumbers
  BY DEF TrimSketchGeometry
<1>2. PICK ties \in Seq(SketchTies) : ties = Untied({ElementAt(index)})
  BY UntiedTies
<1>3. PICK elements \in {geometry, Grown(1, FALSE), RemoveAt(geometry, index + 1)} :
          MutateSketch("trim_sketch_geometry", elements, ties, Silent)
  BY <1>1, <1>2
<1>4. MadeBy(elements) \in Nat /\ WellMade(elements, elementsMade + MadeBy(elements))
  <2>1. CASE elements = geometry
    <3>1. elementsMade + 0 = elementsMade
      BY DEF SketchInv
    <3>. QED  BY <2>1, <3>1, SameOnes
  <2>2. CASE elements = Grown(1, FALSE)
    <3>1. WellMade(Grown(1, FALSE), elementsMade + 1) /\ MadeBy(Grown(1, FALSE)) = 1
      <4>1. 1 \in Nat /\ FALSE \in BOOLEAN
        OBVIOUS
      <4>. QED  BY <4>1, GrownOnes DEF MadeBy
    <3>2. MadeBy(elements) = 1 /\ WellMade(elements, elementsMade + 1)
      BY <2>2, <3>1
    <3>. QED  BY <3>2
  <2>3. CASE elements = RemoveAt(geometry, index + 1)
    <3>1. PICK p \in 1..Len(geometry) : p = index + 1
      BY IdsAreInts
    <3>2. /\ geometry \in Seq(SketchElements)
          /\ \A i, j \in 1..Len(geometry) : geometry[i].id = geometry[j].id => i = j
          /\ \A i \in 1..Len(geometry) : geometry[i].id \in 1..elementsMade
      BY DEF SketchInv, WellMade
    <3>3. /\ elements \in Seq(SketchElements) /\ Len(elements) = Len(geometry) - 1
          /\ \A j \in 1..(Len(geometry) - 1) :
                elements[j] = IF j < p THEN geometry[j] ELSE geometry[j + 1]
      BY <2>3, <3>1, <3>2, RemovedElements
    <3>. DEFINE from(j) == IF j < p THEN j ELSE j + 1
    <3>4. \A j \in 1..Len(elements) : from(j) \in 1..Len(geometry)
                                      /\ elements[j] = geometry[from(j)]
      <4>1. Len(geometry) \in Nat
        BY <3>2
      <4>. QED  BY <3>3, <4>1
    <3>5. \A i, j \in 1..Len(elements) : elements[i].id = elements[j].id => i = j
      <4>1. ASSUME NEW i \in 1..Len(elements), NEW j \in 1..Len(elements),
                   elements[i].id = elements[j].id
            PROVE  i = j
        <5>1. from(i) = from(j)
          BY <3>2, <3>4, <4>1, SMTT(30), ZenonT(20)
        <5>. QED  BY <5>1
      <4>. QED  BY <4>1
    <3>6. \A j \in 1..Len(elements) : elements[j].id \in 1..elementsMade
      BY <3>2, <3>4
    <3>7. WellMade(elements, elementsMade)
      BY <3>3, <3>5, <3>6 DEF WellMade
    <3>8. Ids(elements) \ Ids(geometry) = {}
      <4>1. DOMAIN elements = 1..Len(elements) /\ DOMAIN geometry = 1..Len(geometry)
        BY <3>2, <3>3
      <4>. QED  BY <3>4, <4>1 DEF Ids
    <3>9. MadeBy(elements) = 0
      BY <3>8, FS_EmptySet DEF MadeBy
    <3>10. elementsMade + 0 = elementsMade
      BY DEF SketchInv
    <3>. QED  BY <3>7, <3>9, <3>10
  <2>. QED  BY <2>1, <2>2, <2>3
<1>. QED  BY <1>0, <1>1, <1>3, <1>4, SilentKeeps

-----------------------------------------------------------------------------
(* Calls that make elements out of others *)

LEMMA OffspringKeeps ==
    ASSUME SketchInv, IndicesHoldUntilRenumbered, NEW n \in Nat, NEW call, NEW ties,
           ties \in Seq(SketchTies), call # "add_sketch_rectangle", Keeps,
           MutateSketch(call, Grown(n, FALSE), ties,
                        [Silent EXCEPT !.added = AddedFrom(Grown(n, FALSE))])
    PROVE  SketchInv' /\ IndicesHoldUntilRenumbered' /\ ReportsTellTheSketch'
<1>. DEFINE facts == [Silent EXCEPT !.added = AddedFrom(Grown(n, FALSE))]
<1>1. /\ DOMAIN facts = Fields /\ facts.added = AddedFrom(Grown(n, FALSE))
      /\ facts.removed = {} /\ facts.loop = <<>> /\ facts.place = <<>>
  BY OnlyAddeds
<1>2. MutateSketch(call, Grown(n, FALSE), ties, facts)
  OBVIOUS
<1>. HIDE DEF facts
<1>3. Closes(facts.loop) /\ FALSE \in BOOLEAN
  BY <1>1, OpenCloses
<1>. QED  BY <1>1, <1>2, <1>3, GrowthKeeps

LEMMA FilletKeeps ==
    ASSUME SketchInv, IndicesHoldUntilRenumbered, FilletSketchCorner
    PROVE  SketchInv' /\ IndicesHoldUntilRenumbered' /\ ReportsTellTheSketch'
<1>0. "fillet_sketch_corner" # "add_sketch_rectangle" /\ 1 \in Nat
  OBVIOUS
<1>1. PICK first \in Indices, second \in Indices, trim \in BOOLEAN :
          /\ MutateSketch("fillet_sketch_corner", Grown(1, FALSE),
                 IF trim THEN WithoutPlaces(constraints,
                                  {index \in ConstraintIndices :
                                       {ElementAt(first), ElementAt(second)}
                                           \subseteq constraints[index + 1].on})
                              \o <<Tie({ElementAt(first), elementsMade + 1}),
                                   Tie({ElementAt(second), elementsMade + 1})>>
                 ELSE constraints,
                 [Silent EXCEPT !.added = AddedFrom(Grown(1, FALSE))])
          /\ Keeps
  BY DEF FilletSketchCorner
<1>2. PICK arcs : arcs = <<Tie({ElementAt(first), elementsMade + 1}),
                           Tie({ElementAt(second), elementsMade + 1})>>
  OBVIOUS
<1>3. arcs \in Seq(SketchTies)
  <2>1. elementsMade \in Nat /\ ElementAt(first) \in Nat /\ ElementAt(second) \in Nat
    BY IdsAreInts DEF SketchInv
  <2>2. /\ {ElementAt(first), elementsMade + 1} \subseteq Int
        /\ {ElementAt(second), elementsMade + 1} \subseteq Int
    BY <2>1
  <2>3. /\ Tie({ElementAt(first), elementsMade + 1}) \in SketchTies
        /\ Tie({ElementAt(second), elementsMade + 1}) \in SketchTies
    BY <2>2, TieFields
  <2>. QED  BY <1>2, <2>3
<1>4. PICK rest \in Seq(SketchTies) :
          rest = WithoutPlaces(constraints,
                     {index \in ConstraintIndices :
                          {ElementAt(first), ElementAt(second)}
                              \subseteq constraints[index + 1].on})
  BY PlacesLeft DEF SketchInv
<1>5. rest \o arcs \in Seq(SketchTies) /\ constraints \in Seq(SketchTies)
  BY <1>3, <1>4, Concatenated DEF SketchInv
<1>6. PICK ties \in Seq(SketchTies) : ties = IF trim THEN rest \o arcs ELSE constraints
  BY <1>5
<1>7. MutateSketch("fillet_sketch_corner", Grown(1, FALSE), ties,
                   [Silent EXCEPT !.added = AddedFrom(Grown(1, FALSE))])
  BY <1>1, <1>2, <1>4, <1>6
<1>. QED  BY <1>0, <1>1, <1>6, <1>7, OffspringKeeps

LEMMA CopyKeeps ==
    ASSUME SketchInv, IndicesHoldUntilRenumbered, CopySketchGeometry
    PROVE  SketchInv' /\ IndicesHoldUntilRenumbered' /\ ReportsTellTheSketch'
<1>0. "copy_sketch_geometry" # "add_sketch_rectangle"
  OBVIOUS
<1>1. PICK indices \in IndexLists, clone \in BOOLEAN :
        LET elements == Grown(Cardinality(indices), FALSE)
            ids == {ElementAt(index) : index \in indices}
            copyOf(id) == elementsMade + Cardinality({index \in indices :
                              \E other \in indices : index <= other /\ ElementAt(other) = id})
            within == WithoutPlaces(constraints,
                          {index \in ConstraintIndices :
                               ~(constraints[index + 1].on \subseteq ids)})
        IN  /\ MutateSketch("copy_sketch_geometry", elements,
                   IF clone THEN constraints \o [k \in DOMAIN within |->
                                     [within[k] EXCEPT !.on = {copyOf(id) : id \in @}]]
                   ELSE constraints,
                   [Silent EXCEPT !.added = AddedFrom(elements)])
            /\ Keeps
  BY DEF CopySketchGeometry
<1>2. PICK n \in Nat : n = Cardinality(indices)
  BY IndicesFinite DEF IndexLists
<1>. DEFINE ids == {ElementAt(index) : index \in indices}
            copyOf(id) == elementsMade + Cardinality({index \in indices :
                              \E other \in indices : index <= other /\ ElementAt(other) = id})
            within == WithoutPlaces(constraints,
                          {index \in ConstraintIndices :
                               ~(constraints[index + 1].on \subseteq ids)})
            clones == [k \in DOMAIN within |->
                          [within[k] EXCEPT !.on = {copyOf(id) : id \in @}]]
<1>3. MutateSketch("copy_sketch_geometry", Grown(n, FALSE),
                   IF clone THEN constraints \o clones ELSE constraints,
                   [Silent EXCEPT !.added = AddedFrom(Grown(n, FALSE))])
      /\ Keeps
  BY <1>1, <1>2
<1>4. \A id : copyOf(id) \in Int
  <2>. TAKE id
  <2>1. PICK lower : lower = {index \in indices :
                         \E other \in indices : index <= other /\ ElementAt(other) = id}
    OBVIOUS
  <2>2. lower \subseteq Indices
    BY <2>1 DEF IndexLists
  <2>3. Cardinality(lower) \in Nat
    BY <2>2, IndicesFinite
  <2>. QED  BY <2>1, <2>3 DEF SketchInv
<1>5. within \in Seq(SketchTies) /\ constraints \in Seq(SketchTies)
  BY PlacesLeft DEF SketchInv
<1>. HIDE DEF copyOf, within
<1>6. clones \in Seq(SketchTies)
  <2>1. PICK m \in Nat : DOMAIN within = 1..m
    BY <1>5
  <2>2. \A k \in 1..m : [within[k] EXCEPT !.on = {copyOf(id) : id \in @}] \in SketchTies
    <3>. TAKE k \in 1..m
    <3>1. within[k] \in SketchTies
      BY <1>5, <2>1
    <3>2. PICK on : on = {copyOf(id) : id \in within[k].on}
      OBVIOUS
    <3>3. on \subseteq Int
      BY <1>4, <3>2
    <3>4. [within[k] EXCEPT !.on = on] \in SketchTies
      BY <3>1, <3>3, TieEdited
    <3>. QED  BY <3>2, <3>4, Zenon
  <2>3. clones = [k \in 1..m |-> [within[k] EXCEPT !.on = {copyOf(id) : id \in @}]]
    BY <2>1, Zenon
  <2>4. \A k \in 1..m : clones[k] \in SketchTies
    BY <2>2, <2>3, Zenon
  <2>5. DOMAIN clones = 1..m /\ clones = [k \in 1..m |-> clones[k]]
    BY <2>3, Zenon
  <2>. HIDE DEF clones
  <2>. QED  BY <2>4, <2>5
<1>. HIDE DEF clones
<1>7. PICK ties \in Seq(SketchTies) : ties = IF clone THEN constraints \o clones ELSE constraints
  <2>1. constraints \o clones \in Seq(SketchTies)
    BY <1>5, <1>6, Concatenated
  <2>. QED  BY <1>5, <2>1
<1>8. MutateSketch("copy_sketch_geometry", Grown(n, FALSE), ties,
                   [Silent EXCEPT !.added = AddedFrom(Grown(n, FALSE))])
  BY <1>3, <1>7
<1>. QED  BY <1>0, <1>3, <1>7, <1>8, OffspringKeeps

LEMMA MirrorKeeps ==
    ASSUME SketchInv, IndicesHoldUntilRenumbered, MirrorSketchGeometry
    PROVE  SketchInv' /\ IndicesHoldUntilRenumbered' /\ ReportsTellTheSketch'
<1>0. "mirror_sketch_geometry" # "add_sketch_rectangle"
  OBVIOUS
<1>1. PICK indices \in IndexLists :
          /\ MutateSketch("mirror_sketch_geometry", Grown(Cardinality(indices), FALSE),
                 constraints,
                 [Silent EXCEPT !.added = AddedFrom(Grown(Cardinality(indices), FALSE))])
          /\ Keeps
  BY DEF MirrorSketchGeometry
<1>2. PICK n \in Nat : n = Cardinality(indices)
  BY IndicesFinite DEF IndexLists
<1>3. MutateSketch("mirror_sketch_geometry", Grown(n, FALSE), constraints,
                   [Silent EXCEPT !.added = AddedFrom(Grown(n, FALSE))])
  BY <1>1, <1>2
<1>4. constraints \in Seq(SketchTies)
  BY DEF SketchInv
<1>. QED  BY <1>0, <1>1, <1>3, <1>4, OffspringKeeps

LEMMA CreationKeeps ==
    ASSUME SketchInv, IndicesHoldUntilRenumbered,
           NEW call, NEW n \in Nat, NEW ties \in Seq(SketchTies), NEW place,
           CreateSketch(call, n, ties, place), call # "add_sketch_rectangle",
           place # <<>> => place[1] = [axis \in 1..3 |-> place[3] * place[2][axis]]
    PROVE  SketchInv' /\ IndicesHoldUntilRenumbered' /\ ReportsTellTheSketch'
<1>1. /\ clientView' = clientView /\ readAt' = readAt /\ renumbered' = renumbered
      /\ constraints' = ties /\ elementsMade' = elementsMade + n
      /\ geometry' = NewElements(n, FALSE) /\ past' = Append(past, Before)
      /\ elementsMade \in Nat /\ geometry = <<>> /\ clientView \in Seq(Nat)
  BY DEF CreateSketch, SketchInv, Commits
<1>2. drawn' = TRUE
  BY DEF CreateSketch
<1>3. /\ geometry' \in Seq(SketchElements) /\ Len(geometry') = n
      /\ \A k \in 1..n : geometry'[k].id = elementsMade + k
  <2>1. FALSE \in BOOLEAN
    OBVIOUS
  <2>. QED  BY <1>1, <2>1, NewOnes
<1>4. SketchInv'
  <2>1. WellMade(geometry', elementsMade')
    <3>. DEFINE made == elementsMade
    <3>0. made \in Nat /\ \A k \in 1..n : geometry'[k].id = made + k
      BY <1>1, <1>3
    <3>. HIDE DEF made
    <3>1. ASSUME NEW i \in 1..n, NEW j \in 1..n, geometry'[i].id = geometry'[j].id PROVE i = j
      <4>1. made + i = made + j
        BY <3>0, <3>1
      <4>. QED  BY <3>0, <4>1
    <3>2. ASSUME NEW i \in 1..n PROVE geometry'[i].id \in 1..(elementsMade + n)
      <4>1. made + i \in 1..(made + n)
        BY <3>0
      <4>. QED  BY <3>0, <4>1 DEF made
    <3>. QED  BY <1>1, <1>3, <3>1, <3>2 DEF WellMade
  <2>2. elementsMade' \in Nat /\ elementsMade <= elementsMade'
    BY <1>1
  <2>3. PastAgrees'
    BY <1>1, <2>2, PastGrows
  <2>. QED  BY <1>1, <1>2, <2>1, <2>2, <2>3 DEF SketchInv, WellMade
<1>5. IndicesHoldUntilRenumbered'
  <2>. SUFFICES ASSUME ~renumbered
                PROVE  /\ Len(clientView) <= Len(geometry')
                       /\ \A k \in DOMAIN clientView : geometry'[k].id = clientView[k]
    BY <1>1 DEF IndicesHoldUntilRenumbered
  <2>1. Len(clientView) <= Len(<<>>)
    BY <1>1 DEF IndicesHoldUntilRenumbered
  <2>2. Len(clientView) = 0 /\ DOMAIN clientView = {}
    BY <1>1, <2>1
  <2>. QED  BY <1>3, <2>2
<1>6. /\ told'.call = call /\ told'.added = 0..(n - 1) /\ told'.removed = {}
      /\ told'.before = {} /\ told'.loop = <<>> /\ told'.place = place
  <2>1. told' = [Silent EXCEPT !.call = call, !.added = 0..(n - 1), !.place = place]
    BY DEF CreateSketch
  <2>. QED  BY <2>1 DEF Silent
<1>7. {geometry'[index + 1].id : index \in 0..(n - 1)} = Ids(geometry')
  <2>0. DOMAIN geometry' = 1..n
    BY <1>3
  <2>1. \A index \in 0..(n - 1) : index + 1 \in 1..n
    OBVIOUS
  <2>2. ASSUME NEW k \in 1..n
        PROVE  \E index \in 0..(n - 1) : geometry'[k].id = geometry'[index + 1].id
    <3>1. k - 1 \in 0..(n - 1) /\ (k - 1) + 1 = k
      OBVIOUS
    <3>. QED  BY <3>1
  <2>3. {geometry'[index + 1].id : index \in 0..(n - 1)} \subseteq {geometry'[k].id : k \in 1..n}
    BY <2>1
  <2>4. {geometry'[k].id : k \in 1..n} \subseteq {geometry'[index + 1].id : index \in 0..(n - 1)}
    <3>. SUFFICES ASSUME NEW k \in 1..n
                  PROVE  geometry'[k].id \in {geometry'[index + 1].id : index \in 0..(n - 1)}
      OBVIOUS
    <3>1. PICK index \in 0..(n - 1) : geometry'[k].id = geometry'[index + 1].id
      BY <2>2
    <3>. QED  BY <3>1
  <2>5. Ids(geometry') = {geometry'[k].id : k \in 1..n}
    BY <2>0 DEF Ids
  <2>. QED  BY ONLY <2>3, <2>4, <2>5
<1>8. Closes(told'.loop)
  BY <1>6 DEF Closes
<1>9. {ElementAt(index)' : index \in told'.added} = Ids(geometry') \ told'.before
  BY <1>6, <1>7 DEF ElementAt
<1>10. ReportsTellTheSketch'
  BY <1>6, <1>8, <1>9 DEF ReportsTellTheSketch, ElementAt, Ids, Closes
<1>. QED  BY <1>4, <1>5, <1>10

LEMMA CreationsKeep ==
    ASSUME SketchInv, IndicesHoldUntilRenumbered,
           CreateEmptySketch \/ CreateRectangularSketch \/ CreateCircularSketch
    PROVE  SketchInv' /\ IndicesHoldUntilRenumbered' /\ ReportsTellTheSketch'
<1>1. CASE CreateEmptySketch
  <2>1. PICK plane \in Planes, offset \in {-5, 0, 5} :
            CreateSketch("create_empty_sketch", 0, <<>>,
                         <<PlaneOrigin(plane, offset), Normal(plane), offset>>)
    BY <1>1 DEF CreateEmptySketch
  <2>2. PlaneOrigin(plane, offset) = [axis \in 1..3 |-> offset * Normal(plane)[axis]]
    <3>1. offset \in Int
      OBVIOUS
    <3>2. CASE plane = "xy"
      BY <3>1, <3>2 DEF PlaneOrigin, Normal
    <3>3. CASE plane = "xz"
      BY <3>1, <3>3 DEF PlaneOrigin, Normal
    <3>4. CASE plane = "yz"
      BY <3>1, <3>4 DEF PlaneOrigin, Normal
    <3>. QED  BY <3>2, <3>3, <3>4 DEF Planes
  <2>3. PICK place : place = <<PlaneOrigin(plane, offset), Normal(plane), offset>>
    OBVIOUS
  <2>4. place[1] = [axis \in 1..3 |-> place[3] * place[2][axis]]
    BY <2>2, <2>3
  <2>5. "create_empty_sketch" # "add_sketch_rectangle" /\ 0 \in Nat
    OBVIOUS
  <2>6. CreateSketch("create_empty_sketch", 0, <<>>, place)
    BY <2>1, <2>3
  <2>. QED  BY <2>4, <2>5, <2>6, NoTies, CreationKeeps
<1>2. CASE CreateRectangularSketch
  <2>0. elementsMade \in Nat
    BY DEF SketchInv
  <2>1. PICK corners \in Seq(SketchTies) : corners = Corners(elementsMade)
    BY <2>0, RectangleTies
  <2>2. PICK sides \in Seq(SketchTies) : sides = AlignedSides(elementsMade)
    BY <2>0, RectangleTies
  <2>3. PICK rest \in Seq(SketchTies) :
            rest = <<Tie({elementsMade + 1, -1}), Tie({elementsMade + 1}),
                     Tie({elementsMade + 2})>>
    <3>1. /\ {elementsMade + 1, -1} \subseteq Int /\ {elementsMade + 1} \subseteq Int
          /\ {elementsMade + 2} \subseteq Int
      BY <2>0
    <3>2. PICK a \in SketchTies, b \in SketchTies, c \in SketchTies :
              /\ a = Tie({elementsMade + 1, -1}) /\ b = Tie({elementsMade + 1})
              /\ c = Tie({elementsMade + 2})
      BY <3>1, TieFields
    <3>3. <<a, b, c>> \in Seq(SketchTies)
      OBVIOUS
    <3>. QED  BY <3>2, <3>3
  <2>4. PICK ties \in Seq(SketchTies) : ties = corners \o sides \o rest
    <3>1. corners \o sides \in Seq(SketchTies)
      BY Concatenated
    <3>2. (corners \o sides) \o rest \in Seq(SketchTies)
      BY <3>1, Concatenated
    <3>. QED  BY <3>2
  <2>5. CreateSketch("create_rectangular_sketch", 4, ties, <<>>)
    BY <1>2, <2>1, <2>2, <2>3, <2>4 DEF CreateRectangularSketch
  <2>6. "create_rectangular_sketch" # "add_sketch_rectangle" /\ 4 \in Nat
    OBVIOUS
  <2>. QED  BY <2>5, <2>6, CreationKeeps
<1>3. CASE CreateCircularSketch
  <2>1. PICK ties \in Seq(SketchTies) :
            ties = <<Tie({elementsMade + 1, -1}), Tie({elementsMade + 1})>>
    <3>1. {elementsMade + 1, -1} \subseteq Int /\ {elementsMade + 1} \subseteq Int
      BY DEF SketchInv
    <3>2. PICK a \in SketchTies, b \in SketchTies :
              a = Tie({elementsMade + 1, -1}) /\ b = Tie({elementsMade + 1})
      BY <3>1, TieFields
    <3>3. <<a, b>> \in Seq(SketchTies)
      OBVIOUS
    <3>. QED  BY <3>2, <3>3
  <2>2. CreateSketch("create_circular_sketch", 1, ties, <<>>)
    BY <1>3, <2>1 DEF CreateCircularSketch
  <2>3. "create_circular_sketch" # "add_sketch_rectangle" /\ 1 \in Nat
    OBVIOUS
  <2>. QED  BY <2>2, <2>3, CreationKeeps
<1>. QED  BY <1>1, <1>2, <1>3

LEMMA ReportsStay ==
    ASSUME ReportsTellTheSketch, geometry' = geometry, constraints' = constraints, told' = told
    PROVE  ReportsTellTheSketch'
<1>1. \A index : ElementAt(index)' = ElementAt(index)
  BY DEF ElementAt
<1>2. Ids(geometry)' = Ids(geometry) /\ Closes(told.loop)' = Closes(told.loop)
  BY DEF Ids, Closes
<1>3. /\ told'.added # {} =>
            {ElementAt(index)' : index \in told'.added} = Ids(geometry)' \ told'.before
      /\ told'.removed # {} => Ids(geometry)' = told'.before \ told'.removed
  <2>1. {ElementAt(index)' : index \in told'.added} = {ElementAt(index) : index \in told.added}
    BY <1>1
  <2>. QED  BY <1>2, <2>1 DEF ReportsTellTheSketch
<1>4. told'.call = "add_sketch_rectangle" =>
           \A i \in told'.added :
               LET next == told'.from + ((ElementAt(i)' - told'.from) % 4) + 1
               IN  \E k \in DOMAIN constraints' : constraints'[k].on = {ElementAt(i)', next}
  BY <1>1, Zenon DEF ReportsTellTheSketch
<1>5. Closes(told.loop)'
  BY <1>2 DEF ReportsTellTheSketch
<1>6. told'.place # <<>> =>
           told'.place[1] = [axis \in 1..3 |-> told'.place[3] * told'.place[2][axis]]
  BY Zenon DEF ReportsTellTheSketch
<1>. QED  BY <1>3, <1>4, <1>5, <1>6, Zenon DEF ReportsTellTheSketch

LEMMA ReadingKeeps ==
    ASSUME SketchInv, ReportsTellTheSketch, GetSketchInfo
    PROVE  SketchInv' /\ IndicesHoldUntilRenumbered' /\ ReportsTellTheSketch'
<1>1. /\ geometry' = geometry /\ constraints' = constraints /\ told' = told
      /\ elementsMade' = elementsMade /\ drawn' = drawn /\ drawn
      /\ clientView' = [k \in DOMAIN geometry |-> geometry[k].id]
  BY DEF GetSketchInfo
<1>2. PICK n \in Nat : n = Len(geometry) /\ DOMAIN geometry = 1..n
  BY DEF SketchInv, WellMade
<1>3. \A k \in 1..n : geometry[k].id \in Nat
  <2>1. \A k \in 1..n : geometry[k] \in SketchElements
    BY <1>2 DEF SketchInv, WellMade
  <2>. QED  BY <2>1, ElementIds
<1>4. /\ clientView' \in Seq(Nat) /\ Len(clientView') = n /\ DOMAIN clientView' = 1..n
      /\ \A k \in 1..n : clientView'[k] = geometry[k].id
  BY <1>1, <1>2, <1>3
<1>5. SketchInv'
  <2>1. /\ past' = past /\ readAt' = Len(past) /\ past \in Seq(SketchStates)
        /\ PastWellMade /\ Len(past) \in Nat
    BY DEF GetSketchInfo, SketchInv, PastAgrees
  <2>2. PastWellMade'
    BY <1>1, <2>1 DEF PastWellMade, WellMade
  <2>3. PastShows'
    BY <2>1 DEF PastShows
  <2>. QED  BY <1>1, <1>4, <2>1, <2>2, <2>3 DEF SketchInv, PastAgrees, WellMade
<1>6. IndicesHoldUntilRenumbered'
  BY <1>1, <1>2, <1>4 DEF IndicesHoldUntilRenumbered
<1>7. ReportsTellTheSketch'
  BY <1>1, ReportsStay
<1>. QED  BY <1>5, <1>6, <1>7

\* An undo goes back to a sketch that shows what was read, or says so.
LEMMA UndoneChangeKeeps ==
    ASSUME SketchInv, IndicesHoldUntilRenumbered, UndoSketchChange
    PROVE  SketchInv' /\ IndicesHoldUntilRenumbered' /\ ReportsTellTheSketch'
<1>. DEFINE n == Len(past)
<1>1. /\ past \in Seq(SketchStates) /\ readAt \in Nat /\ PastWellMade /\ PastShows
      /\ past # <<>>
  BY DEF SketchInv, PastAgrees, UndoSketchChange
<1>2. /\ past' \in Seq(SketchStates) /\ Len(past') = n - 1 /\ n \in Nat \ {0}
      /\ \A k \in 1..(n - 1) : past'[k] = past[k]
  BY <1>1, FrontFacts DEF UndoSketchChange, Front
<1>3. /\ drawn' = past[n].drawn /\ geometry' = past[n].geometry
      /\ constraints' = past[n].constraints
      /\ UNCHANGED <<elementsMade, clientView, readAt>>
      /\ renumbered' = (renumbered \/ n <= readAt)
      /\ told' = [Silent EXCEPT !.call = "undo"]
  BY DEF UndoSketchChange
<1>4. /\ WellMade(past[n].geometry, elementsMade) /\ past[n].constraints \in Seq(SketchTies)
      /\ past[n].drawn \in BOOLEAN
      /\ ~past[n].drawn => past[n].geometry = <<>>
  BY <1>1, <1>2 DEF PastWellMade
<1>. HIDE DEF n
<1>5. PastWellMade'
  <2>1. \A k \in 1..(n - 1) : k \in 1..Len(past)
    BY <1>2 DEF n
  <2>. QED  BY <1>1, <1>2, <1>3, <2>1 DEF PastWellMade, WellMade
<1>6. ~renumbered' => ~renumbered /\ readAt < n
  <2>1. ~renumbered' => ~renumbered /\ ~(n <= readAt)
    BY <1>3
  <2>2. n \in Nat /\ readAt \in Nat
    BY <1>1, <1>2
  <2>3. ~(n <= readAt) => readAt < n
    BY <2>2
  <2>. QED  BY <2>1, <2>3
<1>7. PastShows'
  <2>. SUFFICES ASSUME ~renumbered'
                PROVE  /\ readAt <= n - 1
                       /\ \A k \in (readAt + 1)..(n - 1) : Shows(past'[k].geometry, clientView)
    BY <1>2, <1>3 DEF PastShows, Shows
  <2>1. ASSUME NEW k \in (readAt + 1)..(n - 1) PROVE Shows(past'[k].geometry, clientView)
    <3>1. k \in 1..(n - 1) /\ k \in (readAt + 1)..n
      BY <1>1, <1>2
    <3>2. Shows(past[k].geometry, clientView)
      BY <1>1, <1>6, <3>1 DEF PastShows, n
    <3>. QED  BY <1>2, <3>1, <3>2
  <2>. QED  BY <1>1, <1>2, <1>6, <2>1
<1>8. IndicesHoldUntilRenumbered'
  <2>. SUFFICES ASSUME ~renumbered' PROVE Shows(geometry', clientView)
    <3>1. DOMAIN clientView = 1..Len(clientView)
      BY DEF SketchInv
    <3>. QED  BY <1>3, <3>1 DEF IndicesHoldUntilRenumbered, Shows
  <2>1. n \in (readAt + 1)..n
    BY <1>1, <1>2, <1>6
  <2>. QED  BY <1>1, <1>3, <1>6, <2>1 DEF PastShows, n
<1>9. SketchInv'
  <2>1. PastAgrees'
    BY <1>1, <1>2, <1>3, <1>5, <1>7 DEF PastAgrees
  <2>. QED  BY <1>3, <1>4, <2>1 DEF SketchInv, WellMade
<1>10. ReportsTellTheSketch'
  <2>1. /\ told'.call = "undo" /\ told'.added = {} /\ told'.removed = {}
        /\ told'.loop = <<>> /\ told'.place = <<>>
    BY <1>3 DEF Silent
  <2>2. Closes(told'.loop)
    BY <2>1 DEF Closes
  <2>3. "undo" # "add_sketch_rectangle"
    OBVIOUS
  <2>. QED  BY <2>1, <2>2, <2>3 DEF ReportsTellTheSketch, Closes
<1>. QED  BY <1>8, <1>9, <1>10

\* The inductive invariant.
SketchIInv == SketchInv /\ IndicesHoldUntilRenumbered /\ ReportsTellTheSketch

LEMMA InitSketch == SketchInit => SketchIInv
<1>. SUFFICES ASSUME SketchInit PROVE SketchIInv
  OBVIOUS
<1>1. SketchInv
  <2>1. /\ geometry = <<>> /\ constraints = <<>> /\ past = <<>> /\ clientView = <<>>
        /\ elementsMade = 0 /\ readAt = 0 /\ drawn = FALSE
    BY DEF SketchInit
  <2>2. WellMade(geometry, elementsMade)
    BY <2>1 DEF WellMade
  <2>3. past \in Seq(SketchStates) /\ Len(past) = 0 /\ readAt \in Nat /\ readAt <= Len(past)
    BY <2>1
  <2>4. PastWellMade
    BY <2>3 DEF PastWellMade
  <2>5. PastShows
    BY <2>1, <2>3 DEF PastShows
  <2>6. PastAgrees
    BY <2>3, <2>4, <2>5 DEF PastAgrees
  <2>7. constraints \in Seq(SketchTies) /\ clientView \in Seq(Nat)
    BY <2>1
  <2>8. elementsMade \in Nat /\ drawn \in BOOLEAN
    BY <2>1
  <2>. QED  BY <2>1, <2>2, <2>6, <2>7, <2>8, Zenon DEF SketchInv
<1>2. IndicesHoldUntilRenumbered
  BY DEF SketchInit, IndicesHoldUntilRenumbered
<1>3. ReportsTellTheSketch
  <2>1. told = Silent /\ Silent.call = "none"
    BY DEF SketchInit, Silent
  <2>2. Closes(Silent.loop)
    BY Nones DEF Closes
  <2>. QED  BY <2>1, <2>2, Nones DEF ReportsTellTheSketch
<1>. QED  BY <1>1, <1>2, <1>3 DEF SketchIInv

LEMMA SketchKept == SketchIInv /\ [SketchNext]_sketchVars => SketchIInv'
<1>1. ASSUME SketchIInv, UNCHANGED sketchVars PROVE SketchIInv'
  <2>1. SketchInv'
    BY <1>1 DEF sketchVars, SketchIInv, SketchInv, WellMade, PastAgrees, PastWellMade,
                PastShows, Shows
  <2>2. IndicesHoldUntilRenumbered'
    BY <1>1 DEF sketchVars, SketchIInv, IndicesHoldUntilRenumbered
  <2>3. ReportsTellTheSketch'
    BY <1>1, ReportsStay DEF sketchVars, SketchIInv
  <2>. QED  BY <2>1, <2>2, <2>3 DEF SketchIInv
<1>2. ASSUME SketchIInv, SketchNext PROVE SketchIInv'
  <2>1. SketchInv /\ IndicesHoldUntilRenumbered /\ ReportsTellTheSketch
    BY <1>2 DEF SketchIInv
  <2>2. CASE CreateEmptySketch \/ CreateRectangularSketch \/ CreateCircularSketch
    BY <2>1, <2>2, CreationsKeep DEF SketchIInv
  <2>3. CASE AddSketchPolyline
    BY <2>1, <2>3, PolylineKeeps DEF SketchIInv
  <2>4. CASE \/ AddSketchLine \/ AddSketchCircle \/ AddSketchArc \/ AddSketchEllipse
             \/ AddSketchSlot
    BY <2>1, <2>4, PlainAdditionsKeep DEF SketchIInv
  <2>5. CASE AddSketchRectangle
    BY <2>1, <2>5, RectangleKeeps DEF SketchIInv
  <2>6. CASE AddSketchRegularPolygon
    BY <2>1, <2>6, PolygonKeeps DEF SketchIInv
  <2>7. CASE \/ AddSketchExternalGeometry \/ SetSketchConstraintValue
             \/ MoveSketchPoint \/ ExtendSketchGeometry
    BY <2>1, <2>7, UnchangedKeeps DEF SketchIInv
  <2>8. CASE AddSketchGeometricConstraint
    BY <2>1, <2>8, GeometricConstraintKeeps DEF SketchIInv
  <2>9. CASE AddSketchDimensionalConstraint
    BY <2>1, <2>9, DimensionalConstraintKeeps DEF SketchIInv
  <2>10. CASE SetSketchConstraintDriving
    BY <2>1, <2>10, DrivingKeeps DEF SketchIInv
  <2>11. CASE DeleteSketchConstraint
    BY <2>1, <2>11, ConstraintDeletionKeeps DEF SketchIInv
  <2>12. CASE ToggleSketchConstruction
    BY <2>1, <2>12, ToggleKeeps DEF SketchIInv
  <2>13. CASE DeleteSketchGeometry
    BY <2>1, <2>13, GeometryDeletionKeeps DEF SketchIInv
  <2>14. CASE TrimSketchGeometry
    BY <2>1, <2>14, TrimKeeps DEF SketchIInv
  <2>15. CASE FilletSketchCorner
    BY <2>1, <2>15, FilletKeeps DEF SketchIInv
  <2>16. CASE CopySketchGeometry
    BY <2>1, <2>16, CopyKeeps DEF SketchIInv
  <2>17. CASE MirrorSketchGeometry
    BY <2>1, <2>17, MirrorKeeps DEF SketchIInv
  <2>18. CASE GetSketchInfo
    BY <2>1, <2>18, ReadingKeeps DEF SketchIInv
  <2>19. CASE UndoSketchChange
    BY <2>1, <2>19, UndoneChangeKeeps DEF SketchIInv
  <2>. QED  BY <1>2, <2>2, <2>3, <2>4, <2>5, <2>6, <2>7, <2>8, <2>9, <2>10, <2>11, <2>12,
               <2>13, <2>14, <2>15, <2>16, <2>17, <2>18, <2>19 DEF SketchNext
<1>. QED  BY <1>1, <1>2

THEOREM SketchInvariant == SketchSpec => []SketchIInv
BY InitSketch, SketchKept, PTL DEF SketchSpec

\* An index a client read stands for the element it stood for, until an
\* element is trimmed or deleted or a change from before the read is undone:
\* whatever else any client draws, ties, moves or copies in between goes to
\* the end of the sketch, and an undo of that takes it away from there.
THEOREM IndicesHold == SketchSpec => []IndicesHoldUntilRenumbered
<1>1. SketchIInv => IndicesHoldUntilRenumbered
  BY DEF SketchIInv
<1>. QED  BY <1>1, SketchInvariant, PTL

\* What a sketch tool reports is what it did to the sketch.
THEOREM ReportsTell == SketchSpec => []ReportsTellTheSketch
<1>1. SketchIInv => ReportsTellTheSketch
  BY DEF SketchIInv
<1>. QED  BY <1>1, SketchInvariant, PTL

-------------------------------------------------------------------------------
(***************************************************************************)
(* PartDesign: every feature of a body is the tip or has exactly one other *)
(* feature built on it.                                                    *)
(***************************************************************************)
ItemTypes == {Sketch} \cup SketchBased \cup DressUps \cup Patterns
AnyShape == Shapes \cup {NoShape}
DesignItems ==
    [type : ItemTypes, body : Bodies, base : Nat, uses : SUBSET Nat, face : Nat,
     edges : SUBSET Nat, shape : AnyShape, shown : BOOLEAN]

Followers(b, f) == {g \in Features(b) : items[g].base = f}

\* A body shows one of its features, the last one, or none yet.
TipIsLast ==
    \A b \in Bodies : IF tip[b] = 0 THEN Features(b) = {} ELSE tip[b] \in Features(b)

\* A chain: what is built on, and how often.
Chained ==
    \A b \in Bodies : \A f \in Features(b) :
        Cardinality(Followers(b, f)) = (IF tip[b] = f THEN 0 ELSE 1)

BuiltOfEarlier ==
    \A i \in Made : /\ items[i].base < i
                    /\ \A used \in items[i].uses : used \in Made /\ used < i
                                                  /\ items[used].body = items[i].body

DesignInv ==
    /\ bodies \subseteq Bodies
    /\ tip \in [Bodies -> Nat]
    /\ items \in Seq(DesignItems)
    /\ TipIsLast
    /\ Chained
    /\ BuiltOfEarlier

LEMMA DesignItemFields ==
    ASSUME NEW type, NEW b, NEW base, NEW uses, NEW face, NEW edges, NEW shape
    PROVE  LET item == Item(type, b, base, uses, face, edges, shape)
           IN  item.type = type /\ item.body = b /\ item.base = base /\ item.uses = uses
BY DEF Item

LEMMA ItemTyped ==
    ASSUME NEW type \in ItemTypes, NEW b \in Bodies, NEW base \in Nat,
           NEW uses \in SUBSET Nat, NEW face \in Nat, NEW edges \in SUBSET Nat,
           NEW shape \in AnyShape
    PROVE  Item(type, b, base, uses, face, edges, shape) \in DesignItems
BY Zenon DEF Item, DesignItems

LEMMA DesignFieldTypes ==
    ASSUME NEW item \in DesignItems
    PROVE  /\ item.type \in ItemTypes /\ item.body \in Bodies /\ item.base \in Nat
           /\ item.uses \subseteq Nat /\ item.shape \in AnyShape
BY Zenon DEF DesignItems

LEMMA HiddenKeeps ==
    ASSUME NEW item \in DesignItems
    PROVE  /\ [item EXCEPT !.shown = FALSE] \in DesignItems
           /\ [item EXCEPT !.shown = FALSE].type = item.type
           /\ [item EXCEPT !.shown = FALSE].body = item.body
           /\ [item EXCEPT !.shown = FALSE].base = item.base
           /\ [item EXCEPT !.shown = FALSE].uses = item.uses
BY Zenon DEF DesignItems

LEMMA ReshapedKeeps ==
    ASSUME NEW item \in DesignItems, NEW shape \in AnyShape
    PROVE  /\ [item EXCEPT !.shape = shape] \in DesignItems
           /\ [item EXCEPT !.shape = shape].type = item.type
           /\ [item EXCEPT !.shape = shape].body = item.body
           /\ [item EXCEPT !.shape = shape].base = item.base
           /\ [item EXCEPT !.shape = shape].uses = item.uses
BY Zenon DEF DesignItems

\* Items keep what the chain is made of.
Alike(old, new) ==
    /\ old.type = new.type /\ old.body = new.body
    /\ old.base = new.base /\ old.uses = new.uses

\* An edit, or a call that adds nothing to the chain of a body.
LEMMA ChainsStay ==
    ASSUME DesignInv, UNCHANGED <<bodies, tip>>, items' \in Seq(DesignItems),
           Len(items') = Len(items), \A i \in Made : Alike(items[i], items'[i])
    PROVE  DesignInv'
<1>1. Made' = Made /\ Made = DOMAIN items /\ items \in Seq(DesignItems)
    BY DEF DesignInv, Made
<1>2. ASSUME NEW b \in Bodies PROVE Features(b)' = Features(b)
    BY <1>1 DEF Features, Alike
<1>3. ASSUME NEW b \in Bodies, NEW f PROVE Followers(b, f)' = Followers(b, f)
    BY <1>1, <1>2 DEF Followers, Features, Alike
<1>4. TipIsLast'
    BY <1>2 DEF TipIsLast, DesignInv
<1>5. Chained'
    BY <1>2, <1>3 DEF Chained, DesignInv
<1>6. BuiltOfEarlier'
    BY <1>1 DEF BuiltOfEarlier, DesignInv, Alike
<1>. QED  BY <1>4, <1>5, <1>6 DEF DesignInv

LEMMA EditKeepsChains ==
    ASSUME DesignInv, EditFeature
    PROVE  DesignInv'
<1>. USE DEF DesignInv
<1>1. PICK f : \E new \in [{i \in Downstream(f) : items[i].type # Sketch} -> Shapes] :
          items' = [i \in Made |-> [items[i] EXCEPT !.shape =
                       [j \in Made |-> IF j \in {k \in Downstream(f) : items[k].type # Sketch}
                                       THEN new[j] ELSE items[j].shape][i]]]
    BY Zenon DEF EditFeature
<1>. DEFINE changed == {i \in Downstream(f) : items[i].type # Sketch}
<1>2. PICK new \in [changed -> Shapes] :
          items' = [i \in Made |-> [items[i] EXCEPT !.shape =
                       [j \in Made |-> IF j \in changed THEN new[j] ELSE items[j].shape][i]]]
    BY ONLY <1>1, Zenon
<1>. HIDE DEF changed
<1>3. PICK shapes : shapes = [i \in Made |-> IF i \in changed THEN new[i] ELSE items[i].shape]
    OBVIOUS
<1>4. items' = [i \in Made |-> [items[i] EXCEPT !.shape = shapes[i]]]
    BY ONLY <1>2, <1>3, Zenon
<1>5. Made = 1..Len(items) /\ Len(items) \in Nat /\ \A i \in Made : items[i] \in DesignItems
    BY DEF Made
<1>6. ASSUME NEW i \in Made
      PROVE  items'[i] \in DesignItems /\ Alike(items[i], items'[i])
    <2>1. PICK shape : shape = shapes[i]
        OBVIOUS
    <2>2. PICK item : item = items[i]
        OBVIOUS
    <2>3. PICK after : after = items'[i]
        OBVIOUS
    <2>4. after = [item EXCEPT !.shape = shape]
        BY <1>4, <2>1, <2>2, <2>3
    <2>5. item \in DesignItems
        BY <1>5, <2>2
    <2>6. shape \in AnyShape
        <3>1. shape = IF i \in changed THEN new[i] ELSE item.shape
            BY <1>3, <2>1, <2>2
        <3>2. item.shape \in AnyShape
            BY <2>5, DesignFieldTypes
        <3>. QED  BY <1>2, <3>1, <3>2 DEF AnyShape
    <2>7. /\ [item EXCEPT !.shape = shape] \in DesignItems
          /\ Alike(item, [item EXCEPT !.shape = shape])
        BY ONLY <2>5, <2>6, ReshapedKeeps DEF Alike
    <2>8. after \in DesignItems /\ Alike(item, after)
        BY ONLY <2>4, <2>7, Zenon
    <2>. QED  BY ONLY <2>2, <2>3, <2>8, Zenon
<1>7. items' \in Seq(DesignItems) /\ Len(items') = Len(items)
    <2>1. DOMAIN items' = 1..Len(items)
        BY <1>5, <1>4
    <2>2. items' = [i \in 1..Len(items) |-> items'[i]]
        BY <1>5, <1>4
    <2>3. \A i \in 1..Len(items) : items'[i] \in DesignItems
        BY <1>5, <1>6
    <2>4. PICK n \in Nat : n = Len(items)
        BY <1>5
    <2>. QED  BY ONLY <2>1, <2>2, <2>3, <2>4
<1>8. UNCHANGED <<bodies, tip>>
    BY DEF EditFeature
<1>. QED  BY <1>6, <1>7, <1>8, ChainsStay

LEMMA SketchKeeps ==
    ASSUME DesignInv, UNCHANGED <<bodies, tip>>, NEW b \in Bodies, NEW uses \in SUBSET Made,
           NEW face \in Nat, \A used \in uses : items[used].body = b,
           Adds(Item(Sketch, b, 0, uses, face, {}, NoShape))
    PROVE  DesignInv'
<1>. USE DEF DesignInv
<1>1. PICK item : item = Item(Sketch, b, 0, uses, face, {}, NoShape)
    OBVIOUS
<1>2. Made = 1..Len(items) /\ Len(items) \in Nat
    BY DEF Made
<1>3. item \in DesignItems
    <2>1. Sketch \in ItemTypes /\ NoShape \in AnyShape
        BY DEF ItemTypes, AnyShape
    <2>2. uses \in SUBSET Nat
        BY <1>2
    <2>. QED  BY <1>1, <2>1, <2>2, ItemTyped
<1>4. item.type = Sketch /\ item.body = b /\ item.base = 0 /\ item.uses = uses
    BY <1>1, DesignItemFields
<1>5. items' = Append(items, item)
    BY <1>1 DEF Adds
<1>6. /\ items' \in Seq(DesignItems)
      /\ Made' = Made \cup {Len(items) + 1}
      /\ \A i \in Made : items'[i] = items[i]
      /\ items'[Len(items) + 1] = item
    BY <1>2, <1>3, <1>5 DEF Made
<1>7. ASSUME NEW c \in Bodies PROVE Features(c)' = Features(c)
    BY <1>2, <1>4, <1>6 DEF Features
<1>8. ASSUME NEW c \in Bodies, NEW f PROVE Followers(c, f)' = Followers(c, f)
    BY <1>6, <1>7 DEF Followers, Features
<1>9. TipIsLast'
    BY <1>7 DEF TipIsLast
<1>10. Chained'
    BY <1>7, <1>8 DEF Chained
<1>11. BuiltOfEarlier'
    <2>. SUFFICES ASSUME NEW i \in Made'
                  PROVE  /\ items'[i].base < i
                         /\ \A used \in items'[i].uses :
                                used \in Made' /\ used < i
                                    /\ items'[used].body = items'[i].body
        BY DEF BuiltOfEarlier
    <2>1. CASE i \in Made
        BY <1>6, <2>1 DEF BuiltOfEarlier
    <2>2. CASE i = Len(items) + 1
        <3>1. items'[i] = item
            BY <1>6, <2>2
        <3>2. \A used \in uses : used \in Made /\ items'[used].body = b
            BY <1>6
        <3>3. \A used \in uses : used < i
            BY <1>2, <2>2, <3>2
        <3>4. 0 < i
            BY <1>2, <2>2
        <3>. QED  BY <1>4, <1>6, <3>1, <3>2, <3>3, <3>4
    <2>. QED  BY <1>6, <2>1, <2>2
<1>. QED  BY <1>6, <1>9, <1>10, <1>11

LEMMA FeatureKeeps ==
    ASSUME DesignInv, NEW b \in Bodies, NEW type \in ItemTypes \ {Sketch},
           NEW uses \in SUBSET Made, NEW edges \in SUBSET Nat,
           \A used \in uses : items[used].body = b,
           AddsFeature(b, type, uses, edges)
    PROVE  DesignInv'
<1>. USE DEF DesignInv
<1>1. PICK shape \in Shapes :
          /\ items' = Append([i \in Made |->
                        IF i \in uses /\ items[i].type = Sketch
                        THEN [items[i] EXCEPT !.shown = FALSE] ELSE items[i]],
                    Item(type, b, tip[b], uses, 0, edges, shape))
          /\ tip' = [tip EXCEPT ![b] = Len(items) + 1]
          /\ bodies' = bodies
    BY DEF AddsFeature, TipAfter
<1>2. Made = 1..Len(items) /\ Len(items) \in Nat /\ \A i \in Made : items[i] \in DesignItems
    BY DEF Made
<1>3. PICK n \in Nat : n = Len(items)
    BY <1>2
<1>4. PICK item : item = Item(type, b, tip[b], uses, 0, edges, shape)
    OBVIOUS
<1>5. item \in DesignItems
    <2>1. shape \in AnyShape /\ tip[b] \in Nat /\ uses \in SUBSET Nat /\ 0 \in Nat
        BY <1>1, <1>2 DEF AnyShape
    <2>. QED  BY <1>4, <2>1, ItemTyped
<1>6. item.type = type /\ item.body = b /\ item.base = tip[b] /\ item.uses = uses
    BY <1>4, DesignItemFields
<1>7. PICK kept : kept = [i \in Made |-> IF i \in uses /\ items[i].type = Sketch
                                         THEN [items[i] EXCEPT !.shown = FALSE] ELSE items[i]]
    OBVIOUS
<1>8. ASSUME NEW i \in Made
      PROVE  kept[i] \in DesignItems /\ Alike(items[i], kept[i])
    <2>1. kept[i] = [items[i] EXCEPT !.shown = FALSE] \/ kept[i] = items[i]
        BY <1>7
    <2>2. items[i] \in DesignItems
        BY <1>2
    <2>. QED  BY <2>1, <2>2, HiddenKeeps, Zenon DEF Alike
<1>9. kept \in Seq(DesignItems) /\ Len(kept) = n
    <2>1. kept = [i \in 1..n |-> kept[i]]
        BY <1>2, <1>3, <1>7
    <2>. QED  BY <1>2, <1>3, <1>8, <2>1
<1>10. items' = Append(kept, item)
    BY <1>1, <1>4, <1>7
<1>11. /\ items' \in Seq(DesignItems)
       /\ Made' = Made \cup {n + 1}
       /\ \A i \in Made : items'[i] = kept[i]
       /\ items'[n + 1] = item
       /\ Made = 1..n
    BY <1>2, <1>3, <1>5, <1>9, <1>10 DEF Made
<1>12. /\ \A i \in Made : Alike(items[i], items'[i])
       /\ type # Sketch
       /\ n + 1 \notin Made
    BY <1>8, <1>11
<1>13. ASSUME NEW c \in Bodies
       PROVE  Features(c)' = IF c = b THEN Features(c) \cup {n + 1} ELSE Features(c)
    <2>1. ASSUME NEW i \in Made
          PROVE  i \in Features(c)' <=> i \in Features(c)
        BY <1>11, <1>12, <2>1 DEF Features, Alike
    <2>2. n + 1 \in Features(c)' <=> c = b
        BY <1>6, <1>11, <1>12 DEF Features
    <2>3. Features(c)' \subseteq Made \cup {n + 1} /\ Features(c) \subseteq Made
        BY <1>11 DEF Features
    <2>4. n + 1 \notin Features(c)
        BY <1>12, <2>3
    <2>5. PICK now : now = Features(c)'
        OBVIOUS
    <2>6. PICK was : was = Features(c)
        OBVIOUS
    <2>7. PICK last : last = n + 1
        OBVIOUS
    <2>8. /\ \A i \in Made : i \in now <=> i \in was
          /\ last \in now <=> c = b
          /\ last \notin was
          /\ now \subseteq Made \cup {last} /\ was \subseteq Made
        BY ONLY <2>1, <2>2, <2>3, <2>4, <2>5, <2>6, <2>7
    <2>9. now = IF c = b THEN was \cup {last} ELSE was
        BY ONLY <2>8
    <2>. QED  BY ONLY <2>5, <2>6, <2>7, <2>9
<1>14. ASSUME NEW c \in Bodies, NEW f
       PROVE  Followers(c, f)' = IF c = b /\ f = tip[b] THEN Followers(c, f) \cup {n + 1}
                                 ELSE Followers(c, f)
    BY <1>6, <1>11, <1>12, <1>13 DEF Followers, Features, Alike
<1>15. tip' \in [Bodies -> Nat] /\ tip'[b] = n + 1 /\ \A c \in Bodies \ {b} : tip'[c] = tip[c]
    BY <1>1, <1>3
<1>16. TipIsLast'
    <2>. SUFFICES ASSUME NEW c \in Bodies
                  PROVE  IF tip'[c] = 0 THEN Features(c)' = {} ELSE tip'[c] \in Features(c)'
        BY DEF TipIsLast
    <2>1. CASE c = b
        BY <1>13, <1>15, <2>1
    <2>2. CASE c # b
        BY <1>13, <1>15, <2>2 DEF TipIsLast
    <2>. QED  BY <2>1, <2>2
<1>17. Chained'
    <2>. SUFFICES ASSUME NEW c \in Bodies, NEW f \in Features(c)'
                  PROVE  Cardinality(Followers(c, f)') = (IF tip'[c] = f THEN 0 ELSE 1)
        BY DEF Chained
    <2>1. CASE c # b
        <3>1. f \in Features(c) /\ tip'[c] = tip[c] /\ Followers(c, f)' = Followers(c, f)
            BY <1>13, <1>14, <1>15, <2>1
        <3>. QED  BY <3>1 DEF Chained
    <2>2. CASE c = b /\ f = n + 1
        <3>1. tip[b] \in Made \cup {0}
            BY DEF TipIsLast, Features
        <3>2. \A g \in Made : items[g].base < g
            BY DEF BuiltOfEarlier
        <3>3. \A g \in Made : items[g].base # n + 1
            <4>. SUFFICES ASSUME NEW g \in Made, items[g].base = n + 1 PROVE FALSE
                OBVIOUS
            <4>1. g \in 1..n /\ n + 1 < g
                BY <1>11, <3>2
            <4>. QED  BY <4>1
        <3>4. Followers(c, f) = {}
            BY <2>2, <3>3 DEF Followers, Features
        <3>5. f # tip[b]
            BY <1>11, <2>2, <3>1
        <3>6. Followers(c, f)' = {}
            BY <1>14, <3>4, <3>5
        <3>. QED  BY <1>15, <2>2, <3>6, FS_EmptySet
    <2>3. CASE c = b /\ f # n + 1
        <3>1. f \in Features(b) /\ f \in Made /\ tip'[b] # f
            BY <1>13, <1>15, <2>3 DEF Features
        <3>2. CASE f = tip[b]
            <4>1. Cardinality(Followers(b, f)) = 0
                BY <3>1, <3>2 DEF Chained
            <4>2. IsFiniteSet(Followers(b, f))
                <5>1. IsFiniteSet(1..n) /\ Followers(b, f) \subseteq 1..n
                    BY <1>11, FS_Interval DEF Followers, Features
                <5>. QED  BY <5>1, FS_Subset
            <4>3. Followers(b, f) = {}
                BY <4>1, <4>2, FS_EmptySet
            <4>4. Followers(b, f)' = {n + 1}
                BY <1>14, <3>2, <4>3
            <4>. QED  BY <2>3, <3>1, <4>4, FS_Singleton
        <3>3. CASE f # tip[b]
            <4>1. Followers(b, f)' = Followers(b, f)
                BY <1>14, <3>3
            <4>. QED  BY <2>3, <3>1, <3>3, <4>1 DEF Chained
        <3>. QED  BY <3>2, <3>3
    <2>. QED  BY <2>1, <2>2, <2>3
<1>18. BuiltOfEarlier'
    <2>. SUFFICES ASSUME NEW i \in Made'
                  PROVE  /\ items'[i].base < i
                         /\ \A used \in items'[i].uses :
                                used \in Made' /\ used < i
                                    /\ items'[used].body = items'[i].body
        BY DEF BuiltOfEarlier
    <2>1. CASE i \in Made
        <3>1. /\ items'[i].base = items[i].base /\ items'[i].uses = items[i].uses
              /\ items'[i].body = items[i].body
            BY <1>12, <2>1 DEF Alike
        <3>2. /\ items[i].base < i
              /\ \A used \in items[i].uses :
                     used \in Made /\ used < i /\ items[used].body = items[i].body
            BY <2>1 DEF BuiltOfEarlier
        <3>3. \A used \in items[i].uses : items'[used].body = items[i].body
            BY <1>12, <3>2 DEF Alike
        <3>. QED  BY <1>11, <3>1, <3>2, <3>3
    <2>2. CASE i = n + 1
        <3>1. tip[b] \in Made \cup {0}
            BY DEF TipIsLast, Features
        <3>2. tip[b] < n + 1 /\ \A used \in uses : used < n + 1
            BY <1>11, <3>1
        <3>3. \A used \in uses : items'[used].body = b
            BY <1>12 DEF Alike
        <3>. QED  BY <1>6, <1>11, <2>2, <3>2, <3>3
    <2>. QED  BY <1>11, <2>1, <2>2
<1>. QED  BY <1>1, <1>11, <1>15, <1>16, <1>17, <1>18

\* The chain of every body holds in every state.
THEOREM DesignInvariant == DesignSpec => []DesignInv
<1>1. DesignInit => DesignInv
    <2>. SUFFICES ASSUME DesignInit PROVE DesignInv
        OBVIOUS
    <2>1. Made = {} /\ items \in Seq(DesignItems) /\ tip \in [Bodies -> Nat]
        BY DEF DesignInit, Made
    <2>2. \A b \in Bodies : Features(b) = {} /\ tip[b] = 0
        BY <2>1 DEF Features, DesignInit
    <2>. QED  BY <2>1, <2>2 DEF DesignInit, DesignInv, TipIsLast, Chained, BuiltOfEarlier
<1>2. DesignInv /\ [DesignNext]_designVars => DesignInv'
    <2>. SUFFICES ASSUME DesignInv, [DesignNext]_designVars PROVE DesignInv'
        OBVIOUS
    <2>. USE DEF DesignInv
    <2>0. Made \subseteq Nat
        BY DEF Made
    <2>1. CASE CreateBody
        <3>1. PICK b \in Bodies : bodies' = bodies \cup {b} /\ UNCHANGED <<tip, items>>
            BY <2>1 DEF CreateBody
        <3>2. Made' = Made /\ \A c \in Bodies : Features(c)' = Features(c)
            BY <3>1 DEF Made, Features
        <3>3. \A c \in Bodies : \A f : Followers(c, f)' = Followers(c, f)
            BY <3>1, <3>2 DEF Followers
        <3>. QED  BY <3>1, <3>2, <3>3 DEF TipIsLast, Chained, BuiltOfEarlier
    <2>2. CASE CreateBodySketch
        <3>1. PICK b \in Bodies : /\ Adds(Item(Sketch, b, 0, {}, 0, {}, NoShape))
                                  /\ UNCHANGED <<bodies, tip>>
            BY <2>2 DEF CreateBodySketch
        <3>2. {} \in SUBSET Made /\ \A used \in {} : items[used].body = b
            OBVIOUS
        <3>. QED  BY <3>1, <3>2, SketchKeeps
    <2>3. CASE CreateFaceSketch
        <3>1. PICK b \in Bodies :
                  /\ \E face \in FaceNumbers :
                         /\ HasTip(b)
                         /\ Adds(Item(Sketch, b, 0, {tip[b]}, face, {}, NoShape))
                  /\ UNCHANGED <<bodies, tip>>
            BY <2>3 DEF CreateFaceSketch, ResolvesFace
        <3>2. PICK face \in FaceNumbers :
                  /\ HasTip(b)
                  /\ Adds(Item(Sketch, b, 0, {tip[b]}, face, {}, NoShape))
            BY <3>1
        <3>3. face \in Nat
            BY <3>2, PartDesignAssumption DEF FaceNumbers
        <3>4. {tip[b]} \in SUBSET Made /\ \A used \in {tip[b]} : items[used].body = b
            BY <3>2 DEF HasTip, TipIsLast, Features
        <3>. QED  BY <3>1, <3>2, <3>3, <3>4, SketchKeeps
    <2>4. CASE AddSketchBased
        <3>1. PICK b \in Bodies : \E type \in SketchBased : \E profile \in Sketches(b) :
                  AddsFeature(b, type, {profile}, {})
            BY <2>4 DEF AddSketchBased
        <3>2. PICK type \in SketchBased : \E profile \in Sketches(b) :
                  AddsFeature(b, type, {profile}, {})
            BY <3>1
        <3>3. PICK profile \in Sketches(b) : AddsFeature(b, type, {profile}, {})
            BY <3>2
        <3>4. type \in ItemTypes \ {Sketch}
            BY DEF ItemTypes, SketchBased, Sketch
        <3>5. {profile} \in SUBSET Made /\ \A used \in {profile} : items[used].body = b
            BY <3>3 DEF Sketches
        <3>. QED  BY <3>3, <3>4, <3>5, FeatureKeeps
    <2>5. CASE AddPattern
        <3>1. PICK b \in Bodies : \E type \in Patterns : \E originals \in SUBSET Features(b) :
                  AddsFeature(b, type, originals, {})
            BY <2>5 DEF AddPattern
        <3>2. PICK type \in Patterns : \E originals \in SUBSET Features(b) :
                  AddsFeature(b, type, originals, {})
            BY <3>1
        <3>3. PICK originals \in SUBSET Features(b) : AddsFeature(b, type, originals, {})
            BY <3>2
        <3>4. type \in ItemTypes \ {Sketch}
            BY DEF ItemTypes, Patterns, Sketch
        <3>5. originals \in SUBSET Made /\ \A used \in originals : items[used].body = b
            BY <3>3 DEF Features
        <3>. QED  BY <3>3, <3>4, <3>5, FeatureKeeps
    <2>6. CASE AddDressUp
        <3>1. PICK b \in Bodies : \E type \in DressUps : \E edges \in SUBSET EdgeNumbers :
                  HasTip(b) /\ AddsFeature(b, type, {tip[b]}, edges)
            BY <2>6, SMTT(30), ZenonT(20) DEF AddDressUp, ResolvesEdges
        <3>2. PICK type \in DressUps : \E edges \in SUBSET EdgeNumbers :
                  HasTip(b) /\ AddsFeature(b, type, {tip[b]}, edges)
            BY <3>1
        <3>3. PICK edges \in SUBSET EdgeNumbers :
                  HasTip(b) /\ AddsFeature(b, type, {tip[b]}, edges)
            BY <3>2
        <3>4. type \in ItemTypes \ {Sketch}
            BY DEF ItemTypes, DressUps, Sketch
        <3>5. edges \in SUBSET Nat
            BY <3>3, PartDesignAssumption DEF EdgeNumbers
        <3>6. {tip[b]} \in SUBSET Made /\ \A used \in {tip[b]} : items[used].body = b
            BY <3>3 DEF HasTip, TipIsLast, Features
        <3>. QED  BY <3>3, <3>4, <3>5, <3>6, FeatureKeeps
    <2>7. CASE EditFeature
        BY <2>7, EditKeepsChains
    <2>8. CASE UNCHANGED designVars
        <3>1. UNCHANGED <<bodies, tip, items>>
            BY <2>8 DEF designVars
        <3>2. \A i \in Made : Alike(items[i], items'[i])
            BY <3>1 DEF Alike
        <3>. QED  BY <3>1, <3>2, ChainsStay
    <2>. QED  BY <2>1, <2>2, <2>3, <2>4, <2>5, <2>6, <2>7, <2>8 DEF DesignNext
<1>. QED  BY <1>1, <1>2, PTL DEF DesignSpec

\* Nothing a body was given is lost from what it shows, however its features
\* are added, patterned, dressed up and edited, and whatever shapes FreeCAD
\* computes for them.
THEOREM EveryFeatureIsShown == DesignSpec => []EveryFeatureShows
<1>1. DesignInv => EveryFeatureShows
    <2>. SUFFICES ASSUME DesignInv, NEW b \in Bodies, NEW f \in Features(b)
                  PROVE  /\ Cardinality(Followers(b, f)) = (IF tip[b] = f THEN 0 ELSE 1)
                         /\ \A used \in items[f].uses : used < f /\ items[used].body = b
        BY DEF EveryFeatureShows, Followers
    <2>1. f \in Made /\ items[f].body = b
        BY DEF Features
    <2>. QED  BY <2>1 DEF DesignInv, Chained, BuiltOfEarlier
<1>. QED  BY <1>1, DesignInvariant, PTL

=============================================================================
