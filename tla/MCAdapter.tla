------------------------------ MODULE MCAdapter ------------------------------
(***************************************************************************)
(* The modules of the FreeCAD adapter and of what is read through it,      *)
(* checked side by side.  They share no variable: a behaviour is a         *)
(* behaviour of one of them, the one `family` names, and the others rest.  *)
(***************************************************************************)
EXTENDS MechanicalParts, FeatureGeometry, CadTransactions, ContextTracker,
        SketchModel, CadModel, PartDesign, ViewCapture, SessionFile

VARIABLE family

Families == {"parts", "features", "transactions", "context", "sketch", "model",
             "design", "capture", "session"}

AdapterInit ==
    /\ family \in Families
    /\ PartsInit /\ FeaturesInit /\ TxInit /\ ContextInit
    /\ SketchInit /\ CadInit /\ DesignInit /\ CaptureInit /\ SessionInit
    /\ family # "context" => current = CHOOSE d \in Models : TRUE

PartsStep ==
    /\ family = "parts" /\ PartsNext
    /\ UNCHANGED <<featureVars, txVars, contextVars, sketchVars, cadVars, designVars,
                   captureVars, sessionVars, family>>

FeaturesStep ==
    /\ family = "features" /\ FeaturesNext
    /\ UNCHANGED <<partsVars, txVars, contextVars, sketchVars, cadVars, designVars,
                   captureVars, sessionVars, family>>

TransactionsStep ==
    /\ family = "transactions" /\ TxNext
    /\ UNCHANGED <<partsVars, featureVars, contextVars, sketchVars, cadVars, designVars,
                   captureVars, sessionVars, family>>

ContextStep ==
    /\ family = "context" /\ ContextNext
    /\ UNCHANGED <<partsVars, featureVars, txVars, sketchVars, cadVars, designVars,
                   captureVars, sessionVars, family>>

SketchStep ==
    /\ family = "sketch" /\ SketchNext
    /\ UNCHANGED <<partsVars, featureVars, txVars, contextVars, cadVars, designVars,
                   captureVars, sessionVars, family>>

ModelStep ==
    /\ family = "model" /\ CadNext
    /\ UNCHANGED <<partsVars, featureVars, txVars, contextVars, sketchVars, designVars,
                   captureVars, sessionVars, family>>

DesignStep ==
    /\ family = "design" /\ DesignNext
    /\ UNCHANGED <<partsVars, featureVars, txVars, contextVars, sketchVars, cadVars,
                   captureVars, sessionVars, family>>

CaptureStep ==
    /\ family = "capture" /\ CaptureNext
    /\ UNCHANGED <<partsVars, featureVars, txVars, contextVars, sketchVars, cadVars,
                   designVars, sessionVars, family>>

SessionStep ==
    /\ family = "session" /\ SessionNext
    /\ UNCHANGED <<partsVars, featureVars, txVars, contextVars, sketchVars, cadVars,
                   designVars, captureVars, family>>

AdapterNext ==
    \/ PartsStep
    \/ FeaturesStep
    \/ TransactionsStep
    \/ ContextStep
    \/ SketchStep
    \/ ModelStep
    \/ DesignStep
    \/ CaptureStep
    \/ SessionStep

adapterVars == <<partsVars, featureVars, txVars, contextVars, sketchVars, cadVars,
                 designVars, captureVars, sessionVars, family>>

AdapterSpec == AdapterInit /\ [][AdapterNext]_adapterVars

-----------------------------------------------------------------------------
(* Values for the constants that a configuration cannot write *)

MCOffsets == {-10, 0, 15, 40}
MCAngles == {-90, 0, 90, 359, 360}
\* "c" is "b" in another case.
MCFolded == [n \in Names |-> IF n = "c" THEN "b" ELSE n]
MCFaces == {<<2, 1>>, <<2, 2, 0>>}
MCEdges == {<<5, 6>>, <<0>>}
=============================================================================
