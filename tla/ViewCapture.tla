----------------------------- MODULE ViewCapture ----------------------------
(***************************************************************************)
(* cad.capture_view, cad.capture_views and cad.capture_section_view: each  *)
(* borrows the user's 3D view - camera, animation, overlays, clipping      *)
(* plane - takes pictures of it into a cache of a few files, and has to    *)
(* give the view back as it was, whatever fails in between.  The calls run *)
(* on the GUI thread, one at a time; a step here is one call into FreeCAD  *)
(* that may raise.  A section capture wraps a single capture.              *)
(***************************************************************************)
EXTENDS Naturals, FiniteSets

CONSTANTS
    MaxShots,    \* views of one call (the code: 8)
    MaxCached,   \* MAX_CACHED_CAPTURES (the code: 8)
    MaxFaults,   \* bound: calls into FreeCAD that raise, per tool call
    MaxPictures  \* bound: pictures taken in a behaviour

ASSUME CaptureAssumption ==
    /\ MaxShots \in Nat \ {0}
    /\ MaxCached \in Nat
    /\ MaxShots <= MaxCached
    /\ MaxFaults \in Nat
    /\ MaxPictures \in Nat

VARIABLES
    view,     \* what the user looks at
    clipped,  \* the user had a clipping plane of her own
    saved,    \* what the capture under way will put back
    section,  \* what the section capture around it will put back
    at,       \* the step under way, "idle" between calls
    left,     \* pictures still to take
    cache,    \* files of the visual cache, numbered by age
    taken,    \* pictures of this call
    broken,   \* "no", or what the call will say: "error", "not_restored"
    faults,   \* faults in this call
    said      \* the last answer

captureVars == <<view, clipped, saved, section, at, left, cache, taken, broken,
                 faults, said>>

UserView ==
    [camera |-> "user", animated |-> "user", overlays |-> "user",
     clipping |-> IF clipped THEN "user" ELSE "off"]

NothingSaved == [camera |-> "none", animated |-> "none", overlays |-> FALSE]

InSection == section # NothingSaved

Look(field, value) == view' = [view EXCEPT ![field] = value]

Goes(step) == at' = step

\* A call into FreeCAD raises: the handlers and "finally" blocks take over.
Raises(step, verdict) ==
    /\ faults < MaxFaults
    /\ faults' = faults + 1
    /\ broken' = verdict
    /\ at' = step

Works == UNCHANGED <<broken, faults>>

CacheAlone == UNCHANGED <<cache, taken>>
SavedAlone == UNCHANGED <<saved, section, clipped>>

-----------------------------------------------------------------------------
(* The start of a call; its refusals change nothing *)

Saves == [camera |-> view.camera, animated |-> view.animated, overlays |-> FALSE]

StartCapture ==
    \E shots \in 1..MaxShots :
        /\ at = "idle"
        /\ left' = shots
        /\ saved' = Saves
        /\ at' = "still"
        /\ taken' = {} /\ broken' = "no" /\ faults' = 0
        /\ UNCHANGED <<view, clipped, section, cache, said>>

\* Refused while the user has a clipping plane of her own.
StartSection ==
    /\ at = "idle"
    /\ view.clipping = "off"
    /\ left' = 1
    /\ section' = Saves
    /\ at' = "clip"
    /\ taken' = {} /\ broken' = "no" /\ faults' = 0
    /\ UNCHANGED <<view, clipped, saved, cache, said>>

\* The user turns her clipping plane on or off between calls.
UserClips ==
    /\ at = "idle"
    /\ clipped' = ~clipped
    /\ Look("clipping", IF clipped THEN "off" ELSE "user")
    /\ UNCHANGED <<saved, section, at, left, cache, taken, broken, faults, said>>

-----------------------------------------------------------------------------
(* capture_section_view, before the picture *)

\* The plane may be on or off when the call that switches it on raises.
Clip ==
    /\ at = "clip"
    /\ \/ Look("clipping", "section") /\ Goes("aim") /\ Works
       \/ \E on \in {"off", "section"} :
              Look("clipping", on) /\ Raises("unclip", "error")
    /\ CacheAlone /\ SavedAlone /\ UNCHANGED <<left, said>>

\* An isometric view is turned to face the cut, without its animation.
Aim ==
    /\ at = "aim"
    /\ \/ UNCHANGED view /\ Goes("shoot") /\ Works
       \/ /\ view' = [view EXCEPT !.animated = "off", !.camera = "section"]
          /\ Goes("shoot") /\ Works
       \/ \E camera \in {view.camera, "section"} :
              /\ view' = [view EXCEPT !.animated = "off", !.camera = camera]
              /\ Raises("unclip", "error")
    /\ CacheAlone /\ SavedAlone /\ UNCHANGED <<left, said>>

\* The inner capture_view saves what it finds.
Shoot ==
    /\ at = "shoot"
    /\ saved' = Saves
    /\ Goes("still")
    /\ Works /\ CacheAlone /\ UNCHANGED <<view, clipped, section, left, said>>

-----------------------------------------------------------------------------
(* capture_view and capture_views: the pictures *)

Still ==
    /\ at = "still"
    /\ \/ Look("animated", "off") /\ Goes("hide") /\ Works
       \/ UNCHANGED view /\ Raises("camera", "error")
    /\ CacheAlone /\ SavedAlone /\ UNCHANGED <<left, said>>

\* _hide_capture_overlays undoes what it hid when it fails half way; only a
\* second failure there leaves the overlays hidden.
Hide ==
    /\ at = "hide"
    /\ \/ /\ Look("overlays", "hidden")
          /\ saved' = [saved EXCEPT !.overlays = TRUE]
          /\ Goes("frame") /\ Works
       \/ /\ \/ UNCHANGED view /\ Raises("camera", "error")
             \/ /\ faults + 2 <= MaxFaults
                /\ faults' = faults + 2
                /\ broken' = "error"
                /\ Goes("camera")
                /\ Look("overlays", "hidden")
          /\ UNCHANGED saved
    /\ CacheAlone /\ UNCHANGED <<clipped, section, left, said>>

\* Every view starts from the user's camera.
Frame ==
    /\ at = "frame"
    /\ \/ Look("camera", "shot") /\ Goes("grab") /\ Works
       \/ /\ \E camera \in {saved.camera, "shot"} : Look("camera", camera)
          /\ Raises("camera", "error")
    /\ CacheAlone /\ SavedAlone /\ UNCHANGED <<left, said>>

\* The number after the newest one, within the bound.
NewPictures ==
    {p \in 1..MaxPictures : (p = 1 \/ p - 1 \in cache) /\ \A q \in cache : q < p}

Removed(pictures) == cache \ pictures

\* Two equal frames are saved and read back; a picture that fails, or that is
\* too large, is removed, and with it those taken before in this call.
Grab ==
    /\ at = "grab"
    /\ NewPictures # {}
    /\ \/ /\ \E p \in NewPictures : cache' = cache \cup {p} /\ taken' = taken \cup {p}
          /\ left' = left - 1
          /\ Goes(IF left > 1 THEN "frame" ELSE "camera")
          /\ Works
       \/ /\ Raises("camera", "error")
          /\ cache' = Removed(taken)
          /\ taken' = {}
          /\ UNCHANGED left
    /\ SavedAlone /\ UNCHANGED <<view, said>>

-----------------------------------------------------------------------------
(* Giving the view back: each step is tried whatever the others did *)

\* Seeded bug: the camera's failure skips the rest of the restoration.
GivesUp(field, next) ==
    \/ Look(field, saved[field]) /\ Goes(next) /\ Works
    \/ UNCHANGED view /\ Raises("return", "error")

Restores(field, next) ==
    \/ Look(field, saved[field]) /\ Goes(next) /\ Works
    \/ UNCHANGED view /\ Raises(next, "not_restored")

RestoreCamera ==
    /\ at = "camera"
    /\ Restores("camera", "overlays")
    /\ CacheAlone /\ SavedAlone /\ UNCHANGED <<left, said>>

RestoreOverlays ==
    /\ at = "overlays"
    /\ \/ ~saved.overlays /\ UNCHANGED view /\ Goes("animated") /\ Works
       \/ saved.overlays /\ Look("overlays", "user") /\ Goes("animated") /\ Works
       \/ saved.overlays /\ UNCHANGED view /\ Raises("animated", "not_restored")
    /\ CacheAlone /\ SavedAlone /\ UNCHANGED <<left, said>>

RestoreAnimation ==
    /\ at = "animated"
    /\ Restores("animated", "return")
    /\ CacheAlone /\ SavedAlone /\ UNCHANGED <<left, said>>

\* prune_visual_cache
Newest == {p \in cache : Cardinality({q \in cache : q > p}) < MaxCached}

\* A view that could not be restored is an error, and its pictures go; else
\* the cache keeps the newest files only (pruning may raise: they stay then).
ReturnCapture ==
    /\ at = "return"
    /\ saved' = NothingSaved
    /\ Goes(IF InSection THEN "unclip" ELSE "answer")
    /\ \/ /\ broken # "no"
          /\ cache' = IF broken = "not_restored" THEN Removed(taken) ELSE cache
          /\ taken' = IF broken = "not_restored" THEN {} ELSE taken
          /\ Works
       \/ /\ broken = "no"
          /\ cache' = Newest
          /\ UNCHANGED taken /\ Works
       \/ /\ broken = "no"
          /\ faults < MaxFaults /\ faults' = faults + 1
          /\ broken' = "error"
          /\ CacheAlone
    /\ UNCHANGED <<view, clipped, section, left, said>>

\* The clipping plane, then the camera and the animation of before the section.
Unclip ==
    /\ at = "unclip"
    /\ \/ /\ view' = [view EXCEPT !.clipping = "off", !.camera = section.camera,
                                  !.animated = section.animated]
          /\ Goes("answer") /\ Works /\ CacheAlone
       \/ /\ view' \in {view, [view EXCEPT !.clipping = "off"],
                        [view EXCEPT !.clipping = "off", !.camera = section.camera]}
          /\ Raises("answer", "not_restored")
          /\ cache' = IF broken = "no" THEN Removed(taken) ELSE cache
          /\ taken' = IF broken = "no" THEN {} ELSE taken
    /\ section' = NothingSaved
    /\ UNCHANGED <<clipped, saved, left, said>>

\* The user puts right by hand what the call said it could not.
Answer ==
    /\ at = "answer"
    /\ said' = [verdict |-> IF broken = "no" THEN "ok" ELSE broken,
                pictures |-> IF broken = "no" THEN taken ELSE {},
                view |-> view, twice |-> faults > 1]
    /\ view' = UserView
    /\ Goes("idle")
    /\ Works /\ CacheAlone /\ SavedAlone /\ UNCHANGED left

-----------------------------------------------------------------------------
CaptureInit ==
    /\ clipped = FALSE
    /\ view = UserView
    /\ saved = NothingSaved
    /\ section = NothingSaved
    /\ at = "idle"
    /\ left = 0
    /\ cache = {}
    /\ taken = {}
    /\ broken = "no"
    /\ faults = 0
    /\ said = [verdict |-> "none", pictures |-> {}, view |-> view, twice |-> FALSE]

CaptureNext ==
    \/ StartCapture
    \/ StartSection
    \/ UserClips
    \/ Clip
    \/ Aim
    \/ Shoot
    \/ Still
    \/ Hide
    \/ Frame
    \/ Grab
    \/ RestoreCamera
    \/ RestoreOverlays
    \/ RestoreAnimation
    \/ ReturnCapture
    \/ Unclip
    \/ Answer

CaptureSpec == CaptureInit /\ [][CaptureNext]_captureVars

-----------------------------------------------------------------------------
(* A call that answers left the camera, the animation and the clipping      *)
(* plane as the user had them, and its pictures can all be read; so does a  *)
(* call that fails without saying that the view could not be restored, and  *)
(* the overlays are back too unless more than one call into FreeCAD failed    *)
(* (capture_view, capture_views, capture_section_view).                     *)
ViewGivenBack ==
    at = "idle" /\ said.verdict \in {"ok", "error"} =>
        /\ said.view.camera = "user"
        /\ said.view.animated = "user"
        /\ said.view.clipping # "section"
        /\ ~said.twice => said.view.overlays = "user"
        /\ said.pictures \subseteq cache
=============================================================================
