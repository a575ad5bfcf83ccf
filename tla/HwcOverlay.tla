------------------------------ MODULE HwcOverlay ------------------------------
(***************************************************************************)
(* patches/hardware/interfaces/hwc2onfbadapter-hisi-dss-overlay-fallback:  *)
(* an adapter between SurfaceFlinger's HWC2 calls and a frame buffer, with *)
(* an optional overlay.  validateDisplay may promise one video layer to    *)
(* the display's DSS; SurfaceFlinger draws all other layers into a client  *)
(* target and clears the video's place in it; presentDisplay hands video   *)
(* and target to the DSS, or, if that fails, posts the target alone.       *)
(*                                                                         *)
(* The hooks run one at a time.  SurfaceFlinger may call them in any order *)
(* the adapter's mState admits; it draws the layers it was told are CLIENT *)
(* after each validation.  What DSS can do with a layer is abstracted to   *)
(* its kind of buffer and an area, which is 0 if transform, alpha, frame   *)
(* or crop rule the overlay out.                                           *)
(***************************************************************************)
EXTENDS Naturals

CONSTANTS
    MaxLayerId,   \* bound on the layers ever created
    Areas,        \* the areas of display frames
    Types,        \* composition types SurfaceFlinger asks for
    NULL

ASSUME MaxLayerIdAssumption == MaxLayerId \in Nat
ASSUME AreasAssumption == Areas \subseteq Nat
ASSUME TypesAssumption == {"CLIENT", "DEVICE"} \subseteq Types
ASSUME NULLAssumption == \A S \in SUBSET (1 .. MaxLayerId) : NULL # S

Ids == 1 .. MaxLayerId

\* "none": no handle, not a handle of this gralloc, or smaller than the crop.
Buffers == {"none", "rgb", "yuv"}

VARIABLES
    mState,
    mLayers,                  \* the layers that exist
    mNextLayerId,
    mLayerStates,             \* a LayerState for every id
    mChangedTypes,            \* the layers whose type validation changed
    mOverlayEnabled,          \* the property, when it was last read
    mOverlayDisabledByError,
    mOverlayLayer,            \* 0 stands for ~mHasOverlayLayer
    mOverlayUsesClientTarget,
    mBuffer,                  \* the layers drawn into the client target, or NULL
    callerType,               \* SurfaceFlinger's own record of the types
    targetSet,                \* it has set a client target since it validated
    screen                    \* history: the last frame

overlayVars == <<mOverlayEnabled, mOverlayDisabledByError, mOverlayLayer, mOverlayUsesClientTarget>>
layerVars == <<mLayers, mNextLayerId, mLayerStates, mChangedTypes, callerType>>
targetVars == <<mBuffer, targetSet>>
vars == <<mState, layerVars, overlayVars, targetVars, screen>>

NewLayer == [buffer |-> "none", requestedType |-> "CLIENT", validatedType |-> "CLIENT", area |-> 0]

Init ==
    /\ mState = "MODIFIED"
    /\ mLayers = {} /\ mNextLayerId = 0
    /\ mLayerStates = [l \in Ids |-> NewLayer]
    /\ mChangedTypes = {}
    /\ mOverlayEnabled = FALSE /\ mOverlayDisabledByError = FALSE
    /\ mOverlayLayer = 0 /\ mOverlayUsesClientTarget = FALSE
    /\ mBuffer = NULL
    /\ callerType = [l \in Ids |-> "CLIENT"]
    /\ targetSet = FALSE
    /\ screen = [complete |-> TRUE, failed |-> FALSE]

-----------------------------------------------------------------------------
\* Layers

CreateLayer ==
    /\ mNextLayerId < MaxLayerId
    /\ mNextLayerId' = mNextLayerId + 1
    /\ mLayers' = mLayers \cup {mNextLayerId'}
    /\ mLayerStates' = [mLayerStates EXCEPT ![mNextLayerId'] = NewLayer]
    /\ callerType' = [callerType EXCEPT ![mNextLayerId'] = "CLIENT"]
    /\ mState' = "MODIFIED"
    /\ UNCHANGED <<mChangedTypes, overlayVars, targetVars, screen>>

\* Mutant: the overlay is not told that its layer is gone.
DestroyLayer_KeepOverlay(l) ==
    /\ mLayers' = mLayers \ {l}
    /\ mLayerStates' = [mLayerStates EXCEPT ![l] = NewLayer]
    /\ callerType' = [callerType EXCEPT ![l] = "CLIENT"]
    /\ mChangedTypes' = mChangedTypes \ {l}
    /\ mState' = "MODIFIED"
    /\ UNCHANGED <<mNextLayerId, overlayVars, targetVars, screen>>

DestroyLayer(l) ==
    /\ mLayers' = mLayers \ {l}
    /\ mLayerStates' = [mLayerStates EXCEPT ![l] = NewLayer]
    /\ callerType' = [callerType EXCEPT ![l] = "CLIENT"]
    /\ mChangedTypes' = mChangedTypes \ {l}
    /\ mOverlayLayer' = IF mOverlayLayer = l THEN 0 ELSE mOverlayLayer
    /\ mOverlayUsesClientTarget' = (mOverlayUsesClientTarget /\ mOverlayLayer # l)
    /\ mState' = "MODIFIED"
    /\ UNCHANGED <<mNextLayerId, mOverlayEnabled, mOverlayDisabledByError, targetVars, screen>>

\* A new buffer alone needs no new validation.
SetLayerBuffer(l, buffer) ==
    /\ mLayerStates' = [mLayerStates EXCEPT ![l].buffer = buffer]
    /\ UNCHANGED <<mState, mLayers, mNextLayerId, mChangedTypes, callerType, overlayVars, targetVars, screen>>

\* Mutant: the state is not reset.
SetLayerCompositionType_KeepState(l, type) ==
    /\ mLayerStates' = [mLayerStates EXCEPT ![l].requestedType = type]
    /\ callerType' = [callerType EXCEPT ![l] = type]
    /\ UNCHANGED <<mState, mLayers, mNextLayerId, mChangedTypes, overlayVars, targetVars, screen>>

SetLayerCompositionType(l, type) ==
    /\ mLayerStates' = [mLayerStates EXCEPT ![l].requestedType = type]
    /\ callerType' = [callerType EXCEPT ![l] = type]
    /\ mState' = "MODIFIED"
    /\ UNCHANGED <<mLayers, mNextLayerId, mChangedTypes, overlayVars, targetVars, screen>>

\* setLayerDisplayFrame, SourceCrop, Transform, PlaneAlpha, BlendMode, ZOrder.
SetLayerGeometry(l, area) ==
    /\ mLayerStates' = [mLayerStates EXCEPT ![l].area = area]
    /\ mState' = "MODIFIED"
    /\ UNCHANGED <<mLayers, mNextLayerId, mChangedTypes, callerType, overlayVars, targetVars, screen>>

-----------------------------------------------------------------------------
\* Validation

\* fillDssLayer accepts any format DSS knows; only validation asks for YUV.  Of the
\* geometry it repeats some tests, and none of it changes without a validation.
fillDssLayer(l) == mLayerStates[l].buffer # "none" /\ mLayerStates[l].area > 0

Candidates ==
    {l \in mLayers : /\ mLayerStates[l].requestedType = "DEVICE"
                     /\ mLayerStates[l].buffer = "yuv"
                     /\ fillDssLayer(l)}

\* Mutant: an earlier error is not looked at.
OverlayChoice_Always(allowed) ==
    IF Candidates # {}
    THEN {l \in Candidates : \A k \in Candidates : mLayerStates[k].area <= mLayerStates[l].area}
    ELSE {0}

\* The largest candidate; the order of an unordered_map decides between equals.
OverlayChoice(allowed) ==
    IF allowed /\ Candidates # {}
    THEN {l \in Candidates : \A k \in Candidates : mLayerStates[k].area <= mLayerStates[l].area}
    ELSE {0}

ValidatedType(l, overlay) == IF l = overlay THEN "DEVICE" ELSE "CLIENT"

\* Mutant: every validation starts without an error.
ValidateDisplay_Forget ==
    \E enabled \in BOOLEAN :
      \E overlay \in OverlayChoice(enabled /\ ~mOverlayDisabledByError) :
        LET changed == {l \in mLayers : mLayerStates[l].requestedType # ValidatedType(l, overlay)}
            uses == overlay # 0 /\ mLayers # {overlay}
        IN  /\ mOverlayEnabled' = enabled
            /\ mOverlayDisabledByError' = FALSE
            /\ mOverlayLayer' = overlay
            /\ mOverlayUsesClientTarget' = uses
            /\ mLayerStates' = [l \in Ids |->
                  IF l \in mLayers THEN [mLayerStates[l] EXCEPT !.validatedType = ValidatedType(l, overlay)]
                                   ELSE mLayerStates[l]]
            /\ mChangedTypes' = changed
            /\ mState' = IF changed # {} \/ uses THEN "VALIDATED_WITH_CHANGES" ELSE "VALIDATED"
            /\ targetSet' = FALSE
            /\ UNCHANGED <<mLayers, mNextLayerId, callerType, mBuffer, screen>>

\* validateLayers.  The property is read anew each time; while it is off, an
\* earlier error is forgotten.  With an overlay and other layers there is a
\* request too: clear the overlay's place in the client target.
ValidateDisplay ==
    \E enabled \in BOOLEAN :
      \E overlay \in OverlayChoice(enabled /\ ~mOverlayDisabledByError) :
        LET changed == {l \in mLayers : mLayerStates[l].requestedType # ValidatedType(l, overlay)}
            uses == overlay # 0 /\ mLayers # {overlay}
        IN  /\ mOverlayEnabled' = enabled
            /\ mOverlayDisabledByError' = (enabled /\ mOverlayDisabledByError)
            /\ mOverlayLayer' = overlay
            /\ mOverlayUsesClientTarget' = uses
            /\ mLayerStates' = [l \in Ids |->
                  IF l \in mLayers THEN [mLayerStates[l] EXCEPT !.validatedType = ValidatedType(l, overlay)]
                                   ELSE mLayerStates[l]]
            /\ mChangedTypes' = changed
            /\ mState' = IF changed # {} \/ uses THEN "VALIDATED_WITH_CHANGES" ELSE "VALIDATED"
            /\ targetSet' = FALSE
            /\ UNCHANGED <<mLayers, mNextLayerId, callerType, mBuffer, screen>>

\* SurfaceFlinger reads the changes (getChangedCompositionTypes) and accepts them.
AcceptDisplayChanges ==
    /\ mState # "MODIFIED"
    /\ callerType' = [l \in Ids |-> IF l \in mChangedTypes THEN mLayerStates[l].validatedType
                                                           ELSE callerType[l]]
    /\ mLayerStates' = [l \in Ids |->
          [mLayerStates[l] EXCEPT !.requestedType = mLayerStates[l].validatedType]]
    /\ mChangedTypes' = {}
    /\ mState' = "VALIDATED"
    /\ UNCHANGED <<mLayers, mNextLayerId, overlayVars, targetVars, screen>>

-----------------------------------------------------------------------------
\* Presentation

\* The layers SurfaceFlinger draws.
ClientLayers == {l \in mLayers : callerType[l] = "CLIENT"}

\* All of them are drawn, and the overlay's place is cleared, between validation
\* and presentation.
SetClientTarget ==
    /\ mState = "VALIDATED"
    /\ mBuffer' = ClientLayers
    /\ targetSet' = TRUE
    /\ UNCHANGED <<mState, layerVars, overlayVars, screen>>

\* presentDisplay is refused unless mState is VALIDATED, and SurfaceFlinger does
\* not call it before it has drawn what it has to draw.
PresentDisplay ==
    /\ mState = "VALIDATED"
    /\ ClientLayers # {} => targetSet

\* The layers a posted mBuffer shows; without one nothing is posted.
Posted == IF mBuffer = NULL THEN {} ELSE mBuffer

Frame(overlay, target, failed) ==
    [complete |-> overlay \cap target = {} /\ mLayers \subseteq overlay \cup target,
     failed |-> failed]

\* postOverlay succeeds.
PresentOverlay ==
    /\ PresentDisplay
    /\ mOverlayLayer # 0 /\ ~mOverlayDisabledByError
    /\ fillDssLayer(mOverlayLayer)
    /\ mOverlayUsesClientTarget => mBuffer # NULL
    /\ screen' = Frame({mOverlayLayer}, IF mOverlayUsesClientTarget THEN Posted ELSE {}, FALSE)
    /\ UNCHANGED <<mState, layerVars, overlayVars, targetVars>>

\* Mutant: the state stays VALIDATED after an error.
PresentFallBack_KeepState ==
    /\ PresentDisplay
    /\ mOverlayLayer # 0 /\ ~mOverlayDisabledByError
    /\ mOverlayDisabledByError' = TRUE
    /\ mOverlayLayer' = 0 /\ mOverlayUsesClientTarget' = FALSE
    /\ screen' = Frame({}, Posted, TRUE)
    /\ UNCHANGED <<mOverlayEnabled, mState, layerVars, targetVars>>

\* postOverlay gives up: no client target, a layer that DSS no longer takes, or
\* open or ioctl of fb0 fails, which may happen at any time.  The client target,
\* with a hole where the video was to be, is posted alone.
PresentFallBack ==
    /\ PresentDisplay
    /\ mOverlayLayer # 0 /\ ~mOverlayDisabledByError
    /\ mOverlayDisabledByError' = TRUE
    /\ mOverlayLayer' = 0 /\ mOverlayUsesClientTarget' = FALSE
    /\ mState' = "MODIFIED"
    /\ screen' = Frame({}, Posted, TRUE)
    /\ UNCHANGED <<mOverlayEnabled, layerVars, targetVars>>

PresentBuffer ==
    /\ PresentDisplay
    /\ mOverlayLayer = 0
    /\ screen' = Frame({}, Posted, FALSE)
    /\ UNCHANGED <<mState, layerVars, overlayVars, targetVars>>

Next ==
    \/ CreateLayer
    \/ \E l \in mLayers : \/ DestroyLayer(l)
                         \/ \E b \in Buffers : SetLayerBuffer(l, b)
                         \/ \E t \in Types : SetLayerCompositionType(l, t)
                         \/ \E a \in Areas : SetLayerGeometry(l, a)
    \/ ValidateDisplay
    \/ AcceptDisplayChanges
    \/ SetClientTarget
    \/ PresentOverlay
    \/ PresentFallBack
    \/ PresentBuffer

Spec == Init /\ [][Next]_vars

-----------------------------------------------------------------------------
\* Properties

LayerState == [buffer : Buffers, requestedType : Types, validatedType : {"CLIENT", "DEVICE"},
               area : Areas \cup {0}]

TypeOK ==
    /\ mState \in {"MODIFIED", "VALIDATED_WITH_CHANGES", "VALIDATED"}
    /\ mLayers \subseteq 1 .. mNextLayerId
    /\ mNextLayerId \in 0 .. MaxLayerId
    /\ mLayerStates \in [Ids -> LayerState]
    /\ mChangedTypes \subseteq mLayers
    /\ mOverlayEnabled \in BOOLEAN
    /\ mOverlayDisabledByError \in BOOLEAN
    /\ mOverlayLayer \in {0} \cup mLayers
    /\ mOverlayUsesClientTarget \in BOOLEAN
    /\ mBuffer \in {NULL} \cup SUBSET Ids
    /\ callerType \in [Ids -> Types]
    /\ targetSet \in BOOLEAN
    /\ screen \in [complete : BOOLEAN, failed : BOOLEAN]

(***************************************************************************)
(* When the display may be presented, SurfaceFlinger's record of every     *)
(* layer's type is what the adapter validated: no call since then has      *)
(* changed one side only.                                                  *)
(***************************************************************************)
TypesAgreed ==
    mState = "VALIDATED" =>
        \A l \in mLayers : callerType[l] = mLayerStates[l].validatedType

(***************************************************************************)
(* Validation promises DEVICE to the overlay layer and to no other, and to *)
(* none while an error is remembered.                                      *)
(***************************************************************************)
OnePath ==
    /\ mState # "MODIFIED" =>
         \A l \in mLayers : (mLayerStates[l].validatedType = "DEVICE") <=> (l = mOverlayLayer)
    /\ mOverlayDisabledByError => mOverlayLayer = 0

\* Every layer is in the last frame exactly once, in the overlay or in the client
\* target, unless it was the frame in which the overlay failed.
FrameComplete == screen.complete \/ screen.failed

\* The refinement mapping: the overlay is trusted while no error is remembered.
Frames == INSTANCE DisplayFrames
            WITH frame <- screen,
                 switch <- mOverlayEnabled,
                 trusted <- ~mOverlayDisabledByError

(***************************************************************************)
(* Every frame shows every layer exactly once, but for the frame in which  *)
(* the overlay fails.  From the next frame on SurfaceFlinger draws the     *)
(* video too, and none fails before a validation has seen the overlay      *)
(* switched off ("If the DSS ioctl fails, SurfaceFlinger falls back to the *)
(* existing fbdev/client composition path").                               *)
(***************************************************************************)
FrameSpec == Frames!Spec
===============================================================================
