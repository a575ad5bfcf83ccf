--------------------------- MODULE HwcOverlayProofs ---------------------------
(***************************************************************************)
(* Proofs about HwcOverlay for any number of layers, any areas and any     *)
(* composition types.                                                      *)
(***************************************************************************)
EXTENDS HwcOverlay, TLAPS

\* SurfaceFlinger's record and the adapter's never part.
CallerAgrees == \A l \in mLayers : callerType[l] = mLayerStates[l].requestedType

\* A layer whose type is not in the list of changes has the type it asked for.
ChangesListed ==
    /\ mState # "MODIFIED" =>
         \A l \in mLayers \ mChangedTypes :
            mLayerStates[l].requestedType = mLayerStates[l].validatedType
    /\ mState = "VALIDATED" => mChangedTypes = {}

\* The target counts from the moment that types are settled.
TargetRight ==
    /\ mState = "VALIDATED_WITH_CHANGES" => ~targetSet
    /\ mState = "VALIDATED" /\ targetSet => mBuffer = ClientLayers

\* The overlay is combined with the client target exactly if there is one.
UsesRight ==
    mState # "MODIFIED" =>
        (mOverlayUsesClientTarget <=> mOverlayLayer # 0 /\ mLayers # {mOverlayLayer})

\* There is an overlay only since a validation has seen it switched on.
SwitchedOn == mOverlayLayer # 0 => mOverlayEnabled

Inv1 == TypeOK /\ CallerAgrees /\ ChangesListed /\ OnePath /\ TargetRight /\ UsesRight /\ SwitchedOn

IInv == Inv1 /\ FrameComplete

LEMMA NewLayerType == NewLayer \in LayerState
  BY TypesAssumption DEF NewLayer, LayerState, Buffers

LEMMA InitIInv == Init => IInv
<1> SUFFICES ASSUME Init PROVE IInv
  OBVIOUS
<1>1. mLayerStates \in [Ids -> LayerState] /\ callerType \in [Ids -> Types]
  BY NewLayerType, TypesAssumption DEF Init
<1>2. mNextLayerId \in 0 .. MaxLayerId
  BY MaxLayerIdAssumption DEF Init
<1>3. screen \in [complete : BOOLEAN, failed : BOOLEAN] /\ FrameComplete
  BY DEF Init, FrameComplete
<1>4. TypeOK
  BY <1>1, <1>2, <1>3 DEF Init, TypeOK
<1>5. CallerAgrees /\ ChangesListed /\ OnePath /\ TargetRight /\ UsesRight /\ SwitchedOn
  BY DEF Init, CallerAgrees, ChangesListed, OnePath, TargetRight, UsesRight, SwitchedOn
<1> QED BY <1>3, <1>4, <1>5 DEF IInv, Inv1

LEMMA LayersAreIds == TypeOK => mLayers \subseteq Ids /\ 0 \notin mLayers
  BY MaxLayerIdAssumption DEF TypeOK, Ids

\* When the display may be presented the two records agree.
LEMMA AgreedWhenValidated == Inv1 => TypesAgreed
  BY DEF Inv1, CallerAgrees, ChangesListed, TypesAgreed

-----------------------------------------------------------------------------
\* One lemma for each action.

LEMMA CreateLayerInv == Inv1 /\ CreateLayer => Inv1'
<1> SUFFICES ASSUME Inv1, CreateLayer PROVE Inv1'
  OBVIOUS
<1> USE DEF Inv1
<1> DEFINE new == mNextLayerId + 1
<1>1. new \in Ids /\ new \in 1 .. MaxLayerId /\ mNextLayerId' = new
  BY MaxLayerIdAssumption DEF TypeOK, CreateLayer, Ids
<1>2. mLayers' \subseteq 1 .. mNextLayerId' /\ mLayers' = mLayers \cup {new}
  BY <1>1, MaxLayerIdAssumption DEF TypeOK, CreateLayer
<1>3. /\ mLayerStates' = [mLayerStates EXCEPT ![new] = NewLayer]
      /\ callerType' = [callerType EXCEPT ![new] = "CLIENT"]
      /\ mState' = "MODIFIED"
      /\ UNCHANGED <<mChangedTypes, overlayVars, targetVars, screen>>
  BY <1>1 DEF CreateLayer
<1>4. mLayerStates' \in [Ids -> LayerState] /\ callerType' \in [Ids -> Types]
  BY <1>3, NewLayerType, TypesAssumption DEF TypeOK
<1>5. TypeOK'
  BY <1>1, <1>2, <1>3, <1>4 DEF TypeOK, overlayVars, targetVars
<1>6. CallerAgrees'
  <2> SUFFICES ASSUME NEW l \in mLayers' PROVE callerType'[l] = mLayerStates'[l].requestedType
    BY DEF CallerAgrees
  <2>1. CASE l = new
    BY <2>1, <1>1, <1>3 DEF TypeOK, NewLayer
  <2>2. CASE l # new
    BY <2>2, <1>2, <1>3, LayersAreIds DEF TypeOK, CallerAgrees
  <2> QED BY <2>1, <2>2
<1>7. ChangesListed' /\ OnePath' /\ TargetRight' /\ UsesRight' /\ SwitchedOn'
  BY <1>3 DEF ChangesListed, OnePath, TargetRight, UsesRight, SwitchedOn, overlayVars
<1> QED BY <1>5, <1>6, <1>7

\* A call on one layer that resets the state and touches nothing that was
\* validated.
LEMMA EditInv ==
    ASSUME Inv1, mState' = "MODIFIED", mLayers' \subseteq mLayers, TypeOK', CallerAgrees',
           mOverlayDisabledByError' = mOverlayDisabledByError, mOverlayEnabled' = mOverlayEnabled,
           mOverlayLayer' \in {0, mOverlayLayer}
    PROVE  Inv1'
  BY DEF Inv1, ChangesListed, OnePath, TargetRight, UsesRight, SwitchedOn

LEMMA DestroyLayerInv == ASSUME Inv1, NEW l \in mLayers, DestroyLayer(l) PROVE Inv1'
<1> USE DEF Inv1
<1>1. mLayerStates' \in [Ids -> LayerState] /\ callerType' \in [Ids -> Types]
  BY NewLayerType, TypesAssumption DEF TypeOK, DestroyLayer
<1>2. TypeOK'
  BY <1>1 DEF TypeOK, DestroyLayer, targetVars
<1>3. CallerAgrees'
  BY LayersAreIds DEF TypeOK, DestroyLayer, CallerAgrees
<1> QED BY <1>2, <1>3, EditInv DEF DestroyLayer

LEMMA SetLayerCompositionTypeInv ==
    ASSUME Inv1, NEW l \in mLayers, NEW t \in Types, SetLayerCompositionType(l, t)
    PROVE  Inv1'
<1> USE DEF Inv1
<1>1. l \in Ids /\ mLayerStates[l] \in LayerState
  BY LayersAreIds DEF TypeOK
<1>2. [mLayerStates[l] EXCEPT !.requestedType = t] \in LayerState
  BY <1>1 DEF LayerState
<1>3. /\ mLayerStates' = [mLayerStates EXCEPT ![l] = [mLayerStates[l] EXCEPT !.requestedType = t]]
      /\ callerType' = [callerType EXCEPT ![l] = t]
  BY DEF SetLayerCompositionType
<1>4. mLayerStates' \in [Ids -> LayerState] /\ callerType' \in [Ids -> Types]
  BY <1>2, <1>3 DEF TypeOK
<1>5. TypeOK'
  BY <1>4 DEF TypeOK, SetLayerCompositionType, overlayVars, targetVars
<1>6. CallerAgrees'
  BY <1>1, <1>3, LayersAreIds DEF TypeOK, LayerState, SetLayerCompositionType, CallerAgrees
<1> QED BY <1>5, <1>6, EditInv DEF SetLayerCompositionType, overlayVars

LEMMA SetLayerGeometryInv ==
    ASSUME Inv1, NEW l \in mLayers, NEW a \in Areas, SetLayerGeometry(l, a)
    PROVE  Inv1'
<1> USE DEF Inv1
<1>1. l \in Ids /\ mLayerStates[l] \in LayerState
  BY LayersAreIds DEF TypeOK
<1>2. [mLayerStates[l] EXCEPT !.area = a] \in LayerState
  BY <1>1 DEF LayerState
<1>3. mLayerStates' = [mLayerStates EXCEPT ![l] = [mLayerStates[l] EXCEPT !.area = a]]
  BY DEF SetLayerGeometry
<1>4. mLayerStates' \in [Ids -> LayerState]
  BY <1>2, <1>3 DEF TypeOK
<1>5. TypeOK'
  BY <1>4 DEF TypeOK, SetLayerGeometry, overlayVars, targetVars
<1>6. CallerAgrees'
  BY <1>1, <1>3, LayersAreIds DEF TypeOK, LayerState, SetLayerGeometry, CallerAgrees
<1> QED BY <1>5, <1>6, EditInv DEF SetLayerGeometry, overlayVars

\* A new buffer changes no type.
LEMMA SetLayerBufferInv ==
    ASSUME Inv1, NEW l \in mLayers, NEW b \in Buffers, SetLayerBuffer(l, b)
    PROVE  Inv1'
<1> USE DEF Inv1
<1>1. l \in Ids /\ mLayerStates[l] \in LayerState
  BY LayersAreIds DEF TypeOK
<1>2. [mLayerStates[l] EXCEPT !.buffer = b] \in LayerState
  BY <1>1 DEF LayerState
<1>3. mLayerStates' = [mLayerStates EXCEPT ![l] = [mLayerStates[l] EXCEPT !.buffer = b]]
  BY DEF SetLayerBuffer
<1>4. mLayerStates' \in [Ids -> LayerState]
  BY <1>2, <1>3 DEF TypeOK
<1>5. TypeOK'
  BY <1>4 DEF TypeOK, SetLayerBuffer, overlayVars, targetVars
<1>6. \A k \in Ids : /\ mLayerStates'[k].requestedType = mLayerStates[k].requestedType
                     /\ mLayerStates'[k].validatedType = mLayerStates[k].validatedType
  BY <1>1, <1>3 DEF TypeOK, LayerState
<1>7. CallerAgrees' /\ ChangesListed' /\ OnePath' /\ UsesRight' /\ SwitchedOn'
  BY <1>6, LayersAreIds
     DEF SetLayerBuffer, overlayVars, CallerAgrees, ChangesListed, OnePath, UsesRight, SwitchedOn
<1>8. TargetRight'
  BY DEF SetLayerBuffer, targetVars, TargetRight, ClientLayers
<1> QED BY <1>5, <1>7, <1>8

\* What validation finds is listed, and one layer at most is promised to DSS.
LEMMA ValidateDisplayInv == Inv1 /\ ValidateDisplay => Inv1'
<1> SUFFICES ASSUME Inv1, ValidateDisplay PROVE Inv1'
  OBVIOUS
<1> USE DEF Inv1
<1>1. PICK enabled \in BOOLEAN : ValidateDisplay!(enabled)
  BY DEF ValidateDisplay
<1>2. PICK overlay \in OverlayChoice(enabled /\ ~mOverlayDisabledByError) :
        ValidateDisplay!(enabled)!(overlay)
  BY <1>1
<1> DEFINE changed == {l \in mLayers : mLayerStates[l].requestedType # ValidatedType(l, overlay)}
           uses == overlay # 0 /\ mLayers # {overlay}
<1>3. /\ mOverlayEnabled' = enabled
      /\ mOverlayDisabledByError' = (enabled /\ mOverlayDisabledByError)
      /\ mOverlayLayer' = overlay
      /\ mOverlayUsesClientTarget' = uses
      /\ mLayerStates' = [l \in Ids |->
            IF l \in mLayers THEN [mLayerStates[l] EXCEPT !.validatedType = ValidatedType(l, overlay)]
                             ELSE mLayerStates[l]]
      /\ mChangedTypes' = changed
      /\ mState' = IF changed # {} \/ uses THEN "VALIDATED_WITH_CHANGES" ELSE "VALIDATED"
      /\ targetSet' = FALSE
      /\ UNCHANGED <<mLayers, mNextLayerId, callerType, mBuffer, screen>>
  BY <1>2
<1>4. overlay \in {0} \cup mLayers
  BY DEF OverlayChoice, Candidates
<1>5. (mOverlayDisabledByError => overlay = 0) /\ (overlay # 0 => enabled)
  BY DEF OverlayChoice, TypeOK
<1>6. mLayerStates' \in [Ids -> LayerState]
  <2> SUFFICES ASSUME NEW l \in Ids
               PROVE  [mLayerStates[l] EXCEPT !.validatedType = ValidatedType(l, overlay)] \in LayerState
    BY <1>3 DEF TypeOK
  <2> QED BY DEF TypeOK, LayerState, ValidatedType
<1>7. \A l \in mLayers : /\ mLayerStates'[l].validatedType = ValidatedType(l, overlay)
                         /\ mLayerStates'[l].requestedType = mLayerStates[l].requestedType
  BY <1>3, LayersAreIds DEF TypeOK, LayerState
<1>8. TypeOK'
  BY <1>3, <1>4, <1>6 DEF TypeOK
<1>9. CallerAgrees' /\ ChangesListed'
  BY <1>3, <1>7 DEF CallerAgrees, ChangesListed
<1>10. OnePath'
  <2>1. \A l \in mLayers' : (mLayerStates'[l].validatedType = "DEVICE") <=> (l = mOverlayLayer')
    BY <1>3, <1>7 DEF ValidatedType
  <2>2. mOverlayDisabledByError' => mOverlayLayer' = 0
    BY <1>3, <1>5
  <2> QED BY <2>1, <2>2 DEF OnePath
<1>11. TargetRight' /\ UsesRight' /\ SwitchedOn'
  BY <1>3, <1>5 DEF TargetRight, UsesRight, SwitchedOn
<1> QED BY <1>8, <1>9, <1>10, <1>11

\* Accepting the changes makes all three records of a type the same.
LEMMA AcceptDisplayChangesInv == Inv1 /\ AcceptDisplayChanges => Inv1'
<1> SUFFICES ASSUME Inv1, AcceptDisplayChanges PROVE Inv1'
  OBVIOUS
<1> USE DEF Inv1
<1>1. mLayerStates' = [l \in Ids |->
          [mLayerStates[l] EXCEPT !.requestedType = mLayerStates[l].validatedType]]
  BY DEF AcceptDisplayChanges
<1>2. callerType' = [l \in Ids |-> IF l \in mChangedTypes THEN mLayerStates[l].validatedType
                                                          ELSE callerType[l]]
  BY DEF AcceptDisplayChanges
<1>3. \A l \in Ids : /\ mLayerStates'[l].validatedType = mLayerStates[l].validatedType
                     /\ mLayerStates'[l].requestedType = mLayerStates[l].validatedType
                     /\ mLayerStates'[l] \in LayerState
  BY <1>1, TypesAssumption DEF TypeOK, LayerState
<1>4. mLayerStates' \in [Ids -> LayerState]
  BY <1>1, <1>3
<1>5. callerType' \in [Ids -> Types]
  BY <1>2, TypesAssumption DEF TypeOK, LayerState
<1>6. TypeOK'
  BY <1>4, <1>5 DEF TypeOK, AcceptDisplayChanges, overlayVars, targetVars
<1>7. CallerAgrees'
  <2> SUFFICES ASSUME NEW l \in mLayers PROVE callerType'[l] = mLayerStates'[l].requestedType
    BY DEF CallerAgrees, AcceptDisplayChanges
  <2>1. l \in Ids
    BY LayersAreIds
  <2>2. CASE l \in mChangedTypes
    BY <2>1, <2>2, <1>2, <1>3
  <2>3. CASE l \notin mChangedTypes
    BY <2>1, <2>3, <1>2, <1>3 DEF CallerAgrees, ChangesListed, AcceptDisplayChanges
  <2> QED BY <2>2, <2>3
<1>8. ChangesListed' /\ OnePath' /\ UsesRight' /\ SwitchedOn'
  BY <1>3, LayersAreIds
     DEF AcceptDisplayChanges, overlayVars, ChangesListed, OnePath, UsesRight, SwitchedOn
<1>9. TargetRight'
  <2>1. CASE mState = "VALIDATED_WITH_CHANGES"
    BY <2>1 DEF AcceptDisplayChanges, targetVars, TargetRight
  <2>2. CASE mState = "VALIDATED"
    <3>1. mChangedTypes = {}
      BY <2>2 DEF ChangesListed
    <3>2. callerType' = callerType /\ mLayers' = mLayers
      BY <1>2, <3>1 DEF TypeOK, AcceptDisplayChanges
    <3> QED BY <2>2, <3>2 DEF AcceptDisplayChanges, targetVars, TargetRight, ClientLayers
  <2> QED BY <2>1, <2>2 DEF AcceptDisplayChanges, TypeOK
<1> QED BY <1>6, <1>7, <1>8, <1>9

\* SurfaceFlinger draws what it was told to draw.
LEMMA SetClientTargetInv == Inv1 /\ SetClientTarget => Inv1'
<1> SUFFICES ASSUME Inv1, SetClientTarget PROVE Inv1'
  OBVIOUS
<1> USE DEF Inv1
<1>1. ClientLayers' = ClientLayers /\ ClientLayers \in SUBSET Ids
  BY LayersAreIds DEF SetClientTarget, layerVars, ClientLayers
<1>2. TypeOK'
  BY <1>1 DEF TypeOK, SetClientTarget, layerVars, overlayVars
<1>3. CallerAgrees' /\ ChangesListed' /\ OnePath' /\ UsesRight' /\ SwitchedOn'
  BY DEF SetClientTarget, layerVars, overlayVars, CallerAgrees, ChangesListed, OnePath, UsesRight, SwitchedOn
<1>4. TargetRight'
  BY <1>1 DEF SetClientTarget, TargetRight
<1> QED BY <1>2, <1>3, <1>4

\* Presenting changes the state, the overlay and the screen only.
LEMMA PresentInv ==
    ASSUME Inv1, UNCHANGED <<layerVars, targetVars>>,
           screen' \in [complete : BOOLEAN, failed : BOOLEAN],
           UNCHANGED <<mState, overlayVars>> \/ PresentFallBack
    PROVE  Inv1'
<1> USE DEF Inv1, layerVars, targetVars
<1>1. CASE UNCHANGED <<mState, overlayVars>>
  BY <1>1 DEF overlayVars, TypeOK, CallerAgrees, ChangesListed, OnePath, TargetRight, UsesRight, SwitchedOn, ClientLayers
<1>2. CASE PresentFallBack
  BY <1>2 DEF PresentFallBack, TypeOK, CallerAgrees, ChangesListed, OnePath, TargetRight, UsesRight, SwitchedOn
<1> QED BY <1>1, <1>2

-----------------------------------------------------------------------------
\* Frames

LEMMA FrameType ==
    \A overlay, target : \A failed \in BOOLEAN :
        Frame(overlay, target, failed) \in [complete : BOOLEAN, failed : BOOLEAN]
  BY DEF Frame

\* When the display may be presented SurfaceFlinger draws all layers but the overlay.
LEMMA ClientsAreTheRest ==
    ASSUME Inv1, mState = "VALIDATED" PROVE ClientLayers = mLayers \ {mOverlayLayer}
<1>1. \A l \in mLayers : callerType[l] = mLayerStates[l].validatedType
  BY AgreedWhenValidated DEF TypesAgreed
<1>2. \A l \in mLayers : mLayerStates[l].validatedType \in {"CLIENT", "DEVICE"}
  BY LayersAreIds DEF Inv1, TypeOK, LayerState
<1>3. \A l \in mLayers : callerType[l] = "CLIENT" <=> l # mOverlayLayer
  BY <1>1, <1>2 DEF Inv1, OnePath
<1> QED BY <1>3 DEF ClientLayers

LEMMA PresentOverlayFrame == Inv1 /\ PresentOverlay => Inv1' /\ FrameComplete'
<1> SUFFICES ASSUME Inv1, PresentOverlay PROVE Inv1' /\ FrameComplete'
  OBVIOUS
<1> DEFINE target == IF mOverlayUsesClientTarget THEN Posted ELSE {}
<1>1. screen' = Frame({mOverlayLayer}, target, FALSE)
  BY DEF PresentOverlay
<1>2. ClientLayers = mLayers \ {mOverlayLayer} /\ mOverlayLayer \in mLayers
  BY ClientsAreTheRest DEF PresentOverlay, PresentDisplay, Inv1, TypeOK
<1>3. target = mLayers \ {mOverlayLayer}
  <2>1. CASE mOverlayUsesClientTarget
    <3>1. ClientLayers # {}
      BY <2>1, <1>2 DEF PresentOverlay, PresentDisplay, Inv1, UsesRight
    <3>2. mBuffer = ClientLayers /\ mBuffer # NULL
      BY <2>1, <3>1 DEF PresentOverlay, PresentDisplay, Inv1, TargetRight
    <3> QED BY <2>1, <3>2, <1>2 DEF Posted
  <2>2. CASE ~mOverlayUsesClientTarget
    BY <2>2, <1>2 DEF PresentOverlay, PresentDisplay, Inv1, UsesRight
  <2> QED BY <2>1, <2>2
<1>4. mLayers' = mLayers
  BY DEF PresentOverlay, layerVars
<1>5. FrameComplete'
  BY <1>1, <1>2, <1>3 DEF Frame, FrameComplete
<1>6. screen' \in [complete : BOOLEAN, failed : BOOLEAN]
  BY <1>1, FrameType
<1>7. UNCHANGED <<layerVars, targetVars>> /\ UNCHANGED <<mState, overlayVars>>
  BY DEF PresentOverlay
<1>8. Inv1'
  BY <1>6, <1>7, PresentInv
<1> QED BY <1>5, <1>8

LEMMA PresentFallBackFrame == Inv1 /\ PresentFallBack => Inv1' /\ FrameComplete'
<1> SUFFICES ASSUME Inv1, PresentFallBack PROVE Inv1' /\ FrameComplete'
  OBVIOUS
<1>1. screen' = Frame({}, Posted, TRUE)
  BY DEF PresentFallBack
<1>2. screen' \in [complete : BOOLEAN, failed : BOOLEAN]
  BY <1>1, FrameType
<1>3. UNCHANGED <<layerVars, targetVars>>
  BY DEF PresentFallBack
<1>4. FrameComplete'
  BY <1>1 DEF Frame, FrameComplete
<1> QED BY <1>2, <1>3, <1>4, PresentInv

LEMMA PresentBufferFrame == Inv1 /\ PresentBuffer => Inv1' /\ FrameComplete'
<1> SUFFICES ASSUME Inv1, PresentBuffer PROVE Inv1' /\ FrameComplete'
  OBVIOUS
<1>1. screen' = Frame({}, Posted, FALSE)
  BY DEF PresentBuffer
<1>2. ClientLayers = mLayers
  BY ClientsAreTheRest, LayersAreIds DEF PresentBuffer, PresentDisplay, Inv1
<1>3. mLayers \subseteq Posted
  <2>1. CASE mLayers = {}
    BY <2>1
  <2>2. CASE mLayers # {}
    <3>1. mBuffer = mLayers
      BY <2>2, <1>2 DEF PresentBuffer, PresentDisplay, Inv1, TargetRight
    <3>2. mBuffer # NULL
      BY <3>1, LayersAreIds, NULLAssumption DEF Inv1, Ids
    <3> QED BY <3>1, <3>2 DEF Posted
  <2> QED BY <2>1, <2>2
<1>4. FrameComplete'
  BY <1>1, <1>3 DEF Frame, FrameComplete
<1>5. screen' \in [complete : BOOLEAN, failed : BOOLEAN]
  BY <1>1, FrameType
<1>6. UNCHANGED <<layerVars, targetVars>> /\ UNCHANGED <<mState, overlayVars>>
  BY DEF PresentBuffer
<1>7. Inv1'
  BY <1>5, <1>6, PresentInv
<1> QED BY <1>4, <1>7

-----------------------------------------------------------------------------
\* The theorems

LEMMA NextIInv == IInv /\ [Next]_vars => IInv'
<1> SUFFICES ASSUME IInv, [Next]_vars PROVE IInv'
  OBVIOUS
<1> USE DEF IInv
<1>1. CASE CreateLayer
  BY <1>1, CreateLayerInv DEF CreateLayer, FrameComplete
<1>2. CASE \E l \in mLayers : DestroyLayer(l)
  BY <1>2, DestroyLayerInv DEF DestroyLayer, FrameComplete
<1>3. CASE \E l \in mLayers : \E b \in Buffers : SetLayerBuffer(l, b)
  BY <1>3, SetLayerBufferInv DEF SetLayerBuffer, FrameComplete
<1>4. CASE \E l \in mLayers : \E t \in Types : SetLayerCompositionType(l, t)
  BY <1>4, SetLayerCompositionTypeInv DEF SetLayerCompositionType, FrameComplete
<1>5. CASE \E l \in mLayers : \E a \in Areas : SetLayerGeometry(l, a)
  BY <1>5, SetLayerGeometryInv DEF SetLayerGeometry, FrameComplete
<1>6. CASE ValidateDisplay
  <2>1. screen' = screen
    BY <1>6 DEF ValidateDisplay
  <2> QED BY <2>1, <1>6, ValidateDisplayInv DEF FrameComplete
<1>7. CASE AcceptDisplayChanges
  BY <1>7, AcceptDisplayChangesInv DEF AcceptDisplayChanges, FrameComplete
<1>8. CASE SetClientTarget
  BY <1>8, SetClientTargetInv DEF SetClientTarget, FrameComplete
<1>9. CASE PresentOverlay \/ PresentFallBack \/ PresentBuffer
  BY <1>9, PresentOverlayFrame, PresentFallBackFrame, PresentBufferFrame
<1>10. CASE UNCHANGED vars
  <2>1. UNCHANGED screen /\ Inv1'
    BY <1>10, PresentInv DEF vars, TypeOK, Inv1
  <2> QED BY <2>1 DEF FrameComplete
<1> QED BY <1>1, <1>2, <1>3, <1>4, <1>5, <1>6, <1>7, <1>8, <1>9, <1>10 DEF Next

LEMMA Invariance == Spec => []IInv
  BY InitIInv, NextIInv, PTL DEF Spec

(***************************************************************************)
(* The state of the adapter and of SurfaceFlinger's record stays in its    *)
(* types; in particular the overlay layer is a layer that exists           *)
(* (onLayerDestroyed).                                                     *)
(***************************************************************************)
THEOREM TypeCorrect == Spec => []TypeOK
<1>1. IInv => TypeOK
  BY DEF IInv, Inv1
<1> QED BY <1>1, Invariance, PTL

(***************************************************************************)
(* Whatever the order of the calls, presentDisplay is accepted only with   *)
(* types that SurfaceFlinger knows.                                        *)
(***************************************************************************)
THEOREM TypesSettled == Spec => []TypesAgreed
<1>1. IInv => TypesAgreed
  BY AgreedWhenValidated DEF IInv
<1> QED BY <1>1, Invariance, PTL

(***************************************************************************)
(* The overlay layer, and no other, is promised to DSS, and none after an  *)
(* error (validateLayers, disableAfterError).                              *)
(***************************************************************************)
THEOREM OneOverlay == Spec => []OnePath
<1>1. IInv => OnePath
  BY DEF IInv, Inv1
<1> QED BY <1>1, Invariance, PTL

(***************************************************************************)
(* Every frame shows every layer once, but for the one frame in which the  *)
(* overlay fails (presentDisplay, postOverlay).                            *)
(***************************************************************************)
THEOREM FramesComplete == Spec => []FrameComplete
<1>1. IInv => FrameComplete
  BY DEF IInv
<1> QED BY <1>1, Invariance, PTL
-----------------------------------------------------------------------------
\* The refinement: each step is one of DisplayFrames or leaves the frame, the
\* switch and the trust alone.

LEMMA FramesInit == Init => Frames!Init
  BY DEF Init, Frames!Init, Frames!Whole

\* A frame that did not fail is whole.
LEMMA WholeFrame ==
    ASSUME NEW overlay, NEW target, screen' = Frame(overlay, target, FALSE), FrameComplete'
    PROVE  screen' = Frames!Whole
  BY DEF Frame, FrameComplete, Frames!Whole

LEMMA ValidateDisplayLooks == IInv /\ ValidateDisplay => Frames!Look
<1> SUFFICES ASSUME IInv, ValidateDisplay PROVE Frames!Look
  OBVIOUS
<1>1. PICK enabled \in BOOLEAN : ValidateDisplay!(enabled)
  BY DEF ValidateDisplay
<1>2. /\ mOverlayEnabled' = enabled
      /\ mOverlayDisabledByError' = (enabled /\ mOverlayDisabledByError)
      /\ screen' = screen
  BY <1>1
<1>3. (~mOverlayDisabledByError)' = (~mOverlayDisabledByError \/ ~enabled)
  BY <1>2
<1> QED BY <1>2, <1>3 DEF Frames!Look

LEMMA PresentOverlayPresents == IInv /\ PresentOverlay => Frames!Present
<1> SUFFICES ASSUME IInv, PresentOverlay PROVE Frames!Present
  OBVIOUS
<1>1. screen' = Frames!Whole
  BY PresentOverlayFrame, WholeFrame DEF IInv, PresentOverlay
<1>2. UNCHANGED <<mOverlayEnabled, mOverlayDisabledByError>>
  BY DEF PresentOverlay, overlayVars
<1> QED BY <1>1, <1>2 DEF Frames!Present

LEMMA PresentBufferPresents == IInv /\ PresentBuffer => Frames!Present
<1> SUFFICES ASSUME IInv, PresentBuffer PROVE Frames!Present
  OBVIOUS
<1>1. screen' = Frames!Whole
  BY PresentBufferFrame, WholeFrame DEF IInv, PresentBuffer
<1>2. UNCHANGED <<mOverlayEnabled, mOverlayDisabledByError>>
  BY DEF PresentBuffer, overlayVars
<1> QED BY <1>1, <1>2 DEF Frames!Present

LEMMA PresentFallBackFails == IInv /\ PresentFallBack => Frames!Fail
<1> SUFFICES ASSUME IInv, PresentFallBack PROVE Frames!Fail
  OBVIOUS
<1>1. mOverlayEnabled /\ ~mOverlayDisabledByError
  BY DEF IInv, Inv1, SwitchedOn, PresentFallBack
<1>2. /\ mOverlayDisabledByError' = TRUE
      /\ mOverlayEnabled' = mOverlayEnabled
      /\ screen' = Frame({}, Posted, TRUE)
  BY DEF PresentFallBack
<1>3. \E c \in BOOLEAN : screen' = [complete |-> c, failed |-> TRUE]
  BY <1>2 DEF Frame
<1> QED BY <1>1, <1>2, <1>3 DEF Frames!Fail

LEMMA FramesNext == IInv /\ [Next]_vars => [Frames!Next]_(Frames!vars)
<1> SUFFICES ASSUME IInv, [Next]_vars PROVE [Frames!Next]_(Frames!vars)
  OBVIOUS
<1>1. CASE ValidateDisplay
  BY <1>1, ValidateDisplayLooks DEF Frames!Next
<1>2. CASE PresentOverlay \/ PresentBuffer
  BY <1>2, PresentOverlayPresents, PresentBufferPresents DEF Frames!Next
<1>3. CASE PresentFallBack
  BY <1>3, PresentFallBackFails DEF Frames!Next
<1>4. CASE CreateLayer \/ AcceptDisplayChanges \/ SetClientTarget \/ UNCHANGED vars
  BY <1>4 DEF CreateLayer, AcceptDisplayChanges, SetClientTarget, vars, overlayVars, Frames!vars
<1>5. ASSUME NEW l \in mLayers,
             \/ DestroyLayer(l)
             \/ \E b \in Buffers : SetLayerBuffer(l, b)
             \/ \E t \in Types : SetLayerCompositionType(l, t)
             \/ \E a \in Areas : SetLayerGeometry(l, a)
      PROVE  UNCHANGED (Frames!vars)
  BY <1>5 DEF DestroyLayer, SetLayerBuffer, SetLayerCompositionType, SetLayerGeometry,
              overlayVars, Frames!vars
<1> QED BY <1>1, <1>2, <1>3, <1>4, <1>5 DEF Next

(***************************************************************************)
(* The adapter keeps the promise of DisplayFrames: a frame is whole or the *)
(* one in which the overlay fails, and after that none fails until the     *)
(* property was seen off (validateLayers, postOverlay, presentDisplay).    *)
(***************************************************************************)
THEOREM ImplementsFrames == Spec => FrameSpec
<1>1. Spec => Frames!Init /\ [][Frames!Next]_(Frames!vars)
  BY Invariance, FramesInit, FramesNext, PTL DEF Spec
<1> QED BY <1>1 DEF FrameSpec, Frames!Spec
===============================================================================
