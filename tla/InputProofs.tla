----------------------------- MODULE InputProofs -----------------------------
(***************************************************************************)
(* What is proved of the seat's parts that share no state: the keyboards   *)
(* and their bindings, the pointer's drags, gestures and the magnifier,    *)
(* text input, the tablet and the touch screen, the pads, and the          *)
(* constraints of the pointer.  Each section has the inductive invariant of  *)
(* its part and ends in the theorems about it.                             *)
(***************************************************************************)
EXTENDS Keys, Pointer, Gestures, TextInput, Tablet, TabletPads, Cursor, ListProofs, TLAPS

-----------------------------------------------------------------------------
(* A key that repeats is held, for any keyboards, keys and bindings: the   *)
(* timer of a keyboard is never left running by any of the consumers.      *)

KeysType ==
  /\ kdown \in [Groups -> SUBSET Codes]
  /\ armed \in [Groups -> Codes \cup {NoKey}]

RepeatInv == KeysType /\ RepeatIsHeld

LEMMA RepeatStart == KeysInit => RepeatInv
  BY DEF KeysInit, RepeatInv, KeysType, RepeatIsHeld

-----------------------------------------------------------------------------
(* A key goes down or up, and the timer of its keyboard is disarmed, or armed
   with the key that went down. *)
KeyGoes(g, k, pressed, key) ==
  /\ kdown' = [kdown EXCEPT ![g] = IF pressed THEN @ \cup {k} ELSE @ \ {k}]
  /\ Arm(g, key)

LEMMA KeyGoesSafely ==
  ASSUME RepeatInv, NEW g \in Groups, NEW k \in Codes, NEW pressed \in BOOLEAN,
         NEW key, key = NoKey \/ (pressed /\ key = k), KeyGoes(g, k, pressed, key)
  PROVE  RepeatInv'
<1> USE DEF RepeatInv, KeysType, KeyGoes, Arm
<1>1. KeysType'
  OBVIOUS
<1>2. ASSUME NEW h \in Groups, armed'[h] # NoKey
      PROVE  armed'[h] \in kdown'[h]
  <2>1. CASE h = g
    BY <1>2, <2>1
  <2>2. CASE h # g
    BY <1>2, <2>2 DEF RepeatIsHeld
  <2> QED
    BY <2>1, <2>2
<1> QED
  BY <1>1, <1>2 DEF RepeatIsHeld

(* Every consumer of a key ends in one of these two. *)
LEMMA ConsumersDisarm ==
  ASSUME NEW g \in Groups, NEW k \in Codes, NEW pressed \in BOOLEAN,
         \/ KeyToPrompt(g, k, pressed) \/ KeyToMenu(g, k, pressed)
         \/ KeyToPicker(g, k, pressed) \/ KeyToIm(g, k, pressed)
         \/ KeyToClient(g, k, pressed)
  PROVE  \/ KeyGoes(g, k, pressed, NoKey)
         \/ pressed /\ KeyGoes(g, k, pressed, k)
<1>1. CASE KeyToPrompt(g, k, pressed)
  BY <1>1 DEF KeyToPrompt, Hears, KeyGoes, Disarm
<1>2. CASE KeyToMenu(g, k, pressed) \/ KeyToPicker(g, k, pressed)
  BY <1>2 DEF KeyToMenu, KeyToPicker, Hears, KeyGoes, Disarm
<1>3. CASE KeyToIm(g, k, pressed) \/ KeyToClient(g, k, pressed)
  BY <1>3 DEF KeyToIm, KeyToClient, Hears, KeyGoes, Disarm
<1> QED
  BY <1>1, <1>2, <1>3

(* A timer that is disarmed while the keys stay as they are. *)
LEMMA DisarmSafely ==
  ASSUME RepeatInv, NEW g \in Groups, Disarm(g), UNCHANGED kdown
  PROVE  RepeatInv'
  BY DEF RepeatInv, KeysType, RepeatIsHeld, Disarm, Arm

LEMMA RepeatStep == RepeatInv /\ [KeysNext]_keys_vars => RepeatInv'
<1> SUFFICES ASSUME RepeatInv, [KeysNext]_keys_vars
             PROVE  RepeatInv'
  OBVIOUS
<1>0. ASSUME UNCHANGED <<kdown, armed>> PROVE RepeatInv'
  BY <1>0 DEF RepeatInv, KeysType, RepeatIsHeld
<1>1. ASSUME NEW g \in Groups, NEW k \in Codes, NEW pressed \in BOOLEAN,
             \/ KeyToPrompt(g, k, pressed) \/ KeyToMenu(g, k, pressed)
             \/ KeyToPicker(g, k, pressed) \/ KeyToIm(g, k, pressed)
             \/ KeyToClient(g, k, pressed)
      PROVE  RepeatInv'
  BY <1>1, ConsumersDisarm, KeyGoesSafely
<1>2. ASSUME NEW g \in Groups, NEW k \in Codes, KeyToBinding(g, k)
      PROVE  RepeatInv'
  <2>1. KeyGoes(g, k, TRUE, k)
    BY <1>2 DEF KeyToBinding, Hears, KeyGoes
  <2> QED
    BY <2>1, KeyGoesSafely
<1>3. ASSUME NEW g \in Groups, input_key_repeat(g)
      PROVE  RepeatInv'
  <2>1. UNCHANGED kdown /\ (Disarm(g) \/ UNCHANGED armed)
    BY <1>3 DEF input_key_repeat
  <2> QED
    BY <2>1, <1>0, DisarmSafely
<1>4. ASSUME NEW g \in Groups, KeyboardGroupDestroy(g)
      PROVE  RepeatInv'
  BY <1>4, DisarmSafely DEF KeyboardGroupDestroy
<1>5. ASSUME NEW g \in Groups, NewVirtualKeyboard(g)
      PROVE  RepeatInv'
  BY <1>0, <1>5 DEF NewVirtualKeyboard
<1>6. CASE \/ PointerToggles \/ MenuOrPickerChanges \/ Lock \/ Unlock
           \/ InhibitorChanges \/ GrabChanges \/ UNCHANGED keys_vars
  BY <1>0, <1>6 DEF PointerToggles, MenuOrPickerChanges, Lock, Unlock, InhibitorChanges,
                    GrabChanges, keys_vars, keyvars
<1> QED
  BY <1>1, <1>2, <1>3, <1>4, <1>5, <1>6 DEF KeysNext

-----------------------------------------------------------------------------
(* A key that is up does not repeat, on any keyboard, whoever heard it. *)
THEOREM RepeatsAreHeld == KeysSpec => []RepeatIsHeld
<1>1. RepeatInv => RepeatIsHeld
  BY DEF RepeatInv
<1> QED
  BY <1>1, RepeatStart, RepeatStep, PTL DEF KeysSpec

-----------------------------------------------------------------------------
(* An interactive move or resize always has a mapped window, for any       *)
(* windows, monitors and buttons.  The invariant is inductive as it        *)
(* stands: what it rests on is that input_grab refuses what may not be     *)
(* held, and that a window lets go of the pointer before it is gone.       *)

LEMMA DragStart == PointerInit => DragHasAWindow
  BY DEF PointerInit, DragHasAWindow, Drags

(* What input_grab leaves, started from a window that is up or from none. *)
LEMMA GrabKeepsADrag ==
  ASSUME NEW w \in up \cup {Nobody}, NEW m \in Drags, UNCHANGED up, input_grab(w, m, "pressed")
  PROVE  DragHasAWindow'
  BY WinsAssumption DEF input_grab, DragHasAWindow, Drags

LEMMA DragStep == DragHasAWindow /\ [PointerNext]_pointer_vars => DragHasAWindow'
<1> SUFFICES ASSUME DragHasAWindow, [PointerNext]_pointer_vars
             PROVE  DragHasAWindow'
  OBVIOUS
<1>0. ASSUME UNCHANGED <<up, held_win, mode>> PROVE DragHasAWindow'
  BY <1>0 DEF DragHasAWindow
<1>1. ASSUME NEW b \in PointerButtons, PressInMenu(b) \/ ReleaseInMenu(b)
      PROVE  DragHasAWindow'
  BY <1>0, <1>1 DEF PressInMenu, ReleaseInMenu, Presses, Releases, grabvars
<1>2. ASSUME NEW b \in PointerButtons, PressWhileLocked(b) \/ PressElsewhere(b)
      PROVE  DragHasAWindow'
  BY <1>2 DEF PressWhileLocked, PressElsewhere, Presses, DragHasAWindow, Drags
<1>3. ASSUME NEW b \in PointerButtons, PressOnWindow(b)
      PROVE  DragHasAWindow'
  <2>1. UNCHANGED up
    BY <1>3 DEF PressOnWindow, Presses
  <2>2. PICK w \in up :
          \/ w \notin Unmanaged \cup fullscreen /\ input_title_grab(w)
          \/ \E m \in Drags : input_grab(w, m, "pressed")
          \/ mode' = "pressed" /\ UNCHANGED <<held_win, floating>>
    BY <1>3 DEF PressOnWindow
  <2>3. CASE w \notin Unmanaged /\ input_title_grab(w)
    BY <2>1, <2>3 DEF input_title_grab, DragHasAWindow, Drags
  <2>4. CASE \E m \in Drags : input_grab(w, m, "pressed")
    BY <2>1, <2>4, GrabKeepsADrag
  <2>5. CASE mode' = "pressed" /\ UNCHANGED held_win
    BY <2>1, <2>5 DEF DragHasAWindow, Drags
  <2> QED
    BY <2>2, <2>3, <2>4, <2>5
<1>4. ASSUME NEW b \in PointerButtons, ReleaseButton(b)
      PROVE  DragHasAWindow'
  BY <1>4 DEF ReleaseButton, DragHasAWindow, Drags
<1>5. CASE Motion
  <2>1. UNCHANGED up
    BY <1>5 DEF Motion
  <2>2. CASE UNCHANGED grabvars
    BY <1>0, <2>1, <2>2 DEF grabvars
  <2>3. CASE held_win # Nobody /\ input_grab(held_win, "move", "pressed")
    BY <2>1, <2>3, GrabKeepsADrag DEF DragHasAWindow, Drags
  <2> QED
    BY <1>5, <2>2, <2>3 DEF Motion
<1>6. ASSUME NEW w \in Wins, MapWindow(w)
      PROVE  DragHasAWindow'
  BY <1>6 DEF MapWindow, grabvars, DragHasAWindow
<1>7. ASSUME NEW w \in Wins, client_handle_unmap(w)
      PROVE  DragHasAWindow'
  BY <1>7 DEF client_handle_unmap, grabvars, DragHasAWindow, Drags
<1>8. ASSUME NEW w \in Wins, WindowChanges(w)
      PROVE  DragHasAWindow'
  BY <1>0, <1>8 DEF WindowChanges, grabvars
<1>9. CASE MenuChanges \/ PointerLockChanges \/ UNCHANGED pointer_vars
  BY <1>0, <1>9 DEF MenuChanges, PointerLockChanges, pointer_vars, grabvars, winvars
<1> QED
  BY <1>1, <1>2, <1>3, <1>4, <1>5, <1>6, <1>7, <1>8, <1>9 DEF PointerNext

(* input_motion never moves or resizes a window that is not there. *)
THEOREM DragsHaveAWindow == PointerSpec => []DragHasAWindow
  BY DragStart, DragStep, PTL DEF PointerSpec

-----------------------------------------------------------------------------
(* A client sees whole gestures, and the magnifier keeps its buffers and   *)
(* its locks together, for any number of fingers, any bindings, any limit  *)
(* of the zoom and any sizes of the output.                                *)

(* What the client was told follows from what the fingers do and who took the
   gesture: a binding, which is then the only one to hear of it, or a pinch
   that zooms. *)
Taken == ours \/ zoom_from # 0

GestureInv ==
  /\ device \in {"none", "swipe", "pinch", "hold"}
  /\ ours \in BOOLEAN
  /\ ours => device \in {"swipe", "pinch"}
  /\ zoom_from # 0 => device = "pinch" /\ ~ours
  /\ client_sees = IF device = "none" \/ Taken THEN "none" ELSE device

ZoomType == zoom \in 1 .. ZoomMax /\ locks \in Nat

ZoomInv == ZoomType /\ ZoomIsConsistent

-----------------------------------------------------------------------------
LEMMA GestureStart == GesturesInit => GestureInv
  BY DEF GesturesInit, GestureInv, Taken

LEMMA GestureStep == GestureInv /\ ZoomType /\ [GesturesNext]_gestures_vars => GestureInv'
<1> SUFFICES ASSUME GestureInv, ZoomType, [GesturesNext]_gestures_vars
             PROVE  GestureInv'
  OBVIOUS
<1> USE DEF GestureInv, Taken
<1>1. CASE SwipeBegin
  BY <1>1 DEF SwipeBegin, TellBegin, input_gesture_bound
<1>2. CASE SwipeUpdate
  BY <1>2 DEF SwipeUpdate, TellUpdate
<1>3. CASE SwipeEnd
  BY <1>3 DEF SwipeEnd, TellEnd
<1>4. CASE PinchBegin
  <2>1. CASE ~guarded /\ zoom_from' = zoom /\ UNCHANGED <<ours, travel, client_sees>>
    <3>1. zoom_from' # 0
      BY <2>1 DEF ZoomType
    <3> QED BY <1>4, <2>1, <3>1 DEF PinchBegin
  <2>2. CASE UNCHANGED zoom_from
    <3>1. zoom_from = 0 /\ ~ours
      BY <1>4 DEF PinchBegin
    <3>2. CASE ours' = TRUE /\ UNCHANGED client_sees
      BY <1>4, <2>2, <3>1, <3>2 DEF PinchBegin
    <3>3. CASE ours' = FALSE /\ TellBegin("pinch")
      BY <1>4, <2>2, <3>1, <3>3 DEF PinchBegin, TellBegin
    <3> QED
      BY <1>4, <2>2, <3>1, <3>2, <3>3, <2>1 DEF PinchBegin, input_gesture_bound, ZoomType
  <2> QED
    BY <1>4, <2>1, <2>2 DEF PinchBegin
<1>5. CASE PinchUpdate
  BY <1>5 DEF PinchUpdate, TellUpdate
<1>6. CASE PinchEnd
  BY <1>6 DEF PinchEnd, TellEnd
<1>7. CASE HoldBegin \/ HoldEnd
  BY <1>7 DEF HoldBegin, HoldEnd, TellBegin, TellEnd
<1>8. CASE UNCHANGED gesturevars
  BY <1>8 DEF gesturevars
<1> QED
  BY <1>1, <1>2, <1>3, <1>4, <1>5, <1>6, <1>7, <1>8
     DEF GesturesNext, gestures_vars, GuardChanges, magnifier_magnify, PlainFrame,
         ZoomedFrame, SizeChanges

-----------------------------------------------------------------------------
LEMMA ZoomStart == GesturesInit => ZoomInv
  BY GesturesAssumption DEF GesturesInit, ZoomInv, ZoomType, ZoomIsConsistent

(* magnifier_zoom clamps whatever level it is asked for, and counts a lock
   only when the zoom begins or ends. *)
LEMMA ZoomLevel ==
  ASSUME NEW level \in Int, ZoomType, locks = (IF zoom > 1 THEN 1 ELSE 0), magnifier_zoom(level)
  PROVE  ZoomType' /\ locks' = (IF zoom' > 1 THEN 1 ELSE 0)
  BY GesturesAssumption DEF magnifier_zoom, ZoomType

LEMMA ZoomStep == ZoomInv /\ [GesturesNext]_gestures_vars => ZoomInv'
<1> SUFFICES ASSUME ZoomInv, [GesturesNext]_gestures_vars
             PROVE  ZoomInv'
  OBVIOUS
<1>0. ZoomType /\ locks = (IF zoom > 1 THEN 1 ELSE 0) /\ zoom \in Int
  BY DEF ZoomInv, ZoomType, ZoomIsConsistent
<1>1. CASE UNCHANGED <<zoom, locks, framevars>>
  BY <1>1 DEF ZoomInv, ZoomType, ZoomIsConsistent, framevars
<1>2. CASE UNCHANGED framevars /\ \E level \in Int : magnifier_zoom(level)
  <2> PICK level \in Int : magnifier_zoom(level)
    BY <1>2
  <2>1. ZoomType' /\ locks' = (IF zoom' > 1 THEN 1 ELSE 0)
    BY <1>0, ZoomLevel
  <2> QED
    BY <2>1, <1>2 DEF ZoomInv, ZoomIsConsistent, framevars
<1>3. CASE PlainFrame \/ ZoomedFrame \/ SizeChanges
  BY <1>3 DEF PlainFrame, ZoomedFrame, SizeChanges, magnifier_drop, ZoomInv, ZoomType,
              ZoomIsConsistent
<1>4. CASE magnifier_magnify
  <2>1. \E level \in Int : magnifier_zoom(level)
    BY <1>0, <1>4 DEF magnifier_magnify, ZoomType
  <2> QED
    BY <2>1, <1>2, <1>4 DEF magnifier_magnify
<1>5. ASSUME input_gesture_run
      PROVE  UNCHANGED <<zoom, locks>> \/ \E level \in Int : magnifier_zoom(level)
  BY <1>0, <1>5 DEF input_gesture_run
<1>6. CASE SwipeEnd \/ PinchEnd
  BY <1>6, <1>5, <1>2, <1>1 DEF SwipeEnd, PinchEnd
<1>7. CASE PinchUpdate
  <2>1. UNCHANGED framevars
    BY <1>7 DEF PinchUpdate
  <2>2. UNCHANGED <<zoom, locks>> \/ \E level \in 0 .. ZoomMax + 1 : magnifier_zoom(level)
    BY <1>7 DEF PinchUpdate
  <2>3. UNCHANGED <<zoom, locks>> \/ \E level \in Int : magnifier_zoom(level)
    BY <2>2, GesturesAssumption
  <2> QED
    BY <2>1, <2>3, <1>1, <1>2
<1>8. CASE SwipeBegin \/ SwipeUpdate \/ PinchBegin \/ HoldBegin \/ HoldEnd \/ GuardChanges
  BY <1>8, <1>1 DEF SwipeBegin, SwipeUpdate, PinchBegin, HoldBegin, HoldEnd, GuardChanges
<1>9. CASE UNCHANGED gestures_vars
  BY <1>9, <1>1 DEF gestures_vars
<1> QED
  BY <1>3, <1>4, <1>6, <1>7, <1>8, <1>9 DEF GesturesNext

-----------------------------------------------------------------------------
(* The locks on the output and the magnifier's buffers always agree with the
   zoom and with each other. *)
THEOREM ZoomStaysConsistent == GesturesSpec => []ZoomIsConsistent
<1>1. ZoomInv => ZoomIsConsistent
  BY DEF ZoomInv
<1> QED
  BY <1>1, ZoomStart, ZoomStep, PTL DEF GesturesSpec

(* No client is ever left inside a gesture, or told of the end of one it was
   not told the begin of. *)
THEOREM WholeGestures == GesturesSpec => []ClientSeesWholeGestures
<1>1. GestureInv => ClientSeesWholeGestures
  BY DEF GestureInv, ClientSeesWholeGestures
<1>2. ZoomInv => ZoomType
  BY DEF ZoomInv
<1> QED
  BY <1>1, <1>2, ZoomStart, ZoomStep, GestureStart, GestureStep, PTL DEF GesturesSpec

-----------------------------------------------------------------------------
(* The field the input method serves has the keyboard focus, for any       *)
(* fields, surfaces, clients and popups.                                   *)

(* A field has entered no surface but the one with the focus, and none at all
   without an input method: this is what textinput_update rests on, which
   looks only at focused_surface when a field is enabled. *)
FieldInv ==
  /\ kfocus \in FocusSurfaces \cup {NoSurface}
  /\ enabled \subseteq fields /\ fields \subseteq Fields
  /\ entered \in [Fields -> FocusSurfaces \cup {NoSurface}]
  /\ \A f \in Fields : entered[f] # NoSurface => im /\ f \in fields /\ entered[f] = kfocus

ServedInv == FieldInv /\ TheFieldServedHasTheFocus

LEMMA ServedStart == TextInputInit => ServedInv
  BY DEF TextInputInit, ServedInv, FieldInv, TheFieldServedHasTheFocus

-----------------------------------------------------------------------------
(* Popups are placed only where there is a field. *)
LEMMA PopupsFollow ==
  ASSUME textinput_popups_update
  PROVE  popups_shown' \subseteq popups_up' /\ (popups_shown' # {} => served' # NoField)
  BY DEF textinput_popups_update, Placeable

(* textinput_sync, with the fields where they were or all forgotten, restores
   everything from the focus and the input method there now are. *)
LEMMA SyncRestores ==
  ASSUME ServedInv, NEW focus \in FocusSurfaces \cup {NoSurface}, NEW before,
         before = entered \/ (before = [f \in Fields |-> NoSurface] /\ focus = NoSurface),
         kfocus' = focus, UNCHANGED enabled, fields \subseteq fields', fields' \subseteq Fields,
         im => im', textinput_sync(im', focus, fields', before)
  PROVE  ServedInv'
<1> DEFINE surface == IF im' THEN focus ELSE NoSurface
           keeps   == served # NoField /\ before[served] # NoSurface /\ before[served] = surface
<1>1. /\ entered' = [f \in Fields |->
                       IF f \in fields' /\ surface # NoSurface /\
                          (before[f] = surface \/ ClientOf[f] = ClientOf[surface])
                       THEN surface ELSE NoSurface]
      /\ served' = IF keeps THEN served ELSE NoField
      /\ im_active' = (keeps /\ im_active)
      /\ textinput_popups_update
  BY DEF textinput_sync
<1>2. FieldInv'
  BY <1>1 DEF ServedInv, FieldInv
<1>3. CASE keeps
  <2>1. before = entered /\ served \in Fields /\ served \in fields /\ served \in enabled
    BY <1>3 DEF ServedInv, FieldInv, TheFieldServedHasTheFocus
  <2>2. surface # NoSurface /\ im' /\ surface = kfocus'
    BY <1>3
  <2>3. served' = served /\ entered'[served] = kfocus'
    BY <1>1, <1>3, <2>1, <2>2
  <2>4. im_active' = (served' # NoField)
    BY <1>1, <1>3 DEF ServedInv, TheFieldServedHasTheFocus
  <2> QED
    BY <1>2, <1>3, <2>1, <2>2, <2>3, <2>4, <1>1, PopupsFollow
       DEF ServedInv, TheFieldServedHasTheFocus
<1>4. CASE ~keeps
  <2>1. served' = NoField /\ im_active' = FALSE
    BY <1>1, <1>4
  <2> QED
    BY <1>1, <1>2, <2>1, PopupsFollow DEF ServedInv, TheFieldServedHasTheFocus
<1> QED
  BY <1>3, <1>4

(* textinput_deactivate: nothing is served, and so nothing is shown. *)
LEMMA DeactivateClears ==
  ASSUME FieldInv', textinput_deactivate
  PROVE  ServedInv'
  BY PopupsFollow DEF textinput_deactivate, ServedInv, TheFieldServedHasTheFocus

(* Nothing changes for the field that is served, if there is one. *)
LEMMA ServedStays ==
  ASSUME ServedInv, FieldInv', UNCHANGED <<served, im_active, kfocus, im, popups_shown>>,
         popups_shown' \subseteq popups_up',
         served # NoField => /\ served \in fields' \cap enabled'
                             /\ entered'[served] = entered[served]
  PROVE  ServedInv'
  BY DEF ServedInv, TheFieldServedHasTheFocus

-----------------------------------------------------------------------------
LEMMA ServedStep == ServedInv /\ [TextInputNext]_textinput_vars => ServedInv'
<1> SUFFICES ASSUME ServedInv, [TextInputNext]_textinput_vars
             PROVE  ServedInv'
  OBVIOUS
<1>0. FieldInv /\ TheFieldServedHasTheFocus
  BY DEF ServedInv
<1>1. ASSUME NEW f \in Fields, NewField(f) PROVE ServedInv'
  <2>1. kfocus' = kfocus /\ im' = im /\ textinput_sync(im', kfocus, fields', entered)
    BY <1>1 DEF NewField
  <2>2. UNCHANGED enabled /\ fields \subseteq fields' /\ fields' \subseteq Fields
    BY <1>0, <1>1 DEF NewField, FieldInv
  <2> QED
    BY <1>0, <2>1, <2>2, SyncRestores DEF FieldInv
<1>2. ASSUME NEW f \in Fields, FieldEnables(f) PROVE ServedInv'
  <2>1. /\ f \in fields /\ enabled' = enabled \cup {f}
        /\ UNCHANGED <<fields, entered, im, kfocus, popups, popups_up>>
        /\ textinput_update(f)
    BY <1>2 DEF FieldEnables, impopupvars
  <2>2. FieldInv'
    BY <1>0, <2>1 DEF FieldInv
  <2>3. CASE im /\ entered[f] # NoSurface
    <3>1. served' = f /\ im_active' = TRUE /\ textinput_popups_update
      BY <2>1, <2>3 DEF textinput_update, textinput_activate
    <3>2. f # NoField /\ kfocus # NoSurface /\ entered[f] = kfocus
      BY <1>0, <2>3, TextInputAssumption DEF FieldInv
    <3> QED
      BY <2>1, <2>2, <2>3, <3>1, <3>2, PopupsFollow DEF ServedInv, TheFieldServedHasTheFocus
  <2>4. CASE ~(im /\ entered[f] # NoSurface)
    <3>1. UNCHANGED <<served, im_active, popups_shown>>
      BY <2>1, <2>4 DEF textinput_update
    <3> QED
      BY <1>0, <2>1, <2>2, <3>1, ServedStays DEF TheFieldServedHasTheFocus
  <2> QED
    BY <2>3, <2>4
<1>3. ASSUME NEW f \in Fields, FieldDisables(f) PROVE ServedInv'
  <2>1. FieldInv'
    BY <1>0, <1>3 DEF FieldDisables, FieldInv
  <2>2. CASE f = served
    BY <1>3, <2>1, <2>2, DeactivateClears DEF FieldDisables
  <2>3. CASE f # served
    BY <1>0, <1>3, <2>1, <2>3, ServedStays
       DEF FieldDisables, impopupvars, TheFieldServedHasTheFocus
  <2> QED
    BY <2>2, <2>3
<1>4. ASSUME NEW f \in Fields, FieldDestroy(f) PROVE ServedInv'
  <2>1. FieldInv'
    BY <1>0, <1>4 DEF FieldDestroy, FieldInv
  <2>2. CASE f = served
    BY <1>4, <2>1, <2>2, DeactivateClears DEF FieldDestroy
  <2>3. CASE f # served
    <3>1. /\ UNCHANGED <<served, im_active, kfocus, im, popups_shown, popups_up>>
          /\ fields' = fields \ {f} /\ enabled' = enabled \ {f}
          /\ entered' = [entered EXCEPT ![f] = NoSurface]
      BY <1>4, <2>3 DEF FieldDestroy, impopupvars
    <3>2. served # NoField => /\ served \in fields' \cap enabled'
                              /\ entered'[served] = entered[served]
      BY <1>0, <2>3, <3>1 DEF TheFieldServedHasTheFocus, FieldInv
    <3>3. popups_shown' \subseteq popups_up'
      BY <1>0, <3>1 DEF TheFieldServedHasTheFocus
    <3> QED
      BY <2>1, <3>1, <3>2, <3>3, ServedStays
  <2> QED
    BY <2>2, <2>3
<1>5. ASSUME NEW s \in FocusSurfaces \cup {NoSurface}, FocusChange(s) PROVE ServedInv'
  <2>1. /\ kfocus' = s /\ UNCHANGED <<enabled, fields>> /\ im' = im
        /\ textinput_sync(im', s, fields', entered)
    BY <1>5 DEF FocusChange
  <2> QED
    BY <1>0, <2>1, SyncRestores DEF FieldInv
<1>6. CASE FocusDestroyed
  <2>1. kfocus' = NoSurface /\ UNCHANGED <<enabled, fields>> /\ im' = im
    BY <1>6 DEF FocusDestroyed
  <2>2. PICK first \in BOOLEAN :
          textinput_sync(im, NoSurface, fields,
                         IF first THEN [f \in Fields |-> NoSurface] ELSE entered)
    BY <1>6 DEF FocusDestroyed
  <2>3. textinput_sync(im', NoSurface, fields',
                       IF first THEN [f \in Fields |-> NoSurface] ELSE entered)
    BY <2>1, <2>2
  <2> QED
    BY <1>0, <2>1, <2>3, SyncRestores DEF FieldInv
<1>7. CASE NewInputMethod
  <2>1. /\ kfocus' = kfocus /\ UNCHANGED <<enabled, fields>> /\ im'
        /\ textinput_sync(im', kfocus, fields', entered)
    BY <1>7 DEF NewInputMethod
  <2> QED
    BY <1>0, <2>1, SyncRestores DEF FieldInv
<1>8. CASE InputMethodDestroy
  BY <1>0, <1>8 DEF InputMethodDestroy, ServedInv, FieldInv, TheFieldServedHasTheFocus
<1>9. ASSUME NEW p \in Popups, NewPopup(p) \/ PopupChanges(p) \/ PopupDestroy(p)
      PROVE  ServedInv'
  <2>1. UNCHANGED <<fieldvars, im, served, im_active, kfocus>>
    BY <1>9 DEF NewPopup, PopupChanges, PopupDestroy
  <2>2. /\ popups_shown' \subseteq popups_up'
        /\ popups_shown' # {} => popups_shown # {} \/ served' # NoField
    BY <1>0, <1>9 DEF NewPopup, PopupChanges, PopupDestroy, Placeable, TheFieldServedHasTheFocus
  <2> QED
    BY <1>0, <2>1, <2>2 DEF ServedInv, FieldInv, TheFieldServedHasTheFocus, fieldvars
<1>10. CASE Arranged
  BY <1>0, <1>10, PopupsFollow
     DEF Arranged, ServedInv, FieldInv, TheFieldServedHasTheFocus, fieldvars, impopupvars
<1>11. CASE UNCHANGED textinput_vars
  BY <1>0, <1>11
     DEF textinput_vars, fieldvars, impopupvars, ServedInv, FieldInv, TheFieldServedHasTheFocus
<1> QED
  BY <1>1, <1>2, <1>3, <1>4, <1>5, <1>6, <1>7, <1>8, <1>9, <1>10, <1>11 DEF TextInputNext

-----------------------------------------------------------------------------
(* What the input method types goes where the user types, and the field that
   textinput_served points to is there. *)
THEOREM ServedFieldsHaveTheFocus == TextInputSpec => []TheFieldServedHasTheFocus
<1>1. ServedInv => TheFieldServedHasTheFocus
  BY DEF ServedInv
<1> QED
  BY <1>1, ServedStart, ServedStep, PTL DEF TextInputSpec

-----------------------------------------------------------------------------
(* Nothing stays pressed, for any tools, buttons, touch points and surfaces.
   How often a button of the pointer is down is accounted for by who holds it:
   pens that click, buttons of pens, and one finger. *)

(* A pen in the hand: what went out for it is what the hand still does, and
   no button went out both ways. *)
PenSafe(p) ==
  /\ p.down => p.tip /\ ~p.emulating
  /\ p.emulating => p.tip
  /\ p.buttons \subseteq p.pushed /\ p.emubuttons \subseteq p.pushed
  /\ p.buttons \cap p.emubuttons = {}

PenType == [near : BOOLEAN, tip : BOOLEAN, pushed : SUBSET PenButtons,
            focus : Drawables \cup {Nowhere}, next : Drawables \cup {Nowhere},
            down : BOOLEAN, buttons : SUBSET PenButtons,
            emulating : BOOLEAN, emubuttons : SUBSET PenButtons]

PensSafe == pens \in [Tools -> PenType] /\ \A t \in Tools : PenSafe(pens[t])

FingersSafe ==
  /\ touched \in [Points -> Drawables \cup {Nowhere}]
  /\ fingers \subseteq Points /\ emulated_touch \in fingers \cup {Nowhere}
  /\ \A i \in Points : touched[i] # Nowhere => i \in fingers /\ i # emulated_touch

(* Who holds a button of the pointer down. *)
Clicking == {t \in Tools : pens[t].emulating}
Pushing(b) ==
  {q \in Tools \X PenButtons : q[2] \in pens[q[1]].emubuttons /\ tablet_stylus_button(q[2]) = b}
Tips(b)   == IF b = "left" THEN Cardinality(Clicking) ELSE 0
Finger(b) == IF b = "left" /\ emulated_touch # Nowhere THEN 1 ELSE 0

Accounted ==
  /\ IsFiniteSet(Clicking) /\ \A b \in PointersButtons : IsFiniteSet(Pushing(b))
  /\ presses \in [PointersButtons -> Int]
  /\ \A b \in PointersButtons : presses[b] = Tips(b) + Cardinality(Pushing(b)) + Finger(b)

TabletInv == alive \subseteq Drawables /\ PensSafe /\ FingersSafe /\ Accounted

-----------------------------------------------------------------------------
LEMMA TabletStart == TabletInit => TabletInv
<1> SUFFICES ASSUME TabletInit PROVE TabletInv
  OBVIOUS
<1>1. \A t \in Tools : pens[t] = NewPen
  BY DEF TabletInit
<1>2. PensSafe
  BY <1>1, TabletAssumption DEF TabletInit, PensSafe, PenSafe, PenType, NewPen
<1>3. FingersSafe /\ emulated_touch = Nowhere
  BY DEF TabletInit, FingersSafe
<1>4. Clicking = {} /\ \A b : Pushing(b) = {}
  BY <1>1 DEF Clicking, Pushing, NewPen
<1>5. Accounted
  BY <1>3, <1>4, FS_EmptySet DEF Accounted, TabletInit, Tips, Finger
<1> QED
  BY <1>2, <1>3, <1>5 DEF TabletInv, TabletInit

(* A pen is replaced by a safe one. *)
LEMMA PenReplaced ==
  ASSUME PensSafe, NEW t \in Tools, NEW p \in PenType, PenSafe(p), Pen(t, p)
  PROVE  PensSafe'
  BY DEF PensSafe, PenSafe, Pen

(* It changes nothing that is accounted for: it clicks as before, and holds
   the same buttons. *)
LEMMA QuietPen ==
  ASSUME TabletInv, NEW t \in Tools, NEW p \in PenType, PenSafe(p), Pen(t, p),
         p.emulating = pens[t].emulating, p.emubuttons = pens[t].emubuttons,
         UNCHANGED <<touched, fingers, emulated_touch, presses, alive>>
  PROVE  TabletInv'
<1>1. PensSafe'
  BY PenReplaced DEF TabletInv
<1>2. \A u \in Tools : /\ pens'[u].emulating = pens[u].emulating
                       /\ pens'[u].emubuttons = pens[u].emubuttons
  BY DEF TabletInv, PensSafe, Pen
<1>3. Clicking' = Clicking /\ \A b : Pushing(b)' = Pushing(b)
  BY <1>2 DEF Clicking, Pushing
<1> QED
  BY <1>1, <1>3 DEF TabletInv, FingersSafe, Accounted, Tips, Finger

(* Where a pen is seen and where it goes when it is let go. *)
LEMMA SeenPen ==
  ASSUME NEW p \in PenType, PenSafe(p), NEW s \in Drawables \cup {Nowhere}
  PROVE  /\ SeenOn(p, s) \in PenType /\ PenSafe(SeenOn(p, s))
         /\ SeenOn(p, s).emulating = p.emulating /\ SeenOn(p, s).emubuttons = p.emubuttons
         /\ LetGo(p) \in PenType /\ PenSafe(LetGo(p))
         /\ LetGo(p).emulating = p.emulating /\ LetGo(p).emubuttons = p.emubuttons
  BY DEF SeenOn, LetGo, PenType, PenSafe

LEMMA MovedPen ==
  ASSUME alive \subseteq Drawables, NEW t \in Tools, NEW p \in PenType, PenSafe(p),
         NEW s \in Below
  PROVE  LET q == tablet_tool_motion(t, p, s) IN
         /\ q \in PenType /\ PenSafe(q)
         /\ q.emulating = p.emulating /\ q.emubuttons = p.emubuttons
  BY SeenPen DEF tablet_tool_motion, Below

-----------------------------------------------------------------------------
(* The tip clicks, and the click ends. *)
LEMMA ClickBegins ==
  ASSUME TabletInv, NEW t \in Tools, NEW p \in PenType, PenSafe(p), Pen(t, p),
         p.emulating, ~pens[t].emulating, p.emubuttons = pens[t].emubuttons,
         tablet_emulate_button("left", TRUE),
         UNCHANGED <<touched, fingers, emulated_touch, alive>>
  PROVE  TabletInv'
<1>1. PensSafe'
  BY PenReplaced DEF TabletInv
<1>2. pens'[t] = p /\ \A u \in Tools : /\ u # t => pens'[u] = pens[u]
                                       /\ pens'[u].emubuttons = pens[u].emubuttons
  BY DEF TabletInv, PensSafe, Pen
<1>3. Clicking' = Clicking \cup {t} /\ t \notin Clicking
  BY <1>2 DEF Clicking
<1>4. \A b : Pushing(b)' = Pushing(b)
  BY <1>2 DEF Pushing
<1>5. /\ IsFiniteSet(Clicking') /\ Cardinality(Clicking) \in Int
      /\ Cardinality(Clicking') = Cardinality(Clicking) + 1
  BY <1>3, FS_AddElement, FS_CardinalityType DEF TabletInv, Accounted
<1>6. \A b \in PointersButtons : Cardinality(Pushing(b)) \in Int
  BY FS_CardinalityType DEF TabletInv, Accounted
<1>7. Accounted'
  BY <1>4, <1>5, <1>6
     DEF TabletInv, Accounted, Tips, Finger, tablet_emulate_button, PointersButtons
<1> QED
  BY <1>1, <1>7 DEF TabletInv, FingersSafe

LEMMA ClickEnds ==
  ASSUME TabletInv, NEW t \in Tools, NEW p \in PenType, PenSafe(p), Pen(t, p),
         ~p.emulating, pens[t].emulating, p.emubuttons = pens[t].emubuttons,
         tablet_emulate_button("left", FALSE),
         UNCHANGED <<touched, fingers, emulated_touch, alive>>
  PROVE  TabletInv'
<1>1. PensSafe'
  BY PenReplaced DEF TabletInv
<1>2. pens'[t] = p /\ \A u \in Tools : /\ u # t => pens'[u] = pens[u]
                                       /\ pens'[u].emubuttons = pens[u].emubuttons
  BY DEF TabletInv, PensSafe, Pen
<1>3. Clicking' = Clicking \ {t} /\ t \in Clicking
  BY <1>2 DEF Clicking
<1>4. \A b : Pushing(b)' = Pushing(b)
  BY <1>2 DEF Pushing
<1>5. /\ IsFiniteSet(Clicking') /\ Cardinality(Clicking) \in Int
      /\ Cardinality(Clicking') = Cardinality(Clicking) - 1
  BY <1>3, FS_RemoveElement, FS_CardinalityType DEF TabletInv, Accounted
<1>6. \A b \in PointersButtons : Cardinality(Pushing(b)) \in Int
  BY FS_CardinalityType DEF TabletInv, Accounted
<1>7. Accounted'
  BY <1>4, <1>5, <1>6
     DEF TabletInv, Accounted, Tips, Finger, tablet_emulate_button, PointersButtons
<1> QED
  BY <1>1, <1>7 DEF TabletInv, FingersSafe

(* One more in a finite set, and one less. *)
LEMMA OneMore ==
  ASSUME NEW S, NEW x, IsFiniteSet(S), x \notin S
  PROVE  IsFiniteSet(S \cup {x}) /\ Cardinality(S \cup {x}) = Cardinality(S) + 1
  BY FS_AddElement

LEMMA OneLess ==
  ASSUME NEW S, NEW x, IsFiniteSet(S), x \in S
  PROVE  IsFiniteSet(S \ {x}) /\ Cardinality(S \ {x}) = Cardinality(S) - 1
  BY FS_RemoveElement

(* One more or one less of the buttons that press a. *)
LEMMA Recount ==
  ASSUME Accounted, NEW a, NEW n \in {1, -1}, Clicking' = Clicking,
         UNCHANGED emulated_touch, presses' = [presses EXCEPT ![a] = @ + n],
         \A c : c # a => Pushing(c)' = Pushing(c),
         a \in PointersButtons => /\ IsFiniteSet(Pushing(a)')
                                 /\ Cardinality(Pushing(a)') = Cardinality(Pushing(a)) + n
  PROVE  Accounted'
<1>1. IsFiniteSet(Clicking') /\ \A b \in PointersButtons : IsFiniteSet(Pushing(b)')
  BY DEF Accounted
<1>2. presses' \in [PointersButtons -> Int]
  <2>1. presses \in [PointersButtons -> Int] /\ n \in Int
    BY DEF Accounted
  <2>2. \A b \in PointersButtons : presses'[b] = (IF b = a THEN presses[b] + n ELSE presses[b])
    BY <2>1
  <2>3. \A b \in PointersButtons : presses'[b] \in Int
    BY <2>1, <2>2
  <2>4. presses' = [b \in PointersButtons |-> presses'[b]]
    BY <2>1
  <2> QED
    BY <2>3, <2>4
<1>3. ASSUME NEW b \in PointersButtons
      PROVE  presses'[b] = Tips(b)' + Cardinality(Pushing(b)') + Finger(b)'
  <2>0. Cardinality(Clicking) \in Int /\ Cardinality(Pushing(b)) \in Int
    BY FS_CardinalityType DEF Accounted
  <2>1. /\ Tips(b)' = Tips(b) /\ Finger(b)' = Finger(b)
        /\ Tips(b) \in Int /\ Finger(b) \in Int
    BY <2>0 DEF Tips, Finger
  <2>2. presses[b] = Tips(b) + Cardinality(Pushing(b)) + Finger(b)
    BY DEF Accounted
  <2>3. CASE b = a
    <3>1. presses'[b] = presses[b] + n /\ Cardinality(Pushing(b)') = Cardinality(Pushing(b)) + n
      BY <2>3 DEF Accounted
    <3> QED
      BY <2>0, <2>1, <2>2, <3>1
  <2>4. CASE b # a
    <3>1. presses'[b] = presses[b] /\ Pushing(b)' = Pushing(b)
      BY <2>4 DEF Accounted
    <3> QED
      BY <2>1, <2>2, <3>1
  <2> QED
    BY <2>3, <2>4
<1> QED
  BY <1>1, <1>2, <1>3 DEF Accounted

(* A button of a pen presses one of the pointer, and releases it. *)
LEMMA ButtonBegins ==
  ASSUME TabletInv, NEW t \in Tools, NEW b \in PenButtons, NEW p \in PenType, PenSafe(p),
         Pen(t, p), p.emulating = pens[t].emulating, b \notin pens[t].emubuttons,
         p.emubuttons = pens[t].emubuttons \cup {b},
         tablet_emulate_button(tablet_stylus_button(b), TRUE),
         UNCHANGED <<touched, fingers, emulated_touch, alive>>
  PROVE  TabletInv'
<1> SUFFICES ASSUME NEW a, a = tablet_stylus_button(b) PROVE TabletInv'
  OBVIOUS
<1>1. PensSafe'
  BY PenReplaced DEF TabletInv
<1>2. pens'[t] = p /\ \A u \in Tools : /\ u # t => pens'[u] = pens[u]
                                       /\ pens'[u].emulating = pens[u].emulating
  BY DEF TabletInv, PensSafe, Pen
<1>3. Clicking' = Clicking
  BY <1>2 DEF Clicking
<1>4. Pushing(a)' = Pushing(a) \cup {<<t, b>>} /\ <<t, b>> \notin Pushing(a)
  BY <1>2 DEF Pushing
<1>5. \A c : c # a => Pushing(c)' = Pushing(c)
  BY <1>2 DEF Pushing
<1>6. Cardinality(Clicking) \in Int /\ \A c \in PointersButtons : Cardinality(Pushing(c)) \in Int
  BY FS_CardinalityType DEF TabletInv, Accounted
<1>7. a \in PointersButtons => /\ IsFiniteSet(Pushing(a)')
                               /\ Cardinality(Pushing(a)') = Cardinality(Pushing(a)) + 1
  <2> SUFFICES ASSUME a \in PointersButtons
               PROVE  /\ IsFiniteSet(Pushing(a)')
                      /\ Cardinality(Pushing(a)') = Cardinality(Pushing(a)) + 1
    OBVIOUS
  <2>1. IsFiniteSet(Pushing(a)) /\ Cardinality(Pushing(a)) \in Int
    BY <1>6 DEF TabletInv, Accounted
  <2> QED
    BY <1>4, <2>1, OneMore
<1>8. presses' = [presses EXCEPT ![a] = @ + 1]
  BY DEF tablet_emulate_button
<1>9. Accounted'
  BY <1>3, <1>5, <1>7, <1>8, Recount DEF TabletInv
<1> QED
  BY <1>1, <1>9 DEF TabletInv, FingersSafe

LEMMA ButtonEnds ==
  ASSUME TabletInv, NEW t \in Tools, NEW b \in PenButtons, NEW p \in PenType, PenSafe(p),
         Pen(t, p), p.emulating = pens[t].emulating, b \in pens[t].emubuttons,
         p.emubuttons = pens[t].emubuttons \ {b},
         tablet_emulate_button(tablet_stylus_button(b), FALSE),
         UNCHANGED <<touched, fingers, emulated_touch, alive>>
  PROVE  TabletInv'
<1> SUFFICES ASSUME NEW a, a = tablet_stylus_button(b) PROVE TabletInv'
  OBVIOUS
<1>1. PensSafe'
  BY PenReplaced DEF TabletInv
<1>2. pens'[t] = p /\ \A u \in Tools : /\ u # t => pens'[u] = pens[u]
                                       /\ pens'[u].emulating = pens[u].emulating
  BY DEF TabletInv, PensSafe, Pen
<1>3. Clicking' = Clicking
  BY <1>2 DEF Clicking
<1>4. Pushing(a)' = Pushing(a) \ {<<t, b>>} /\ <<t, b>> \in Pushing(a)
  BY <1>2 DEF Pushing
<1>5. \A c : c # a => Pushing(c)' = Pushing(c)
  BY <1>2 DEF Pushing
<1>6. Cardinality(Clicking) \in Int /\ \A c \in PointersButtons : Cardinality(Pushing(c)) \in Int
  BY FS_CardinalityType DEF TabletInv, Accounted
<1>7. a \in PointersButtons => /\ IsFiniteSet(Pushing(a)')
                               /\ Cardinality(Pushing(a)') = Cardinality(Pushing(a)) + (-1)
  <2> SUFFICES ASSUME a \in PointersButtons
               PROVE  /\ IsFiniteSet(Pushing(a)')
                      /\ Cardinality(Pushing(a)') = Cardinality(Pushing(a)) + (-1)
    OBVIOUS
  <2>1. IsFiniteSet(Pushing(a)) /\ Cardinality(Pushing(a)) \in Int
    BY <1>6 DEF TabletInv, Accounted
  <2> QED
    BY <1>4, <2>1, OneLess
<1>8. presses' = [presses EXCEPT ![a] = @ + (-1)]
  BY DEF tablet_emulate_button, TabletInv, Accounted
<1>9. Accounted'
  BY <1>3, <1>5, <1>7, <1>8, Recount DEF TabletInv
<1> QED
  BY <1>1, <1>9 DEF TabletInv, FingersSafe

-----------------------------------------------------------------------------
(* Fingers leave the pens alone. *)
LEMMA FingersOnly ==
  ASSUME TabletInv, UNCHANGED <<pens, alive>>, FingersSafe',
         \/ UNCHANGED <<emulated_touch, presses>>
         \/ /\ emulated_touch = Nowhere /\ emulated_touch' # Nowhere
            /\ tablet_emulate_button("left", TRUE)
         \/ /\ emulated_touch # Nowhere /\ emulated_touch' = Nowhere
            /\ tablet_emulate_button("left", FALSE)
  PROVE  TabletInv'
<1>1. PensSafe' /\ Clicking' = Clicking /\ \A b : Pushing(b)' = Pushing(b)
  BY DEF TabletInv, PensSafe, Clicking, Pushing
<1>2. Cardinality(Clicking) \in Int /\ \A b \in PointersButtons : Cardinality(Pushing(b)) \in Int
  BY FS_CardinalityType DEF TabletInv, Accounted
<1>3. CASE UNCHANGED <<emulated_touch, presses>>
  BY <1>1, <1>3 DEF TabletInv, Accounted, Tips, Finger
<1>4. CASE /\ emulated_touch = Nowhere /\ emulated_touch' # Nowhere
           /\ tablet_emulate_button("left", TRUE)
  <2>1. Accounted'
    BY <1>1, <1>2, <1>4
       DEF TabletInv, Accounted, Tips, Finger, tablet_emulate_button, PointersButtons
  <2> QED
    BY <1>1, <2>1 DEF TabletInv
<1>5. CASE /\ emulated_touch # Nowhere /\ emulated_touch' = Nowhere
           /\ tablet_emulate_button("left", FALSE)
  <2>1. Accounted'
    BY <1>1, <1>2, <1>5
       DEF TabletInv, Accounted, Tips, Finger, tablet_emulate_button, PointersButtons
  <2> QED
    BY <1>1, <2>1 DEF TabletInv
<1> QED
  BY <1>3, <1>4, <1>5

LEMMA FingerStep ==
  ASSUME TabletInv, NEW i \in Points,
         \/ tablet_handle_touch_down(i) \/ tablet_handle_touch_up(i)
         \/ tablet_handle_touch_cancel(i)
  PROVE  TabletInv'
<1>0. FingersSafe /\ Below \subseteq Drawables \cup {Nowhere} /\ Nowhere \notin Points /\ i # Nowhere
  BY TabletAssumption DEF TabletInv, Below
<1>1. CASE tablet_handle_touch_down(i)
  <2>1. PICK s \in Below :
          IF s \in TouchAware /\ ~pointer_busy
          THEN /\ touched' = [touched EXCEPT ![i] = s]
               /\ UNCHANGED <<emulated_touch, presses>>
          ELSE /\ IF emulated_touch = Nowhere
                  THEN emulated_touch' = i /\ tablet_emulate_button("left", TRUE)
                  ELSE UNCHANGED <<emulated_touch, presses>>
               /\ UNCHANGED touched
    BY <1>1 DEF tablet_handle_touch_down
  <2>2. i \notin fingers /\ fingers' = fingers \cup {i} /\ UNCHANGED <<pens, alive>>
    BY <1>1 DEF tablet_handle_touch_down, NoPen, world
  <2>3. FingersSafe'
    BY <1>0, <2>1, <2>2 DEF FingersSafe
  <2> QED
    BY <1>0, <2>1, <2>2, <2>3, FingersOnly
<1>2. CASE tablet_handle_touch_up(i)
  <2>0. /\ fingers' = fingers \ {i} /\ i \in fingers /\ UNCHANGED <<pens, alive>>
        /\ \/ i = emulated_touch /\ emulated_touch' = Nowhere /\ UNCHANGED touched
           \/ /\ i # emulated_touch /\ emulated_touch' = emulated_touch
              /\ touched' = [touched EXCEPT ![i] = Nowhere]
    BY <1>2 DEF tablet_handle_touch_up, Lifted, EmulatedTouchUp, NoPen, world
  <2>4. FingersSafe'
    <3>1. touched' \in [Points -> Drawables \cup {Nowhere}] /\ touched'[i] = Nowhere
      BY <1>0, <2>0 DEF FingersSafe
    <3>2. \A j \in Points : touched'[j] # Nowhere => touched[j] # Nowhere /\ j # i
      BY <1>0, <2>0, <3>1 DEF FingersSafe
    <3> QED
      BY <1>0, <2>0, <3>1, <3>2 DEF FingersSafe
  <2>1. FingersSafe' /\ UNCHANGED <<pens, alive>>
    BY <2>0, <2>4
  <2> QED
    BY <1>0, <1>2, <2>1, FingersOnly DEF tablet_handle_touch_up, EmulatedTouchUp
<1>3. CASE tablet_handle_touch_cancel(i)
  <2>0. /\ fingers' = fingers \ {i} /\ i \in fingers /\ UNCHANGED <<pens, alive>>
        /\ \/ i = emulated_touch /\ emulated_touch' = Nowhere /\ UNCHANGED touched
           \/ /\ i # emulated_touch /\ emulated_touch' = emulated_touch
              /\ touched' = [j \in Points |-> IF touched[j] = touched[i] THEN Nowhere ELSE touched[j]]
    BY <1>3 DEF tablet_handle_touch_cancel, Lifted, EmulatedTouchUp, NoPen, world
  <2>4. FingersSafe'
    <3>1. touched' \in [Points -> Drawables \cup {Nowhere}] /\ touched'[i] = Nowhere
      BY <1>0, <2>0 DEF FingersSafe
    <3>2. \A j \in Points : touched'[j] # Nowhere => touched[j] # Nowhere /\ j # i
      BY <1>0, <2>0, <3>1 DEF FingersSafe
    <3> QED
      BY <1>0, <2>0, <3>1, <3>2 DEF FingersSafe
  <2>1. FingersSafe' /\ UNCHANGED <<pens, alive>>
    BY <2>0, <2>4
  <2> QED
    BY <1>0, <1>3, <2>1, FingersOnly DEF tablet_handle_touch_cancel, EmulatedTouchUp
<1> QED
  BY <1>1, <1>2, <1>3

-----------------------------------------------------------------------------
LEMMA PenStep ==
  ASSUME TabletInv, NEW t \in Tools,
         \/ PenMoves(t) \/ PenLeaves(t) \/ StrokeBegins(t) \/ TipClicks(t) \/ TipUp(t)
  PROVE  TabletInv'
<1>0. pens[t] \in PenType /\ PenSafe(pens[t]) /\ alive \subseteq Drawables
  BY DEF TabletInv, PensSafe
<1>1. CASE PenMoves(t)
  <2> DEFINE p == [pens[t] EXCEPT !.near = TRUE]
  <2>1. PICK s \in Below : Pen(t, tablet_tool_motion(t, p, s))
    BY <1>1 DEF PenMoves
  <2>2. /\ p \in PenType /\ PenSafe(p)
        /\ p.emulating = pens[t].emulating /\ p.emubuttons = pens[t].emubuttons
    BY <1>0 DEF PenType, PenSafe
  <2>3. UNCHANGED <<touched, fingers, emulated_touch, presses, alive>>
    BY <1>1 DEF PenMoves, NoTouch, world
  <2> HIDE DEF p
  <2> QED
    BY <1>0, <2>1, <2>2, <2>3, MovedPen, QuietPen
<1>2. CASE PenLeaves(t)
  <2> DEFINE q == SeenOn(pens[t], Nowhere)
             p == [q EXCEPT !.near = FALSE]
  <2>1. /\ q \in PenType /\ PenSafe(q)
        /\ q.emulating = pens[t].emulating /\ q.emubuttons = pens[t].emubuttons
    BY <1>0, SeenPen
  <2>2. /\ p \in PenType /\ PenSafe(p)
        /\ p.emulating = pens[t].emulating /\ p.emubuttons = pens[t].emubuttons
    <3> HIDE DEF q
    <3> QED
      BY <2>1 DEF PenType, PenSafe
  <2>3. Pen(t, p) /\ UNCHANGED <<touched, fingers, emulated_touch, presses, alive>>
    BY <1>2 DEF PenLeaves, NoTouch, world
  <2> HIDE DEF p
  <2> QED
    BY <2>2, <2>3, QuietPen
<1>3. CASE StrokeBegins(t)
  <2> DEFINE p == [pens[t] EXCEPT !.tip = TRUE, !.down = TRUE]
  <2>1. ~pens[t].tip
    BY <1>3 DEF StrokeBegins
  <2>2. /\ p \in PenType /\ PenSafe(p)
        /\ p.emulating = pens[t].emulating /\ p.emubuttons = pens[t].emubuttons
    BY <1>0, <2>1 DEF PenType, PenSafe
  <2>3. Pen(t, p) /\ UNCHANGED <<touched, fingers, emulated_touch, presses, alive>>
    BY <1>3 DEF StrokeBegins, NoTouch, world
  <2> HIDE DEF p
  <2> QED
    BY <2>2, <2>3, QuietPen
<1>4. CASE TipClicks(t)
  <2> DEFINE q == SeenOn(pens[t], Nowhere)
             p == [q EXCEPT !.tip = TRUE, !.emulating = TRUE]
  <2>1. ~pens[t].tip /\ ~pens[t].emulating /\ ~pens[t].down
    BY <1>0, <1>4 DEF TipClicks, PenSafe
  <2>2. /\ q \in PenType /\ PenSafe(q) /\ ~q.down /\ q.emubuttons = pens[t].emubuttons
    BY <1>0, <2>1, SeenPen DEF SeenOn, PenType
  <2>3. p \in PenType /\ PenSafe(p) /\ p.emulating /\ p.emubuttons = pens[t].emubuttons
    <3> HIDE DEF q
    <3> QED
      BY <2>2 DEF PenType, PenSafe
  <2>4. /\ Pen(t, p) /\ tablet_emulate_button("left", TRUE)
        /\ UNCHANGED <<touched, fingers, emulated_touch, alive>>
    BY <1>4 DEF TipClicks, NoTouch, world
  <2> HIDE DEF p
  <2> QED
    BY <2>1, <2>3, <2>4, ClickBegins
<1>5. CASE TipUp(t) /\ pens[t].emulating
  <2> DEFINE q == [[pens[t] EXCEPT !.tip = FALSE] EXCEPT !.emulating = FALSE]
  <2>1. /\ q \in PenType /\ PenSafe(q) /\ ~q.emulating /\ q.emubuttons = pens[t].emubuttons
    BY <1>0, <1>5 DEF PenType, PenSafe
  <2>2. PICK s \in Below : Pen(t, tablet_tool_motion(t, q, s))
    BY <1>0, <1>5 DEF TipUp, PenType
  <2>3. /\ tablet_emulate_button("left", FALSE)
        /\ UNCHANGED <<touched, fingers, emulated_touch, alive>>
    BY <1>0, <1>5 DEF TipUp, NoTouch, world, PenType
  <2> HIDE DEF q
  <2> DEFINE p == tablet_tool_motion(t, q, s)
  <2>4. p \in PenType /\ PenSafe(p) /\ ~p.emulating /\ p.emubuttons = pens[t].emubuttons
    BY <1>0, <2>1, MovedPen
  <2> HIDE DEF p
  <2>5. Pen(t, p)
    BY <2>2 DEF p
  <2> QED
    BY <1>5, <2>3, <2>4, <2>5, ClickEnds
<1>6. CASE TipUp(t) /\ ~pens[t].emulating
  <2> DEFINE q == [[pens[t] EXCEPT !.tip = FALSE] EXCEPT !.down = FALSE]
             p == LetGo(q)
  <2>1. /\ q \in PenType /\ PenSafe(q)
        /\ q.emulating = pens[t].emulating /\ q.emubuttons = pens[t].emubuttons
    BY <1>0, <1>6 DEF PenType, PenSafe
  <2>2. /\ p \in PenType /\ PenSafe(p)
        /\ p.emulating = pens[t].emulating /\ p.emubuttons = pens[t].emubuttons
    <3> HIDE DEF q
    <3> QED
      BY <2>1, SeenPen
  <2>3. Pen(t, p) /\ UNCHANGED <<touched, fingers, emulated_touch, presses, alive>>
    BY <1>0, <1>6 DEF TipUp, NoTouch, world, PenType
  <2> HIDE DEF p
  <2> QED
    BY <2>2, <2>3, QuietPen
<1> QED
  BY <1>1, <1>2, <1>3, <1>4, <1>5, <1>6

LEMMA PenButtonStep ==
  ASSUME TabletInv, NEW t \in Tools, NEW b \in PenButtons, ButtonDown(t, b) \/ ButtonUp(t, b)
  PROVE  TabletInv'
<1>0. pens[t] \in PenType /\ PenSafe(pens[t])
  BY DEF TabletInv, PensSafe
<1>1. UNCHANGED <<touched, fingers, emulated_touch, alive>>
  BY DEF ButtonDown, ButtonUp, NoTouch, world
<1>2. CASE ButtonDown(t, b)
  <2> DEFINE p == [pens[t] EXCEPT !.pushed = @ \cup {b}]
             e == [p EXCEPT !.emubuttons = @ \cup {b}]
             v == [p EXCEPT !.buttons = @ \cup {b}]
  <2>1. b \notin pens[t].pushed
    BY <1>2 DEF ButtonDown
  <2>2. /\ e \in PenType /\ PenSafe(e) /\ e.emulating = pens[t].emulating
        /\ b \notin pens[t].emubuttons /\ e.emubuttons = pens[t].emubuttons \cup {b}
    BY <1>0, <2>1 DEF PenType, PenSafe
  <2>3. /\ v \in PenType /\ PenSafe(v) /\ v.emulating = pens[t].emulating
        /\ v.emubuttons = pens[t].emubuttons
    BY <1>0, <2>1 DEF PenType, PenSafe
  <2>4. \/ Pen(t, e) /\ tablet_emulate_button(tablet_stylus_button(b), TRUE)
        \/ Pen(t, v) /\ UNCHANGED presses
    BY <1>2 DEF ButtonDown
  <2> HIDE DEF e, v
  <2> QED
    BY <1>1, <2>2, <2>3, <2>4, ButtonBegins, QuietPen
<1>3. CASE ButtonUp(t, b)
  <2> DEFINE p == [pens[t] EXCEPT !.pushed = @ \ {b}]
             e == [p EXCEPT !.emubuttons = @ \ {b}]
             w == [p EXCEPT !.buttons = @ \ {b}]
             v == LetGo(w)
  <2>1. /\ e \in PenType /\ e.emulating = pens[t].emulating
        /\ e.emubuttons = pens[t].emubuttons \ {b}
        /\ b \in pens[t].emubuttons => PenSafe(e)
    BY <1>0 DEF PenType, PenSafe
  <2>2. /\ w \in PenType /\ w.emulating = pens[t].emulating
        /\ w.emubuttons = pens[t].emubuttons
        /\ b \notin pens[t].emubuttons => PenSafe(w)
    BY <1>0 DEF PenType, PenSafe
  <2>3. b \notin pens[t].emubuttons =>
          /\ v \in PenType /\ PenSafe(v) /\ v.emulating = pens[t].emulating
          /\ v.emubuttons = pens[t].emubuttons
    <3> HIDE DEF w
    <3> QED
      BY <2>2, SeenPen
  <2>4. p.emubuttons = pens[t].emubuttons
    BY <1>0 DEF PenType
  <2>5. \/ /\ b \in pens[t].emubuttons
           /\ Pen(t, e) /\ tablet_emulate_button(tablet_stylus_button(b), FALSE)
        \/ b \notin pens[t].emubuttons /\ Pen(t, v) /\ UNCHANGED presses
    BY <1>3, <2>4 DEF ButtonUp
  <2> HIDE DEF e, v
  <2> QED
    BY <1>1, <2>1, <2>3, <2>5, ButtonEnds, QuietPen
<1> QED
  BY <1>2, <1>3

Forgets(q, s, r) ==
  r = [q EXCEPT !.focus = IF @ = s THEN Nowhere ELSE @,
                !.next  = IF @ = s THEN Nowhere ELSE @]

LEMMA ForgetfulPen ==
  ASSUME NEW q \in PenType, PenSafe(q), NEW s, NEW r, Forgets(q, s, r)
  PROVE  /\ r \in PenType /\ PenSafe(r)
         /\ r.emulating = q.emulating /\ r.emubuttons = q.emubuttons
<1>1. /\ (IF q.focus = s THEN Nowhere ELSE q.focus) \in Drawables \cup {Nowhere}
      /\ (IF q.next = s THEN Nowhere ELSE q.next) \in Drawables \cup {Nowhere}
  BY DEF PenType
<1>2. r \in PenType
  BY <1>1 DEF PenType, Forgets
<1>3. /\ r.tip = q.tip /\ r.pushed = q.pushed /\ r.down = q.down /\ r.buttons = q.buttons
      /\ r.emulating = q.emulating /\ r.emubuttons = q.emubuttons
  BY DEF PenType, Forgets
<1> QED
  BY <1>2, <1>3 DEF PenSafe

(* A surface that goes takes the focus of the pens and the touch points on it
   with it; what is pressed stays accounted for. *)
LEMMA SurfaceStep ==
  ASSUME TabletInv, NEW s \in Drawables, SurfaceGoes(s)
  PROVE  TabletInv'
<1> DEFINE p(t) == [pens[t] EXCEPT !.focus = IF @ = s THEN Nowhere ELSE @,
                                   !.next  = IF @ = s THEN Nowhere ELSE @]
<1>1. pens' = [t \in Tools |-> p(t)]
  BY DEF SurfaceGoes
<1>2. ASSUME NEW t \in Tools
      PROVE  /\ p(t) \in PenType /\ PenSafe(p(t))
             /\ p(t).emulating = pens[t].emulating
             /\ p(t).emubuttons = pens[t].emubuttons
  <2>1. pens[t] \in PenType /\ PenSafe(pens[t])
    BY DEF TabletInv, PensSafe
  <2>2. Forgets(pens[t], s, p(t))
    BY DEF Forgets
  <2> HIDE DEF p
  <2> QED
    BY <2>1, <2>2, ForgetfulPen
<1> HIDE DEF p
<1>3. PensSafe'
  BY <1>1, <1>2 DEF PensSafe
<1>4. Clicking' = Clicking /\ \A b : Pushing(b)' = Pushing(b)
  BY <1>1, <1>2 DEF Clicking, Pushing
<1>5. Accounted'
  BY <1>4 DEF SurfaceGoes, TabletInv, Accounted, Tips, Finger
<1>6. FingersSafe'
  BY DEF SurfaceGoes, TabletInv, FingersSafe
<1> QED
  BY <1>3, <1>5, <1>6 DEF SurfaceGoes, TabletInv

LEMMA TabletStep == TabletInv /\ [TabletNext]_tablet_vars => TabletInv'
<1> SUFFICES ASSUME TabletInv, [TabletNext]_tablet_vars
             PROVE  TabletInv'
  OBVIOUS
<1>0. ASSUME UNCHANGED <<pens, touched, fingers, emulated_touch, presses>>,
             alive' \subseteq Drawables
      PROVE  TabletInv'
  BY <1>0 DEF TabletInv, PensSafe, FingersSafe, Accounted, Clicking, Pushing, Tips, Finger
<1>1. ASSUME NEW s \in Drawables, SurfaceComes(s) PROVE TabletInv'
  BY <1>0, <1>1 DEF SurfaceComes, NoPen, NoTouch, TabletInv
<1>2. CASE LockComesOrGoes \/ PointerBusyChanges \/ UNCHANGED tablet_vars
  BY <1>0, <1>2 DEF LockComesOrGoes, PointerBusyChanges, tablet_vars, NoPen, NoTouch, TabletInv
<1> QED
  BY <1>1, <1>2, PenStep, PenButtonStep, FingerStep, SurfaceStep DEF TabletNext

-----------------------------------------------------------------------------
LEMMA NothingHeld == TabletInv => NothingStaysPressed
<1> SUFFICES ASSUME TabletInv, fingers = {},
                    \A t \in Tools : ~pens[t].tip /\ pens[t].pushed = {}
             PROVE  /\ \A b \in PointersButtons : presses[b] = 0
                    /\ \A t \in Tools : ~Grabbed(pens[t]) /\ ~pens[t].emulating
                    /\ \A i \in Points : touched[i] = Nowhere
                    /\ emulated_touch = Nowhere
  BY DEF NothingStaysPressed
<1>1. \A t \in Tools : /\ ~pens[t].down /\ pens[t].buttons = {}
                       /\ ~pens[t].emulating /\ pens[t].emubuttons = {}
  BY DEF TabletInv, PensSafe, PenSafe
<1>2. emulated_touch = Nowhere /\ \A i \in Points : touched[i] = Nowhere
  BY DEF TabletInv, FingersSafe
<1>3. Clicking = {} /\ \A b : Pushing(b) = {}
  BY <1>1 DEF Clicking, Pushing
<1>4. \A b \in PointersButtons : presses[b] = 0
  BY <1>2, <1>3, FS_EmptySet DEF TabletInv, Accounted, Tips, Finger
<1> QED
  BY <1>1, <1>2, <1>4 DEF Grabbed

(* Once pens and fingers let go, nothing is left pressed anywhere. *)
THEOREM EverythingIsReleased == TabletSpec => []NothingStaysPressed
  BY NothingHeld, TabletStart, TabletStep, PTL DEF TabletSpec

-----------------------------------------------------------------------------
(* Constraints of the pointer. *)

ConstraintInv ==
  /\ constraints \in Seq(Surfaces) /\ active \in Surfaces \cup {Nothing}
  /\ OneConstraintIsActive

(* Activating a constraint tells the client whose was active. *)
LEMMA ConstrainTells ==
  ASSUME NEW c, NEW s \in Surfaces, c.told = {c.active} \ {Nothing},
         c.constraints \in Seq(Surfaces), c.active \in Surfaces \cup {Nothing}
  PROVE  LET d == input_cursor_constrain(c, s)
         IN  /\ d.told = {d.active} \ {Nothing}
             /\ d.constraints \in Seq(Surfaces) /\ d.active \in Surfaces \cup {Nothing}
<1>1. Without(c.constraints, c.active) \in Seq(Surfaces)  BY WithoutType
<1>2. s # Nothing  BY SurfacesAssumption
<1> QED  BY <1>1, <1>2 DEF input_cursor_constrain

(* So the last of the constraints that a motion activates is the only one. *)
ConstrainTurn(a, c, s) ==
  IF Contains(c.constraints, s) THEN input_cursor_constrain(c, s) ELSE c
ConstrainInv(a, i, c) ==
  /\ c.told = {c.active} \ {Nothing}
  /\ c.constraints \in Seq(Surfaces) /\ c.active \in Surfaces \cup {Nothing}
Constrain == INSTANCE Loops WITH Turn <- ConstrainTurn, Inv <- ConstrainInv

LEMMA MotionTells ==
  ASSUME ConstraintInv
  PROVE  ConstrainInv(0, Len(constraints), ConstrainAll)
<1> DEFINE c == [active |-> active, told |-> told, constraints |-> constraints]
           t == Constrain!Fold(0, c, constraints)
<1>1. t = ConstrainAll
  BY DEF Constrain!Fold, Constrain!Greatest,
         ConstrainAll, FoldLeft, MapThenFoldSet, ConstrainTurn, Max
<1>2. ConstrainInv(0, 0, c)
  BY DEF ConstrainInv, ConstraintInv, OneConstraintIsActive
<1>3. constraints \in Seq(Surfaces)  BY DEF ConstraintInv
<1>4. ASSUME NEW i \in 1 .. Len(constraints), NEW d, ConstrainInv(0, i - 1, d)
      PROVE  ConstrainInv(0, i, ConstrainTurn(0, d, constraints[i]))
  <2>1. constraints[i] \in Surfaces  BY <1>3
  <2> QED  BY <1>4, <2>1, ConstrainTells DEF ConstrainInv, ConstrainTurn
<1> HIDE DEF c
<1>5. ConstrainInv(0, Len(constraints), t)
  BY <1>2, <1>3, <1>4, LeastMembers, Constrain!LoopKeeps
<1> HIDE DEF t
<1> QED  BY <1>1, <1>5

LEMMA ConstraintStep == ConstraintInv /\ [CursorNext]_cursor_vars => ConstraintInv'
<1> SUFFICES ASSUME ConstraintInv, [CursorNext]_cursor_vars
             PROVE  ConstraintInv'
  OBVIOUS
<1> USE SurfacesAssumption DEF ConstraintInv, OneConstraintIsActive
<1>1. ASSUME NEW s \in Surfaces, NewConstraint(s)
      PROVE  ConstraintInv'
  <2>1. <<s>> \o constraints \in Seq(Surfaces)  OBVIOUS
  <2> QED  BY <1>1, <2>1 DEF NewConstraint
<1>2. ASSUME NEW s \in Surfaces, ConstraintDestroy(s)
      PROVE  ConstraintInv'
  <2>1. Without(constraints, s) \in Seq(Surfaces)  BY WithoutType
  <2> QED  BY <1>2, <2>1 DEF ConstraintDestroy
<1>3. ASSUME NEW s \in Surfaces, SurfaceDestroy(s)
      PROVE  ConstraintInv'
  <2>1. Without(constraints, s) \in Seq(Surfaces)  BY WithoutType
  <2> QED  BY <1>3, <2>1 DEF SurfaceDestroy
<1>4. CASE Moves
  <2>1. ConstrainInv(0, Len(constraints), ConstrainAll)  BY MotionTells
  <2> QED  BY <1>4, <2>1 DEF Moves, ConstrainInv
<1>5. ASSUME NEW s \in Surfaces, NewSurface(s)
      PROVE  ConstraintInv'
  BY <1>5 DEF NewSurface, constrainvars
<1>6. ASSUME NEW s, RequestCursor(s)
      PROVE  ConstraintInv'
  BY <1>6 DEF RequestCursor, constrainvars
<1>7. CASE RequestCursorShape \/ HideCursor \/ DragChanges
  BY <1>7 DEF RequestCursorShape, HideCursor, DragChanges, constrainvars
<1>8. CASE UNCHANGED cursor_vars
  BY <1>8 DEF cursor_vars
<1> QED  BY <1>1, <1>2, <1>3, <1>4, <1>5, <1>6, <1>7, <1>8 DEF CursorNext

(* However clients make, move through and destroy their constraints, the only
   client that has been told that its constraint is active is the one whose
   constraint g0wm holds to be active (input_cursor_constrain). *)
THEOREM OneConstraintHolds == CursorSpec => []OneConstraintIsActive
<1>1. CursorInit => ConstraintInv
  BY DEF CursorInit, ConstraintInv, OneConstraintIsActive
<1>2. ConstraintInv => OneConstraintIsActive  BY DEF ConstraintInv
<1> QED  BY <1>1, <1>2, ConstraintStep, PTL DEF CursorSpec

-----------------------------------------------------------------------------
(* Pads of tablets. *)

(* Every tablet is in the list once. *)
PadsInv ==
  /\ tablet_devices \in Seq(Tablets) /\ IsInjective(tablet_devices)
  /\ tablet_pads \subseteq Pads
  /\ attached \in [Pads -> Tablets \cup {NoTablet}]
  /\ padfocus \in [Pads -> PadSurfaces \cup {NoFocus}]
  /\ focused_surface \in PadSurfaces \cup {NoFocus}
  /\ PadsFollowTheKeyboard

GroupIn(list, p) == {t \in ToSet(list) : GroupOf[t] = GroupOf[p]}

(* A pad that looks for its tablet finds one of its group, if there is one. *)
LEMMA AttachFinds ==
  ASSUME NEW list \in Seq(Tablets), NEW p
  PROVE  LET t == tablet_pad_attach(p, list)
         IN  /\ t \in Tablets \cup {NoTablet}
             /\ IF GroupIn(list, p) = {} THEN t = NoTablet ELSE t \in GroupIn(list, p)
<1> DEFINE same == {i \in DOMAIN list : GroupOf[list[i]] = GroupOf[p]}
<1>1. same \in SUBSET Nat  OBVIOUS
<1>2. same = {} <=> GroupIn(list, p) = {}  BY DEF GroupIn, ToSet
<1>3. same # {} => Min(same) \in same  BY <1>1, MinIn
<1>4. \A i \in same : list[i] \in GroupIn(list, p) /\ list[i] \in Tablets
  BY DEF GroupIn, ToSet
<1>5. tablet_pad_attach(p, list) = IF same = {} THEN NoTablet ELSE list[Min(same)]
  BY DEF tablet_pad_attach
<1> HIDE DEF same
<1> QED  BY <1>2, <1>3, <1>4, <1>5

(* Those that look again agree with the list and the keyboard after that; the
   others did before. *)
LEMMA AttachSettles ==
  ASSUME PadsInv, NEW ps \in SUBSET tablet_pads', NEW list \in Seq(Tablets),
         tablet_devices' = list, IsInjective(list), Attach(ps, list),
         tablet_pads' \in SUBSET Pads, UNCHANGED focused_surface,
         \A p \in tablet_pads' \ ps :
            /\ p \in tablet_pads
            /\ IF GroupIn(list, p) = {} THEN attached[p] = NoTablet
               ELSE attached[p] \in GroupIn(list, p)
  PROVE  PadsInv'
<1>1. \A p : /\ tablet_pad_attach(p, list) \in Tablets \cup {NoTablet}
             /\ IF GroupIn(list, p) = {} THEN tablet_pad_attach(p, list) = NoTablet
                ELSE tablet_pad_attach(p, list) \in GroupIn(list, p)
  BY AttachFinds
<1>2. \A t, s : tablet_pad_focus(t, s) = IF t \in V2Tablets /\ s \in TakesTablets
                                         THEN s ELSE NoFocus
  BY DEF tablet_pad_focus
<1>3. /\ attached' \in [Pads -> Tablets \cup {NoTablet}]
      /\ \A p \in Pads : attached'[p] = IF p \in ps THEN tablet_pad_attach(p, list)
                                        ELSE attached[p]
  <2> DEFINE to(p) == IF p \in ps THEN tablet_pad_attach(p, list) ELSE attached[p]
  <2>1. \A p \in Pads : to(p) \in Tablets \cup {NoTablet}  BY <1>1 DEF PadsInv
  <2>2. attached' = [p \in Pads |-> to(p)]  BY DEF Attach
  <2> HIDE DEF to
  <2>3. attached' \in [Pads -> Tablets \cup {NoTablet}]
        /\ \A p \in Pads : attached'[p] = to(p)
    BY <2>1, <2>2
  <2> QED  BY <2>3 DEF to
<1>4. /\ padfocus' \in [Pads -> PadSurfaces \cup {NoFocus}]
      /\ \A p \in Pads : padfocus'[p] = IF p \in ps THEN tablet_pad_focus(attached'[p], focused_surface)
                                        ELSE padfocus[p]
  BY <1>2, PadsAssumption DEF Attach, PadsInv
<1>5. ASSUME NEW p \in tablet_pads'
      PROVE  /\ IF GroupIn(list, p) = {} THEN attached'[p] = NoTablet
                ELSE attached'[p] \in GroupIn(list, p)
             /\ padfocus'[p] = IF attached'[p] \in V2Tablets /\ focused_surface \in TakesTablets
                               THEN focused_surface ELSE NoFocus
  <2>1. CASE p \in ps
    BY <1>1, <1>2, <1>3, <1>4, <2>1
  <2>2. CASE p \notin ps
    <3>1. p \in tablet_pads /\ p \in Pads  BY <2>2
    <3> QED  BY <1>3, <1>4, <2>2, <3>1 DEF PadsInv, PadsFollowTheKeyboard
  <2> QED  BY <2>1, <2>2
<1>6. PadsFollowTheKeyboard'  BY <1>5 DEF PadsFollowTheKeyboard, GroupIn
<1> QED  BY <1>3, <1>4, <1>6 DEF PadsInv

LEMMA PadsStep == PadsInv /\ [TabletPadsNext]_tabletpads_vars => PadsInv'
<1> SUFFICES ASSUME PadsInv, [TabletPadsNext]_tabletpads_vars
             PROVE  PadsInv'
  OBVIOUS
<1>0. \A p \in tablet_pads :
        IF GroupIn(tablet_devices, p) = {} THEN attached[p] = NoTablet
        ELSE attached[p] \in GroupIn(tablet_devices, p)
  BY DEF PadsInv, PadsFollowTheKeyboard, GroupIn
<1>1. ASSUME NEW t \in Tablets, tablet_create(t)
      PROVE  PadsInv'
  <2> DEFINE list == <<t>> \o tablet_devices
             ps == {p \in tablet_pads : attached[p] = NoTablet}
  <2>1. list \in Seq(Tablets) /\ IsInjective(list) /\ ToSet(list) = ToSet(tablet_devices) \cup {t}
    BY <1>1, HeadSet DEF tablet_create, PadsInv
  <2>2. /\ tablet_devices' = list /\ Attach(ps, list)
        /\ UNCHANGED <<tablet_pads, focused_surface>>
    BY <1>1 DEF tablet_create
  <2>3. \A p \in tablet_pads \ ps : attached[p] \in GroupIn(list, p)
    BY <1>0, <2>1 DEF GroupIn
  <2> HIDE DEF list, ps
  <2>4. ps \subseteq tablet_pads  BY DEF ps
  <2>5. tablet_pads \subseteq Pads  BY DEF PadsInv
  <2> QED  BY <2>1, <2>2, <2>3, <2>4, <2>5, AttachSettles
<1>2. ASSUME NEW t \in Tablets, tablet_handle_destroy(t)
      PROVE  PadsInv'
  <2> DEFINE list == Without(tablet_devices, t)
             ps == {p \in tablet_pads : attached[p] = t}
  <2>1. list \in Seq(Tablets) /\ IsInjective(list) /\ ToSet(list) = ToSet(tablet_devices) \ {t}
    BY WithoutType, WithoutSet DEF PadsInv
  <2>2. /\ tablet_devices' = list /\ Attach(ps, list)
        /\ UNCHANGED <<tablet_pads, focused_surface>>
    BY <1>2 DEF tablet_handle_destroy
  <2>3. \A p \in tablet_pads \ ps :
          IF GroupIn(list, p) = {} THEN attached[p] = NoTablet
          ELSE attached[p] \in GroupIn(list, p)
    BY <1>0, <2>1, PadsAssumption DEF GroupIn
  <2> HIDE DEF list, ps
  <2>4. ps \subseteq tablet_pads  BY DEF ps
  <2>5. tablet_pads \subseteq Pads  BY DEF PadsInv
  <2> QED  BY <2>1, <2>2, <2>3, <2>4, <2>5, AttachSettles
<1>3. ASSUME NEW p \in Pads, tablet_create_pad(p)
      PROVE  PadsInv'
  <2>1. /\ tablet_devices \in Seq(Tablets) /\ IsInjective(tablet_devices)
        /\ tablet_pads \subseteq Pads
    BY DEF PadsInv
  <2>2. /\ tablet_devices' = tablet_devices /\ tablet_pads' = tablet_pads \cup {p}
        /\ Attach({p}, tablet_devices) /\ UNCHANGED focused_surface
    BY <1>3 DEF tablet_create_pad
  <2> QED  BY <1>0, <2>1, <2>2, AttachSettles
<1>4. ASSUME NEW p \in Pads, tablet_handle_pad_destroy(p)
      PROVE  PadsInv'
  <2>1. /\ tablet_pads' = tablet_pads \ {p} /\ UNCHANGED <<tablet_devices, focused_surface>>
        /\ attached' = [attached EXCEPT ![p] = NoTablet]
        /\ padfocus' = [padfocus EXCEPT ![p] = NoFocus]
    BY <1>4 DEF tablet_handle_pad_destroy
  <2>2. \A q \in tablet_pads' : q \in tablet_pads /\ attached'[q] = attached[q]
                                /\ padfocus'[q] = padfocus[q]
    BY <2>1 DEF PadsInv
  <2>3. PadsFollowTheKeyboard'
    BY <2>1, <2>2 DEF PadsInv, PadsFollowTheKeyboard
  <2> QED  BY <2>1, <2>3 DEF PadsInv
<1>5. ASSUME NEW s \in PadSurfaces \cup {NoFocus}, tablet_handle_keyboard_focus_change(s)
      PROVE  PadsInv'
  <2>1. /\ focused_surface' = s /\ UNCHANGED <<tablet_devices, tablet_pads, attached>>
        /\ padfocus' = [p \in Pads |->
             IF p \in tablet_pads THEN tablet_pad_focus(attached[p], s) ELSE NoFocus]
    BY <1>5 DEF tablet_handle_keyboard_focus_change
  <2>2. \A t : tablet_pad_focus(t, s) = IF t \in V2Tablets /\ s \in TakesTablets
                                        THEN s ELSE NoFocus
    BY DEF tablet_pad_focus
  <2>3. padfocus' \in [Pads -> PadSurfaces \cup {NoFocus}]
    BY <2>1, <2>2
  <2>4. \A p \in tablet_pads :
          padfocus'[p] = IF attached[p] \in V2Tablets /\ s \in TakesTablets THEN s ELSE NoFocus
    BY <2>1, <2>2 DEF PadsInv
  <2>5. PadsFollowTheKeyboard'
    BY <2>1, <2>4 DEF PadsInv, PadsFollowTheKeyboard
  <2> QED  BY <2>1, <2>3, <2>5 DEF PadsInv
<1>6. CASE UNCHANGED tabletpads_vars
  BY <1>6 DEF tabletpads_vars, PadsInv, PadsFollowTheKeyboard
<1> QED  BY <1>1, <1>2, <1>3, <1>4, <1>5, <1>6 DEF TabletPadsNext

(* A pad has a tablet of its group whenever one is plugged, and is on the
   surface with the keyboard whenever that takes its tablet, in whatever order
   pads and tablets come and go and the focus moves. *)
THEOREM PadsKeepUp == TabletPadsSpec => []PadsFollowTheKeyboard
<1>1. TabletPadsInit => PadsInv
  <2> SUFFICES ASSUME TabletPadsInit  PROVE PadsInv
    OBVIOUS
  <2>1. tablet_devices \in Seq(Tablets) /\ IsInjective(tablet_devices)
    BY DEF TabletPadsInit, IsInjective
  <2> QED  BY <2>1 DEF TabletPadsInit, PadsInv, PadsFollowTheKeyboard
<1>2. PadsInv => PadsFollowTheKeyboard  BY DEF PadsInv
<1> QED  BY <1>1, <1>2, PadsStep, PTL DEF TabletPadsSpec
=============================================================================
