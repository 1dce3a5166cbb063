----------------------------- MODULE TextInput -----------------------------
(***************************************************************************)
(* src/input/textinput.c: which text field the input method serves, as the *)
(* keyboard focus moves, fields come and go, are enabled and disabled, and *)
(* the input method itself connects and dies; and its candidate popups.    *)
(*                                                                         *)
(* The library forgets a field's surface when that is destroyed.  Whether  *)
(* a popup finds its place (the surface is in the scene, there is a        *)
(* monitor) is free.  Texts are left out.                                  *)
(***************************************************************************)
EXTENDS Naturals, FiniteSets

CONSTANTS
  Fields,      (* text inputs                                                *)
  FocusSurfaces, (* surfaces that can have the keyboard focus                *)
  ClientOf,    (* the client of a field or a surface                         *)
  Popups,      (* of the input method                                        *)
  NoSurface, NoField

ASSUME TextInputAssumption ==
  NoSurface \notin FocusSurfaces /\ NoField \notin Fields
  /\ DOMAIN ClientOf = Fields \cup FocusSurfaces

VARIABLES
  fields,      (* textinput_list                                             *)
  entered,     (* focused_surface of each                                    *)
  enabled,     (* those whose current_enabled is set                         *)
  im,          (* textinput_im                                               *)
  served,      (* textinput_served                                           *)
  im_active,   (* what the input method was told last                        *)
  kfocus,      (* the surface with the keyboard focus                        *)
  popups,      (* textinput_popups                                           *)
  popups_up,   (* mapped                                                     *)
  popups_shown

fieldvars == <<fields, entered, enabled>>
impopupvars == <<popups, popups_up>>
textinput_vars == <<fieldvars, impopupvars, popups_shown, im, served, im_active, kfocus>>

TextInputInit ==
  /\ fields = {} /\ entered = [f \in Fields |-> NoSurface] /\ enabled = {}
  /\ im = FALSE /\ served = NoField /\ im_active = FALSE /\ kfocus = NoSurface
  /\ popups = {} /\ popups_up = {} /\ popups_shown = {}

-----------------------------------------------------------------------------
(* textinput_popup_place, with whether the rest of it finds a place *)
Placeable(found) ==
  found /\ served' # NoField /\ entered'[served'] # NoSurface

(* textinput_popups_update *)
textinput_popups_update ==
  \E found \in BOOLEAN :
    popups_shown' = IF Placeable(found) THEN popups' \cap popups_up' ELSE {}

(* textinput_activate: the one served before is deactivated first *)
textinput_activate(f) == served' = f /\ im_active' = TRUE

(* textinput_deactivate *)
textinput_deactivate ==
  /\ served' = NoField
  /\ im_active' = FALSE
  /\ textinput_popups_update

(* textinput_update, from the handlers of enable and commit *)
textinput_update(f) ==
  IF im /\ entered[f] # NoSurface /\ f \in enabled'
  THEN textinput_activate(f) /\ textinput_popups_update
  ELSE UNCHANGED <<served, im_active, popups_shown>>

(* mutant: the field served before keeps the input method *)
textinput_sync_Keep(connected, focus, known, before) ==
  LET surface == IF connected THEN focus ELSE NoSurface
  IN  /\ entered' = [f \in Fields |->
                       IF f \in known /\ surface # NoSurface /\
                          (before[f] = surface \/ ClientOf[f] = ClientOf[surface])
                       THEN surface ELSE NoSurface]
      /\ UNCHANGED <<served, im_active>>
      /\ textinput_popups_update

(* textinput_sync: the input method stops serving a field that loses the
   focus, fields leave the old surface and those of its client enter the new
   one *)
textinput_sync(connected, focus, known, before) ==
  LET surface == IF connected THEN focus ELSE NoSurface
      keeps   == served # NoField /\ before[served] # NoSurface
                                  /\ before[served] = surface
  IN  /\ entered' = [f \in Fields |->
                       IF f \in known /\ surface # NoSurface /\
                          (before[f] = surface \/ ClientOf[f] = ClientOf[surface])
                       THEN surface ELSE NoSurface]
      /\ served' = IF keeps THEN served ELSE NoField
      /\ im_active' = (keeps /\ im_active)
      /\ textinput_popups_update

-----------------------------------------------------------------------------
(* textinput_handle_new_text_input *)
NewField(f) ==
  /\ f \notin fields /\ fields' = fields \cup {f}
  /\ UNCHANGED <<enabled, im, kfocus, impopupvars>>
  /\ textinput_sync(im, kfocus, fields', entered)

(* textinput_handle_enable, textinput_handle_commit *)
FieldEnables(f) ==
  /\ f \in fields
  /\ enabled' = enabled \cup {f}
  /\ UNCHANGED <<fields, entered, im, kfocus, impopupvars>>
  /\ textinput_update(f)

(* textinput_handle_disable *)
FieldDisables(f) ==
  /\ f \in enabled /\ enabled' = enabled \ {f}
  /\ UNCHANGED <<fields, entered, im, kfocus, impopupvars>>
  /\ IF f = served THEN textinput_deactivate ELSE UNCHANGED <<served, im_active, popups_shown>>

(* textinput_handle_destroy *)
FieldDestroy(f) ==
  /\ f \in fields /\ fields' = fields \ {f} /\ enabled' = enabled \ {f}
  /\ entered' = [entered EXCEPT ![f] = NoSurface]
  /\ UNCHANGED <<im, kfocus, impopupvars>>
  /\ IF f = served THEN textinput_deactivate ELSE UNCHANGED <<served, im_active, popups_shown>>

(* textinput_handle_focus_change *)
FocusChange(s) ==
  /\ s # kfocus /\ kfocus' = s
  /\ UNCHANGED <<fields, enabled, im, impopupvars>>
  /\ textinput_sync(im, s, fields, entered)

(* The surface with the focus is destroyed: the library tells the fields
   before or after the focus is cleared. *)
FocusDestroyed ==
  /\ kfocus # NoSurface /\ kfocus' = NoSurface
  /\ UNCHANGED <<fields, enabled, im, impopupvars>>
  /\ \E first \in BOOLEAN :
       textinput_sync(im, NoSurface, fields,
                      IF first THEN [f \in Fields |-> NoSurface] ELSE entered)

(* textinput_handle_new_input_method: a second one is turned away *)
NewInputMethod ==
  /\ ~im /\ im' = TRUE
  /\ UNCHANGED <<fields, enabled, kfocus, impopupvars>>
  /\ textinput_sync(TRUE, kfocus, fields, entered)

(* textinput_handle_im_destroy; its popups are destroyed with it *)
InputMethodDestroy ==
  /\ im /\ im' = FALSE
  /\ served' = NoField /\ im_active' = FALSE
  /\ entered' = [f \in Fields |-> NoSurface]
  /\ popups' = {} /\ popups_up' = {} /\ popups_shown' = {}
  /\ UNCHANGED <<fields, enabled, kfocus>>

(* textinput_handle_new_popup: not mapped, so not shown *)
NewPopup(p) ==
  /\ im /\ p \notin popups /\ popups' = popups \cup {p}
  /\ UNCHANGED <<fieldvars, popups_up, popups_shown, im, served, im_active, kfocus>>

(* textinput_handle_popup_map, _unmap and _commit place this one *)
PopupChanges(p) ==
  /\ p \in popups
  /\ popups_up' \in {popups_up \cup {p}, popups_up \ {p}}
  /\ UNCHANGED <<fieldvars, popups, im, served, im_active, kfocus>>
  /\ \E found \in BOOLEAN :
       popups_shown' = IF Placeable(found) /\ p \in popups_up'
                       THEN popups_shown \cup {p} ELSE popups_shown \ {p}

(* textinput_handle_popup_destroy *)
PopupDestroy(p) ==
  /\ p \in popups /\ popups' = popups \ {p}
  /\ popups_up' = popups_up \ {p} /\ popups_shown' = popups_shown \ {p}
  /\ UNCHANGED <<fieldvars, im, served, im_active, kfocus>>

(* textinput_arrange: a window moved *)
Arranged ==
  /\ UNCHANGED <<fieldvars, impopupvars, im, served, im_active, kfocus>>
  /\ textinput_popups_update

TextInputNext ==
  \/ \E f \in Fields : NewField(f) \/ FieldEnables(f) \/ FieldDisables(f) \/ FieldDestroy(f)
  \/ \E s \in FocusSurfaces \cup {NoSurface} : FocusChange(s)
  \/ \E p \in Popups : NewPopup(p) \/ PopupChanges(p) \/ PopupDestroy(p)
  \/ FocusDestroyed \/ NewInputMethod \/ InputMethodDestroy \/ Arranged

TextInputSpec == TextInputInit /\ [][TextInputNext]_textinput_vars

-----------------------------------------------------------------------------
(* Properties. *)

(* The input method serves a field only of the surface that has the keyboard
   focus, that is there and enabled, and it has been told so: what it types
   goes where the user types, and no field it serves can be freed.  Its popups
   are on the screen only while it serves one. *)
TheFieldServedHasTheFocus ==
  /\ im_active = (served # NoField)
  /\ served # NoField =>
       /\ im /\ served \in fields \cap enabled
       /\ kfocus # NoSurface /\ entered[served] = kfocus
  /\ popups_shown \subseteq popups_up /\ (popups_shown # {} => served # NoField)
=============================================================================
