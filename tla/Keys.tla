-------------------------------- MODULE Keys --------------------------------
(***************************************************************************)
(* Who hears a key: the chain of consumers of src/input/keyboard.c (the    *)
(* prompt, the open menu, the notification picker, the bindings, the input *)
(* method of src/input/textinput.c, the focused client) and the repeat     *)
(* timer of each keyboard group.                                           *)
(*                                                                         *)
(* A group is the seat's keyboard or a virtual one.  The repeat is on: its *)
(* rate and delay are positive.  The library releases the keys of a        *)
(* virtual keyboard before it destroys it.                                 *)
(***************************************************************************)
EXTENDS Naturals, FiniteSets

CONSTANTS
  SeatGroup,   (* keyboard_group                                             *)
  Groups,      (* the seat's group and the virtual keyboards                 *)
  Codes,       (* the keys                                                   *)
  Bound,       (* what the settings bind a key to, "nothing" for most        *)
  Closing,     (* keys that close the prompt, the menu and the picker        *)
  NoKey,
  MaxKeys      (* bound: keys held, or owed to the input method, at once     *)

ASSUME GroupsAssumption == SeatGroup \in Groups
ASSUME CodesAssumption ==
  /\ NoKey \notin Codes /\ Closing \subseteq Codes
  /\ Bound \in [Codes -> {"nothing", "runner", "picker", "inhibit", "spawn"}]

VARIABLES
  kgroups,     (* the groups that exist                                      *)
  imowned,     (* those of the input method's own client                     *)
  kdown,       (* keys held on each                                          *)
  armed,       (* keysyms, nsyms and the timer: the key that repeats         *)
  imkeys,      (* keys whose press the input method got                      *)
  runner,      (* runner_active                                              *)
  repeating,   (* runner_repeating, one flag for every group                 *)
  popup,       (* traypopup_active()                                         *)
  picking,     (* bar_notification_picking()                                 *)
  locked,      (* lock_active                                                *)
  inhibitor,   (* of the focused surface: "none", "active" or "idle"         *)
  grab         (* the input method grabs the keyboard                        *)

keyvars  == <<kgroups, imowned, kdown, armed, imkeys>>
uivars   == <<runner, repeating, popup, picking, locked, inhibitor, grab>>
keys_vars == <<keyvars, uivars>>

KeysInit ==
  /\ kgroups = {SeatGroup} /\ imowned = {}
  /\ kdown = [g \in Groups |-> {}] /\ imkeys = [g \in Groups |-> {}]
  /\ armed = [g \in Groups |-> NoKey]
  /\ runner = FALSE /\ repeating = FALSE /\ popup = FALSE /\ picking = FALSE
  /\ locked = FALSE /\ inhibitor = "none" /\ grab = FALSE

-----------------------------------------------------------------------------
(* The chain. *)

(* input_key_binding: whether some binding of k may run *)
input_key_binding(k) ==
  Bound[k] # "nothing" /\ (inhibitor = "active" => Bound[k] = "inhibit")

(* textinput_keyboard_grab *)
textinput_keyboard_grab(g) == grab /\ ~locked /\ g \notin imowned

(* textinput_key: a press goes to the grab, a release where its press went *)
textinput_key(g, k, pressed) ==
  IF pressed THEN textinput_keyboard_grab(g) ELSE k \in imkeys[g]

(* input_handle_key: who hears the key *)
Consumer(g, k, pressed) ==
  IF runner THEN "prompt"
  ELSE IF ~locked /\ popup THEN "menu"
  ELSE IF ~locked /\ picking THEN "picker"
  ELSE IF ~locked /\ pressed /\ input_key_binding(k) THEN "binding"
  ELSE IF textinput_key(g, k, pressed) THEN "im"
  ELSE "client"

Held == UNION {{g} \X (kdown[g] \cup imkeys[g]) : g \in kgroups}

(* A key of g goes down or up and reaches the consumer. *)
Hears(g, k, pressed, consumer) ==
  /\ g \in kgroups
  /\ IF pressed THEN k \notin kdown[g] /\ Cardinality(Held \cup {<<g, k>>}) <= MaxKeys
                ELSE k \in kdown[g]
  /\ Consumer(g, k, pressed) = consumer
  /\ kdown' = [kdown EXCEPT ![g] = IF pressed THEN @ \cup {k} ELSE @ \ {k}]
  /\ UNCHANGED <<kgroups, imowned, locked, grab>>

Arm(g, k) == armed' = [armed EXCEPT ![g] = k]
Disarm(g) == Arm(g, NoKey)

(* The prompt swallows every key.  A press types unless the session is
   locked, and repeats unless it closed the prompt. *)
KeyToPrompt(g, k, pressed) ==
  /\ Hears(g, k, pressed, "prompt")
  /\ LET types == pressed /\ ~locked
         stays == types /\ k \notin Closing
     IN  /\ runner' = (types => stays)
         /\ repeating' = stays
         /\ IF stays THEN Arm(g, k) ELSE Disarm(g)
  /\ UNCHANGED <<popup, picking, inhibitor, imkeys>>

(* mutant: the menu swallows the key and leaves the timer running *)
KeyToMenu_Armed(g, k, pressed) ==
  /\ Hears(g, k, pressed, "menu")
  /\ popup' = ~(pressed /\ k \in Closing)
  /\ UNCHANGED <<armed, runner, repeating, picking, inhibitor, imkeys>>

(* traypopup_dismiss on Escape *)
KeyToMenu(g, k, pressed) ==
  /\ Hears(g, k, pressed, "menu")
  /\ popup' = ~(pressed /\ k \in Closing)
  /\ Disarm(g)
  /\ UNCHANGED <<runner, repeating, picking, inhibitor, imkeys>>

(* bar_notification_pick_key: Escape and the keys that run an action close it *)
KeyToPicker(g, k, pressed) ==
  /\ Hears(g, k, pressed, "picker")
  /\ picking' = ~(pressed /\ k \in Closing)
  /\ Disarm(g)
  /\ UNCHANGED <<runner, repeating, popup, inhibitor, imkeys>>

(* runner_toggle: the repeat its own binding arms must not reach the prompt *)
toggle_prompt ==
  /\ runner' = ~runner
  /\ repeating' = (runner /\ repeating)

(* input_toggle_inhibit *)
input_toggle_inhibit ==
  inhibitor' = CASE inhibitor = "none"   -> "none"
                 [] inhibitor = "active" -> "idle"
                 [] inhibitor = "idle"   -> "active"

(* The action bound to k.  bar_notification_actions opens the picker only if
   the notification in the box has actions. *)
RunBinding(k) ==
  /\ IF Bound[k] = "runner" THEN toggle_prompt ELSE UNCHANGED <<runner, repeating>>
  /\ IF Bound[k] = "inhibit" THEN input_toggle_inhibit ELSE UNCHANGED inhibitor
  /\ IF Bound[k] = "picker" THEN picking' \in BOOLEAN ELSE UNCHANGED picking

KeyToBinding(g, k) ==
  /\ Hears(g, k, TRUE, "binding")
  /\ RunBinding(k)
  /\ Arm(g, k)
  /\ UNCHANGED <<popup, imkeys>>

(* A release whose press the input method got is swallowed if it has no grab
   any more. *)
KeyToIm(g, k, pressed) ==
  /\ Hears(g, k, pressed, "im")
  /\ imkeys' = [imkeys EXCEPT ![g] = IF pressed THEN @ \cup {k} ELSE @ \ {k}]
  /\ Disarm(g)
  /\ UNCHANGED <<runner, repeating, popup, picking, inhibitor>>

KeyToClient(g, k, pressed) ==
  /\ Hears(g, k, pressed, "client")
  /\ Disarm(g)
  /\ UNCHANGED <<runner, repeating, popup, picking, inhibitor, imkeys>>

(* input_key_repeat: it does not ask whether the session is locked or a menu
   is open.  A repeat that was not the prompt's own dies in the prompt, and
   every repeat dies in the picker. *)
input_key_repeat(g) ==
  /\ g \in kgroups /\ armed[g] # NoKey
  /\ \/ /\ picking
        /\ Disarm(g) /\ UNCHANGED <<runner, repeating, picking, inhibitor>>
     \/ /\ ~picking /\ runner /\ ~repeating
        /\ Disarm(g) /\ UNCHANGED <<runner, repeating, picking, inhibitor>>
     \/ /\ ~picking /\ runner /\ repeating
        /\ runner' = (armed[g] \notin Closing)
        /\ IF runner' THEN UNCHANGED armed ELSE Disarm(g)
        /\ UNCHANGED <<repeating, picking, inhibitor>>
     \/ /\ ~picking /\ ~runner
        /\ IF input_key_binding(armed[g]) THEN RunBinding(armed[g])
           ELSE UNCHANGED <<runner, repeating, picking, inhibitor>>
        /\ UNCHANGED armed
  /\ UNCHANGED <<kgroups, imowned, kdown, imkeys, popup, locked, grab>>

-----------------------------------------------------------------------------
(* What else happens to the consumers. *)

(* A button or a gesture bound to runner_toggle. *)
PointerToggles ==
  /\ ~locked /\ toggle_prompt
  /\ UNCHANGED <<keyvars, popup, picking, locked, inhibitor, grab>>

(* A menu opens when the tray item answers and closes by a click; the picker
   opens by a click and closes with its notification. *)
MenuOrPickerChanges ==
  /\ \/ popup' = ~popup /\ UNCHANGED picking
     \/ picking' = ~picking /\ UNCHANGED popup
  /\ UNCHANGED <<keyvars, runner, repeating, locked, inhibitor, grab>>

(* lock_handle_new_lock: the menu closes, the prompt and the picker do not *)
Lock ==
  /\ ~locked /\ locked' = TRUE /\ popup' = FALSE
  /\ UNCHANGED <<keyvars, runner, repeating, picking, inhibitor, grab>>

Unlock ==
  /\ locked /\ locked' = FALSE
  /\ UNCHANGED <<keyvars, runner, repeating, popup, picking, inhibitor, grab>>

(* The focus moves to a surface with or without an inhibitor, or the focused
   one asks for it: input_handle_new_keyboard_inhibitor activates it. *)
InhibitorChanges ==
  /\ inhibitor' \in {"none", "active", "idle"}
  /\ UNCHANGED <<keyvars, runner, repeating, popup, picking, locked, grab>>

(* textinput_handle_grab_keyboard, textinput_handle_grab_destroy *)
GrabChanges ==
  /\ grab' = ~grab
  /\ UNCHANGED <<keyvars, runner, repeating, popup, picking, locked, inhibitor>>

(* input_handle_new_virtual_keyboard, by any client *)
NewVirtualKeyboard(g) ==
  /\ g \notin kgroups
  /\ kgroups' = kgroups \cup {g}
  /\ \E own \in BOOLEAN : imowned' = IF own THEN imowned \cup {g} ELSE imowned
  /\ UNCHANGED <<kdown, armed, imkeys, uivars>>

(* input_handle_keyboard_group_destroy: the timer goes with the group *)
KeyboardGroupDestroy(g) ==
  /\ g \in kgroups \ {SeatGroup} /\ kdown[g] = {}
  /\ kgroups' = kgroups \ {g} /\ imowned' = imowned \ {g}
  /\ imkeys' = [imkeys EXCEPT ![g] = {}]
  /\ Disarm(g)
  /\ UNCHANGED <<kdown, uivars>>

KeysNext ==
  \/ \E g \in Groups, k \in Codes, pressed \in BOOLEAN :
       \/ KeyToPrompt(g, k, pressed) \/ KeyToMenu(g, k, pressed)
       \/ KeyToPicker(g, k, pressed) \/ KeyToIm(g, k, pressed)
       \/ KeyToClient(g, k, pressed)
  \/ \E g \in Groups, k \in Codes : KeyToBinding(g, k)
  \/ \E g \in Groups :
       input_key_repeat(g) \/ NewVirtualKeyboard(g) \/ KeyboardGroupDestroy(g)
  \/ PointerToggles \/ MenuOrPickerChanges \/ Lock \/ Unlock
  \/ InhibitorChanges \/ GrabChanges

KeysSpec == KeysInit /\ [][KeysNext]_keys_vars

-----------------------------------------------------------------------------
(* Properties. *)

(* A key that is up does not repeat, whoever swallowed its release: every
   return of input_handle_key disarms the timer. *)
RepeatIsHeld == \A g \in Groups : armed[g] # NoKey => armed[g] \in kdown[g]
=============================================================================
