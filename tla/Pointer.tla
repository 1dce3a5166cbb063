------------------------------- MODULE Pointer -------------------------------
(***************************************************************************)
(* The interactive move and resize of src/input/pointer.c: the window the  *)
(* pointer holds (input_grab_client), the mode (input_cursor_mode), and    *)
(* what can get in between a press and its release: the open menu, the     *)
(* session lock, the window that goes.                                     *)
(*                                                                         *)
(* Where a window lies and which one is under the pointer are free choices *)
(* of each event; of a tile that is dragged only the monitor matters.      *)
(* moveresize is bound to buttons of a pointer, not to its wheel or to a   *)
(* key (docs/settings.md:561).                                             *)
(***************************************************************************)
EXTENDS Naturals, FiniteSets

CONSTANTS
  Wins,        (* windows                                                    *)
  Unmanaged,   (* the X11 menus among them                                   *)
  Mons,        (* monitors                                                   *)
  PointerButtons, (* buttons of the pointer                                  *)
  Nobody       (* no window                                                  *)

ASSUME WinsAssumption == Unmanaged \subseteq Wins /\ Nobody \notin Wins

VARIABLES
  mode,        (* input_cursor_mode                                          *)
  held_win,    (* input_grab_client                                          *)
  held,        (* buttons that are down                                      *)
  up,          (* mapped windows                                             *)
  floating, fullscreen,
  on,          (* the monitor of a window                                    *)
  at,          (* the monitor under the pointer                              *)
  selected,    (* selected_monitor                                           *)
  menu,        (* traypopup_active()                                         *)
  screen_locked

grabvars == <<mode, held_win>>
winvars  == <<up, floating, fullscreen, on>>
pointer_vars == <<grabvars, winvars, held, at, selected, menu, screen_locked>>

Drags == {"move", "resize"}
Under == up \cup {Nobody}

PointerInit ==
  /\ mode = "normal" /\ held_win = Nobody /\ held = {}
  /\ up = {} /\ floating = Unmanaged /\ fullscreen = {}
  /\ on \in [Wins -> Mons] /\ at \in Mons /\ selected = at
  /\ menu = FALSE /\ screen_locked = FALSE

-----------------------------------------------------------------------------
(* input_grab: a tiled window that is moved stays tiled *)
input_grab(w, m, before) ==
  IF w = Nobody \/ w \in Unmanaged \/ w \in fullscreen
  THEN mode' = before /\ held_win' = Nobody /\ UNCHANGED floating
  ELSE /\ mode' = m /\ held_win' = w
       /\ floating' = IF m # "move" THEN floating \cup {w} ELSE floating

(* input_title_grab: it waits for move_threshold of motion *)
input_title_grab(w) ==
  /\ held_win' = w /\ mode' = "pressed"
  /\ UNCHANGED floating

Presses(b) ==
  b \notin held /\ held' = held \cup {b} /\ UNCHANGED <<up, fullscreen, on, at, screen_locked>>
Releases(b) ==
  b \in held /\ held' = held \ {b} /\ UNCHANGED <<up, fullscreen, at, screen_locked>>
MenuOwnsThePointer == menu /\ ~screen_locked

(* The open menu takes the press: traypopup_click may close it. *)
PressInMenu(b) ==
  /\ MenuOwnsThePointer /\ Presses(b)
  /\ menu' \in BOOLEAN
  /\ UNCHANGED <<grabvars, floating, selected>>

PressWhileLocked(b) ==
  /\ screen_locked /\ Presses(b)
  /\ mode' = "pressed" /\ selected' = at
  /\ UNCHANGED <<held_win, floating, menu>>

(* A press on a window: its title bar (if it has one), moveresize, or
   anything else: another binding, the client. *)
PressOnWindow(b) ==
  /\ ~menu /\ ~screen_locked /\ Presses(b)
  /\ selected' = at
  /\ \E w \in up :
       \/ w \notin Unmanaged \cup fullscreen /\ input_title_grab(w)
       \/ \E m \in Drags : input_grab(w, m, "pressed")
       \/ mode' = "pressed" /\ UNCHANGED <<held_win, floating>>
  /\ UNCHANGED menu

(* A press on the bar or on nothing; under bar_single_monitor the bar leaves
   the selected monitor alone. *)
PressElsewhere(b) ==
  /\ ~menu /\ ~screen_locked /\ Presses(b)
  /\ mode' = "pressed" /\ selected' \in {at, selected}
  /\ UNCHANGED <<held_win, floating, menu>>

(* The open menu takes the release too: a window that is held stays held. *)
ReleaseInMenu(b) ==
  /\ MenuOwnsThePointer /\ Releases(b)
  /\ UNCHANGED <<mode, held_win, floating, on, selected, menu>>

(* "If you released any buttons, we exit interactive move/resize mode", and
   the window is dropped off on its new monitor. *)
ReleaseButton(b) ==
  /\ ~MenuOwnsThePointer /\ Releases(b)
  /\ IF ~screen_locked /\ mode \in Drags
     THEN selected' = at /\ on' = [on EXCEPT ![held_win] = at]
     ELSE UNCHANGED <<selected, on>>
  /\ mode' = "normal" /\ held_win' = Nobody
  /\ UNCHANGED <<floating, menu>>

(* input_motion with a time, input_cursor_moved with sloppy_focus: past
   move_threshold the title bar's window is dragged.  What a drag does to the
   geometry and to the order of the tiles is left out. *)
Motion ==
  /\ at' \in Mons /\ selected' = at'
  /\ IF ~menu /\ ~screen_locked /\ mode = "pressed" /\ held_win # Nobody
     THEN \/ input_grab(held_win, "move", "pressed")
          \/ UNCHANGED <<grabvars, floating>>
     ELSE UNCHANGED <<grabvars, floating>>
  /\ UNCHANGED <<held, up, fullscreen, on, menu, screen_locked>>

(* client_handle_map *)
MapWindow(w) ==
  /\ w \notin up /\ up' = up \cup {w}
  /\ on' = [on EXCEPT ![w] = selected]
  /\ floating' \in {floating, floating \cup {w}}
  /\ UNCHANGED <<grabvars, fullscreen, held, at, selected, menu, screen_locked>>

(* mutant: the window goes and the pointer still holds it *)
client_handle_unmap_Held(w) ==
  /\ w \in up /\ up' = up \ {w}
  /\ floating' = (floating \ {w}) \cup Unmanaged /\ fullscreen' = fullscreen \ {w}
  /\ mode' = IF held_win = w THEN "normal" ELSE mode
  /\ UNCHANGED <<held_win, on, held, at, selected, menu, screen_locked>>

(* client_handle_unmap lets go of a held window *)
client_handle_unmap(w) ==
  /\ w \in up /\ up' = up \ {w}
  /\ floating' = (floating \ {w}) \cup Unmanaged /\ fullscreen' = fullscreen \ {w}
  /\ IF held_win = w
     THEN mode' = "normal" /\ held_win' = Nobody
     ELSE UNCHANGED grabvars
  /\ UNCHANGED <<on, held, at, selected, menu, screen_locked>>

(* client_set_floating, client_set_fullscreen: by a key or by the client,
   a held window included *)
WindowChanges(w) ==
  /\ w \in up \ Unmanaged
  /\ \/ floating' = (floating \ {w}) \cup ({w} \ floating) /\ UNCHANGED fullscreen
     \/ fullscreen' = (fullscreen \ {w}) \cup ({w} \ fullscreen) /\ UNCHANGED floating
  /\ UNCHANGED <<grabvars, up, on, held, at, selected, menu, screen_locked>>

(* A tray item answers: its menu opens, whatever the pointer is doing.  A key
   or the item closes it. *)
MenuChanges ==
  /\ menu' = ~menu
  /\ UNCHANGED <<grabvars, winvars, held, at, selected, screen_locked>>

(* lock_handle_new_lock closes the menu; lock_destroy *)
PointerLockChanges ==
  /\ screen_locked' = ~screen_locked
  /\ menu' = (menu /\ screen_locked)
  /\ UNCHANGED <<grabvars, winvars, held, at, selected>>

PointerNext ==
  \/ \E b \in PointerButtons :
       \/ PressInMenu(b) \/ PressWhileLocked(b) \/ PressOnWindow(b) \/ PressElsewhere(b)
       \/ ReleaseInMenu(b) \/ ReleaseButton(b)
  \/ \E w \in Wins : MapWindow(w) \/ client_handle_unmap(w) \/ WindowChanges(w)
  \/ Motion \/ MenuChanges \/ PointerLockChanges

PointerSpec == PointerInit /\ [][PointerNext]_pointer_vars

-----------------------------------------------------------------------------
(* Properties. *)

(* The pointer never drags nothing, nor a window that is gone or an X11 menu:
   the lines of input_motion that move the window read input_grab_client
   without a check. *)
DragHasAWindow ==
  /\ mode \in Drags => held_win # Nobody
  /\ held_win # Nobody => held_win \in up \ Unmanaged
=============================================================================
