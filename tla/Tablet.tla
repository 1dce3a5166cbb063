------------------------------- MODULE Tablet -------------------------------
(***************************************************************************)
(* Pens and fingers, src/input/tablet.c.  A surface that knows tablets     *)
(* gets the pen itself, one that knows touch gets the finger, and anything *)
(* else gets a click of the pointer: one of the ways is chosen when the    *)
(* press comes, and the release must go the same way although what is      *)
(* under the contact has changed, the session was locked or the surface is *)
(* gone by then.                                                           *)
(*                                                                         *)
(* What lies under a pen or a finger is a free choice of each event.  The  *)
(* window a stroke or a tap focuses is left to module Windows, where a     *)
(* click focuses it, the motion of a drag to module Pointer.               *)
(***************************************************************************)
EXTENDS Naturals, FiniteSets

CONSTANTS
  Tools,           (* the tools of the tablets                               *)
  Totems,          (* those tablet-v2 has no tool for                        *)
  PenButtons,      (* their buttons                                          *)
  Points,          (* ids of touch points                                    *)
  Drawables,       (* surfaces                                               *)
  LockSurface,     (* the session lock's among them                          *)
  TabletAware,     (* surfaces of clients that bound tablet-v2               *)
  TouchAware,      (* surfaces of clients that bound wl_touch                *)
  Nowhere          (* no surface                                             *)

ASSUME TabletAssumption ==
  /\ LockSurface \in Drawables /\ Nowhere \notin Drawables \cup Points
  /\ TabletAware \subseteq Drawables /\ TouchAware \subseteq Drawables
  /\ Totems \subseteq Tools

VARIABLES
  pens,        (* a TabletTool each, and its wlr_tablet_v2_tablet_tool       *)
  touched,     (* the surface each touch point of the seat is on             *)
  fingers,     (* the touch points that are down                             *)
  emulated_touch, (* tablet_emulated_touch; Nowhere is -1                    *)
  presses,     (* how often each button of the pointer is down               *)
  alive,       (* surfaces that exist                                        *)
  lock_is_up,  (* lock_active                                                *)
  pointer_busy (* input_cursor_mode is not CurNormal, or traypopup_active()  *)

tablet_vars == <<pens, touched, fingers, emulated_touch, presses, alive,
                 lock_is_up, pointer_busy>>
world == <<alive, lock_is_up, pointer_busy>>

(* tip, pushed: what the hand does.  focus, next, down, buttons: what wlroots
   told of the tool, next being the surface its grab will end on.  emulating,
   emubuttons: what went out as the pointer's. *)
NewPen == [near |-> FALSE, tip |-> FALSE, pushed |-> {},
           focus |-> Nowhere, next |-> Nowhere, down |-> FALSE, buttons |-> {},
           emulating |-> FALSE, emubuttons |-> {}]

PointersButtons == {"left", "middle", "right", "side"}

TabletInit ==
  /\ pens = [t \in Tools |-> NewPen]
  /\ touched = [i \in Points |-> Nowhere] /\ fingers = {} /\ emulated_touch = Nowhere
  /\ presses = [b \in PointersButtons |-> 0]
  /\ alive = Drawables /\ lock_is_up = FALSE /\ pointer_busy = FALSE

-----------------------------------------------------------------------------
(* The lock covers the windows; the background it is shown on has no surface. *)
Below ==
  {Nowhere} \cup (alive \cap (IF lock_is_up THEN {LockSurface} ELSE Drawables \ {LockSurface}))

tablet_stylus_button(b) ==
  CASE b = "stylus"  -> "middle"
    [] b = "stylus2" -> "right"
    [] b = "stylus3" -> "side"
    [] OTHER         -> b

tablet_emulate_button(b, pressed) ==
  presses' = [presses EXCEPT ![b] = IF pressed THEN @ + 1 ELSE @ - 1]

(* wlroots' implicit grab: while the tip or a button is down on a surface the
   tool stays there, and goes where it was last seen when all are up *)
Grabbed(p) == p.down \/ p.buttons # {}
SeenOn(p, s) == IF Grabbed(p) THEN [p EXCEPT !.next = s]
                ELSE [p EXCEPT !.focus = s, !.next = s]
LetGo(p) == IF Grabbed(p) THEN p ELSE [p EXCEPT !.focus = p.next]

(* tablet_tool_motion: the pen itself to a surface that takes it, and to
   nothing while it is the pointer *)
tablet_tool_motion(t, p, s) ==
  IF /\ t \notin Totems /\ ~p.emulating /\ ~pointer_busy /\ s \in TabletAware
  THEN SeenOn(p, s) ELSE SeenOn(p, Nowhere)

-----------------------------------------------------------------------------
(* Pens. *)

Pen(t, p) == pens' = [pens EXCEPT ![t] = p]
NoTouch == UNCHANGED <<touched, fingers, emulated_touch>>

(* tablet_handle_axis, and tablet_handle_proximity of a tool that comes near *)
PenMoves(t) ==
  /\ \E s \in Below : Pen(t, tablet_tool_motion(t, [pens[t] EXCEPT !.near = TRUE], s))
  /\ NoTouch /\ UNCHANGED <<presses, world>>

(* A tool is lifted, or its tablet unplugged: libinput reports the tip up and
   the buttons released first. *)
PenLeaves(t) ==
  /\ pens[t].near /\ ~pens[t].tip /\ pens[t].pushed = {}
  /\ Pen(t, [SeenOn(pens[t], Nowhere) EXCEPT !.near = FALSE])
  /\ NoTouch /\ UNCHANGED <<presses, world>>

(* The tip touches down on a surface that takes the pen: a stroke. *)
StrokeBegins(t) ==
  LET p == pens[t] IN
  /\ p.near /\ ~p.tip /\ p.focus # Nowhere
  /\ Pen(t, [p EXCEPT !.tip = TRUE, !.down = TRUE])
  /\ NoTouch /\ UNCHANGED <<presses, world>>

(* Anything else gets a click; so does a surface that takes the pen when a
   left click on windows is bound with the modifiers that are down, which
   tablet_tip_bound denies to a locked session. *)
TipClicks(t) ==
  LET p == pens[t] IN
  /\ p.near /\ ~p.tip /\ (p.focus # Nowhere => ~lock_is_up)
  /\ Pen(t, [SeenOn(p, Nowhere) EXCEPT !.tip = TRUE, !.emulating = TRUE])
  /\ tablet_emulate_button("left", TRUE)
  /\ NoTouch /\ UNCHANGED world

(* tablet_handle_tip, up *)
TipUp(t) ==
  LET p == [pens[t] EXCEPT !.tip = FALSE] IN
  /\ pens[t].tip
  /\ IF p.emulating
     THEN /\ tablet_emulate_button("left", FALSE)
          /\ \E s \in Below : Pen(t, tablet_tool_motion(t, [p EXCEPT !.emulating = FALSE], s))
     ELSE /\ Pen(t, LetGo([p EXCEPT !.down = FALSE])) /\ UNCHANGED presses
  /\ NoTouch /\ UNCHANGED world

(* tablet_handle_button, pressed *)
ButtonDown(t, b) ==
  LET p == [pens[t] EXCEPT !.pushed = @ \cup {b}] IN
  /\ pens[t].near /\ b \notin pens[t].pushed
  /\ IF p.focus = Nowhere \/ p.emulating
     THEN /\ Pen(t, [p EXCEPT !.emubuttons = @ \cup {b}])
          /\ tablet_emulate_button(tablet_stylus_button(b), TRUE)
     ELSE Pen(t, [p EXCEPT !.buttons = @ \cup {b}]) /\ UNCHANGED presses
  /\ NoTouch /\ UNCHANGED world

(* mutant: the surface the tool is on decides, as at the press *)
ButtonUp_Focus(t, b) ==
  LET p == [pens[t] EXCEPT !.pushed = @ \ {b}] IN
  /\ b \in pens[t].pushed
  /\ IF p.focus = Nowhere \/ p.emulating
     THEN /\ Pen(t, [p EXCEPT !.emubuttons = @ \ {b}])
          /\ tablet_emulate_button(tablet_stylus_button(b), FALSE)
     ELSE Pen(t, LetGo([p EXCEPT !.buttons = @ \ {b}])) /\ UNCHANGED presses
  /\ NoTouch /\ UNCHANGED world

(* tablet_handle_button, released "the same way it was pressed" *)
ButtonUp(t, b) ==
  LET p == [pens[t] EXCEPT !.pushed = @ \ {b}] IN
  /\ b \in pens[t].pushed
  /\ IF b \in p.emubuttons
     THEN /\ Pen(t, [p EXCEPT !.emubuttons = @ \ {b}])
          /\ tablet_emulate_button(tablet_stylus_button(b), FALSE)
     ELSE Pen(t, LetGo([p EXCEPT !.buttons = @ \ {b}])) /\ UNCHANGED presses
  /\ NoTouch /\ UNCHANGED world

-----------------------------------------------------------------------------
(* Fingers. *)

NoPen == UNCHANGED pens

(* A finger on a surface that takes touch, unless the pointer is busy;
   otherwise "emulate a click, one finger at a time". *)
tablet_handle_touch_down(i) ==
  /\ i \notin fingers /\ fingers' = fingers \cup {i}
  /\ \E s \in Below :
       IF s \in TouchAware /\ ~pointer_busy
       THEN /\ touched' = [touched EXCEPT ![i] = s]
            /\ UNCHANGED <<emulated_touch, presses>>
       ELSE /\ IF emulated_touch = Nowhere
               THEN emulated_touch' = i /\ tablet_emulate_button("left", TRUE)
               ELSE UNCHANGED <<emulated_touch, presses>>
            /\ UNCHANGED touched
  /\ NoPen /\ UNCHANGED world

Lifted(i) == fingers' = fingers \ {i}
EmulatedTouchUp == emulated_touch' = Nowhere /\ tablet_emulate_button("left", FALSE)

tablet_handle_touch_up(i) ==
  /\ i \in fingers /\ Lifted(i)
  /\ IF i = emulated_touch THEN EmulatedTouchUp /\ UNCHANGED touched
     ELSE touched' = [touched EXCEPT ![i] = Nowhere] /\ UNCHANGED <<emulated_touch, presses>>
  /\ NoPen /\ UNCHANGED world

(* A palm: all the points of the client are cancelled with it. *)
tablet_handle_touch_cancel(i) ==
  /\ i \in fingers /\ Lifted(i)
  /\ IF i = emulated_touch THEN EmulatedTouchUp /\ UNCHANGED touched
     ELSE /\ touched' = [j \in Points |->
                            IF touched[j] = touched[i] THEN Nowhere ELSE touched[j]]
          /\ UNCHANGED <<emulated_touch, presses>>
  /\ NoPen /\ UNCHANGED world

-----------------------------------------------------------------------------
(* wlroots drops the focus and the touch points of a surface that goes. *)
SurfaceGoes(s) ==
  /\ s \in alive /\ alive' = alive \ {s}
  /\ pens' = [t \in Tools |->
       [pens[t] EXCEPT !.focus = IF @ = s THEN Nowhere ELSE @,
                       !.next  = IF @ = s THEN Nowhere ELSE @]]
  /\ touched' = [i \in Points |-> IF touched[i] = s THEN Nowhere ELSE touched[i]]
  /\ UNCHANGED <<fingers, emulated_touch, presses, lock_is_up, pointer_busy>>

SurfaceComes(s) ==
  /\ s \notin alive /\ alive' = alive \cup {s}
  /\ NoPen /\ NoTouch /\ UNCHANGED <<presses, lock_is_up, pointer_busy>>

LockComesOrGoes ==
  /\ lock_is_up' = ~lock_is_up
  /\ NoPen /\ NoTouch /\ UNCHANGED <<presses, alive, pointer_busy>>

(* A window is grabbed or dropped, a tray menu opens or closes. *)
PointerBusyChanges ==
  /\ pointer_busy' = ~pointer_busy
  /\ NoPen /\ NoTouch /\ UNCHANGED <<presses, alive, lock_is_up>>

TabletNext ==
  \/ \E t \in Tools :
       \/ PenMoves(t) \/ PenLeaves(t) \/ StrokeBegins(t) \/ TipClicks(t) \/ TipUp(t)
       \/ \E b \in PenButtons : ButtonDown(t, b) \/ ButtonUp(t, b)
  \/ \E i \in Points :
       \/ tablet_handle_touch_down(i) \/ tablet_handle_touch_up(i) \/ tablet_handle_touch_cancel(i)
  \/ \E s \in Drawables : SurfaceGoes(s) \/ SurfaceComes(s)
  \/ LockComesOrGoes \/ PointerBusyChanges

TabletSpec == TabletInit /\ [][TabletNext]_tablet_vars

-----------------------------------------------------------------------------
(* Properties. *)

(* With the pen lifted off the glass, its buttons let go and no finger down,
   nothing is left pressed: no button of the pointer, no tip, no button of a
   tool, no touch point. *)
NothingStaysPressed ==
  (fingers = {} /\ \A t \in Tools : ~pens[t].tip /\ pens[t].pushed = {}) =>
     /\ \A b \in PointersButtons : presses[b] = 0
     /\ \A t \in Tools : ~Grabbed(pens[t]) /\ ~pens[t].emulating
     /\ \A i \in Points : touched[i] = Nowhere
     /\ emulated_touch = Nowhere
=============================================================================
