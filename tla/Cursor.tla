------------------------------- MODULE Cursor -------------------------------
(***************************************************************************)
(* The image of the pointer and its constraints, src/input/pointer.c:      *)
(* hidden while the user types, given by the client under it or by the     *)
(* window manager, confined or locked to a surface.                        *)
(*                                                                         *)
(* A surface takes its constraint with it when it is destroyed.  Every     *)
(* client here has the focus of the pointer when it sets an image.         *)
(***************************************************************************)
EXTENDS Naturals, Sequences, SequencesExt, Lists

CONSTANTS
  Surfaces,    (* of clients: windows and cursor images                      *)
  OneShot,     (* those whose constraint ends when it is deactivated         *)
  Nothing

ASSUME SurfacesAssumption == OneShot \subseteq Surfaces /\ Nothing \notin Surfaces

VARIABLES
  living,      (* surfaces that exist                                        *)
  constraints, (* surfaces with a constraint, newest first                   *)
  active,      (* input_active_constraint                                    *)
  told,        (* constraints whose client was told that they are active     *)
  hidden,      (* input_cursor_hidden                                        *)
  last,        (* input_last_cursor: shape, has_client_cursor, surface       *)
  listening,   (* the surface whose loss last_cursor listens for             *)
  image,       (* what wlr_cursor shows: a surface, a name, or Nothing       *)
  dragging     (* input_cursor_mode is CurMove or CurResize                  *)

cursor_vars ==
  <<living, constraints, active, told, hidden, last, listening, image, dragging>>
constrainvars == <<constraints, active, told>>
imagevars     == <<hidden, last, listening, image>>

CursorInit ==
  /\ living = Surfaces /\ constraints = <<>> /\ active = Nothing /\ told = {}
  /\ hidden = FALSE /\ image = "default" /\ dragging = FALSE
  /\ last = [shape |-> FALSE, client |-> FALSE, surface |-> Nothing]
  /\ listening = Nothing

-----------------------------------------------------------------------------
(* Constraints. *)

NewConstraint(s) ==
  /\ s \in living \ ToSet(constraints)
  /\ constraints' = <<s>> \o constraints
  /\ UNCHANGED <<living, active, told, imagevars, dragging>>

(* input_handle_pointer_constraint_destroy *)
ConstraintDestroy(s) ==
  /\ s \in ToSet(constraints)
  /\ constraints' = Without(constraints, s) /\ told' = told \ {s}
  /\ active' = IF active = s THEN Nothing ELSE active
  /\ UNCHANGED <<living, imagevars, dragging>>

(* mutant: the one that was active is not told *)
input_cursor_constrain_Silent(c, s) ==
  IF c.active = s THEN c
  ELSE [c EXCEPT !.active = s, !.told = @ \cup {s}]

(* input_cursor_constrain: the one that was active is deactivated, and a
   one-shot one is destroyed with that *)
input_cursor_constrain(c, s) ==
  IF c.active = s THEN c
  ELSE [active |-> s, told |-> (c.told \ {c.active}) \cup {s},
        constraints |-> IF c.active \in OneShot THEN Without(c.constraints, c.active)
                        ELSE c.constraints]

(* The loop of input_motion over every constraint: one that a step destroys
   is not visited any more. *)
ConstrainAll ==
  FoldLeft(LAMBDA c, s : IF Contains(c.constraints, s)
                         THEN input_cursor_constrain(c, s) ELSE c,
           [active |-> active, told |-> told, constraints |-> constraints],
           constraints)

(* input_cursor_activity: an image that was hidden comes back *)
input_cursor_activity ==
  /\ hidden' = FALSE
  /\ image' = CASE ~hidden     -> image
                [] hidden /\ last.shape -> "shape"
                [] hidden /\ ~last.shape /\ last.client -> last.surface
                [] hidden /\ ~last.shape /\ ~last.client -> "default"

(* input_motion *)
Moves ==
  /\ LET c == ConstrainAll
     IN  active' = c.active /\ told' = c.told /\ constraints' = c.constraints
  /\ \/ input_cursor_activity
     \/ hidden' = FALSE /\ image' = "default" /\ ~dragging
     \/ UNCHANGED <<hidden, image>>   (* a locked pointer does not move *)
  /\ UNCHANGED <<living, last, listening, dragging>>

-----------------------------------------------------------------------------
(* The image. *)

(* input_set_client_cursor, from input_handle_request_cursor: s may be
   Nothing, to hide the cursor *)
RequestCursor(s) ==
  /\ ~dragging /\ s \in living \cup {Nothing}
  /\ last' = [shape |-> FALSE, client |-> TRUE, surface |-> s]
  /\ listening' = s
  /\ image' = IF hidden THEN image ELSE s
  /\ UNCHANGED <<living, constrainvars, hidden, dragging>>

(* input_handle_request_cursor_shape keeps the listener of the old surface *)
RequestCursorShape ==
  /\ ~dragging
  /\ last' = [last EXCEPT !.shape = TRUE, !.surface = Nothing]
  /\ image' = IF hidden THEN image ELSE "shape"
  /\ UNCHANGED <<living, constrainvars, hidden, listening, dragging>>

(* input_hide_cursor, by a key or by the timer that hides it *)
HideCursor ==
  /\ hidden' = TRUE /\ image' = Nothing
  /\ UNCHANGED <<living, constrainvars, last, listening, dragging>>

(* A press or a release: input_cursor_activity, and input_grab or the end of
   a drag set an image of their own. *)
DragChanges ==
  /\ dragging' = ~dragging /\ hidden' = FALSE
  /\ image' = IF dragging THEN "default" ELSE "grabbing"
  /\ UNCHANGED <<living, constrainvars, last, listening>>

(* input_handle_last_cursor_destroy; the library drops a destroyed image *)
SurfaceDestroy(s) ==
  /\ s \in living /\ living' = living \ {s}
  /\ constraints' = Without(constraints, s) /\ told' = told \ {s}
  /\ active' = IF active = s THEN Nothing ELSE active
  /\ IF listening = s
     THEN last' = [last EXCEPT !.surface = Nothing] /\ listening' = Nothing
     ELSE UNCHANGED <<last, listening>>
  /\ image' = IF image = s THEN Nothing ELSE image
  /\ UNCHANGED <<hidden, dragging>>

NewSurface(s) ==
  /\ s \notin living /\ living' = living \cup {s}
  /\ UNCHANGED <<constrainvars, imagevars, dragging>>

CursorNext ==
  \/ \E s \in Surfaces :
       NewConstraint(s) \/ ConstraintDestroy(s) \/ SurfaceDestroy(s) \/ NewSurface(s)
  \/ \E s \in Surfaces \cup {Nothing} : RequestCursor(s)
  \/ Moves \/ RequestCursorShape \/ HideCursor \/ DragChanges

CursorSpec == CursorInit /\ [][CursorNext]_cursor_vars

-----------------------------------------------------------------------------
(* Properties. *)

(* At most one client believes that its constraint holds the pointer, and it
   is the one that does. *)
OneConstraintIsActive == told = {active} \ {Nothing}
=============================================================================
