------------------------------ MODULE Gestures ------------------------------
(***************************************************************************)
(* The gestures of a touchpad, src/input/gesture.c, and the magnifier they *)
(* drive, src/output/magnifier.c.  A gesture is taken by a binding or by   *)
(* the magnifier when it begins, or goes to the client; the session may be *)
(* locked at any point of it.  One device, whose gestures follow one       *)
(* another.                                                                *)
(***************************************************************************)
EXTENDS Naturals, FiniteSets

CONSTANTS
  BoundSwipes,  (* numbers of fingers with a swipe binding                   *)
  BoundPinches,
  Fingers,
  ZoomMax,      (* ZOOMMAX, in steps of the zoom; 1 is no zoom               *)
  OutputSizes,  (* sizes the output can be set to                            *)
  NoSize

ASSUME GesturesAssumption ==
  /\ BoundSwipes \cup BoundPinches \subseteq Fingers
  /\ ZoomMax \in Nat \ {0} /\ NoSize \notin OutputSizes

VARIABLES
  device,      (* the gesture the fingers make, "none" between two           *)
  client_sees, (* the one the client was told of; "torn" if out of step      *)
  ours,        (* input_gesture.ours                                         *)
  zoom_from,   (* input_gesture.zoom                                         *)
  travel,      (* what dx, dy and scale amount to: a motion, or "short"      *)
  guarded,     (* lock_active                                                *)
  zoom,        (* of the monitor                                             *)
  locks,       (* software cursors and rendering locked on its output        *)
  size,        (* of the output                                              *)
  zoomchain, zoombuf, zoomtex  (* sizes of the magnifier's buffers           *)

gesturevars == <<device, client_sees, ours, zoom_from, travel>>
framevars   == <<size, zoomchain, zoombuf, zoomtex>>
gestures_vars == <<gesturevars, framevars, guarded, zoom, locks>>

Swipes  == {"left", "right", "up", "down"}
Pinches == {"in", "out"}

GesturesInit ==
  /\ device = "none" /\ client_sees = "none" /\ ours = FALSE /\ zoom_from = 0
  /\ travel = "short" /\ guarded = FALSE /\ zoom = 1 /\ locks = 0
  /\ size \in OutputSizes /\ zoomchain = NoSize /\ zoombuf = NoSize /\ zoomtex = NoSize

-----------------------------------------------------------------------------
(* What the client is told, and whether that makes sense to it. *)
TellBegin(kind)  == client_sees' = IF client_sees = "none" THEN kind ELSE "torn"
TellUpdate(kind) == client_sees' = IF client_sees = kind THEN kind ELSE "torn"
TellEnd(kind)    == client_sees' = IF client_sees = kind THEN "none" ELSE "torn"

(* magnifier_zoom *)
magnifier_zoom(level) ==
  LET z == IF level < 1 THEN 1 ELSE IF level > ZoomMax THEN ZoomMax ELSE level
  IN  /\ zoom' = z
      /\ locks' = IF (z > 1) = (zoom > 1) THEN locks
                  ELSE IF z > 1 THEN locks + 1 ELSE locks - 1

(* magnifier_magnify *)
magnifier_magnify ==
  /\ \E level \in {1} \cup {zoom + 1} \cup {zoom - 1} : magnifier_zoom(level)
  /\ UNCHANGED <<gesturevars, framevars, guarded>>

(* input_gesture_bound *)
input_gesture_bound(bound, fingers) == ~guarded /\ fingers \in bound

SwipeBegin ==
  /\ device = "none" /\ device' = "swipe"
  /\ \E fingers \in Fingers :
       /\ ours' = input_gesture_bound(BoundSwipes, fingers)
       /\ IF ours' THEN travel' = "short" /\ UNCHANGED client_sees
                   ELSE TellBegin("swipe") /\ UNCHANGED travel
  /\ UNCHANGED <<zoom_from, guarded, zoom, locks, framevars>>

SwipeUpdate ==
  /\ device = "swipe"
  /\ IF ours THEN travel' \in Swipes \cup {"short"} /\ UNCHANGED client_sees
             ELSE TellUpdate("swipe") /\ UNCHANGED travel
  /\ UNCHANGED <<device, ours, zoom_from, guarded, zoom, locks, framevars>>

(* input_gesture_run: a bound action, of which only the magnifier's matters *)
input_gesture_run ==
  \/ \E level \in {zoom + 1, zoom - 1} : magnifier_zoom(level)
  \/ UNCHANGED <<zoom, locks>>

(* input_handle_swipe_end, cancelled or not *)
SwipeEnd ==
  /\ device = "swipe" /\ device' = "none" /\ ours' = FALSE
  /\ IF ours THEN UNCHANGED client_sees ELSE TellEnd("swipe")
  /\ IF ours /\ ~guarded /\ travel # "short" THEN input_gesture_run
     ELSE UNCHANGED <<zoom, locks>>
  /\ UNCHANGED <<zoom_from, travel, guarded, framevars>>

(* input_handle_pinch_begin: with the zoom's modifier it is the magnifier's *)
PinchBegin ==
  /\ device = "none" /\ device' = "pinch"
  /\ \/ ~guarded /\ zoom_from' = zoom /\ UNCHANGED <<ours, travel, client_sees>>
     \/ \E fingers \in Fingers :
          /\ ours' = input_gesture_bound(BoundPinches, fingers)
          /\ IF ours' THEN travel' = "short" /\ UNCHANGED client_sees
                      ELSE TellBegin("pinch") /\ UNCHANGED travel
          /\ UNCHANGED zoom_from
  /\ UNCHANGED <<guarded, zoom, locks, framevars>>

PinchUpdate ==
  /\ device = "pinch"
  /\ \/ /\ zoom_from # 0
        /\ \/ \E level \in 0 .. ZoomMax + 1 : magnifier_zoom(level)
           \/ UNCHANGED <<zoom, locks>>      (* no monitor under the pointer *)
        /\ UNCHANGED <<travel, client_sees>>
     \/ /\ zoom_from = 0
        /\ IF ours THEN travel' \in Pinches \cup {"short"} /\ UNCHANGED client_sees
                   ELSE TellUpdate("pinch") /\ UNCHANGED travel
        /\ UNCHANGED <<zoom, locks>>
  /\ UNCHANGED <<device, ours, zoom_from, guarded, framevars>>

(* mutant: the pinch that zoomed is not over *)
PinchEnd_Zooming ==
  /\ device = "pinch" /\ device' = "none" /\ ours' = FALSE
  /\ IF zoom_from # 0 \/ ours THEN UNCHANGED client_sees ELSE TellEnd("pinch")
  /\ UNCHANGED <<zoom_from, zoom, locks, travel, guarded, framevars>>

(* input_handle_pinch_end *)
PinchEnd ==
  /\ device = "pinch" /\ device' = "none"
  /\ zoom_from' = 0 /\ ours' = (ours /\ zoom_from # 0)
  /\ IF zoom_from # 0 \/ ours THEN UNCHANGED client_sees ELSE TellEnd("pinch")
  /\ IF zoom_from = 0 /\ ours /\ ~guarded /\ travel # "short" THEN input_gesture_run
     ELSE UNCHANGED <<zoom, locks>>
  /\ UNCHANGED <<travel, guarded, framevars>>

HoldBegin ==
  /\ device = "none" /\ device' = "hold" /\ TellBegin("hold")
  /\ UNCHANGED <<ours, zoom_from, travel, guarded, zoom, locks, framevars>>

HoldEnd ==
  /\ device = "hold" /\ device' = "none" /\ TellEnd("hold")
  /\ UNCHANGED <<ours, zoom_from, travel, guarded, zoom, locks, framevars>>

GuardChanges ==
  /\ guarded' = ~guarded
  /\ UNCHANGED <<gesturevars, zoom, locks, framevars>>

-----------------------------------------------------------------------------
(* The magnifier's frame. *)

(* magnifier_drop *)
magnifier_drop == zoomchain' = NoSize /\ zoombuf' = NoSize /\ zoomtex' = NoSize

(* monitor_handle_frame after a zoom: magnifier_frame drops the buffers *)
PlainFrame ==
  /\ zoom <= 1 /\ zoomchain # NoSize
  /\ magnifier_drop
  /\ UNCHANGED <<gesturevars, guarded, zoom, locks, size>>

(* mutant: buffers of the old size are used on *)
ZoomedFrame_Stale ==
  /\ zoom > 1
  /\ zoomchain' = IF zoomchain = NoSize THEN size ELSE zoomchain
  /\ \/ UNCHANGED <<zoombuf, zoomtex>>
     \/ zoombuf' = size /\ zoomtex' \in {NoSize, size}
  /\ UNCHANGED <<gesturevars, guarded, zoom, locks, size>>

(* magnifier_frame: the output's swapchain may fail, then the magnifier's
   own, the frame to be magnified, and its texture; a texture that is there
   and shows the last frame is used again *)
ZoomedFrame ==
  /\ zoom > 1
  /\ \/ UNCHANGED <<zoomchain, zoombuf, zoomtex>>
     \/ /\ zoomchain # size
        /\ \/ magnifier_drop
           \/ zoomchain' = size /\ zoombuf' = NoSize /\ zoomtex' = NoSize
     \/ /\ zoomchain' = size /\ zoombuf' = size /\ zoomtex' \in {NoSize, size}
  /\ UNCHANGED <<gesturevars, guarded, zoom, locks, size>>

(* Another mode or scale is set on the output. *)
SizeChanges ==
  /\ size' \in OutputSizes \ {size}
  /\ UNCHANGED <<gesturevars, guarded, zoom, locks, zoomchain, zoombuf, zoomtex>>

GesturesNext ==
  \/ SwipeBegin \/ SwipeUpdate \/ SwipeEnd
  \/ PinchBegin \/ PinchUpdate \/ PinchEnd
  \/ HoldBegin \/ HoldEnd \/ GuardChanges
  \/ magnifier_magnify \/ PlainFrame \/ ZoomedFrame \/ SizeChanges

GesturesSpec == GesturesInit /\ [][GesturesNext]_gestures_vars

-----------------------------------------------------------------------------
(* Properties. *)

(* A client sees whole gestures: what it is told begins, goes on and ends, and
   it is told of no end it does not wait for, although bindings, the lock and
   the magnifier take gestures away from it. *)
ClientSeesWholeGestures == client_sees \in {"none", device}

(* Software cursors and rendering are locked on the output once while it is
   zoomed and never after, and the texture that is magnified is a frame of
   the swapchain in use: dropping one drops the others. *)
ZoomIsConsistent ==
  /\ locks = IF zoom > 1 THEN 1 ELSE 0
  /\ zoomtex # NoSize => zoomtex = zoombuf
  /\ zoombuf # NoSize => zoombuf = zoomchain
=============================================================================
