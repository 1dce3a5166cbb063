----------------------------- MODULE WindowCore -----------------------------
(***************************************************************************)
(* The state of the window manager and the functions every handler of      *)
(* g0wm calls to change it: client_top, client_focus, layout_arrange,      *)
(* client_set_monitor and their helpers.                                   *)
(*                                                                         *)
(* g0wm runs one handler at a time from its event loop, and a handler      *)
(* nests these functions: client_set_monitor arranges two monitors and     *)
(* then refocuses, and the next client of a loop starts from what the      *)
(* previous one left.  They are therefore operators from a state record s  *)
(* to a state record, applied in the order of the code; the handlers       *)
(* (modules Windows, Outputs, Focus) are actions on the variable that      *)
(* holds the record.                                                       *)
(*                                                                         *)
(* Geometry, decorations, stacking inside a layer and the cursor are left  *)
(* out: what a handler decides is who is on which monitor and tag, what is *)
(* drawn, and who has the keyboard.                                        *)
(***************************************************************************)
EXTENDS Integers, Sequences, FiniteSets, SequencesExt, Lists

CONSTANTS
  Clients,    (* managed windows: xdg toplevels and ordinary X11 windows      *)
  Unmanaged,  (* override-redirect X11 windows: menus, tooltips               *)
  WantsFocus, (* the unmanaged ones for which client_wants_focus() is true    *)
  Monitors,   (* outputs that may be plugged in                               *)
  Layers,     (* keyboard interactive layer surfaces                          *)
  TopLayers,  (* those of them on the layers TOP and OVERLAY                  *)
  Overlays,   (* those of them on the layer OVERLAY                           *)
  TagCount,   (* tag_count: tags are numbered from 1 here                     *)
  Parent,     (* the toplevel a window may name as its parent, or None        *)
  Modal,      (* dialogs that declared themselves modal                       *)
  None        (* nullptr                                                      *)

ASSUME TagCountAssumption == TagCount \in Nat \ {0}
ASSUME WindowKindsAssumption ==
  /\ WantsFocus \subseteq Unmanaged
  /\ TopLayers \subseteq Layers /\ Overlays \subseteq TopLayers
  /\ Modal \subseteq Clients
  /\ Parent \in [Clients -> Clients \cup {None}]
ASSUME FiniteAssumption == IsFiniteSet(Clients) /\ IsFiniteSet(Monitors)
(* wlroots refuses a parent that would close a cycle *)
ASSUME ParentAssumption ==
 \E depth \in [Clients -> 0 .. Cardinality(Clients)] :
    \A c \in Clients : Parent[c] # None => depth[Parent[c]] < depth[c]
ASSUME DistinctAssumption ==
  /\ None \notin Clients \cup Unmanaged \cup Layers \cup Monitors
  /\ Clients \cap (Unmanaged \cup Layers \cup Monitors) = {}
  /\ Unmanaged \cap (Layers \cup Monitors) = {}
  /\ Layers \cap Monitors = {}

Tags == 1 .. TagCount

(* Who can hold the keyboard; a monitor stands for its lock surface.       *)
Surfaces == Clients \cup Unmanaged \cup Layers \cup Monitors

(***************************************************************************)
(* The globals of the program and the fields of Client and Monitor that    *)
(* the handlers read.  A flag of a client is the set of clients that have  *)
(* it.  What belongs to outputs, layer surfaces, menus and the session     *)
(* lock is apart, in session: no handler of a window changes it.           *)
(***************************************************************************)
SessionState == [
  exclusive_focus : Unmanaged \cup Layers \cup {None},
  menus_up        : SUBSET Unmanaged,   (* mapped unmanaged windows           *)
  layers          : Seq(Layers),        (* layer surfaces, newest first       *)
  layer_mon       : [Layers -> Monitors \cup {None}],
  layers_up       : SUBSET Layers,      (* mapped layer surfaces              *)
  lock_active     : BOOLEAN,
  lock_current    : BOOLEAN,            (* a locker is connected              *)
  lock_surfaces   : Seq(Monitors),      (* its surfaces, newest first         *)
  asleep          : SUBSET Monitors,    (* switched off to save power         *)
  layout          : SUBSET Monitors ]   (* have a place in output_layout      *)

WindowState == [
  clients          : Seq(Clients),      (* list clients: the tiling order     *)
  focus_stack      : Seq(Clients),      (* list focus_stack: last focused first *)
  mapped           : SUBSET Clients,    (* surface->mapped                    *)
  linked           : SUBSET Clients,    (* whose parent is set at the moment  *)
  ftl              : SUBSET Clients,    (* have a foreign toplevel handle     *)
  toplevel_active  : Clients \cup {None},
  mon              : [Clients -> Monitors \cup {None}],
  tags             : [Clients -> SUBSET Tags],
  isfloating       : SUBSET Clients,
  isfullscreen     : SUBSET Clients,
  isurgent         : SUBSET Clients,
  mapwait          : SUBSET Clients,    (* held back until they fit their tile *)
  shown            : SUBSET Clients,    (* scene->node enabled                *)
  monitors         : Seq(Monitors),     (* list monitors                      *)
  enabled          : SUBSET Monitors,   (* wlr_output->enabled                *)
  selected_monitor : Monitors \cup {None},
  tagset           : [Monitors -> [{0, 1} -> SUBSET Tags]],
  seltags          : [Monitors -> {0, 1}],
  kbd              : Surfaces \cup {None},  (* seat's focused surface         *)
  session          : SessionState ]

-----------------------------------------------------------------------------
(* Reading the state. *)

(* tagset[seltags]: the tags a monitor shows *)
Viewed(s, m) == s.tagset[m][s.seltags[m]]

(* VISIBLEON *)
Visible(s, c, m) ==
  /\ m # None
  /\ s.mon[c] = m
  /\ s.tags[c] \cap Viewed(s, m) # {}

(* The first client of focus_stack that satisfies P, or None. *)
FirstFocused(s, P(_)) ==
  LET at == {i \in DOMAIN s.focus_stack : P(s.focus_stack[i])}
  IN  IF at = {} THEN None ELSE s.focus_stack[Min(at)]

client_top(s, m) == FirstFocused(s, LAMBDA c : Visible(s, c, m))

client_get_parent(s, c) == IF c \in s.linked THEN Parent[c] ELSE None

(* One turn of client_modal_top: the last focused modal dialog of c, or c. *)
ModalChild(s, c) ==
  LET dialog == FirstFocused(s, LAMBDA d :
                  /\ d # c
                  /\ d \in Modal
                  /\ s.mon[d] # None
                  /\ Visible(s, d, s.mon[d])
                  /\ client_get_parent(s, d) = c)
  IN  IF dialog = None THEN c ELSE dialog

(* What ModalChild leads to from c. *)
Dialogs(s, c) ==
  {d \in Clients : \A D \in SUBSET Clients :
     (c \in D /\ \A x \in D : ModalChild(s, x) \in D) => d \in D}

(* client_modal_top: follow ModalChild until it stays *)
client_modal_top(s, c) ==
  CHOOSE d \in Dialogs(s, c) : ModalChild(s, d) = d

-----------------------------------------------------------------------------
(* Changing it. *)

toplevel_focus(s, c) ==
  IF c \in Unmanaged THEN s
  ELSE [s EXCEPT !.toplevel_active = IF c \in s.ftl THEN c ELSE None]

(* mutant: only a menu keeps the keyboard *)
KeepsKeyboard_Menu(s) ==
  s.kbd \in WantsFocus /\ s.kbd = s.session.exclusive_focus

(* The two early returns of client_focus that leave the keyboard where it
   is: an overlay has it, or an exclusive menu that wants it. *)
KeepsKeyboard(s) ==
  \/ s.kbd \in TopLayers \cap s.session.layers_up
  \/ s.kbd \in WantsFocus /\ s.kbd = s.session.exclusive_focus

(* wlr_seat_keyboard_notify_enter, or _clear_focus for None *)
TakeKeyboard(s, c) == toplevel_focus([s EXCEPT !.kbd = c], c)

(* The head of the focus stack, the selected monitor and the urgency hint
   change before the keyboard does, and even if it does not. *)
Raise(s, c) ==
  IF c \in Clients
  THEN [s EXCEPT !.focus_stack = ToHead(@, c),
                 !.selected_monitor = s.mon[c],
                 !.isurgent = @ \ {c}]
  ELSE s

(* mutant: dialogs do not block *)
Target_Self(s, c) == c

(* A window that a modal dialog blocks passes the focus on to it. *)
Target(s, c) == IF c \in Clients THEN client_modal_top(s, c) ELSE c

Offer(r, c) == IF KeepsKeyboard(r) THEN r ELSE TakeKeyboard(r, c)

FocusOn(s, c) ==
  IF s.session.lock_active \/ (c # None /\ c = s.kbd) THEN s
  ELSE Offer(Raise(s, c), c)

client_focus(s, client) == FocusOn(s, Target(s, client))

(* client_focus(client_top(selected_monitor), 1), how most handlers end *)
Refocus(s) == client_focus(s, client_top(s, s.selected_monitor))

layout_arrange(s, m) ==
  IF m \notin s.enabled THEN s
  ELSE [s EXCEPT !.shown = {c \in Clients :
          IF c \in ToSet(s.clients) /\ s.mon[c] = m
          THEN Visible(s, c, m) /\ c \notin s.mapwait
          ELSE c \in s.shown}]

(* layout_arrange as client_set_fullscreen and client_set_floating call it *)
ArrangeOf(s, c) ==
  IF s.mon[c] # None /\ c \in s.mapped THEN layout_arrange(s, s.mon[c]) ELSE s

client_set_fullscreen(s, c, on) ==
  ArrangeOf([s EXCEPT !.isfullscreen = IF on THEN @ \cup {c} ELSE @ \ {c}], c)

client_set_floating(s, c, on) ==
  ArrangeOf([s EXCEPT !.isfloating = IF on THEN @ \cup {c} ELSE @ \ {c}], c)

(* mutant: the first tag set, whichever is selected *)
TagsOn_First(s, m, newtags) == IF newtags # {} THEN newtags ELSE s.tagset[m][0]

(* the tags asked for or, for lack of any, those on view on the monitor *)
TagsOn(s, m, newtags) == IF newtags # {} THEN newtags ELSE Viewed(s, m)

client_set_monitor(s, c, m, newtags) ==
  LET old    == s.mon[c]
      moved  == [s EXCEPT !.mon[c] = m]
      left   == IF old = None THEN moved ELSE layout_arrange(moved, old)
      tagged == [left EXCEPT !.tags[c] = TagsOn(s, m, newtags)]
  IN  IF old = m THEN s
      ELSE Refocus(IF m = None THEN left ELSE ArrangeOf(tagged, c))
=============================================================================
