------------------------------ MODULE Windows ------------------------------
(***************************************************************************)
(* Windows, tags and focus on outputs that stay plugged in and lit:        *)
(* the handlers of src/window/client.c and src/window/layout.c, and the    *)
(* pointer's part in focusing.  Hotplug is in Outputs, layer surfaces,     *)
(* menus and the session lock are in Focus; both extend this module.       *)
(***************************************************************************)
EXTENDS WindowCore

CONSTANTS
  Rules,       (* what a matching rule can ask for: see Rule                  *)
  Late,        (* clients whose first buffer may not fit their tile           *)
  Bound,       (* the actions the settings bind to a key or a button          *)
  TagMasks,    (* the arguments of the bound tag actions                      *)
  StackSteps   (* the arguments of the bound movestack actions                *)

(* A rule's target monitor (its place in the list, 0 for the selected one),
   its tags, and whether it floats the window (None: no rule matched). *)
Rule == [monitor : Nat, tags : SUBSET Tags, isfloating : BOOLEAN \cup {None}]

ASSUME RulesAssumption == Rules \subseteq Rule
ASSUME TagMasksAssumption == TagMasks \subseteq SUBSET Tags
ASSUME StackStepsAssumption == StackSteps \subseteq {-1, 1}

VARIABLE wm

First(list) == IF list = <<>> THEN None ELSE list[1]

InitialSession(lit) == [
  exclusive_focus |-> None, menus_up |-> {},
  layers |-> <<>>, layer_mon |-> [l \in Layers |-> None], layers_up |-> {},
  lock_active |-> FALSE, lock_current |-> FALSE, lock_surfaces |-> <<>>,
  asleep |-> {}, layout |-> lit ]

(* main() after monitor_handle_new_output for each output of Lit, in the
   order of list, with no client yet *)
InitialState(list, lit) == [
  clients |-> <<>>, focus_stack |-> <<>>, mapped |-> {}, linked |-> {},
  ftl |-> {}, toplevel_active |-> None,
  mon |-> [c \in Clients |-> None], tags |-> [c \in Clients |-> {}],
  isfloating |-> {}, isfullscreen |-> {}, isurgent |-> {}, mapwait |-> {},
  shown |-> {},
  monitors |-> list, enabled |-> lit, selected_monitor |-> First(list),
  tagset |-> [m \in Monitors |-> [i \in {0, 1} |-> {1}]],
  seltags |-> [m \in Monitors |-> 0],
  kbd |-> None, session |-> InitialSession(lit) ]

-----------------------------------------------------------------------------
(* The life of a client. *)

client_apply_rules(s, c, rule) ==
  LET m == IF rule.monitor \in DOMAIN s.monitors
           THEN s.monitors[rule.monitor] ELSE s.selected_monitor
      r == IF rule.isfloating = None THEN s
           ELSE [s EXCEPT !.isfloating =
                   IF rule.isfloating THEN @ \cup {c} ELSE @ \ {c}]
  IN  client_set_monitor(r, c, m, rule.tags)

(* client_handle_commit, the initial commit: place it to learn its scale,
   take it back; the rules run again when it maps *)
InitialCommit(c) ==
  /\ c \notin wm.mapped
  /\ \E rule \in Rules :
       wm' = client_set_monitor(client_apply_rules(wm, c, rule), c, None, {})

(* The end of client_handle_map: a new window ends the fullscreen of the
   others of its monitor that share a tag with it, its parent excepted. *)
UnsetFullscreen(s, c) ==
  LET parent == client_get_parent(s, c)
      others == {o \in ToSet(s.clients) \ {c, parent} :
                   /\ o \in s.isfullscreen
                   /\ s.mon[o] = s.mon[c]
                   /\ s.tags[o] \cap s.tags[c] # {}}
      r      == [s EXCEPT !.isfullscreen = @ \ others]
  IN  IF others = {} \/ s.mon[c] = None THEN r ELSE layout_arrange(r, s.mon[c])

(* client_handle_map up to the choice of its monitor *)
Insert(s, c) ==
  [s EXCEPT !.mapped = @ \cup {c}, !.shown = @ \ {c},
            !.clients = Append(@, c), !.focus_stack = <<c>> \o @]

Place(s, c, rule) ==
  LET parent == client_get_parent(s, c)
  IN  IF parent = None THEN client_apply_rules(s, c, rule)
      ELSE client_set_monitor([s EXCEPT !.isfloating = @ \cup {c}],
                              c, s.mon[parent], s.tags[parent])

(* a resize that the client has not answered holds it back *)
HoldBack(s, c, late) ==
  IF late THEN [s EXCEPT !.mapwait = @ \cup {c}, !.shown = @ \ {c}] ELSE s

(* mutant: the new handle is not marked active *)
toplevel_map_Quiet(s, c) == [s EXCEPT !.ftl = @ \cup {c}]

toplevel_map(s, c) ==
  LET r == [s EXCEPT !.ftl = @ \cup {c}]
  IN  IF r.kbd = c THEN toplevel_focus(r, c) ELSE r

client_handle_map(c) ==
  /\ c \notin wm.mapped
  /\ \E rule \in Rules, late \in BOOLEAN :
       LET placed == Place(Insert(wm, c), c, rule)
       IN  /\ late => c \in Late /\ placed.mon[c] # None
           /\ wm' = UnsetFullscreen(toplevel_map(HoldBack(placed, c, late), c), c)

(* xdg_toplevel.set_parent, before or after the dialog maps: wlroots takes
   only a mapped parent, and g0wm asks it, client_get_parent, when it needs
   to know *)
SetParent(c) ==
  /\ Parent[c] \in wm.mapped
  /\ wm' = [wm EXCEPT !.linked = @ \cup {c}]

(* mutant: the timer is disarmed and the window left hidden *)
client_map_wait_done_Hidden(c) ==
  c \in wm.mapwait /\ wm' = [wm EXCEPT !.mapwait = @ \ {c}]

(* the 200 ms timer, or the commit that acknowledges the resize *)
client_map_wait_done(c) ==
  /\ c \in wm.mapwait
  /\ wm' = [wm EXCEPT !.mapwait = @ \ {c},
                      !.shown = IF wm.mon[c] = None THEN @
                                ELSE IF Visible(wm, c, wm.mon[c]) THEN @ \cup {c}
                                ELSE @ \ {c}]

toplevel_unmap(s, c) ==
  [s EXCEPT !.toplevel_active = IF @ = c THEN None ELSE @, !.ftl = @ \ {c}]

(* wlroots forgets the parent of a window that unmaps and, once the handler
   has run, the links of its dialogs (it hands them to their grandparent if
   there is one: left out) *)
Unlinked(linked, c) == {d \in linked : d # c /\ Parent[d] # c}

(* The handle, the timer and the place in the tiling order go first. *)
Detached(s, c) ==
  [toplevel_unmap(s, c) EXCEPT !.mapped = @ \ {c}, !.mapwait = @ \ {c},
                               !.clients = Without(@, c)]

client_handle_unmap(c) ==
  /\ c \in wm.mapped
  /\ LET apart == client_set_monitor(Detached(wm, c), c, None, {})
     IN  wm' = [apart EXCEPT !.focus_stack = Without(@, c), !.shown = @ \ {c},
                             !.linked = Unlinked(@, c)]

(* client_handle_request_fullscreen, toplevel_handle_request_fullscreen *)
RequestFullscreen(c) ==
  /\ "fullscreen" \in Bound
  /\ \E on \in BOOLEAN : wm' = client_set_fullscreen(wm, c, on)

(* client_handle_ring_bell, client_handle_request_activate with a token of
   another client, xwayland_handle_set_hints with the urgency hint *)
RingBell(c) ==
  /\ "urgent" \in Bound
  /\ c # client_top(wm, wm.selected_monitor)
  /\ wm' = [wm EXCEPT !.isurgent = @ \cup {c}]

-----------------------------------------------------------------------------
(* Tags.  A press of a key or a button, and a gesture, reach no binding while
   the session is locked; but the binding of a key that was held when the lock
   came goes on repeating (input_key_repeat), so an action may run at any
   time. *)

Command(name) == name \in Bound

(* mutant: nothing is arranged *)
RefocusArrange_Undrawn(s) == Refocus(s)

(* client_focus of the top client, then layout_arrange of the monitor that
   is selected once that is done *)
RefocusArrange(s) ==
  LET r == Refocus(s)
  IN  IF r.selected_monitor = None THEN r ELSE layout_arrange(r, r.selected_monitor)

(* mutant: the view changes under the focused window *)
layout_view_Unfocused(s, mask) ==
  LET m == s.selected_monitor
      i == 1 - s.seltags[m]
  IN  IF m = None \/ mask = Viewed(s, m) THEN s
      ELSE layout_arrange([s EXCEPT
             !.seltags[m] = i,
             !.tagset[m][i] = IF mask = {} THEN @ ELSE mask], m)

(* layout_view on the selected monitor m: flip to the other tag set, and
   put mask in it unless it is 0 *)
layout_view(s, mask) ==
  LET m == s.selected_monitor
      i == 1 - s.seltags[m]
  IN  IF m = None \/ mask = Viewed(s, m) THEN s
      ELSE RefocusArrange([s EXCEPT
             !.seltags[m] = i,
             !.tagset[m][i] = IF mask = {} THEN @ ELSE mask])

Flip(set, mask) == (set \ mask) \cup (mask \ set)

(* mutant: the last tag can be toggled off *)
layout_toggle_view_Last(s, mask) ==
  LET m == s.selected_monitor
  IN  IF m = None THEN s
      ELSE RefocusArrange([s EXCEPT !.tagset[m][s.seltags[m]] = Flip(@, mask)])

layout_toggle_view(s, mask) ==
  LET m   == s.selected_monitor
      new == Flip(Viewed(s, m), mask)
  IN  IF m = None \/ new = {} THEN s
      ELSE RefocusArrange([s EXCEPT !.tagset[m][s.seltags[m]] = new])

layout_tag(s, mask) ==
  LET sel == client_top(s, s.selected_monitor)
  IN  IF sel = None \/ mask = {} THEN s
      ELSE RefocusArrange([s EXCEPT !.tags[sel] = mask])

(* mutant: the same when a tag is taken off it *)
layout_toggle_tag_Unfocused(s, mask) ==
  LET sel == client_top(s, s.selected_monitor)
      new == Flip(s.tags[sel], mask)
  IN  IF sel = None \/ new = {} THEN s
      ELSE layout_arrange([s EXCEPT !.tags[sel] = new], s.selected_monitor)

layout_toggle_tag(s, mask) ==
  LET sel == client_top(s, s.selected_monitor)
      new == Flip(s.tags[sel], mask)
  IN  IF sel = None \/ new = {} THEN s
      ELSE RefocusArrange([s EXCEPT !.tags[sel] = new])

(* mutant: the bound is one tag too far *)
layout_tag_beside_Far(set, step) ==
  LET target == IF step > 0 THEN Max(set) + 1 ELSE Min(set) - 1
  IN  IF set = {} \/ target \notin 0 .. TagCount + 1 THEN 0 ELSE target

(* layout_tag_beside: the tag next to a set, 0 past the ends *)
layout_tag_beside(set, step) ==
  LET target == IF step > 0 THEN Max(set) + 1 ELSE Min(set) - 1
  IN  IF set = {} \/ target \notin Tags THEN 0 ELSE target

layout_shift_view(s, step) ==
  LET m      == s.selected_monitor
      target == layout_tag_beside(Viewed(s, m), step)
  IN  IF m = None \/ target = 0 THEN s ELSE layout_view(s, {target})

layout_shift_tag(s, step) ==
  LET sel    == client_top(s, s.selected_monitor)
      target == layout_tag_beside(s.tags[sel], step)
  IN  IF sel = None \/ target = 0 THEN s
      ELSE layout_view(layout_tag(s, {target}), {target})

TagCommand ==
  \/ \E mask \in TagMasks :
       \/ Command("view") /\ wm' = layout_view(wm, mask)
       \/ Command("toggleview") /\ wm' = layout_toggle_view(wm, mask)
       \/ Command("tag") /\ wm' = layout_tag(wm, mask)
       \/ Command("toggletag") /\ wm' = layout_toggle_tag(wm, mask)
  \/ \E step \in {-1, 1} :
       \/ Command("shiftview") /\ wm' = layout_shift_view(wm, step)
       \/ Command("shifttag") /\ wm' = layout_shift_tag(wm, step)

-----------------------------------------------------------------------------
(* The stack. *)

Position(list, c) == CHOOSE i \in DOMAIN list : list[i] = c

(* Where the clients in view on the selected monitor are in the list. *)
InView(s) == {i \in DOMAIN s.clients : Visible(s, s.clients[i], s.selected_monitor)}
After(s, i)  == {j \in InView(s) : j > i}
Before(s, i) == {j \in InView(s) : j < i}

(* client_has_children: the application shows more than this window; here,
   a window that names it as its parent *)
client_has_children(s, c) == \E d \in s.mapped : Parent[d] = c

(* layout_focus_stack: the next client in view, around the list; a
   fullscreen window without children keeps the focus *)
NextInView(s, i, step) ==
  IF step > 0
  THEN Min(IF After(s, i) # {} THEN After(s, i) ELSE InView(s))
  ELSE Max(IF Before(s, i) # {} THEN Before(s, i) ELSE InView(s))

layout_focus_stack(step) ==
  LET sel == client_top(wm, wm.selected_monitor)
      at  == Position(wm.clients, sel)
  IN  /\ Command("focusstack")
      /\ sel # None /\ sel \in ToSet(wm.clients)
      /\ sel \in wm.isfullscreen => client_has_children(wm, sel)
      /\ wm' = client_focus(wm, wm.clients[NextInView(wm, at, step)])

(* layout_move_stack.  Down: behind the next client in view, or to the head
   when there is none.  Up: before the previous one; when there is none the
   loop stops at the list's head and backs up to its last client, and if
   that is the window itself, it is unlinked and inserted after itself:
   linked to itself, it is in no list any more. *)
MoveDown(s, sel) ==
  LET at   == Position(s.clients, sel)
      rest == Without(s.clients, sel)
  IN  IF After(s, at) = {} THEN <<sel>> \o rest
      ELSE InsertAt(rest, Min(After(s, at)), sel)

(* mutant: the window is inserted twice *)
MoveUp_Twice(s, sel) == Append(s.clients, sel)

MoveUp(s, sel) ==
  LET at   == Position(s.clients, sel)
      rest == Without(s.clients, sel)
  IN  IF Before(s, at) # {} THEN InsertAt(rest, Max(Before(s, at)), sel)
      ELSE IF at = Len(s.clients) THEN rest
      ELSE Append(rest, sel)

layout_move_stack(step) ==
  LET sel == client_top(wm, wm.selected_monitor)
  IN  /\ Command("movestack")
      /\ sel # None /\ sel \in ToSet(wm.clients) /\ Len(wm.clients) > 1
      /\ wm' = layout_arrange(
                 [wm EXCEPT !.clients = IF step > 0 THEN MoveDown(wm, sel)
                                                    ELSE MoveUp(wm, sel)],
                 wm.selected_monitor)

(* layout_zoom: the top tile goes to the head of the list, or, if it is the
   first one, the next tile does; the loop looks at clients in view that do
   not float *)
layout_zoom ==
  LET sel   == client_top(wm, wm.selected_monitor)
      tiles == {i \in InView(wm) : wm.clients[i] \notin wm.isfloating}
      later == tiles \ {Min(tiles)}
      first == wm.clients[Min(tiles)]
      up    == IF first # sel THEN sel ELSE wm.clients[Min(later)]
      moved == client_focus([wm EXCEPT !.clients = ToHead(@, up)], up)
  IN  /\ Command("zoom")
      /\ sel # None /\ sel \notin wm.isfloating
      /\ tiles # {} /\ (first = sel => later # {})
      /\ wm' = layout_arrange(moved, moved.selected_monitor)

client_toggle_floating ==
  LET sel == client_top(wm, wm.selected_monitor)
  IN  /\ Command("togglefloating")
      /\ sel # None /\ sel \notin wm.isfullscreen
      /\ wm' = client_set_floating(wm, sel, sel \notin wm.isfloating)

client_toggle_fullscreen ==
  LET sel == client_top(wm, wm.selected_monitor)
  IN  /\ Command("togglefullscreen")
      /\ sel # None
      /\ wm' = client_set_fullscreen(wm, sel, sel \notin wm.isfullscreen)

-----------------------------------------------------------------------------
(* Monitors, and focus asked for from outside the keyboard. *)

Lit(s) == ToSet(s.monitors) \cap s.enabled

(* monitor_focus; the geometry decides which monitor lies in the direction *)
monitor_focus ==
  /\ Command("focusmon")
  /\ wm.selected_monitor # None
  /\ \E m \in Lit(wm) \cup {wm.selected_monitor} :
       wm' = Refocus([wm EXCEPT !.selected_monitor = m])

monitor_send_client ==
  LET sel == client_top(wm, wm.selected_monitor)
  IN  /\ Command("tagmon")
      /\ sel # None
      /\ \E m \in ToSet(wm.monitors) \cap (wm.session.layout \cup {wm.selected_monitor}) :
           wm' = client_set_monitor(wm, sel, m, {})

(* mutant: the view changes on whichever monitor is selected *)
client_activate_Elsewhere(c) ==
  LET m == wm.mon[c]
  IN  /\ "activate" \in Bound
      /\ c \in wm.mapped /\ m # None
      /\ wm' = client_focus(IF Visible(wm, c, m) THEN wm
                            ELSE layout_view(wm, wm.tags[c]), c)

(* client_activate: from a taskbar, the runner's window list, or a token of
   a notification that was clicked; no lock stops it *)
client_activate(c) ==
  LET m    == wm.mon[c]
      at   == [wm EXCEPT !.selected_monitor = m]
  IN  /\ "activate" \in Bound
      /\ c \in wm.mapped /\ m # None
      /\ wm' = client_focus(IF Visible(at, c, m) THEN at
                            ELSE layout_view(at, wm.tags[c]), c)

(* input_handle_button, press: the monitor under the pointer is selected,
   and the window under it focused *)
PointerPress ==
  /\ "click" \in Bound
  /\ \E m \in Lit(wm), c \in wm.shown \cup {None} :
       LET at == [wm EXCEPT !.selected_monitor = m]
       IN  wm' = IF wm.session.lock_active \/ c = None THEN at ELSE client_focus(at, c)

(* input_cursor_moved and input_pointer_focus with sloppy_focus *)
PointerMotion ==
  /\ "sloppyfocus" \in Bound
  /\ \E m \in Lit(wm), c \in wm.shown \cup {None} :
       LET at == [wm EXCEPT !.selected_monitor = m]
       IN  wm' = IF c = None THEN at ELSE client_focus(at, c)

-----------------------------------------------------------------------------
ClientEvent(c) ==
  \/ InitialCommit(c)
  \/ SetParent(c)
  \/ client_handle_map(c)
  \/ client_map_wait_done(c)
  \/ client_handle_unmap(c)
  \/ RequestFullscreen(c)
  \/ RingBell(c)
  \/ client_activate(c)

StackCommand ==
  \/ \E step \in {-1, 1} : layout_focus_stack(step)
  \/ \E step \in StackSteps : layout_move_stack(step)
  \/ layout_zoom
  \/ client_toggle_floating
  \/ client_toggle_fullscreen

MonitorCommand ==
  \/ monitor_focus
  \/ monitor_send_client
  \/ PointerPress
  \/ PointerMotion

WindowsNext ==
  \/ \E c \in Clients : ClientEvent(c)
  \/ TagCommand
  \/ StackCommand
  \/ MonitorCommand

WindowsInit ==
  \E list \in SetToSeqs(Monitors) : wm = InitialState(list, Monitors)

Spec == WindowsInit /\ [][WindowsNext]_wm

(* The event loop runs a timer that has expired. *)
FairSpec == Spec /\ \A c \in Clients : WF_wm(client_map_wait_done(c))

-----------------------------------------------------------------------------
(* Every field of the state has its type. *)
TypeOK == wm \in WindowState

(* The tiling order and the focus stack hold the same windows, each once:
   the mapped ones.  A window missing from one of them is never arranged, or
   never found again by client_top. *)
BothListsHoldTheMapped ==
  /\ IsInjective(wm.clients) /\ ToSet(wm.clients) = wm.mapped
  /\ IsInjective(wm.focus_stack) /\ ToSet(wm.focus_stack) = wm.mapped

(* What is drawn is what the tags say: on a lit monitor, a window's scene is
   enabled exactly when VISIBLEON holds and it is not held back until it
   fits its tile.  Every handler that changes a tag, a monitor or a view has
   to arrange the right monitor afterwards. *)
ShownIffVisible ==
  \A c \in wm.mapped :
    wm.mon[c] \in wm.enabled =>
      (c \in wm.shown <=> Visible(wm, c, wm.mon[c]) /\ c \notin wm.mapwait)

(* No window and no monitor is left without a tag: a window with an empty
   tag set is on no view, and a monitor with one shows nothing. *)
EverythingHasATag ==
  /\ \A c \in wm.mapped : wm.mon[c] # None => wm.tags[c] # {}
  /\ \A m \in Monitors, i \in {0, 1} : wm.tagset[m][i] # {}

(* The keyboard types into the window its monitor shows on top: of the
   windows in view there, the one at the front of the focus stack.  A window
   that leaves the view, or one raised without client_focus, would break it.
   A modal dialog that tagmon sends behind a window of the other monitor does,
   so it is said of windows without modal dialogs. *)
KeyboardIsOnTop ==
  wm.kbd \in Clients => wm.kbd = client_top(wm, wm.mon[wm.kbd])

(* On one monitor more is true: whatever a handler does, the keyboard ends
   on the top window of the view, and on none only if the view is empty. *)
KeyboardFollowsView == wm.kbd = client_top(wm, wm.selected_monitor)

(* Taskbars are told the truth: the handle that is marked active exists, and
   is the window that has the keyboard. *)
TaskbarFollowsKeyboard ==
  /\ wm.ftl = wm.mapped
  /\ wm.kbd \in Clients \cup {None} => wm.toplevel_active = wm.kbd

(* A window that is moved to another monitor arrives in view there: nothing
   is sent to where the user cannot see it. *)
MovedArrivesInView ==
  [][\A c \in wm.mapped \cap wm'.mapped :
       wm'.mon[c] \notin {None, wm.mon[c]} => Visible(wm', c, wm'.mon[c])]_wm

(* client_activate brings the window into view on its own monitor, whichever
   tags and monitor are selected, and whatever its dialogs make of the
   focus. *)
ActivateBringsIntoView ==
  [][\A c \in Clients : client_activate(c) => Visible(wm', c, wm.mon[c])]_wm

(* When the keyboard moves it passes over a window that a modal dialog in
   view blocks, down to the innermost dialog. *)
KeyboardGoesToTheDialog ==
  [][wm'.kbd # wm.kbd /\ wm'.kbd \in Clients =>
       client_modal_top(wm', wm'.kbd) = wm'.kbd]_wm

(* A window that stays mapped and in view is drawn in the end: the buffer
   that does not fit delays it by one timer, however the tags change before
   that. *)
InViewIsDrawn ==
  \A c \in Clients :
    <>[](c \in wm.mapped /\ Visible(wm, c, wm.mon[c])) => []<>(c \in wm.shown)
=============================================================================
