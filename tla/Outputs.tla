------------------------------ MODULE Outputs ------------------------------
(***************************************************************************)
(* Outputs that are plugged in and out, switched off to save power and     *)
(* reconfigured under the windows, the layer surfaces and the lock: the    *)
(* rest of the handlers of src/output/monitor.c.  This module composes     *)
(* Windows and Focus.                                                      *)
(***************************************************************************)
EXTENDS Focus

-----------------------------------------------------------------------------
(* A monitor is lost: its windows move on. *)

(* mutant: the windows arrive without their tags *)
MoveTo_Untagged(s, c) == client_set_monitor(s, c, s.selected_monitor, {})

MoveTo(s, c) == client_set_monitor(s, c, s.selected_monitor, s.tags[c])

(* The loop of monitor_close that looks for a lit monitor takes the first of
   the list on every turn. *)
Successor(s) ==
  IF s.monitors # <<>> /\ s.monitors[1] \in s.enabled THEN s.monitors[1] ELSE None

(* mutant: the monitor that closes stays selected *)
monitor_close_Selected(s, m) ==
  LET Move(t, c) == IF t.mon[c] = m THEN MoveTo(t, c) ELSE t
  IN  Refocus(FoldLeft(Move, s, s.clients))

(* monitor_close *)
monitor_close(s, m) ==
  LET Move(t, c) == IF t.mon[c] = m THEN MoveTo(t, c) ELSE t
      at == IF s.monitors = <<>> \/ m = s.selected_monitor
            THEN [s EXCEPT !.selected_monitor = Successor(s)] ELSE s
  IN  Refocus(FoldLeft(Move, at, s.clients))

-----------------------------------------------------------------------------
(* monitor_update_layout, in the order of its loops. *)

ClosedDisabled(s) ==
  LET Close(t, m) == IF m \in t.enabled \cup t.session.asleep THEN t
                     ELSE monitor_close(t, m)
  IN  FoldLeft(Close, s, s.monitors)

(* the lit monitors are laid out and arranged; the first of them is selected
   if none was *)
Arranged(s) ==
  LET Settle(t, m) ==
        LET a == layout_arrange(monitor_arrange_layers(t, m, TRUE), m)
        IN  IF m \notin t.enabled THEN t
            ELSE IF a.selected_monitor = None
                 THEN [a EXCEPT !.selected_monitor = m] ELSE a
  IN  FoldLeft(Settle, s, s.monitors)

(* mutant: the windows without a monitor stay without one *)
Adopted_Nothing(s) ==
  IF s.selected_monitor \notin s.enabled THEN s ELSE Refocus(s)

(* windows without a monitor come to the selected one, and the keyboard to
   its window on top or to its lock surface *)
Adopted(s) ==
  LET m == s.selected_monitor
      Adopt(t, c) == IF t.mon[c] = None THEN MoveTo(t, c) ELSE t
      r == Refocus(FoldLeft(Adopt, s, s.clients))
  IN  IF m \notin s.enabled THEN s
      ELSE IF r.selected_monitor \in ToSet(r.session.lock_surfaces)
           THEN [r EXCEPT !.kbd = r.selected_monitor] ELSE r

(* mutant: windows are adopted before a monitor is selected *)
LayoutPass_Swapped(s) == Arranged(Adopted(ClosedDisabled(s)))

LayoutPass(s) ==
  LET Layers_(t, m) == monitor_arrange_layers(t, m, FALSE)
  IN  FoldLeft(Layers_, Adopted(Arranged(ClosedDisabled(s))), s.monitors)

(* The outputs that output_layout should hold. *)
LaidOut(s) ==
  {m \in ToSet(s.monitors) :
     m \in s.enabled \/ m \in s.session.asleep \cap s.session.layout}

(* Adding an output to output_layout, or removing one, runs the handler again
   from inside: the nested call comes first, the rest of the outer one after
   it. *)
monitor_update_layout(s) ==
  LET placed == [s EXCEPT !.session.layout = LaidOut(s)]
  IN  IF placed = s THEN LayoutPass(s) ELSE LayoutPass(LayoutPass(placed))

-----------------------------------------------------------------------------
(* Events of outputs. *)

(* monitor_handle_new_output; the commit that lights it may fail *)
NewOutput(m) ==
  /\ m \notin ToSet(wm.monitors)
  /\ \E lit \in BOOLEAN :
       wm' = monitor_update_layout(
               [wm EXCEPT !.monitors = <<m>> \o @,
                          !.enabled = IF lit THEN @ \cup {m} ELSE @ \ {m},
                          !.session.layout = @ \cup {m},
                          !.tagset[m] = [i \in {0, 1} |-> {1}],
                          !.seltags[m] = 0])

(* its layer surfaces are destroyed, mapped or not *)
LayersDestroyed(s, m) ==
  LET Destroy(t, l) ==
        IF t.session.layer_mon[l] # m THEN t
        ELSE Unlisted(IF l \in t.session.layers_up
                      THEN monitor_handle_layer_unmap(t, l, TRUE) ELSE t, l)
  IN  FoldLeft(Destroy, s, s.session.layers)

(* monitor_handle_destroy: the surfaces of the output, its place in the list
   and in the layout, then its windows.  The Monitor is freed last, and its
   output is still lit while the layout is updated. *)
monitor_handle_destroy(m) ==
  LET bare     == [LayersDestroyed(wm, m) EXCEPT !.monitors = Without(@, m)]
      unlocked == IF m \in ToSet(bare.session.lock_surfaces)
                  THEN lock_handle_surface_destroy(bare, m) ELSE bare
      removed  == [unlocked EXCEPT !.session.layout = @ \ {m}]
      closed   == monitor_close(IF removed = unlocked THEN removed
                                ELSE monitor_update_layout(removed), m)
  IN  /\ m \in ToSet(wm.monitors)
      /\ wm' = [closed EXCEPT !.enabled = @ \ {m}, !.session.asleep = @ \ {m}]

(* monitor_handle_power_set_mode: what the output is, not what was asked *)
PowerSetMode(m) ==
  /\ "power" \in Bound
  /\ m \in ToSet(wm.monitors)
  /\ \E on \in BOOLEAN :
       wm' = monitor_update_layout(
               [wm EXCEPT !.enabled = IF on THEN @ \cup {m} ELSE @ \ {m},
                          !.session.asleep = IF on THEN @ \ {m} ELSE @ \cup {m}])

(* monitor_apply_or_test_config: the outputs of On are lit once the commits
   have succeeded or failed, those of Moved change place, and no output
   counts as asleep.  A test lights nothing else, and ends the same way. *)
Commit(s, m, On, Moved) ==
  LET r == [s EXCEPT !.enabled = IF m \in On THEN @ \cup {m} ELSE @ \ {m},
                     !.session.asleep = @ \ {m}]
  IN  IF m \in Moved THEN monitor_update_layout(r) ELSE r

Committed(s, On, Moved) ==
  FoldLeft(LAMBDA t, m : Commit(t, m, On, Moved), s, s.monitors)

ConfigApply ==
  /\ "config" \in Bound
  /\ \E On \in SUBSET ToSet(wm.monitors) : \E Moved \in SUBSET On :
       wm' = monitor_update_layout(Committed(wm, On, Moved))

(* monitor_handle_request_state: a nested output was resized *)
RequestState == wm' = monitor_update_layout(wm)

OutputEvent ==
  \/ \E m \in Monitors : NewOutput(m) \/ monitor_handle_destroy(m) \/ PowerSetMode(m)
  \/ ConfigApply
  \/ RequestState

OutputsNext == FocusNext \/ OutputEvent

(* At the start some outputs are there, lit or not. *)
OutputsInit ==
  \E Plugged \in SUBSET Monitors :
    \E list \in SetToSeqs(Plugged) : wm = InitialState(list, Plugged)

OutputsSpec == OutputsInit /\ [][OutputsNext]_wm

-----------------------------------------------------------------------------
(* A Monitor that was unplugged is freed: no window, no layer surface and no
   global may still point to it, and no lock surface be taken for its. *)
NoFreedMonitor ==
  LET plugged == ToSet(wm.monitors) \cup {None}
  IN  /\ wm.selected_monitor \in plugged
      /\ \A c \in Clients : wm.mon[c] \in plugged
      /\ \A l \in Layers : wm.session.layer_mon[l] \in plugged
      /\ ToSet(wm.session.lock_surfaces) \subseteq plugged

(* No window is lost: as long as some output is lit, every mapped window is
   on a monitor, and some monitor is selected. *)
NoWindowIsLost ==
  wm.enabled # {} =>
    /\ wm.selected_monitor # None
    /\ \A c \in wm.mapped : wm.mon[c] # None

(* A window keeps its tags when its monitor goes away and comes back. *)
TagsSurviveUnplug ==
  [][OutputEvent => \A c \in wm.mapped : wm.tags[c] \in {{}, wm'.tags[c]}]_wm

(* monitor_update_layout may run at any moment, from inside itself or for an
   event that changed nothing, and finds nothing to do: every handler, of an
   output or of a window, leaves the outputs, the windows and the keyboard
   settled.  Without the lock, clicks and activation, which may leave another
   monitor selected or the keyboard elsewhere than monitor_update_layout
   would. *)
LayoutIsSettled == monitor_update_layout(wm) = wm
=============================================================================
