------------------------------- MODULE Focus -------------------------------
(***************************************************************************)
(* What competes with the windows for the keyboard: layer surfaces         *)
(* (launchers, panels), the menus of X11 programs and the session lock.    *)
(* The handlers of src/output/lock.c, of the layer surfaces in             *)
(* src/output/monitor.c, and the unmanaged half of src/window/client.c.    *)
(***************************************************************************)
EXTENDS Windows

-----------------------------------------------------------------------------
(* Layer surfaces. *)

(* Where the mapped surfaces of a kind on a monitor are in the list, oldest
   last. *)
MappedOn(s, m, kind) ==
  {i \in DOMAIN s.session.layers :
     LET l == s.session.layers[i]
     IN  l \in kind \cap s.session.layers_up /\ s.session.layer_mon[l] = m}

(* The topmost one of a monitor that may take the keyboard: OVERLAY before
   TOP, the older before the newer. *)
TopmostLayer(s, m) ==
  LET over  == MappedOn(s, m, Overlays)
      under == MappedOn(s, m, TopLayers \ Overlays)
      at    == IF over # {} THEN over ELSE under
  IN  IF at = {} THEN None ELSE s.session.layers[Max(at)]

(* mutant: the lock does not stop a layer surface *)
monitor_arrange_layers_Unlocked(s, m, resized) ==
  LET a == IF resized THEN layout_arrange(s, m) ELSE s
      l == TopmostLayer(a, m)
  IN  IF m \notin s.enabled THEN s
      ELSE IF l = None THEN a
      ELSE [client_focus(a, None) EXCEPT !.session.exclusive_focus = l, !.kbd = l]

(* monitor_arrange_layers: the windows are arranged if the surfaces leave
   them another area, and the topmost one takes the keyboard *)
monitor_arrange_layers(s, m, resized) ==
  LET a == IF resized THEN layout_arrange(s, m) ELSE s
      l == TopmostLayer(a, m)
  IN  IF m \notin s.enabled THEN s
      ELSE IF a.session.lock_active \/ l = None THEN a
      ELSE [client_focus(a, None) EXCEPT !.session.exclusive_focus = l, !.kbd = l]

(* monitor_handle_new_layer_surface: on the output it asks for, or on the
   selected one; for lack of both it is destroyed *)
NewLayerSurface(l) ==
  /\ l \notin ToSet(wm.session.layers)
  /\ \E m \in ToSet(wm.monitors) :
       wm' = [wm EXCEPT !.session.layers = <<l>> \o @, !.session.layer_mon[l] = m]

(* monitor_handle_layer_commit: the initial one, the one that maps, any other *)
LayerCommit(l) ==
  /\ l \in ToSet(wm.session.layers)
  /\ \E map, resized \in BOOLEAN :
       wm' = monitor_arrange_layers(
               [wm EXCEPT !.session.layers_up = IF map THEN @ \cup {l} ELSE @],
               wm.session.layer_mon[l], resized)

(* mutant: the window below is not focused when the surface goes *)
monitor_handle_layer_unmap_Unfocused(s, l, resized) ==
  monitor_arrange_layers(
    [s EXCEPT !.session.layers_up = @ \ {l},
              !.session.exclusive_focus = IF @ = l THEN None ELSE @],
    s.session.layer_mon[l], resized)

monitor_handle_layer_unmap(s, l, resized) ==
  LET u == [s EXCEPT !.session.layers_up = @ \ {l},
                     !.session.exclusive_focus = IF @ = l THEN None ELSE @]
      a == monitor_arrange_layers(u, s.session.layer_mon[l], resized)
  IN  IF a.kbd = l THEN Refocus(a) ELSE a

LayerUnmap(l) ==
  /\ l \in wm.session.layers_up
  /\ \E resized \in BOOLEAN : wm' = monitor_handle_layer_unmap(wm, l, resized)

(* monitor_handle_layer_destroy; a mapped surface is unmapped first *)
Unlisted(s, l) ==
  [s EXCEPT !.session.layers = Without(@, l), !.session.layer_mon[l] = None]

LayerDestroy(l) ==
  /\ l \in ToSet(wm.session.layers) \ wm.session.layers_up
  /\ wm' = Unlisted(wm, l)

-----------------------------------------------------------------------------
(* Unmanaged windows: menus and tooltips of X11 programs. *)

(* client_handle_map, the unmanaged half *)
MenuMap(u) ==
  LET up == [wm EXCEPT !.session.menus_up = @ \cup {u}]
  IN  /\ u \notin wm.session.menus_up
      /\ wm' = IF u \in WantsFocus
               THEN [client_focus(up, u) EXCEPT !.session.exclusive_focus = u]
               ELSE up

(* mutant: the pointer to the menu is not dropped *)
MenuUnmap_Dangling(u) ==
  LET down == [wm EXCEPT !.session.menus_up = @ \ {u}]
  IN  /\ u \in wm.session.menus_up
      /\ wm' = IF wm.session.exclusive_focus = u THEN Refocus(down) ELSE down

(* client_handle_unmap, the unmanaged half *)
MenuUnmap(u) ==
  LET down == [wm EXCEPT !.session.menus_up = @ \ {u}]
  IN  /\ u \in wm.session.menus_up
      /\ wm' = IF wm.session.exclusive_focus = u
               THEN Refocus([down EXCEPT !.session.exclusive_focus = None])
               ELSE down

(* input_handle_button: a press on a menu that wants the keyboard *)
MenuPress(u) ==
  /\ "menuclick" \in Bound
  /\ u \in WantsFocus \cap wm.session.menus_up /\ ~wm.session.lock_active
  /\ \E m \in Lit(wm) : wm' = client_focus([wm EXCEPT !.selected_monitor = m], u)

-----------------------------------------------------------------------------
(* The session lock. *)

Locked(s) ==
  [client_focus(s, None) EXCEPT !.session.lock_active = TRUE,
                                !.session.lock_current = TRUE]

(* lock_handle_new_lock; while a locker is connected another is turned away *)
lock_handle_new_lock ==
  /\ "lock" \in Bound
  /\ ~wm.session.lock_current
  /\ wm' = Locked(wm)

(* lock_handle_new_surface: one for each output *)
lock_handle_new_surface(m) ==
  /\ wm.session.lock_current
  /\ m \in ToSet(wm.monitors) \ ToSet(wm.session.lock_surfaces)
  /\ wm' = [wm EXCEPT !.session.lock_surfaces = <<m>> \o @,
                      !.kbd = IF m = wm.selected_monitor THEN m ELSE @]

(* lock_handle_surface_destroy.  The list of the lock still holds the
   surface that goes away, so the newest may be handed the keyboard it has. *)
lock_handle_surface_destroy(s, m) ==
  LET r == [s EXCEPT !.session.lock_surfaces = Without(@, m)]
  IN  IF s.kbd # m THEN r
      ELSE IF ~s.session.lock_active THEN Refocus(r)
      ELSE [r EXCEPT !.kbd = IF s.session.lock_current
                             THEN Head(s.session.lock_surfaces) ELSE None]

SurfacesDestroyed(s) ==
  FoldLeft(lock_handle_surface_destroy, s, s.session.lock_surfaces)

LockSurfaceDestroy(m) ==
  /\ m \in ToSet(wm.session.lock_surfaces)
  /\ wm' = lock_handle_surface_destroy(wm, m)

(* mutant: unlocked, the keyboard stays where the lock had it *)
lock_destroy_Unfocused(s, unlocked) ==
  [s EXCEPT !.session.lock_active = ~unlocked, !.session.lock_current = FALSE]

lock_destroy(s, unlocked) ==
  LET r == [s EXCEPT !.kbd = None, !.session.lock_active = ~unlocked]
  IN  [IF unlocked THEN Refocus(r) ELSE r EXCEPT !.session.lock_current = FALSE]

(* lock_handle_unlock; wlroots then destroys the surfaces of the lock *)
lock_handle_unlock ==
  /\ wm.session.lock_current
  /\ wm' = SurfacesDestroyed(lock_destroy(wm, TRUE))

(* lock_handle_destroy, the locker died: its surfaces go first, and the
   session stays locked *)
lock_handle_destroy ==
  /\ wm.session.lock_current
  /\ wm' = lock_destroy(SurfacesDestroyed(wm), FALSE)

-----------------------------------------------------------------------------
(* A surface that is not mapped any more is destroyed in the end, and the
   seat forgets it. *)
Alive(s) ==
  s.mapped \cup s.session.menus_up \cup s.session.layers_up
           \cup ToSet(s.session.lock_surfaces)

SurfaceGone ==
  /\ wm.kbd \notin Alive(wm) \cup {None}
  /\ wm' = [wm EXCEPT !.kbd = None]

LayerEvent(l) ==
  NewLayerSurface(l) \/ LayerCommit(l) \/ LayerUnmap(l) \/ LayerDestroy(l)

MenuEvent(u) == MenuMap(u) \/ MenuUnmap(u) \/ MenuPress(u)

LockEvent ==
  \/ lock_handle_new_lock
  \/ \E m \in Monitors : lock_handle_new_surface(m) \/ LockSurfaceDestroy(m)
  \/ lock_handle_unlock
  \/ lock_handle_destroy

FocusNext ==
  \/ WindowsNext
  \/ \E l \in Layers : LayerEvent(l)
  \/ \E u \in Unmanaged : MenuEvent(u)
  \/ LockEvent
  \/ SurfaceGone

FocusSpec == WindowsInit /\ [][FocusNext]_wm

-----------------------------------------------------------------------------
(* While the session is locked no window has the keyboard, and what a window,
   a menu or a layer surface does cannot get it back: from the moment the
   lock is in place the keyboard goes to a lock surface or to nothing. *)
LockedOut ==
  [][/\ wm'.session.lock_active => wm'.kbd \notin Clients
     /\ wm.session.lock_active /\ wm'.session.lock_active =>
          wm'.kbd \in Monitors \cup {None, wm.kbd}]_wm

(* exclusive_focus points to a surface that is still mapped: it is compared
   with clients and layer surfaces long after they were freed. *)
ExclusiveIsUp ==
  wm.session.exclusive_focus \in
    wm.session.menus_up \cup wm.session.layers_up \cup {None}

(* Outside the lock the keyboard is never left with a window or a layer
   surface that is gone.  (A window that monitor_close leaves on no monitor
   may keep it; it takes three outputs.) *)
FocusIsAlive ==
  ~wm.session.lock_active =>
    /\ wm.kbd \in Clients => wm.kbd \in wm.mapped
    /\ wm.kbd \in Layers => wm.kbd \in wm.session.layers_up

(* A layer surface above the windows keeps the keyboard as long as it is
   mapped, whatever is mapped, moved or focused below it. *)
OverlayKeepsKeyboard ==
  [][/\ wm.kbd \in TopLayers \cap wm.session.layers_up \cap wm'.session.layers_up
     /\ ~wm.session.lock_active /\ ~wm'.session.lock_active
     => wm'.kbd \in TopLayers]_wm

(* On one monitor, once layer surfaces, menus and the lock have let go of the
   keyboard it is back on the window on top, including one that was mapped or
   brought into view meanwhile.  With one menu that wants the keyboard and no
   click on it: client_handle_unmap refocuses only when the menu that goes is
   exclusive_focus (client.c:717). *)
KeyboardComesBack ==
  ~wm.session.lock_active /\ wm.kbd \notin Layers \cup Unmanaged =>
    wm.kbd = client_top(wm, wm.selected_monitor)
=============================================================================
