----------------------------- MODULE FocusProofs ----------------------------
(***************************************************************************)
(* What is true of the keyboard whatever competes for it: any number of    *)
(* windows, menus, layer surfaces and lock surfaces, while the outputs stay.*)
(* OutputsProofs goes on from here with outputs that come and go.          *)
(***************************************************************************)
EXTENDS Outputs, WindowsProofs

-----------------------------------------------------------------------------
(* What every handler of a window keeps, locked or not, whichever outputs
   are lit. *)

(* The focus stack holds the mapped windows, the tiling order no other, and
   all of them unless movestack -1 unlinks one; nothing else is drawn, held
   back or on a monitor; a lock has taken the keyboard from the windows. *)
Listed(s) ==
  /\ s \in WindowState
  /\ ToSet(s.focus_stack) = s.mapped /\ IsInjective(s.focus_stack)
  /\ ToSet(s.clients) \subseteq s.mapped /\ IsInjective(s.clients)
  /\ -1 \notin StackSteps => ToSet(s.clients) = s.mapped
  /\ s.shown \subseteq s.mapped /\ s.mapwait \subseteq s.mapped
  /\ \A c \in Clients \ s.mapped : s.mon[c] = None
  /\ s.session.lock_active => s.kbd \notin Clients

(* What has the keyboard or is drawn is on a monitor. *)
Placed(s) == Held(s) /\ PlacedBut(s, None)

(* The drawing keeps up when the tiling order stays complete and no dialog can
   take the focus to another monitor. *)
Drawing == -1 \notin StackSteps /\ (Modal = {} \/ OneMonitor)

Safe(s, t) ==
  /\ Listed(t)
  /\ t.session = s.session /\ t.monitors = s.monitors /\ t.enabled = s.enabled
  /\ s.session.lock_active \/ KeepsKeyboard(s) => t.kbd = s.kbd
  /\ t.kbd \in Clients \cup Unmanaged \cup {None, s.kbd}
  /\ Placed(s) => Placed(t)
  /\ Placed(s) /\ t.selected_monitor = None => s.selected_monitor = None
  /\ Drawing /\ Drawn(s) => Drawn(t)
  /\ \A M : Within(M, s) /\ ToSet(s.monitors) \cup {None} \subseteq M => Within(M, t)

(* What brings the keyboard back to the windows: a handler of a window leaves
   it in front, if nothing else has it, and gives it to no menu. *)
Restores(s, t) ==
  /\ Back(s, t)
  /\ t.kbd \in Unmanaged => t.kbd = s.kbd

LEMMA RestoresTwice ==
  ASSUME NEW s, NEW t, NEW u, Restores(s, t), Restores(t, u)
  PROVE  Restores(s, u)
BY DEF Restores, Back

LEMMA SameRestores ==
  ASSUME NEW s \in WindowState, NEW t \in WindowState,
         t.session = s.session, t.focus_stack = s.focus_stack, t.kbd = s.kbd,
         t.selected_monitor = s.selected_monitor,
         t.mon = s.mon, t.tags = s.tags, t.tagset = s.tagset, t.seltags = s.seltags
  PROVE  Restores(s, t)
BY SameReturned DEF Restores, Back

(* A window that leaves no trace but in the lists. *)
LEMMA TopRestores ==
  ASSUME NEW s \in WindowState, NEW t \in WindowState,
         t.session = s.session, t.kbd = s.kbd,
         t.selected_monitor = s.selected_monitor,
         \A m : client_top(t, m) = client_top(s, m)
  PROVE  Restores(s, t)
BY DEF Restores, Back, Returned, InFront

LEMMA SameDrawn ==
  ASSUME NEW s, NEW t, t.mapped = s.mapped, t.mapwait = s.mapwait,
         t.shown = s.shown, t.enabled = s.enabled,
         t.mon = s.mon, t.tags = s.tags, t.tagset = s.tagset, t.seltags = s.seltags
  PROVE  Drawn(s) => Drawn(t)
BY DEF Drawn, Visible, Viewed

LEMMA SafeSelf == ASSUME NEW s, Listed(s) PROVE Safe(s, s)
BY DEF Safe

LEMMA SafeTwice ==
  ASSUME NEW s, NEW t, NEW u, Safe(s, t), Safe(t, u)
  PROVE  Safe(s, u)
<1>1. KeepsKeyboard(s) => KeepsKeyboard(t)  BY DEF Safe, KeepsKeyboard
<1>2. u.kbd \in Clients \cup Unmanaged \cup {None, s.kbd}  BY DEF Safe
<1> QED  BY <1>1, <1>2 DEF Safe

(* Inside a handler: *)
LEMMA InnerListed ==
  ASSUME NEW s, Listed(s), NEW t, Inner(s, t),
         \A c \in Clients \ s.mapped : t.mon[c] = None
  PROVE  Listed(t)
<1>1. /\ t.clients = s.clients /\ t.mapped = s.mapped /\ t.mapwait = s.mapwait
      /\ t.session = s.session
      /\ ToSet(t.focus_stack) = ToSet(s.focus_stack)
      /\ IsInjective(s.focus_stack) => IsInjective(t.focus_stack)
  BY DEF Inner, SameLists
<1>2. t.shown \subseteq t.mapped  BY <1>1 DEF Inner, Listed
<1>3. s.session.lock_active => t.kbd = s.kbd  BY DEF Inner, Grip
<1> QED  BY <1>1, <1>2, <1>3 DEF Listed, Inner

LEMMA InnerSafe ==
  ASSUME NEW s, Listed(s), NEW t, Inner(s, t),
         \A c \in Clients \ s.mapped : t.mon[c] = None,
         Placed(s) => PlacedBut(t, None),
         \A M : Within(M, s) /\ ToSet(s.monitors) \cup {None} \subseteq M => Within(M, t)
  PROVE  Safe(s, t) /\ Restores(s, t)
<1>1. t.monitors = s.monitors /\ t.enabled = s.enabled /\ t.session = s.session
  BY DEF Inner, SameLists
<1>2. /\ s.session.lock_active \/ KeepsKeyboard(s) => t.kbd = s.kbd
      /\ t.kbd \in Clients \cup {None, s.kbd}
      /\ Held(s) => Held(t)
  BY DEF Inner, Grip
<1>3. Listed(t)  BY InnerListed
<1>4. Drawing /\ Drawn(s) => Drawn(t)  BY DEF Drawing, Drawable, Inner, Listed
<1>5. t.selected_monitor = None => s.selected_monitor = None  BY DEF Inner
<1>6. Restores(s, t)  BY <1>2, DistinctAssumption DEF Inner, Restores
<1> QED  BY <1>1, <1>2, <1>3, <1>4, <1>5, <1>6 DEF Safe, Placed

LEMMA KeptSafe ==
  ASSUME NEW s, Listed(s), NEW t, Kept(s, t)
  PROVE  Safe(s, t) /\ Restores(s, t)
<1>1. \A c \in Clients \ s.mapped : t.mon[c] = None  BY DEF Kept, Listed
<1> QED  BY <1>1, InnerSafe DEF Kept, Placed

LEMMA SelectSafe ==
  ASSUME NEW s, Listed(s), NEW m \in Monitors \cup {None},
         \/ m \in ToSet(s.monitors) \cup {s.selected_monitor}
         \/ m # None /\ \E c \in Clients : m = s.mon[c]
  PROVE  LET t == [s EXCEPT !.selected_monitor = m]
         IN  /\ Safe(s, t) /\ t.mapped = s.mapped /\ t.mon = s.mon
             /\ t.shown = s.shown /\ t.kbd = s.kbd
<1> DEFINE t == [s EXCEPT !.selected_monitor = m]
<1>0. s \in WindowState  BY DEF Listed
<1>5. m = None => s.selected_monitor = None
  <2>1. None \notin ToSet(s.monitors)
    BY <1>0, DistinctAssumption DEF WindowState, ToSet
  <2> QED  BY <2>1
<1>1. /\ t \in WindowState /\ t.clients = s.clients /\ t.mapped = s.mapped
      /\ t.mapwait = s.mapwait /\ t.enabled = s.enabled /\ t.monitors = s.monitors
      /\ t.session = s.session /\ t.focus_stack = s.focus_stack /\ t.kbd = s.kbd
      /\ t.mon = s.mon /\ t.shown = s.shown /\ t.selected_monitor = m
      /\ t.tags = s.tags /\ t.tagset = s.tagset /\ t.seltags = s.seltags
  BY <1>0 DEF WindowState
<1> HIDE DEF t
<1>2. Listed(t)  BY <1>1 DEF Listed
<1>3. Placed(s) => Placed(t)  BY <1>1 DEF Placed, Held, PlacedBut
<1>6. Drawn(s) => Drawn(t)  BY <1>1, SameDrawn
<1>4. \A M : Within(M, s) /\ ToSet(s.monitors) \cup {None} \subseteq M => Within(M, t)
  BY <1>1 DEF Within
<1> QED  BY <1>1, <1>2, <1>3, <1>4, <1>5, <1>6 DEF Safe, t

(* client_focus on nothing, on a menu or on a window. *)
LEMMA FocusSafe ==
  ASSUME NEW s, Listed(s), NEW c \in s.mapped \cup Unmanaged \cup {None},
         Placed(s) /\ c \in Clients => s.mon[c] # None
  PROVE  Safe(s, client_focus(s, c)) /\ SameWindows(s, client_focus(s, c))
<1> DEFINE t == client_focus(s, c)
           d == Target(s, c)
<1>0. s \in WindowState /\ s.mapped \subseteq Clients  BY DEF Listed, WindowState
<1>1. c \in Clients => c \in s.mapped
  BY <1>0, DistinctAssumption
<1>2. /\ t \in WindowState /\ SameWindows(s, t)
      /\ s.session.lock_active \/ (d # None /\ d = s.kbd) => t = s
      /\ ~s.session.lock_active /\ (d = None \/ d # s.kbd) =>
         /\ t.focus_stack = IF d \in Clients THEN ToHead(s.focus_stack, d)
                            ELSE s.focus_stack
         /\ t.selected_monitor = IF d \in Clients THEN s.mon[d]
                                 ELSE s.selected_monitor
         /\ t.kbd = IF KeepsKeyboard(s) THEN s.kbd ELSE d
  BY <1>0, FocusEffect
<1>3. /\ s.session.lock_active \/ KeepsKeyboard(s) => t.kbd = s.kbd
      /\ t.kbd \in Clients \cup Unmanaged \cup {None, s.kbd}
      /\ \A M : Within(M, s) => Within(M, t)
  <2>2. d \in Clients \cup Unmanaged \cup {None}  BY <1>0, TargetIn
  <2>1. t.mon = s.mon  BY <1>2 DEF SameWindows
  <2> HIDE DEF t, d
  <2> QED  BY <1>2, <2>1, <2>2 DEF Within
<1>4. d \in Clients => d \in s.mapped
  BY <1>0, <1>1, TargetIn DEF Listed
<1>5. ToSet(t.focus_stack) = s.mapped /\ IsInjective(t.focus_stack)
  <2>1. s.focus_stack \in Seq(Clients)  BY <1>0 DEF WindowState
  <2>3. t = s \/ t.focus_stack = IF d \in Clients THEN ToHead(s.focus_stack, d)
                                 ELSE s.focus_stack
    BY <1>2
  <2> HIDE DEF t, d
  <2>2. ASSUME d \in Clients
        PROVE  /\ ToSet(ToHead(s.focus_stack, d)) = s.mapped
               /\ IsInjective(ToHead(s.focus_stack, d))
    <3>1. /\ ToSet(ToHead(s.focus_stack, d)) = ToSet(s.focus_stack) \cup {d}
          /\ IsInjective(s.focus_stack) => IsInjective(ToHead(s.focus_stack, d))
      BY <2>1, <2>2, ToHeadSet
    <3>2. ToSet(s.focus_stack) = s.mapped /\ IsInjective(s.focus_stack)  BY DEF Listed
    <3>3. s.mapped \cup {d} = s.mapped  BY <1>4, <2>2
    <3> QED  BY <3>1, <3>2, <3>3, Zenon
  <2> QED  BY <2>2, <2>3 DEF Listed
<1>6. Placed(s) => Held(t)
  <2>1. ASSUME Placed(s)  PROVE c \in Clients => c \in ToSet(s.focus_stack) /\ s.mon[c] # None
    BY <1>1, <2>1 DEF Listed
  <2>2. ASSUME Placed(s)  PROVE Held(t)
    BY <1>0, <1>1, <2>1, <2>2, FocusHolds DEF Listed
  <2> QED  BY <2>2
<1> HIDE DEF t
<1>7. Listed(t)
  <2>1. t = s \/ t.kbd = s.kbd \/ ~s.session.lock_active  BY <1>3
  <2> QED  BY <1>2, <1>3, <1>5, <2>1 DEF Listed, SameWindows
<1>8. PlacedBut(s, None) => PlacedBut(t, None)  BY <1>2 DEF SameWindows, PlacedBut
<1>9. Placed(s) => Placed(t)  BY <1>6, <1>8 DEF Placed
<1>10. t.session = s.session /\ t.monitors = s.monitors /\ t.enabled = s.enabled
  BY <1>2 DEF SameWindows
<1>11. Drawn(s) => Drawn(t)  BY <1>2, SameDrawn DEF SameWindows
<1>12. Placed(s) /\ t.selected_monitor = None => s.selected_monitor = None
  <2>1. Placed(s) /\ d \in Clients => s.mon[d] # None
    BY <1>0, <1>1, TargetIn DEF Visible
  <2> HIDE DEF d
  <2> QED  BY <1>2, <2>1
<1> QED  BY <1>2, <1>3, <1>7, <1>9, <1>10, <1>11, <1>12 DEF Safe, t

(* A window that is in view takes the keyboard for the windows. *)
LEMMA FocusRestores ==
  ASSUME NEW s, Listed(s), NEW c \in s.mapped, Visible(s, c, s.mon[c])
  PROVE  LET t == client_focus(s, c)
         IN  /\ Restores(s, t)
             /\ Modal = {} /\ (c = s.kbd => InFront(s)) => Returned(t)
<1> DEFINE t == client_focus(s, c)
<1>0. s \in WindowState /\ c \in Clients /\ c \in ToSet(s.focus_stack) /\ s.mon[c] # None
  BY DEF Listed, WindowState, Visible
<1>1. t.kbd \in Clients \cup {None, c, s.kbd}  BY <1>0, FocusHolds
<1>2. t.session = s.session  BY <1>0, FocusEffect DEF SameWindows
<1>3. Modal = {} /\ (c = s.kbd => InFront(s)) => Returned(t)
  <2>1. c # None  BY <1>0, DistinctAssumption
  <2> QED  BY <1>0, <2>1, FocusReturns
<1> HIDE DEF t
<1>4. Modal = {} /\ Returned(s) => Returned(t)
  <2>1. ~s.session.lock_active /\ Returned(s) /\ c = s.kbd => InFront(s)
    BY <1>0, DistinctAssumption DEF Returned
  <2>2. s.session.lock_active => Returned(t)  BY <1>2 DEF Returned
  <2> QED  BY <1>3, <2>1, <2>2
<1>5. t.kbd \in Unmanaged => t.kbd = s.kbd  BY <1>0, <1>1, DistinctAssumption
<1> QED  BY <1>3, <1>4, <1>5 DEF Restores, Back, t

LEMMA RefocusSafe ==
  ASSUME NEW s, Listed(s)
  PROVE  Safe(s, Refocus(s)) /\ Restores(s, Refocus(s))
<1>1. s \in WindowState  BY DEF Listed
<1> QED  BY <1>1, RefocusKept, KeptSafe

LEMMA ArrangeSafe ==
  ASSUME NEW s, Listed(s), NEW m
  PROVE  Safe(s, layout_arrange(s, m)) /\ Restores(s, layout_arrange(s, m))
<1>1. s \in WindowState  BY DEF Listed
<1> QED  BY <1>1, ArrangeKept, KeptSafe

(* A mapped window is moved to another monitor, or a new one placed. *)
LEMMA SetMonitorSafe ==
  ASSUME NEW s, Listed(s), NEW c \in s.mapped, NEW m \in Monitors,
         m \in ToSet(s.monitors) \/ m = s.selected_monitor, NEW newtags \in SUBSET Tags
  PROVE  LET t == client_set_monitor(s, c, m, newtags)
         IN  Safe(s, t) /\ Restores(s, t)
<1> DEFINE t == client_set_monitor(s, c, m, newtags)
<1>0. s \in WindowState /\ c \in Clients /\ m # None
  BY DistinctAssumption DEF Listed, WindowState
<1>1. /\ Inner(s, t) /\ t.mon = [s.mon EXCEPT ![c] = m]
      /\ m # None => \A d : PlacedBut(s, d) => PlacedBut(t, d)
      /\ \A M : Within(M, s) /\ m \in M => Within(M, t)
  BY <1>0, SetMonitorInner
<1> HIDE DEF t
<1>2. \A d \in Clients \ s.mapped : t.mon[d] = None
  BY <1>0, <1>1 DEF Listed, WindowState
<1>3. \A M : Within(M, s) /\ ToSet(s.monitors) \cup {None} \subseteq M => Within(M, t)
  BY <1>1 DEF Within
<1> QED  BY <1>0, <1>1, <1>2, <1>3, InnerSafe DEF Placed, t
-----------------------------------------------------------------------------
(* The handlers of windows, one by one. *)

LEMMA InitialCommitSafe ==
  ASSUME Listed(wm), NEW c \in Clients, InitialCommit(c)
  PROVE  Safe(wm, wm') /\ Restores(wm, wm')
<1>0. wm \in WindowState /\ c \notin wm.mapped  BY DEF Listed, InitialCommit
<1>1. PICK rule \in Rules :
        wm' = client_set_monitor(client_apply_rules(wm, c, rule), c, None, {})
  BY DEF InitialCommit
<1> DEFINE r == client_apply_rules(wm, c, rule)
           t == client_set_monitor(r, c, None, {})
<1>2. /\ Inner(wm, r)
      /\ \E m \in Monitors \cup {None} : r.mon = [wm.mon EXCEPT ![c] = m]
      /\ PlacedBut(wm, c) => PlacedBut(r, c)
      /\ \A M : Within(M, wm) /\ ToSet(wm.monitors) \subseteq M => Within(M, r)
  BY <1>0, ApplyRulesInner
<1> HIDE DEF r
<1>3. r \in WindowState  BY <1>2 DEF Inner
<1>4. /\ Inner(r, t) /\ t.mon = [r.mon EXCEPT ![c] = None]
      /\ PlacedBut(r, c) => PlacedBut(t, c)
      /\ \A M : Within(M, r) /\ None \in M => Within(M, t)
  BY <1>3, SetMonitorInner
<1>5. wm' = t  BY <1>1 DEF r
<1> HIDE DEF t
<1>6. Inner(wm, t)  BY <1>2, <1>4, InnerTwice
<1>7. t.shown \subseteq wm.mapped  BY <1>6 DEF Inner, Listed
<1>8. Placed(wm) => PlacedBut(wm, c)  BY <1>0, PlacedAll DEF Placed
<1>9. Placed(wm) => PlacedBut(t, None)
  BY <1>0, <1>2, <1>4, <1>7, <1>8 DEF PlacedBut
<1>10. \A d \in Clients \ wm.mapped : t.mon[d] = None
  BY <1>0, <1>2, <1>4 DEF Listed, WindowState
<1>11. \A M : Within(M, wm) /\ ToSet(wm.monitors) \cup {None} \subseteq M => Within(M, t)
  BY <1>2, <1>4
<1> QED  BY <1>5, <1>6, <1>9, <1>10, <1>11, InnerSafe

LEMMA SetParentSafe ==
  ASSUME Listed(wm), NEW c \in Clients, SetParent(c)
  PROVE  Safe(wm, wm') /\ Restores(wm, wm')
<1> DEFINE t == [wm EXCEPT !.linked = @ \cup {c}]
<1>0. wm \in WindowState /\ wm' = t  BY DEF Listed, SetParent
<1>1. /\ t \in WindowState /\ t.clients = wm.clients /\ t.mapped = wm.mapped
      /\ t.mapwait = wm.mapwait /\ t.enabled = wm.enabled /\ t.monitors = wm.monitors
      /\ t.session = wm.session /\ t.focus_stack = wm.focus_stack /\ t.kbd = wm.kbd
      /\ t.mon = wm.mon /\ t.selected_monitor = wm.selected_monitor
      /\ t.shown = wm.shown /\ t.tags = wm.tags
      /\ t.tagset = wm.tagset /\ t.seltags = wm.seltags
  BY <1>0 DEF WindowState
<1> HIDE DEF t
<1>2. Listed(t) /\ (Placed(wm) => Placed(t))  BY <1>1 DEF Listed, Placed, Held, PlacedBut
<1>3. \A M : Within(M, wm) => Within(M, t)  BY <1>1 DEF Within
<1>4. Drawn(wm) => Drawn(t)  BY <1>1, SameDrawn
<1>5. Restores(wm, t)  BY <1>0, <1>1, SameRestores
<1> QED  BY <1>0, <1>1, <1>2, <1>3, <1>4, <1>5 DEF Safe

LEMMA InsertSafe ==
  ASSUME Listed(wm), NEW c \in Clients, c \notin wm.mapped
  PROVE  LET t == Insert(wm, c)
         IN  /\ Safe(wm, t) /\ Restores(wm, t)
             /\ t.mapped = wm.mapped \cup {c} /\ t.mon = wm.mon
<1> DEFINE t == Insert(wm, c)
<1>0. /\ wm \in WindowState /\ wm.clients \in Seq(Clients)
      /\ wm.focus_stack \in Seq(Clients) /\ wm.mapped \subseteq Clients
      /\ wm.mon[c] = None /\ c \notin ToSet(wm.clients) /\ c \notin ToSet(wm.focus_stack)
  BY DEF Listed, WindowState
<1>1. /\ t \in WindowState /\ t.mapped = wm.mapped \cup {c}
      /\ t.clients = Append(wm.clients, c) /\ t.focus_stack = <<c>> \o wm.focus_stack
      /\ t.kbd = wm.kbd /\ t.mapwait = wm.mapwait /\ t.monitors = wm.monitors
      /\ t.mon = wm.mon /\ t.enabled = wm.enabled /\ t.shown = wm.shown \ {c}
      /\ t.selected_monitor = wm.selected_monitor /\ t.session = wm.session
      /\ t.tags = wm.tags /\ t.tagset = wm.tagset /\ t.seltags = wm.seltags
  <2>1. t \in WindowState  BY <1>0, InsertType
  <2> QED  BY <1>0, <2>1 DEF Insert, WindowState
<1> HIDE DEF t
<1>2. /\ ToSet(t.focus_stack) = wm.mapped \cup {c} /\ IsInjective(t.focus_stack)
      /\ ToSet(t.clients) = ToSet(wm.clients) \cup {c} /\ IsInjective(t.clients)
  BY <1>0, <1>1, HeadSet, AppendSet DEF Listed
<1>3. Listed(t)  BY <1>0, <1>1, <1>2 DEF Listed
<1>4. Placed(wm) => Placed(t)
  BY <1>1, <1>2 DEF Placed, Held, PlacedBut, Listed
<1>5. \A M : Within(M, wm) => Within(M, t)  BY <1>1 DEF Within
<1>6. Drawn(wm) => Drawn(t)
  <2>1. None \notin t.enabled  BY <1>1, DistinctAssumption DEF WindowState
  <2>2. \A d, m : Visible(t, d, m) <=> Visible(wm, d, m)  BY <1>1 DEF Visible, Viewed
  <2> QED  BY <1>0, <1>1, <2>1, <2>2 DEF Drawn
<1>7. \A m : client_top(t, m) = client_top(wm, m)  BY <1>0, <1>1, TopUnderHead
<1>8. Restores(wm, t)  BY <1>0, <1>1, <1>7, TopRestores
<1> QED  BY <1>1, <1>3, <1>4, <1>5, <1>6, <1>8 DEF Safe, t

LEMMA HoldBackSafe ==
  ASSUME NEW s, Listed(s), NEW c \in s.mapped, NEW late \in BOOLEAN
  PROVE  LET t == toplevel_map(HoldBack(s, c, late), c)
         IN  Safe(s, t) /\ Restores(s, t)
<1> DEFINE h == HoldBack(s, c, late)
           t == toplevel_map(h, c)
           r == [h EXCEPT !.ftl = @ \cup {c}]
           a == [r EXCEPT !.toplevel_active = c]
<1>0. s \in WindowState /\ c \in Clients  BY DEF Listed, WindowState
<1>1. /\ h \in WindowState /\ h.kbd = s.kbd /\ h.monitors = s.monitors
      /\ h.clients = s.clients /\ h.mapped = s.mapped /\ h.enabled = s.enabled
      /\ h.session = s.session /\ h.focus_stack = s.focus_stack
      /\ h.mon = s.mon /\ h.selected_monitor = s.selected_monitor
      /\ h.mapwait = s.mapwait \cup (IF late THEN {c} ELSE {})
      /\ h.shown = s.shown \ (IF late THEN {c} ELSE {})
      /\ h.tags = s.tags /\ h.tagset = s.tagset /\ h.seltags = s.seltags
  <2>1. h \in WindowState  BY <1>0, HoldBackType
  <2> QED  BY <1>0, <2>1 DEF HoldBack, WindowState
<1> HIDE DEF h
<1>2. /\ r \in WindowState /\ r.kbd = h.kbd /\ r.monitors = h.monitors
      /\ r.clients = h.clients /\ r.mapped = h.mapped /\ r.enabled = h.enabled
      /\ r.session = h.session /\ r.focus_stack = h.focus_stack /\ r.mon = h.mon
      /\ r.selected_monitor = h.selected_monitor
      /\ r.mapwait = h.mapwait /\ r.shown = h.shown
      /\ r.tags = h.tags /\ r.tagset = h.tagset /\ r.seltags = h.seltags
  BY <1>0, <1>1 DEF WindowState
<1>3. t = IF r.kbd = c THEN a ELSE r
  BY <1>0, DistinctAssumption DEF toplevel_map, toplevel_focus, WindowState
<1>4. t \in WindowState  BY <1>0, <1>1, ToplevelMapType
<1> HIDE DEF r
<1>5. /\ a.kbd = r.kbd /\ a.monitors = r.monitors
      /\ a.clients = r.clients /\ a.mapped = r.mapped /\ a.enabled = r.enabled
      /\ a.session = r.session /\ a.focus_stack = r.focus_stack /\ a.mon = r.mon
      /\ a.selected_monitor = r.selected_monitor
      /\ a.mapwait = r.mapwait /\ a.shown = r.shown
      /\ a.tags = r.tags /\ a.tagset = r.tagset /\ a.seltags = r.seltags
  BY <1>2 DEF WindowState
<1> HIDE DEF t, a
<1>6. /\ t.kbd = s.kbd /\ t.monitors = s.monitors
      /\ t.clients = s.clients /\ t.mapped = s.mapped /\ t.enabled = s.enabled
      /\ t.session = s.session /\ t.focus_stack = s.focus_stack
      /\ t.mon = s.mon /\ t.selected_monitor = s.selected_monitor
      /\ t.mapwait = s.mapwait \cup (IF late THEN {c} ELSE {})
      /\ t.shown = s.shown \ (IF late THEN {c} ELSE {})
      /\ t.tags = s.tags /\ t.tagset = s.tagset /\ t.seltags = s.seltags
  BY <1>1, <1>2, <1>3, <1>5
<1>7. Listed(t)  BY <1>4, <1>6 DEF Listed
<1>8. Placed(s) => Placed(t)  BY <1>6 DEF Placed, Held, PlacedBut
<1>9. \A M : Within(M, s) => Within(M, t)  BY <1>6 DEF Within
<1>10. Drawn(s) => Drawn(t)  BY <1>6 DEF Drawn, Visible, Viewed
<1>11. Restores(s, t)  BY <1>0, <1>4, <1>6, SameRestores
<1> QED  BY <1>6, <1>7, <1>8, <1>9, <1>10, <1>11 DEF Safe, t, h

LEMMA MapSafe ==
  ASSUME Listed(wm), NEW c \in Clients, client_handle_map(c)
  PROVE  Safe(wm, wm') /\ Restores(wm, wm')
<1>1. PICK rule \in Rules, late \in BOOLEAN :
        wm' = UnsetFullscreen(toplevel_map(
                HoldBack(Place(Insert(wm, c), c, rule), c, late), c), c)
  BY DEF client_handle_map
<1> DEFINE i == Insert(wm, c)
           p == Place(i, c, rule)
           h == toplevel_map(HoldBack(p, c, late), c)
           u == UnsetFullscreen(h, c)
<1>0. c \notin wm.mapped  BY DEF client_handle_map
<1>2. /\ Safe(wm, i) /\ Restores(wm, i)
      /\ i.mapped = wm.mapped \cup {c} /\ i.mon = wm.mon
  BY <1>0, InsertSafe
<1>3. wm' = u  BY <1>1
<1> HIDE DEF i
<1>4. Listed(i) /\ i \in WindowState /\ i.mon[c] = None
  BY <1>0, <1>2 DEF Safe, Listed
<1>5. /\ Inner(i, p)
      /\ \E m \in Monitors \cup {None} : p.mon = [i.mon EXCEPT ![c] = m]
      /\ i.mon[c] = None /\ PlacedBut(i, None) => PlacedBut(p, None)
      /\ \A M : Within(M, i) /\ ToSet(i.monitors) \subseteq M => Within(M, p)
  BY <1>4, PlaceInner
<1> HIDE DEF p
<1>6. \A d \in Clients \ i.mapped : p.mon[d] = None
  BY <1>2, <1>4, <1>5 DEF Listed, WindowState
<1>7. Safe(i, p) /\ Restores(i, p)  BY <1>4, <1>5, <1>6, InnerSafe DEF Placed
<1>8. Listed(p) /\ c \in p.mapped  BY <1>2, <1>5, <1>7 DEF Safe, Inner, SameLists
<1>9. Safe(p, h) /\ Restores(p, h)  BY <1>8, HoldBackSafe
<1> HIDE DEF h
<1>10. Listed(h) /\ h \in WindowState  BY <1>9 DEF Safe, Listed
<1>11. Safe(h, u) /\ Restores(h, u)  BY <1>10, UnsetFullscreenKept, KeptSafe
<1> HIDE DEF u
<1> QED  BY <1>2, <1>3, <1>7, <1>9, <1>11, SafeTwice, RestoresTwice

LEMMA MapWaitSafe ==
  ASSUME Listed(wm), NEW c \in Clients, client_map_wait_done(c)
  PROVE  Safe(wm, wm') /\ Restores(wm, wm')
<1> DEFINE set == IF wm.mon[c] = None THEN wm.shown
                  ELSE IF Visible(wm, c, wm.mon[c]) THEN wm.shown \cup {c}
                  ELSE wm.shown \ {c}
           t == [wm EXCEPT !.mapwait = @ \ {c}, !.shown = set]
<1>0. wm \in WindowState /\ wm' = t /\ c \in wm.mapwait /\ c \in wm.mapped
  BY DEF Listed, client_map_wait_done
<1>1. /\ set \subseteq Clients /\ set \subseteq wm.mapped
      /\ \A d \in set : d \in wm.shown \/ (d = c /\ wm.mon[c] # None)
      /\ \A d : d # c => (d \in set <=> d \in wm.shown)
      /\ wm.mon[c] # None => (c \in set <=> Visible(wm, c, wm.mon[c]))
  BY <1>0 DEF WindowState, Listed
<1> HIDE DEF set
<1>2. /\ t \in WindowState /\ t.clients = wm.clients /\ t.mapped = wm.mapped
      /\ t.mapwait = wm.mapwait \ {c} /\ t.enabled = wm.enabled
      /\ t.monitors = wm.monitors /\ t.session = wm.session
      /\ t.focus_stack = wm.focus_stack /\ t.kbd = wm.kbd /\ t.mon = wm.mon
      /\ t.selected_monitor = wm.selected_monitor /\ t.shown = set
      /\ t.tags = wm.tags /\ t.tagset = wm.tagset /\ t.seltags = wm.seltags
  BY <1>0, <1>1 DEF WindowState
<1> HIDE DEF t
<1>3. Listed(t)  BY <1>1, <1>2 DEF Listed
<1>4. Placed(wm) => Placed(t)  BY <1>1, <1>2 DEF Placed, Held, PlacedBut
<1>5. \A M : Within(M, wm) => Within(M, t)  BY <1>2 DEF Within
<1>6. Drawn(wm) => Drawn(t)
  <2>1. None \notin t.enabled  BY <1>2, DistinctAssumption DEF WindowState
  <2>2. \A d, m : Visible(t, d, m) <=> Visible(wm, d, m)  BY <1>2 DEF Visible, Viewed
  <2> QED  BY <1>1, <1>2, <2>1, <2>2 DEF Drawn
<1>7. Restores(wm, t)  BY <1>0, <1>2, SameRestores
<1> QED  BY <1>0, <1>2, <1>3, <1>4, <1>5, <1>6, <1>7 DEF Safe

LEMMA DetachedEffect ==
  ASSUME NEW s, Listed(s), NEW c \in s.mapped
  PROVE  LET d == Detached(s, c)
         IN  /\ d \in WindowState /\ d.mapped = s.mapped \ {c}
             /\ d.mapwait = s.mapwait \ {c} /\ d.clients = Without(s.clients, c)
             /\ d.mon = s.mon /\ d.enabled = s.enabled /\ d.kbd = s.kbd
             /\ d.shown = s.shown /\ d.focus_stack = s.focus_stack
             /\ d.selected_monitor = s.selected_monitor
             /\ d.session = s.session /\ d.monitors = s.monitors
             /\ d.tags = s.tags /\ d.tagset = s.tagset /\ d.seltags = s.seltags
<1> DEFINE u == toplevel_unmap(s, c)
           l == Without(s.clients, c)
           d == Detached(s, c)
<1>0. s \in WindowState /\ c \in Clients /\ c # None /\ s.clients \in Seq(Clients)
  BY DistinctAssumption DEF Listed, WindowState
<1>1. /\ u \in WindowState
      /\ u.clients = s.clients /\ u.mapped = s.mapped /\ u.mapwait = s.mapwait
      /\ u.enabled = s.enabled /\ u.session = s.session /\ u.monitors = s.monitors
      /\ u.focus_stack = s.focus_stack /\ u.kbd = s.kbd /\ u.mon = s.mon
      /\ u.shown = s.shown /\ u.selected_monitor = s.selected_monitor
      /\ u.tags = s.tags /\ u.tagset = s.tagset /\ u.seltags = s.seltags
  <2>1. u \in WindowState  BY <1>0, ToplevelUnmapType
  <2> QED  BY <1>0, <2>1 DEF toplevel_unmap, WindowState
<1>2. l \in Seq(Clients)  BY <1>0, WithoutType
<1>3. d = [u EXCEPT !.mapped = u.mapped \ {c}, !.mapwait = u.mapwait \ {c}, !.clients = l]
  <2> HIDE DEF u
  <2>1. d = [u EXCEPT !.mapped = @ \ {c}, !.mapwait = @ \ {c}, !.clients = Without(@, c)]
    BY DEF Detached, u
  <2> QED  BY <1>1, <2>1 DEF WindowState
<1> HIDE DEF u, l, d
<1>4. /\ d \in WindowState
      /\ d.clients = l /\ d.mapped = s.mapped \ {c} /\ d.mapwait = s.mapwait \ {c}
      /\ d.enabled = s.enabled /\ d.session = s.session /\ d.monitors = s.monitors
      /\ d.focus_stack = s.focus_stack /\ d.kbd = s.kbd /\ d.mon = s.mon
      /\ d.shown = s.shown /\ d.selected_monitor = s.selected_monitor
      /\ d.tags = s.tags /\ d.tagset = s.tagset /\ d.seltags = s.seltags
  BY <1>1, <1>2, <1>3 DEF WindowState
<1> QED  BY <1>4 DEF d, l

LEMMA UnmapSafe ==
  ASSUME Listed(wm), NEW c \in Clients, client_handle_unmap(c)
  PROVE  Safe(wm, wm') /\ Restores(wm, wm')
<1> DEFINE d == Detached(wm, c)
           a == client_set_monitor(d, c, None, {})
           t == Drop(a, c)
<1>0. wm' = t /\ c \in wm.mapped /\ wm \in WindowState
  BY DEF client_handle_unmap, Drop, Listed
<1>1. /\ d \in WindowState /\ d.mapped = wm.mapped \ {c}
      /\ d.mapwait = wm.mapwait \ {c} /\ d.clients = Without(wm.clients, c)
      /\ d.mon = wm.mon /\ d.enabled = wm.enabled /\ d.kbd = wm.kbd
      /\ d.shown = wm.shown /\ d.focus_stack = wm.focus_stack
      /\ d.selected_monitor = wm.selected_monitor
      /\ d.session = wm.session /\ d.monitors = wm.monitors
      /\ d.tags = wm.tags /\ d.tagset = wm.tagset /\ d.seltags = wm.seltags
  BY <1>0, DetachedEffect
<1> HIDE DEF d
<1>2. /\ Inner(d, a) /\ a.mon = [d.mon EXCEPT ![c] = None]
      /\ PlacedBut(d, c) => PlacedBut(a, c)
      /\ \A M : Within(M, d) /\ None \in M => Within(M, a)
  BY <1>1, SetMonitorInner
<1> HIDE DEF a
<1>3. /\ a.clients = d.clients /\ a.mapped = d.mapped /\ a.mapwait = d.mapwait
      /\ a.monitors = d.monitors /\ a.enabled = d.enabled /\ a.session = d.session
      /\ ToSet(a.focus_stack) = ToSet(d.focus_stack)
      /\ IsInjective(d.focus_stack) => IsInjective(a.focus_stack)
      /\ a \in WindowState /\ a.shown \subseteq d.shown \cup ToSet(d.clients)
      /\ d.session.lock_active \/ KeepsKeyboard(d) => a.kbd = d.kbd
      /\ a.kbd \in Clients \cup {None, d.kbd}
      /\ Held(d) => Held(a)
      /\ Back(d, a)
      /\ Drawable(d) /\ Drawn(d) => Drawn(a)
      /\ a.selected_monitor = None => d.selected_monitor = None
  BY <1>2 DEF Inner, SameLists, Grip
<1>4. /\ t \in WindowState /\ t.clients = a.clients /\ t.mapped = a.mapped
      /\ t.mapwait = a.mapwait /\ t.enabled = a.enabled /\ t.monitors = a.monitors
      /\ t.session = a.session /\ t.focus_stack = Without(a.focus_stack, c)
      /\ t.kbd = a.kbd /\ t.mon = a.mon
      /\ t.selected_monitor = a.selected_monitor /\ t.shown = a.shown \ {c}
      /\ t.tags = a.tags /\ t.tagset = a.tagset /\ t.seltags = a.seltags
  <2>1. t \in WindowState  BY <1>3, DropEffect
  <2>2. t.monitors = a.monitors  BY <1>3 DEF Drop, WindowState
  <2> QED  BY <1>3, <2>2, DropEffect
<1> HIDE DEF t
<1>5. a.mon[c] = None /\ \A x \in Clients \ {c} : a.mon[x] = wm.mon[x]
  BY <1>1, <1>2 DEF WindowState
<1>6. ToSet(t.clients) = ToSet(wm.clients) \ {c} /\ IsInjective(t.clients)
  <2>1. wm.clients \in Seq(Clients)  BY <1>0 DEF WindowState
  <2>2. IsInjective(wm.clients)  BY DEF Listed
  <2>3. /\ ToSet(Without(wm.clients, c)) = ToSet(wm.clients) \ {c}
        /\ IsInjective(Without(wm.clients, c))
    BY <2>1, <2>2, WithoutSet
  <2> QED  BY <1>1, <1>3, <1>4, <2>3
<1>7. ToSet(t.focus_stack) = wm.mapped \ {c} /\ IsInjective(t.focus_stack)
  <2>1. a.focus_stack \in Seq(Clients)  BY <1>3 DEF WindowState
  <2>2. ToSet(a.focus_stack) = wm.mapped /\ IsInjective(a.focus_stack)
    BY <1>1, <1>3 DEF Listed
  <2>3. /\ ToSet(Without(a.focus_stack, c)) = ToSet(a.focus_stack) \ {c}
        /\ IsInjective(Without(a.focus_stack, c))
    BY <2>1, <2>2, WithoutSet
  <2> QED  BY <1>4, <2>2, <2>3
<1>8. t.shown \subseteq t.mapped
  <2>1. a.shown \subseteq wm.mapped
    <3>1. ToSet(d.clients) \subseteq wm.mapped  BY <1>1, <1>3, <1>4, <1>6 DEF Listed
    <3> QED  BY <1>1, <1>3, <3>1 DEF Listed
  <2> QED  BY <1>1, <1>3, <1>4, <2>1
<1>9. \A x \in Clients \ t.mapped : t.mon[x] = None
  BY <1>1, <1>3, <1>4, <1>5 DEF Listed
<1>10. /\ wm.session.lock_active \/ KeepsKeyboard(wm) => t.kbd = wm.kbd
       /\ t.kbd \in Clients \cup {None, wm.kbd}
  BY <1>1, <1>3, <1>4 DEF KeepsKeyboard
<1>11. t.session = wm.session /\ t.monitors = wm.monitors /\ t.enabled = wm.enabled
  BY <1>1, <1>3, <1>4
<1>12. Listed(t)
  <2>1. t.mapwait \subseteq t.mapped  BY <1>1, <1>3, <1>4 DEF Listed
  <2>2. /\ ToSet(t.clients) \subseteq t.mapped /\ t.mapped = wm.mapped \ {c}
        /\ -1 \notin StackSteps => ToSet(t.clients) = t.mapped
    BY <1>1, <1>3, <1>4, <1>6 DEF Listed
  <2> QED  BY <1>4, <1>6, <1>7, <1>8, <1>9, <1>10, <1>11, <2>1, <2>2 DEF Listed
<1>13. ASSUME Placed(wm)  PROVE Placed(t)
  <2>1. Held(d) /\ PlacedBut(d, c)
    <3>1. Held(wm) /\ PlacedBut(wm, None)  BY <1>13 DEF Placed
    <3>2. Held(d)  BY <1>1, <3>1 DEF Held
    <3>3. PlacedBut(wm, c)  BY <1>0, <3>1, PlacedAll
    <3> QED  BY <1>1, <3>2, <3>3 DEF PlacedBut
  <2>2. Held(a) /\ PlacedBut(a, c)  BY <1>2, <1>3, <2>1
  <2>3. Held(t)
    BY <1>1, <1>3, <1>4, <1>5, <1>7, <2>2 DEF Held, Listed
  <2>4. PlacedBut(t, None)  BY <1>4, <2>2 DEF PlacedBut
  <2> QED  BY <2>3, <2>4 DEF Placed
<1>14. \A M : Within(M, wm) /\ ToSet(wm.monitors) \cup {None} \subseteq M => Within(M, t)
  <2>1. \A M : Within(M, wm) => Within(M, d)  BY <1>1 DEF Within
  <2>2. \A M : Within(M, a) => Within(M, t)  BY <1>4 DEF Within
  <2> QED  BY <1>2, <2>1, <2>2
<1>15. ASSUME Drawing, Drawn(wm)  PROVE Drawn(t)
  <2>1. Drawn(d)  BY <1>1, <1>15 DEF Drawn, Visible, Viewed
  <2>2. ToSet(d.clients) = d.mapped /\ (Modal = {} \/ OneMonitor)
    BY <1>1, <1>3, <1>4, <1>6, <1>15 DEF Drawing, Listed
  <2>3. Drawn(a)  BY <1>3, <2>1, <2>2 DEF Drawable
  <2>4. c \notin a.mapped  BY <1>1, <1>3
  <2>5. \A x, m : Visible(t, x, m) <=> Visible(a, x, m)  BY <1>4 DEF Visible, Viewed
  <2> QED  BY <1>4, <2>3, <2>4, <2>5 DEF Drawn
<1>16. Restores(wm, t)
  <2>1. Restores(wm, d)  BY <1>0, <1>1, SameRestores
  <2>2. Restores(d, a)  BY <1>3, DistinctAssumption DEF Restores
  <2>3. \A m : client_top(t, m) = client_top(a, m)  BY <1>0, <1>3, <1>4, <1>5, TopWithout
  <2>4. Restores(a, t)  BY <1>3, <1>4, <2>3, TopRestores
  <2> QED  BY <2>1, <2>2, <2>4, RestoresTwice
<1>17. t.selected_monitor = None => wm.selected_monitor = None  BY <1>1, <1>3, <1>4
<1> QED
  BY <1>0, <1>10, <1>11, <1>12, <1>13, <1>14, <1>15, <1>16, <1>17 DEF Safe

LEMMA ActivateSafe ==
  ASSUME Listed(wm), NEW c \in Clients, client_activate(c)
  PROVE  Safe(wm, wm') /\ (Tagged(wm) => Restores(wm, wm'))
<1> DEFINE m  == wm.mon[c]
           at == [wm EXCEPT !.selected_monitor = m]
           v  == layout_view(at, wm.tags[c])
           w  == IF Visible(at, c, m) THEN at ELSE v
           t  == client_focus(w, c)
<1>0. wm \in WindowState /\ m \in Monitors /\ c \in wm.mapped /\ m # None
  BY DEF Listed, WindowState, client_activate
<1>1. wm' = t  BY DEF client_activate
<1>2. /\ Safe(wm, at) /\ at.mapped = wm.mapped /\ at.mon = wm.mon
      /\ at.kbd = wm.kbd
  BY <1>0, SelectSafe
<1>6. w = Activated(c)  BY DEF Activated
<1>7. m = wm.selected_monitor => at = wm  BY <1>0 DEF WindowState
<1> HIDE DEF at, w
<1>3. Kept(at, w) /\ Safe(at, w) /\ w.mon = at.mon /\ w.mapped = at.mapped
  <2>1. Listed(at) /\ at \in WindowState /\ wm.tags[c] \in SUBSET Tags
    BY <1>0, <1>2 DEF Safe, Listed, WindowState
  <2>2. Kept(at, at)  BY <2>1, KeptSelf
  <2>3. Kept(at, v)  BY <2>1, ViewKept
  <2> HIDE DEF v
  <2>4. Kept(at, w)  BY <2>2, <2>3 DEF w
  <2> QED  BY <2>1, <2>4, KeptSafe DEF Kept, Inner, SameLists
<1>4. Listed(w) /\ c \in w.mapped /\ w.mon[c] = m  BY <1>0, <1>2, <1>3 DEF Safe
<1>5. Safe(w, t)  BY <1>0, <1>4, FocusSafe
<1> HIDE DEF t
<1>8. Safe(wm, t)  BY <1>2, <1>3, <1>5, SafeTwice
<1>9. ASSUME Tagged(wm)  PROVE Restores(wm, t)
  <2>1. Visible(w, c, m) /\ (w = at \/ (Modal = {} => Returned(w)))
    BY <1>0, <1>6, <1>9, ActivatedInView DEF at
  <2>2. Restores(w, t) /\ (Modal = {} /\ (c = w.kbd => InFront(w)) => Returned(t))
    BY <1>4, <2>1, FocusRestores DEF t
  <2>3. t.kbd \in Unmanaged => t.kbd = wm.kbd
    BY <1>0, <1>2, <1>3, <2>2, DistinctAssumption DEF Kept, Inner, Grip, Restores
  <2>4. ASSUME Modal = {}, Returned(wm)  PROVE Returned(t)
    <3>1. CASE wm.session.lock_active
      BY <1>8, <3>1 DEF Safe, Returned
    <3>2. CASE ~wm.session.lock_active /\ w = at
      <4>1. c = at.kbd => InFront(at)
        <5> SUFFICES ASSUME c = at.kbd  PROVE InFront(at)  OBVIOUS
        <5>1. c \notin Layers \cup Unmanaged \cup {None}
          BY <1>0, DistinctAssumption
        <5>2. c = client_top(wm, wm.selected_monitor)
          BY <1>2, <2>4, <3>2, <5>1 DEF Returned, InFront
        <5>3. wm.mon[c] = wm.selected_monitor  BY <1>0, <5>1, <5>2, TopIn DEF Visible
        <5> QED  BY <1>2, <1>7, <5>2, <5>3 DEF InFront
      <4> QED  BY <2>2, <2>4, <3>2, <4>1
    <3>3. CASE Returned(w)  BY <2>2, <2>4, <3>3 DEF Restores, Back
    <3> QED  BY <2>1, <2>4, <3>1, <3>2, <3>3
  <2> QED  BY <2>3, <2>4 DEF Restores, Back
<1> QED  BY <1>1, <1>8, <1>9

LEMMA ClientEventSafe ==
  ASSUME Listed(wm), NEW c \in Clients, ClientEvent(c)
  PROVE  Safe(wm, wm') /\ (Tagged(wm) => Restores(wm, wm'))
<1>0. wm \in WindowState  BY DEF Listed
<1>1. CASE InitialCommit(c)  BY <1>1, InitialCommitSafe
<1>2. CASE SetParent(c)  BY <1>2, SetParentSafe
<1>3. CASE client_handle_map(c)  BY <1>3, MapSafe
<1>4. CASE client_map_wait_done(c)  BY <1>4, MapWaitSafe
<1>5. CASE client_handle_unmap(c)  BY <1>5, UnmapSafe
<1>6. CASE RequestFullscreen(c)
  <2>2. Kept(wm, wm')  BY <1>0, <1>6, SetFlagsKept DEF RequestFullscreen
  <2> QED  BY <2>2, KeptSafe
<1>7. CASE RingBell(c)  BY <1>0, <1>7, RingBellKept, KeptSafe
<1>8. CASE client_activate(c)  BY <1>8, ActivateSafe
<1> QED  BY <1>1, <1>2, <1>3, <1>4, <1>5, <1>6, <1>7, <1>8 DEF ClientEvent

(* A window that is in view is on a monitor and, in a list, mapped. *)
LEMMA InViewSafe ==
  ASSUME NEW s, Listed(s), NEW c \in s.mapped, Visible(s, c, s.selected_monitor)
  PROVE  Safe(s, client_focus(s, c)) /\ Restores(s, client_focus(s, c))
<1>1. s.mon[c] # None /\ Visible(s, c, s.mon[c])  BY DEF Visible
<1> QED  BY <1>1, FocusSafe, FocusRestores

LEMMA FocusStackSafe ==
  ASSUME Listed(wm), NEW step \in {-1, 1}, layout_focus_stack(step)
  PROVE  Safe(wm, wm') /\ Restores(wm, wm')
<1> DEFINE sel  == client_top(wm, wm.selected_monitor)
           at   == Position(wm.clients, sel)
           next == NextInView(wm, at, step)
<1>0. wm \in WindowState /\ sel \in Clients \cup {None}  BY TopIn DEF Listed
<1>1. sel # None /\ sel \in ToSet(wm.clients)  BY DEF layout_focus_stack
<1>2. at \in InView(wm)
  <2>1. at \in 1 .. Len(wm.clients) /\ wm.clients[at] = sel
    BY <1>0, <1>1, InViewType, PositionType
  <2>2. Visible(wm, sel, wm.selected_monitor)  BY <1>0, <1>1, TopIn
  <2> QED  BY <1>0, <2>1, <2>2, InViewType DEF InView
<1>3. next \in InView(wm)  BY <1>0, <1>2, NextInViewType
<1>4. wm' = client_focus(wm, wm.clients[next])  BY DEF layout_focus_stack
<1> HIDE DEF next
<1>5. next \in DOMAIN wm.clients /\ Visible(wm, wm.clients[next], wm.selected_monitor)
  BY <1>3 DEF InView
<1>6. wm.clients[next] \in wm.mapped  BY <1>5 DEF ToSet, Listed
<1> QED  BY <1>4, <1>5, <1>6, InViewSafe

LEMMA ReorderSafe ==
  ASSUME NEW s, Listed(s), NEW l \in Seq(Clients), IsInjective(l),
         ToSet(l) \subseteq s.mapped, -1 \notin StackSteps => ToSet(l) = s.mapped
  PROVE  LET t == [s EXCEPT !.clients = l]
         IN  /\ Safe(s, t) /\ Restores(s, t)
             /\ t.mapped = s.mapped /\ t.mon = s.mon
             /\ t.selected_monitor = s.selected_monitor
             /\ \A c, m : Visible(t, c, m) <=> Visible(s, c, m)
<1> DEFINE t == [s EXCEPT !.clients = l]
<1>0. s \in WindowState  BY DEF Listed
<1>1. /\ t \in WindowState /\ t.clients = l /\ t.mapped = s.mapped
      /\ t.mapwait = s.mapwait /\ t.enabled = s.enabled /\ t.monitors = s.monitors
      /\ t.session = s.session /\ t.focus_stack = s.focus_stack /\ t.kbd = s.kbd
      /\ t.mon = s.mon /\ t.shown = s.shown
      /\ t.selected_monitor = s.selected_monitor /\ t.tags = s.tags
      /\ t.tagset = s.tagset /\ t.seltags = s.seltags
  BY <1>0 DEF WindowState
<1> HIDE DEF t
<1>2. Listed(t)  BY <1>1 DEF Listed
<1>3. Placed(s) => Placed(t)  BY <1>1 DEF Placed, Held, PlacedBut
<1>4. \A M : Within(M, s) => Within(M, t)  BY <1>1 DEF Within
<1>5. \A c, m : Visible(t, c, m) <=> Visible(s, c, m)  BY <1>1 DEF Visible, Viewed
<1>6. Drawn(s) => Drawn(t)  BY <1>1, SameDrawn
<1>7. Restores(s, t)  BY <1>0, <1>1, SameRestores
<1> QED  BY <1>1, <1>2, <1>3, <1>4, <1>5, <1>6, <1>7 DEF Safe, t

LEMMA MoveStackSafe ==
  ASSUME Listed(wm), NEW step \in StackSteps, layout_move_stack(step)
  PROVE  Safe(wm, wm') /\ Restores(wm, wm')
<1> DEFINE sel == client_top(wm, wm.selected_monitor)
           l   == IF step > 0 THEN MoveDown(wm, sel) ELSE MoveUp(wm, sel)
           t   == [wm EXCEPT !.clients = l]
           a   == layout_arrange(t, wm.selected_monitor)
<1>0. wm \in WindowState /\ sel \in Clients \cup {None}  BY TopIn DEF Listed
<1>1. sel # None /\ sel \in ToSet(wm.clients) /\ wm' = a
  BY DEF layout_move_stack
<1>2. sel \in Clients /\ IsInjective(wm.clients) /\ ToSet(wm.clients) \subseteq wm.mapped
  BY <1>0, <1>1 DEF Listed
<1>3. step = 1 \/ (step = -1 /\ -1 \in StackSteps)  BY StackStepsAssumption
<1>4. -1 \notin StackSteps => l = MoveDown(wm, sel) /\ ToSet(wm.clients) = wm.mapped
  BY <1>3 DEF Listed
<1> HIDE DEF sel
<1>7. l \in Seq(Clients)  BY <1>0, <1>1, <1>2, MoveDownType, MoveUpType
<1>8. /\ IsInjective(l) /\ ToSet(l) \subseteq wm.mapped
      /\ -1 \notin StackSteps => ToSet(l) = wm.mapped
  BY <1>0, <1>1, <1>2, <1>4, MoveDownSet, MoveUpSet
<1> HIDE DEF l
<1>5. Safe(wm, t) /\ Restores(wm, t)  BY <1>7, <1>8, ReorderSafe
<1> HIDE DEF t
<1>6. Safe(t, a) /\ Restores(t, a)  BY <1>5, ArrangeSafe DEF Safe
<1> QED  BY <1>1, <1>5, <1>6, SafeTwice, RestoresTwice

LEMMA ZoomSafe ==
  ASSUME Listed(wm), layout_zoom
  PROVE  Safe(wm, wm') /\ Restores(wm, wm')
<1> DEFINE sel   == client_top(wm, wm.selected_monitor)
           tiles == {i \in InView(wm) : wm.clients[i] \notin wm.isfloating}
           later == tiles \ {Min(tiles)}
           first == wm.clients[Min(tiles)]
           up    == IF first # sel THEN sel ELSE wm.clients[Min(later)]
           l     == ToHead(wm.clients, up)
           t     == [wm EXCEPT !.clients = l]
           moved == client_focus(t, up)
           a     == layout_arrange(moved, moved.selected_monitor)
<1>0. wm \in WindowState /\ sel \in ToSet(wm.focus_stack) \cup {None}
      /\ (sel # None => Visible(wm, sel, wm.selected_monitor))
  BY TopIn, TopInStack DEF Listed
<1>1. sel # None /\ (first = sel => later # {}) /\ wm' = a
  BY DEF layout_zoom
<1>2. up \in wm.mapped /\ Visible(wm, up, wm.selected_monitor)
  <2>1. CASE first # sel  BY <1>0, <1>1, <2>1 DEF Listed
  <2>2. CASE first = sel
    <3>1. later # {} /\ later \in SUBSET Nat /\ later \subseteq InView(wm)
      BY <1>0, <1>1, <2>2, InViewType
    <3>2. Min(later) \in InView(wm)
      <4> HIDE DEF later
      <4> QED  BY <3>1, MinIn
    <3>3. PICK i \in InView(wm) : i = Min(later)  BY <3>2
    <3>4. up = wm.clients[i]  BY <2>2, <3>3
    <3>5. i \in DOMAIN wm.clients /\ Visible(wm, wm.clients[i], wm.selected_monitor)
      BY DEF InView
    <3>6. wm.clients[i] \in wm.mapped  BY <3>5 DEF ToSet, Listed
    <3> QED  BY <3>4, <3>5, <3>6
  <2> QED  BY <2>1, <2>2
<1> HIDE DEF up
<1>3. wm.clients \in Seq(Clients) /\ wm.mapped \subseteq Clients  BY <1>0 DEF WindowState
<1>4. l \in Seq(Clients) /\ ToSet(l) = ToSet(wm.clients) \cup {up} /\ IsInjective(l)
  BY <1>2, <1>3, ToHeadType, ToHeadSet DEF Listed
<1>9. /\ ToSet(l) \subseteq wm.mapped
      /\ -1 \notin StackSteps => ToSet(l) = wm.mapped
  <2> HIDE DEF l
  <2>1. /\ ToSet(wm.clients) \subseteq wm.mapped
        /\ -1 \notin StackSteps => ToSet(wm.clients) = wm.mapped
    BY DEF Listed
  <2> QED  BY <1>2, <1>4, <2>1
<1> HIDE DEF l
<1>5. /\ Safe(wm, t) /\ Restores(wm, t) /\ t.mapped = wm.mapped
      /\ t.selected_monitor = wm.selected_monitor
      /\ \A c, m : Visible(t, c, m) <=> Visible(wm, c, m)
  BY <1>4, <1>9, ReorderSafe
<1> HIDE DEF t
<1>6. Listed(t) /\ up \in t.mapped /\ Visible(t, up, t.selected_monitor)
  BY <1>2, <1>5 DEF Safe
<1>7. Safe(t, moved) /\ Restores(t, moved)  BY <1>6, InViewSafe
<1> HIDE DEF moved
<1>8. Safe(moved, a) /\ Restores(moved, a)  BY <1>7, ArrangeSafe DEF Safe
<1>10. Safe(wm, moved) /\ Restores(wm, moved)
  BY <1>5, <1>7, SafeTwice, RestoresTwice
<1> QED  BY <1>1, <1>8, <1>10, SafeTwice, RestoresTwice

LEMMA StackCommandSafe ==
  ASSUME Listed(wm), StackCommand
  PROVE  Safe(wm, wm') /\ Restores(wm, wm')
<1> DEFINE sel == client_top(wm, wm.selected_monitor)
<1>0. wm \in WindowState /\ sel \in Clients \cup {None}  BY TopIn DEF Listed
<1>1. CASE \E step \in {-1, 1} : layout_focus_stack(step)  BY <1>1, FocusStackSafe
<1>2. CASE \E step \in StackSteps : layout_move_stack(step)  BY <1>2, MoveStackSafe
<1>3. CASE layout_zoom  BY <1>3, ZoomSafe
<1>4. CASE client_toggle_floating
  <2>1. sel \in Clients /\ wm' = client_set_floating(wm, sel, sel \notin wm.isfloating)
    BY <1>0, <1>4 DEF client_toggle_floating
  <2> HIDE DEF sel
  <2>2. Kept(wm, wm')  BY <1>0, <2>1, SetFlagsKept
  <2> QED  BY <2>2, KeptSafe
<1>5. CASE client_toggle_fullscreen
  <2>1. sel \in Clients /\ wm' = client_set_fullscreen(wm, sel, sel \notin wm.isfullscreen)
    BY <1>0, <1>5 DEF client_toggle_fullscreen
  <2> HIDE DEF sel
  <2>2. Kept(wm, wm')  BY <1>0, <2>1, SetFlagsKept
  <2> QED  BY <2>2, KeptSafe
<1> QED  BY <1>1, <1>2, <1>3, <1>4, <1>5 DEF StackCommand

(* The pointer brings the focus to what it is over: where the windows have it
   already, if there is one monitor and it shows what its tags say. *)
Pointed(s) ==
  \/ Bound \cap {"click", "sloppyfocus"} = {}
  \/ OneMonitor /\ Drawn(s) /\ Placed(s) /\ (s.selected_monitor = None => s.monitors = <<>>)

LEMMA ClickSafe ==
  ASSUME Listed(wm), NEW m \in Lit(wm), NEW c \in wm.shown \cup {None},
         Bound \cap {"click", "sloppyfocus"} # {},
         LET at == [wm EXCEPT !.selected_monitor = m]
         IN  wm' = at \/ (c # None /\ wm' = client_focus(at, c))
  PROVE  Safe(wm, wm') /\ (Pointed(wm) => Restores(wm, wm'))
<1> DEFINE at == [wm EXCEPT !.selected_monitor = m]
           t  == client_focus(at, c)
<1>0. m \in ToSet(wm.monitors) /\ m \in Monitors /\ m \in wm.enabled
      /\ wm \in WindowState
  BY DEF Lit, Listed, WindowState
<1>1. /\ Safe(wm, at) /\ at.mapped = wm.mapped /\ at.mon = wm.mon
      /\ at.shown = wm.shown /\ at.kbd = wm.kbd
  BY <1>0, SelectSafe
<1>4. m = wm.selected_monitor => at = wm  BY <1>0 DEF WindowState
<1>5. Pointed(wm) => at = wm /\ OneMonitor /\ Drawn(wm) /\ Placed(wm)
  <2>1. wm.monitors # <<>>  BY <1>0 DEF ToSet
  <2> QED  BY <1>0, <1>4, <2>1 DEF Pointed, OneMonitor, WindowState
<1> HIDE DEF at
<1>2. CASE wm' = at
  <2>1. Restores(wm, wm)  BY DEF Restores, Back
  <2> QED  BY <1>1, <1>2, <1>5, <2>1
<1>3. CASE c # None /\ wm' = t
  <2>1. Listed(at) /\ c \in at.mapped  BY <1>1, <1>3 DEF Safe, Listed
  <2>2. Placed(at) => at.mon[c] # None  BY <1>3, <1>1 DEF Placed, PlacedBut
  <2>3. Safe(at, t)  BY <2>1, <2>2, FocusSafe
  <2>4. ASSUME Pointed(wm)  PROVE Restores(wm, t)
    <3>1. at = wm /\ OneMonitor /\ Drawn(wm) /\ Placed(wm)  BY <1>5, <2>4
    <3>2. wm.mon[c] \in Monitors
      BY <1>0, <1>3, <2>1, <2>2, <3>1 DEF WindowState
    <3>3. wm.mon[c] = m  BY <1>0, <3>1, <3>2 DEF OneMonitor
    <3>4. c \in wm.shown /\ c \in wm.mapped  BY <1>3, <2>1, <3>1
    <3>5. Visible(wm, c, wm.mon[c])  BY <1>0, <3>1, <3>3, <3>4 DEF Drawn
    <3> QED  BY <3>1, <3>4, <3>5, FocusRestores
  <2> QED  BY <1>1, <1>3, <2>3, <2>4, SafeTwice
<1> QED  BY <1>2, <1>3 DEF at

LEMMA MonitorCommandSafe ==
  ASSUME Listed(wm), MonitorCommand
  PROVE  Safe(wm, wm') /\ (Pointed(wm) => Restores(wm, wm'))
<1>0. /\ wm \in WindowState /\ ToSet(wm.monitors) \subseteq Monitors
      /\ wm.selected_monitor \in Monitors \cup {None} /\ None \notin Monitors
  <2>1. wm \in WindowState  BY DEF Listed
  <2>2. ToSet(wm.monitors) \subseteq Monitors  BY <2>1 DEF WindowState, ToSet
  <2> QED  BY <2>1, <2>2, DistinctAssumption DEF WindowState
<1>1. CASE monitor_focus
  <2>1. PICK m \in Lit(wm) \cup {wm.selected_monitor} :
          wm' = Refocus([wm EXCEPT !.selected_monitor = m])
    BY <1>1 DEF monitor_focus
  <2> DEFINE at == [wm EXCEPT !.selected_monitor = m]
  <2>2. m \in Monitors \cup {None} /\ (m \in ToSet(wm.monitors) \/ m = wm.selected_monitor)
    BY <1>0, <2>1 DEF Lit
  <2>3. Safe(wm, at) /\ at.kbd = wm.kbd  BY <2>2, SelectSafe
  <2>4. wm' = Refocus(at)  BY <2>1
  <2> HIDE DEF at
  <2>5. Safe(at, Refocus(at)) /\ at \in WindowState  BY <2>3, RefocusSafe DEF Safe, Listed
  <2>6. /\ Modal = {} => Returned(Refocus(at))
        /\ Refocus(at).kbd \in Clients \cup {None, at.kbd}
    BY <2>5, RefocusSettles
  <2>7. Restores(wm, Refocus(at))
    BY <2>3, <2>6, DistinctAssumption DEF Restores, Back
  <2> QED  BY <2>3, <2>4, <2>5, <2>7, SafeTwice
<1>2. CASE monitor_send_client
  <2> DEFINE c == client_top(wm, wm.selected_monitor)
  <2>1. c # None /\ \E m \in ToSet(wm.monitors) : wm' = client_set_monitor(wm, c, m, {})
    BY <1>2 DEF monitor_send_client
  <2>2. c \in ToSet(wm.focus_stack) \cup {None}  BY <1>0, TopInStack
  <2>3. c \in wm.mapped  BY <2>1, <2>2 DEF Listed
  <2> HIDE DEF c
  <2> QED  BY <1>0, <2>1, <2>3, SetMonitorSafe
<1>3. CASE PointerPress
  <2>1. PICK m \in Lit(wm), c \in wm.shown \cup {None} :
          LET at == [wm EXCEPT !.selected_monitor = m]
          IN  wm' = at \/ (c # None /\ wm' = client_focus(at, c))
    BY <1>3 DEF PointerPress
  <2>2. Bound \cap {"click", "sloppyfocus"} # {}  BY <1>3 DEF PointerPress
  <2> QED  BY <2>1, <2>2, ClickSafe
<1>4. CASE PointerMotion
  <2>1. PICK m \in Lit(wm), c \in wm.shown \cup {None} :
          LET at == [wm EXCEPT !.selected_monitor = m]
          IN  wm' = at \/ (c # None /\ wm' = client_focus(at, c))
    BY <1>4 DEF PointerMotion
  <2>2. Bound \cap {"click", "sloppyfocus"} # {}  BY <1>4 DEF PointerMotion
  <2> QED  BY <2>1, <2>2, ClickSafe
<1> QED  BY <1>1, <1>2, <1>3, <1>4 DEF MonitorCommand

LEMMA WindowsSafe ==
  ASSUME Listed(wm), WindowsNext
  PROVE  Safe(wm, wm') /\ (Tagged(wm) /\ Pointed(wm) => Restores(wm, wm'))
<1>0. wm \in WindowState  BY DEF Listed
<1>1. CASE \E c \in Clients : ClientEvent(c)  BY <1>1, ClientEventSafe
<1>2. CASE TagCommand  BY <1>0, <1>2, TagCommandKept, KeptSafe
<1>3. CASE StackCommand  BY <1>3, StackCommandSafe
<1>4. CASE MonitorCommand  BY <1>4, MonitorCommandSafe
<1> QED  BY <1>1, <1>2, <1>3, <1>4 DEF WindowsNext

-----------------------------------------------------------------------------
(* Layer surfaces, menus and the lock change the session and the keyboard. *)
With(s, z, k) == [s EXCEPT !.session = z, !.kbd = k]

LEMMA WithEffect ==
  ASSUME NEW s \in WindowState, NEW z \in SessionState, NEW k \in Surfaces \cup {None}
  PROVE  LET t == With(s, z, k)
         IN  /\ t \in WindowState /\ t.session = z /\ t.kbd = k
             /\ t.clients = s.clients /\ t.mapped = s.mapped
             /\ t.mapwait = s.mapwait /\ t.enabled = s.enabled
             /\ t.monitors = s.monitors /\ t.focus_stack = s.focus_stack
             /\ t.mon = s.mon /\ t.tags = s.tags /\ t.shown = s.shown
             /\ t.selected_monitor = s.selected_monitor
BY DEF With, WindowState

LEMMA WithListed ==
  ASSUME NEW s, Listed(s), NEW z \in SessionState, NEW k \in Surfaces \cup {None},
         z.lock_active => k \notin Clients
  PROVE  LET t == With(s, z, k)
         IN  /\ Listed(t)
             /\ PlacedBut(s, None) => PlacedBut(t, None)
             /\ \A M : Within(M, s) => Within(M, t)
             /\ Placed(s) /\ (\/ k = s.kbd /\ z.lock_active = s.session.lock_active
                              \/ k \notin Clients) => Placed(t)
<1> DEFINE t == With(s, z, k)
<1>0. s \in WindowState  BY DEF Listed
<1>1. /\ t \in WindowState /\ t.session = z /\ t.kbd = k
      /\ t.clients = s.clients /\ t.mapped = s.mapped
      /\ t.mapwait = s.mapwait /\ t.focus_stack = s.focus_stack
      /\ t.mon = s.mon /\ t.shown = s.shown
      /\ t.selected_monitor = s.selected_monitor
  BY <1>0, WithEffect
<1> HIDE DEF t
<1>2. Listed(t)  BY <1>1 DEF Listed
<1>3. PlacedBut(s, None) => PlacedBut(t, None)  BY <1>1 DEF PlacedBut
<1>4. \A M : Within(M, s) => Within(M, t)  BY <1>1 DEF Within
<1>5. Placed(s) /\ (\/ k = s.kbd /\ z.lock_active = s.session.lock_active
                    \/ k \notin Clients) => Placed(t)
  BY <1>1, <1>3 DEF Placed, Held
<1> QED  BY <1>2, <1>3, <1>4, <1>5 DEF t

(* What the user is shown: the drawing keeps up, some output stays selected
   and nothing loses its last tag. *)
Views(s, t) ==
  /\ Drawing /\ Drawn(s) => Drawn(t)
  /\ t.selected_monitor = None => s.selected_monitor = None
  /\ Tagged(s) => Tagged(t)

SameView(s, t) ==
  /\ t.mapped = s.mapped /\ t.mapwait = s.mapwait /\ t.shown = s.shown
  /\ t.enabled = s.enabled /\ t.focus_stack = s.focus_stack
  /\ t.selected_monitor = s.selected_monitor /\ SameTags(s, t)

(* Unlocked, the menu that has the keyboard is the exclusive one. *)
Exclusive(s) ==
  ~s.session.lock_active /\ s.kbd \in Unmanaged => s.kbd = s.session.exclusive_focus

(* The keyboard is back with the windows unless something else has it, and
   what may give it back knows that it has it. *)
Settles(s, t) ==
  Modal = {} /\ Returned(s) /\ Exclusive(s) => Returned(t) /\ Exclusive(t)

Gives(s, t) == Views(s, t) /\ Settles(s, t)

LEMMA GivesSelf == ASSUME NEW s PROVE Gives(s, s)
BY DEF Gives, Views, Settles

LEMMA GivesTwice ==
  ASSUME NEW s, NEW t, NEW u, Gives(s, t), Gives(t, u)
  PROVE  Gives(s, u)
BY DEF Gives, Views, Settles

LEMMA SameViews ==
  ASSUME NEW s, NEW t, SameView(s, t)
  PROVE  Views(s, t)
<1>1. Drawn(s) => Drawn(t)  BY SameDrawn DEF SameView, SameTags
<1>2. Tagged(s) => Tagged(t)  BY SameTagged DEF SameView
<1> QED  BY <1>1, <1>2 DEF Views, SameView

LEMMA SameFront ==
  ASSUME NEW s \in WindowState, NEW t \in WindowState, SameView(s, t), t.kbd = s.kbd,
         t.session.lock_active = s.session.lock_active
  PROVE  Returned(s) <=> Returned(t)
BY SameReturned DEF SameView, SameTags

LEMMA WithView ==
  ASSUME NEW s \in WindowState, NEW z, NEW k
  PROVE  SameView(s, With(s, z, k))
BY DEF With, WindowState, SameView, SameTags

(* A session in which the same surfaces have the keyboard. *)
LEMMA WithGives ==
  ASSUME NEW s \in WindowState, NEW z \in SessionState,
         z.lock_active = s.session.lock_active,
         s.kbd \in Unmanaged /\ s.kbd = s.session.exclusive_focus =>
           s.kbd = z.exclusive_focus
  PROVE  Gives(s, With(s, z, s.kbd))
<1> DEFINE t == With(s, z, s.kbd)
<1>1. s.kbd \in Surfaces \cup {None}  BY DEF WindowState
<1>2. t \in WindowState /\ t.session = z /\ t.kbd = s.kbd  BY <1>1, WithEffect
<1>3. SameView(s, t)  BY WithView
<1> HIDE DEF t
<1>4. Returned(s) <=> Returned(t)  BY <1>2, <1>3, SameFront
<1>5. Exclusive(s) => Exclusive(t)  BY <1>2 DEF Exclusive
<1> QED  BY <1>3, <1>4, <1>5, SameViews DEF Gives, Settles, t

(* What a window's handler that keeps the tags does. *)
LEMMA SafeViews ==
  ASSUME NEW s, NEW t, Safe(s, t), SameTags(s, t),
         t.selected_monitor = None => s.selected_monitor = None
  PROVE  Views(s, t)
<1>1. Tagged(s) => Tagged(t)  BY SameTagged
<1> QED  BY <1>1 DEF Views, Safe

LEMMA SafeGives ==
  ASSUME NEW s, NEW t, Safe(s, t), Restores(s, t), Views(s, t)
  PROVE  Gives(s, t)
<1>1. t.session = s.session  BY DEF Safe
<1>2. Exclusive(s) => Exclusive(t)  BY <1>1 DEF Restores, Exclusive
<1> QED  BY <1>2 DEF Gives, Settles, Restores, Back

LEMMA RefocusGives ==
  ASSUME NEW s, Listed(s)
  PROVE  /\ Gives(s, Refocus(s))
         /\ Modal = {} => Returned(Refocus(s))
<1>1. s \in WindowState  BY DEF Listed
<1>2. SameTags(s, Refocus(s))  BY <1>1, RefocusKeepsTags
<1>3. /\ Modal = {} => Returned(Refocus(s))
      /\ Refocus(s).selected_monitor = None => s.selected_monitor = None
  BY <1>1, RefocusSettles
<1> QED  BY <1>2, <1>3, RefocusSafe, SafeViews, SafeGives

LEMMA ArrangeGives ==
  ASSUME NEW s, Listed(s), NEW m
  PROVE  Gives(s, layout_arrange(s, m))
<1>1. s \in WindowState  BY DEF Listed
<1>2. SameTags(s, layout_arrange(s, m))  BY <1>1, ArrangeKeepsTags
<1>3. layout_arrange(s, m).selected_monitor = s.selected_monitor
  BY <1>1 DEF layout_arrange, WindowState
<1> QED  BY <1>2, <1>3, ArrangeSafe, SafeViews, SafeGives

(* client_focus on nothing, or on a menu. *)
LEMMA OtherFocusViews ==
  ASSUME NEW s, Listed(s), NEW c \in Unmanaged \cup {None}
  PROVE  LET t == client_focus(s, c)
         IN  /\ Views(s, t) /\ SameTags(s, t) /\ t.shown = s.shown
             /\ t.selected_monitor = s.selected_monitor /\ t.kbd \in {s.kbd, c}
<1> DEFINE t == client_focus(s, c)
           d == Target(s, c)
<1>0. s \in WindowState /\ c \notin Clients  BY DistinctAssumption DEF Listed
<1>1. d = c  BY <1>0 DEF Target
<1>2. t.selected_monitor = s.selected_monitor /\ t.kbd \in {s.kbd, c}
      /\ t.shown = s.shown
  BY <1>0, <1>1, FocusEffect DEF SameWindows
<1>3. SameTags(s, t)  BY <1>0, FocusKeepsTags
<1>4. Safe(s, t)  BY <1>0, FocusSafe
<1> HIDE DEF t
<1>5. Views(s, t)  BY <1>2, <1>3, <1>4, SafeViews
<1> QED  BY <1>2, <1>3, <1>5 DEF t

(* The pointers of the session point to surfaces that are there, and lists
   hold each of theirs once. *)
Sound(s) ==
  /\ Listed(s)
  /\ s.session.exclusive_focus \in s.session.menus_up \cup s.session.layers_up \cup {None}
  /\ IsInjective(s.session.lock_surfaces) /\ IsInjective(s.monitors)
  /\ \A l \in Layers : s.session.layer_mon[l] # None => l \in ToSet(s.session.layers)

(* A locker that is connected has locked the session, and only then there are
   lock surfaces. *)
Locking(s) ==
  /\ s.session.lock_current => s.session.lock_active
  /\ ~s.session.lock_current => s.session.lock_surfaces = <<>>

(* A window that has a tag keeps its tags. *)
TagsKept(s, t) == \A c \in Clients : s.tags[c] # {} => t.tags[c] = s.tags[c]

(* The session but for the layers that are up, and where. *)
SameLock(s, t) ==
  /\ t.session.lock_active = s.session.lock_active
  /\ t.session.lock_current = s.session.lock_current
  /\ t.session.lock_surfaces = s.session.lock_surfaces
  /\ t.session.menus_up = s.session.menus_up

(* What outputs, and layer surfaces that go or are arranged, do to the rest. *)
Follows(s, t) ==
  /\ Sound(t)
  /\ Tagged(s) => Tagged(t)
  /\ Exclusive(s) => Exclusive(t)
  /\ t.monitors = s.monitors /\ SameLock(s, t)
  /\ t.clients = s.clients /\ t.mapped = s.mapped
  /\ t.session.layers_up \subseteq s.session.layers_up
  /\ \A l \in Layers : t.session.layer_mon[l] \in {s.session.layer_mon[l], None}
  /\ s.session.lock_active => t.kbd \in Monitors \cup {None, s.kbd}
  /\ TagsKept(s, t)
  /\ \A M : Within(M, s) /\ ToSet(s.monitors) \cup {None} \subseteq M => Within(M, t)

LEMMA FollowsSelf == ASSUME NEW s, Sound(s) PROVE Follows(s, s)
BY DEF Follows, SameLock, TagsKept

LEMMA FollowsTwice ==
  ASSUME NEW s, NEW t, NEW u, Follows(s, t), Follows(t, u)
  PROVE  Follows(s, u)
<1>1. TagsKept(s, u)  BY DEF Follows, TagsKept
<1>2. SameLock(s, u)  BY DEF Follows, SameLock
<1>3. s.session.lock_active => u.kbd \in Monitors \cup {None, s.kbd}
  BY DEF Follows, SameLock
<1>4. \A l \in Layers : u.session.layer_mon[l] \in {s.session.layer_mon[l], None}
  BY DEF Follows
<1>5. \A M : Within(M, s) /\ ToSet(s.monitors) \cup {None} \subseteq M => Within(M, u)
  BY DEF Follows
<1>6. u.session.layers_up \subseteq s.session.layers_up  BY DEF Follows
<1>7. /\ Sound(u) /\ u.monitors = s.monitors
      /\ u.clients = s.clients /\ u.mapped = s.mapped
      /\ Tagged(s) => Tagged(u)
      /\ Exclusive(s) => Exclusive(u)
  BY DEF Follows
<1> QED  BY <1>1, <1>2, <1>3, <1>4, <1>5, <1>6, <1>7 DEF Follows

(* Unless the session is locked, a layer surface that has the keyboard is
   mapped. *)
Up(s) == ~s.session.lock_active /\ s.kbd \in Layers => s.kbd \in s.session.layers_up

(* What they leave alone: what is lit, what is drawn there, and that a layer
   surface with the keyboard is mapped. *)
Rests(s, t) ==
  /\ t.enabled = s.enabled
  /\ Up(s) => Up(t)
  /\ -1 \notin StackSteps => \A m : DrawnOn(s, m) => DrawnOn(t, m)

(* The keyboard is back with the windows or the selected monitor is lit, in
   which case monitor_update_layout brings it back. *)
Poised(s) == Returned(s) \/ s.selected_monitor \in s.enabled

Poises(s, t) == Modal = {} /\ Exclusive(s) /\ Poised(s) => Poised(t)

Serves(s, t) == Follows(s, t) /\ Rests(s, t) /\ Poises(s, t)

LEMMA RestsTwice ==
  ASSUME NEW s, NEW t, NEW u, Rests(s, t), Rests(t, u)
  PROVE  Rests(s, u)
BY DEF Rests

LEMMA ServesSelf == ASSUME NEW s, Sound(s) PROVE Serves(s, s)
BY FollowsSelf DEF Serves, Rests, Poises

LEMMA ServesTwice ==
  ASSUME NEW s, NEW t, NEW u, Serves(s, t), Serves(t, u)
  PROVE  Serves(s, u)
<1>1. Follows(s, u)  BY FollowsTwice DEF Serves
<1>2. Rests(s, u)  BY RestsTwice DEF Serves
<1>3. Poises(s, u)
  <2>1. Exclusive(s) => Exclusive(t)  BY DEF Serves, Follows
  <2> QED  BY <2>1 DEF Serves, Poises
<1> QED  BY <1>1, <1>2, <1>3 DEF Serves

(* What draws the same windows in the same places draws them alike. *)
LEMMA SameRests ==
  ASSUME NEW s, NEW t, SameView(s, t), Up(s) => Up(t)
  PROVE  Rests(s, t)
<1>1. \A m : DrawnOn(s, m) => DrawnOn(t, m)
  BY DEF DrawnOn, SameView, SameTags, Visible, Viewed
<1> QED  BY <1>1 DEF Rests, SameView

(* What keeps the selection, or the keyboard with the windows, keeps either. *)
LEMMA GivesPoises ==
  ASSUME NEW s, NEW t, Gives(s, t), t.enabled = s.enabled,
         t.selected_monitor = s.selected_monitor
  PROVE  Poises(s, t)
BY DEF Gives, Settles, Poises, Poised

(* A step that a window's handler could take is one. *)
LEMMA SafeFollows ==
  ASSUME NEW s, Sound(s), NEW t, Safe(s, t), TagsKept(s, t), Tagged(s) => Tagged(t),
         t.kbd \in Clients \cup {None, s.kbd},
         t.clients = s.clients, t.mapped = s.mapped
  PROVE  Follows(s, t)
<1>1. t.session = s.session /\ t.monitors = s.monitors /\ Listed(t)  BY DEF Safe
<1>2. Sound(t)  BY <1>1 DEF Sound
<1>3. SameLock(s, t) /\ t.session.layers_up \subseteq s.session.layers_up
      /\ \A l \in Layers : t.session.layer_mon[l] \in {s.session.layer_mon[l], None}
  BY <1>1 DEF SameLock
<1>4. s.session.lock_active => t.kbd \in Monitors \cup {None, s.kbd}  BY DEF Safe
<1>5. Exclusive(s) => Exclusive(t)  BY <1>1, DistinctAssumption DEF Exclusive
<1> QED  BY <1>1, <1>2, <1>3, <1>4, <1>5 DEF Follows, Safe

LEMMA RefocusFollows ==
  ASSUME NEW s, Sound(s)
  PROVE  Follows(s, Refocus(s)) /\ Safe(s, Refocus(s)) /\ Serves(s, Refocus(s))
<1> DEFINE t == Refocus(s)
<1>1. s \in WindowState /\ Listed(s)  BY DEF Sound, Listed
<1>2. SameTags(s, t)  BY <1>1, RefocusKeepsTags
<1>3. /\ t.clients = s.clients /\ t.mapped = s.mapped
      /\ t.enabled = s.enabled /\ t.session = s.session
      /\ t.kbd \in Clients \cup {None, s.kbd}
      /\ \A m : DrawnOn(s, m) => DrawnOn(t, m)
      /\ Modal = {} => Returned(t)
  BY <1>1, RefocusSettles DEF SameLists
<1>4. Safe(s, t)  BY <1>1, RefocusSafe
<1> HIDE DEF t
<1>5. Tagged(s) => Tagged(t)  BY <1>2, SameTagged
<1>6. Follows(s, t)  BY <1>2, <1>3, <1>4, <1>5, SafeFollows DEF SameTags, TagsKept
<1>7. Up(s) => Up(t)  BY <1>3, DistinctAssumption DEF Up
<1>8. Rests(s, t)  BY <1>3, <1>7 DEF Rests
<1>9. Serves(s, t)  BY <1>3, <1>6, <1>8 DEF Serves, Poises, Poised
<1> QED  BY <1>4, <1>6, <1>9 DEF t

LEMMA ArrangeFollows ==
  ASSUME NEW s, Sound(s), NEW m
  PROVE  LET t == layout_arrange(s, m)
         IN  /\ Follows(s, t) /\ Safe(s, t) /\ Serves(s, t)
             /\ t.selected_monitor = s.selected_monitor /\ t.kbd = s.kbd
             /\ -1 \notin StackSteps => DrawnOn(t, m)
<1> DEFINE t == layout_arrange(s, m)
<1>1. s \in WindowState /\ Listed(s)  BY DEF Sound, Listed
<1>2. SameTags(s, t)  BY <1>1, ArrangeKeepsTags
<1>3. /\ t.clients = s.clients /\ t.mapped = s.mapped
      /\ t.enabled = s.enabled /\ t.session = s.session
      /\ t.selected_monitor = s.selected_monitor /\ t.kbd = s.kbd
  BY <1>1, ArrangeEffect DEF SameLists
<1>4. Safe(s, t)  BY <1>1, ArrangeSafe
<1>5. -1 \notin StackSteps => DrawnOn(t, m) /\ \A n : DrawnOn(s, n) => DrawnOn(t, n)
  BY <1>1, ArrangeDraws DEF Listed
<1>6. Gives(s, t)  BY <1>1, ArrangeGives
<1> HIDE DEF t
<1>7. Tagged(s) => Tagged(t)  BY <1>2, SameTagged
<1>8. Follows(s, t)  BY <1>2, <1>3, <1>4, <1>7, SafeFollows DEF SameTags, TagsKept
<1>9. Rests(s, t)  BY <1>3, <1>5 DEF Rests, Up
<1>10. Serves(s, t)  BY <1>3, <1>6, <1>8, <1>9, GivesPoises DEF Serves
<1> QED  BY <1>3, <1>4, <1>5, <1>8, <1>10 DEF t

-----------------------------------------------------------------------------
(* The topmost layer surface is above the windows and mapped. *)
LEMMA TopmostIn ==
  ASSUME NEW s \in WindowState, NEW m
  PROVE  TopmostLayer(s, m) \in (TopLayers \cap s.session.layers_up) \cup {None}
<1> DEFINE over  == MappedOn(s, m, Overlays)
           under == MappedOn(s, m, TopLayers \ Overlays)
           at    == IF over # {} THEN over ELSE under
<1>1. s.session.layers \in Seq(Layers)  BY DEF WindowState, SessionState
<1>2. /\ at \in SUBSET (0 .. Len(s.session.layers)) /\ Len(s.session.layers) \in Nat
      /\ \A i \in at : s.session.layers[i] \in TopLayers \cap s.session.layers_up
  BY <1>1, WindowKindsAssumption DEF MappedOn
<1>3. TopmostLayer(s, m) = IF at = {} THEN None ELSE s.session.layers[Max(at)]
  BY DEF TopmostLayer
<1> HIDE DEF at
<1>4. at # {} => Max(at) \in at  BY <1>2, MaxIn
<1> QED  BY <1>2, <1>3, <1>4

(* monitor_arrange_layers gives the keyboard to a layer surface above the
   windows or leaves it where it is. *)
Layered(s, t) ==
  /\ Serves(s, t) /\ Follows(s, t) /\ Gives(s, t)
  /\ t.selected_monitor = s.selected_monitor
  /\ Placed(s) => Placed(t)
  /\ t.session.layers_up = s.session.layers_up
  /\ t.session.layers = s.session.layers
  /\ t.session.layer_mon = s.session.layer_mon
  /\ t.enabled = s.enabled
  /\ t.kbd = s.kbd \/ (/\ ~s.session.lock_active
                       /\ t.kbd \in TopLayers \cap s.session.layers_up)

LEMMA ArrangeLayersFollows ==
  ASSUME NEW s, Sound(s), NEW m, NEW resized \in BOOLEAN
  PROVE  LET t == monitor_arrange_layers(s, m, resized)
         IN  /\ Layered(s, t)
             /\ resized /\ -1 \notin StackSteps => DrawnOn(t, m)
<1> DEFINE a == IF resized THEN layout_arrange(s, m) ELSE s
           l == TopmostLayer(a, m)
           f == client_focus(a, None)
           z == [f.session EXCEPT !.exclusive_focus = l]
           w == With(f, z, l)
           t == monitor_arrange_layers(s, m, resized)
<1>0. s \in WindowState /\ Listed(s)  BY DEF Sound, Listed
<1>1. /\ Follows(s, a) /\ Safe(s, a) /\ Serves(s, a)
      /\ a.selected_monitor = s.selected_monitor
      /\ resized /\ -1 \notin StackSteps => DrawnOn(a, m)
  BY <1>0, ArrangeFollows, FollowsSelf, ServesSelf, SafeSelf
<1>2. t = IF m \notin s.enabled THEN s
          ELSE IF a.session.lock_active \/ l = None THEN a
          ELSE [f EXCEPT !.session.exclusive_focus = l, !.kbd = l]
  BY DEF monitor_arrange_layers
<1> HIDE DEF a, t
<1>3. /\ a.session = s.session /\ a.enabled = s.enabled /\ Listed(a) /\ a \in WindowState
      /\ Sound(a)
  BY <1>1 DEF Safe, Listed, Follows
<1>4. l \in (TopLayers \cap a.session.layers_up) \cup {None}  BY <1>3, TopmostIn
<1> HIDE DEF l
<1>5. ASSUME t = s  PROVE Layered(s, t)
  BY <1>5, FollowsSelf, ServesSelf, GivesSelf DEF Layered
<1>6. ASSUME t = a  PROVE Layered(s, t)
  <2>1. a.kbd = s.kbd
    BY <1>0, ArrangeEffect DEF a
  <2>2. Gives(s, a)  BY <1>0, ArrangeGives, GivesSelf DEF a
  <2> QED  BY <1>1, <1>3, <1>6, <2>1, <2>2 DEF Safe, Layered
<1>7. ASSUME m \in s.enabled, ~a.session.lock_active, l # None
      PROVE  /\ Layered(s, t)
             /\ DrawnOn(a, m) => DrawnOn(t, m)
  <2>1. Safe(a, f) /\ SameWindows(a, f)  BY <1>3, DistinctAssumption, FocusSafe
  <2>15. /\ Views(a, f) /\ SameTags(a, f) /\ f.kbd \in {a.kbd, None}
         /\ f.shown = a.shown /\ f.selected_monitor = a.selected_monitor
    BY <1>3, OtherFocusViews
  <2>2. /\ TagsKept(a, f) /\ f.clients = a.clients /\ f.mapped = a.mapped
        /\ f.mapwait = a.mapwait /\ (Tagged(a) => Tagged(f))
    BY <2>1, <2>15, SameTagged DEF SameWindows, TagsKept
  <2>3. Follows(a, f) /\ f \in WindowState /\ Listed(f) /\ f.session = a.session
        /\ f.enabled = a.enabled
    BY <1>3, <2>1, <2>2, <2>15, SafeFollows DEF Safe, Listed
  <2> HIDE DEF f
  <2>4. l \in TopLayers /\ l \in Layers /\ l \in Surfaces /\ l \notin Clients
        /\ l \in f.session.layers_up
    BY <1>4, <1>7, <2>3, WindowKindsAssumption, DistinctAssumption DEF Surfaces
  <2>5. /\ z \in SessionState /\ z.exclusive_focus = l
        /\ z.lock_active = f.session.lock_active /\ z.lock_current = f.session.lock_current
        /\ z.lock_surfaces = f.session.lock_surfaces
        /\ z.menus_up = f.session.menus_up /\ z.layers_up = f.session.layers_up
        /\ z.layers = f.session.layers /\ z.layer_mon = f.session.layer_mon
    BY <2>3, <2>4 DEF WindowState, SessionState
  <2>6. t = w
    <3>1. t = [f EXCEPT !.session.exclusive_focus = l, !.kbd = l]
      BY <1>2, <1>7
    <3> QED  BY <2>3, <3>1 DEF With, WindowState
  <2> HIDE DEF z
  <2>7. /\ w \in WindowState /\ w.session = z /\ w.kbd = l
        /\ w.monitors = f.monitors /\ w.tags = f.tags /\ w.enabled = f.enabled
        /\ w.clients = f.clients /\ w.mapped = f.mapped
    BY <2>3, <2>4, <2>5, WithEffect
  <2>8. /\ Listed(w) /\ \A M : Within(M, f) => Within(M, w)
        /\ Placed(f) => Placed(w)
    BY <2>3, <2>4, <2>5, WithListed
  <2>16. Views(f, w) /\ SameView(f, w)  BY <2>3, WithView, SameViews
  <2> HIDE DEF w
  <2>9. Sound(f)  BY <2>3 DEF Follows
  <2>10. Sound(w)  BY <2>4, <2>5, <2>7, <2>8, <2>9 DEF Sound
  <2>11. ~f.session.lock_active  BY <1>7, <2>3
  <2>18. w.kbd \in Layers /\ w.kbd \notin Unmanaged
    BY <2>4, <2>7, DistinctAssumption
  <2>12. Follows(f, w)
    <3>1. Exclusive(w)  BY <2>18 DEF Exclusive
    <3>2. Tagged(f) => Tagged(w)  BY <2>16 DEF Views
    <3> QED  BY <2>5, <2>7, <2>8, <2>10, <2>11, <3>1, <3>2 DEF Follows, SameLock, TagsKept
  <2>13. Follows(s, w)  BY <1>1, <2>3, <2>12, FollowsTwice
  <2>14. Placed(s) => Placed(w)  BY <1>1, <2>1, <2>8 DEF Safe, f
  <2>17. Gives(s, w)
    <3>1. Views(s, a)  BY <1>0, ArrangeGives, GivesSelf DEF Gives, a
    <3>2. Views(s, w)  BY <2>15, <2>16, <3>1 DEF Views
    <3>4. Returned(w) /\ Exclusive(w)  BY <2>18 DEF Returned, Exclusive
    <3> QED  BY <3>2, <3>4 DEF Gives, Settles
  <2>19. Rests(a, w) /\ Rests(s, w)
    <3>1. \A n : DrawnOn(a, n) => DrawnOn(w, n)
      BY <2>2, <2>3, <2>15, <2>16 DEF DrawnOn, SameView, SameTags, Visible, Viewed
    <3>2. Rests(a, w)
      BY <2>3, <2>4, <2>5, <2>7, <3>1 DEF Rests, Up
    <3> QED  BY <1>1, <3>2, RestsTwice DEF Serves
  <2>20. w.selected_monitor = s.selected_monitor /\ w.enabled = s.enabled
    BY <1>1, <1>3, <2>7, <2>3, <2>15, <2>16 DEF SameView
  <2>21. Serves(s, w)  BY <2>13, <2>17, <2>19, <2>20, GivesPoises DEF Serves
  <2>22. DrawnOn(a, m) => DrawnOn(w, m)
    BY <2>2, <2>3, <2>15, <2>16 DEF DrawnOn, SameView, SameTags, Visible, Viewed
  <2>23. Layered(s, w)
    BY <1>3, <1>7, <2>3, <2>4, <2>5, <2>7, <2>13, <2>14, <2>17, <2>20, <2>21 DEF Layered
  <2> QED  BY <2>6, <2>22, <2>23
<1>8. Layered(s, t)  BY <1>2, <1>5, <1>6, <1>7
<1>9. resized /\ -1 \notin StackSteps => DrawnOn(t, m)
  <2>1. m \notin s.enabled => DrawnOn(s, m)  BY DEF DrawnOn
  <2> QED  BY <1>1, <1>2, <1>7, <2>1
<1> QED  BY <1>8, <1>9 DEF t

LEMMA RefocusTakes ==
  ASSUME NEW s \in WindowState, ~s.session.lock_active, ~KeepsKeyboard(s)
  PROVE  Refocus(s).kbd \in Clients \cup {None}
<1> DEFINE c == client_top(s, s.selected_monitor)
           d == Target(s, c)
<1>1. c \in Clients \cup {None}  BY TopIn
<1>2. d \in Clients \cup {None}  BY <1>1, TargetIn
<1>3. /\ d # None /\ d = s.kbd => Refocus(s) = s
      /\ d = None \/ d # s.kbd => Refocus(s).kbd = d
  BY <1>1, FocusEffect DEF Refocus
<1> HIDE DEF d
<1> QED  BY <1>2, <1>3

(* A layer surface unmaps. *)
LEMMA LayerUnmapFollows ==
  ASSUME NEW s, Sound(s), NEW l \in Layers, NEW resized \in BOOLEAN
  PROVE  LET t == monitor_handle_layer_unmap(s, l, resized)
         IN  /\ Follows(s, t)
             /\ Placed(s) => Placed(t)
             /\ Up(s) => Up(t)
             /\ s.kbd \in TopLayers /\ s.kbd \in t.session.layers_up => t.kbd \in TopLayers
             /\ t.session.layers_up = s.session.layers_up \ {l}
             /\ t.session.layers = s.session.layers
             /\ t.session.layer_mon = s.session.layer_mon
             /\ t.enabled = s.enabled /\ Gives(s, t) /\ Serves(s, t)
<1> DEFINE up == s.session.layers_up \ {l}
           e  == IF s.session.exclusive_focus = l THEN None
                 ELSE s.session.exclusive_focus
           z  == [s.session EXCEPT !.layers_up = up, !.exclusive_focus = e]
           u  == With(s, z, s.kbd)
           a  == monitor_arrange_layers(u, s.session.layer_mon[l], resized)
           t  == monitor_handle_layer_unmap(s, l, resized)
<1>0. /\ s \in WindowState /\ Listed(s) /\ s.session \in SessionState
      /\ s.kbd \in Surfaces \cup {None}
  BY DEF Sound, Listed, WindowState
<1>1. e \in Unmanaged \cup Layers \cup {None} /\ up \in SUBSET Layers
      /\ e \in s.session.menus_up \cup up \cup {None}
  BY <1>0 DEF SessionState, Sound
<1>2. t = IF a.kbd = l THEN Refocus(a) ELSE a
  <2>1. [s EXCEPT !.session.layers_up = @ \ {l},
                  !.session.exclusive_focus = IF @ = l THEN None ELSE @] = u
    BY <1>0 DEF With, WindowState, SessionState
  <2> HIDE DEF u
  <2> QED  BY <2>1 DEF monitor_handle_layer_unmap
<1> HIDE DEF e, up, t
<1>3. /\ z \in SessionState /\ z.exclusive_focus = e
      /\ z.lock_active = s.session.lock_active /\ z.lock_current = s.session.lock_current
      /\ z.lock_surfaces = s.session.lock_surfaces
      /\ z.menus_up = s.session.menus_up /\ z.layers_up = up
      /\ z.layers = s.session.layers /\ z.layer_mon = s.session.layer_mon
  BY <1>0, <1>1 DEF SessionState
<1> HIDE DEF z
<1>4. /\ u \in WindowState /\ u.session = z /\ u.kbd = s.kbd
      /\ u.monitors = s.monitors /\ u.tags = s.tags /\ u.enabled = s.enabled
      /\ u.clients = s.clients /\ u.mapped = s.mapped
  BY <1>0, <1>3, WithEffect
<1>5. /\ Listed(u) /\ (Placed(s) => Placed(u))
      /\ \A M : Within(M, s) => Within(M, u)
  <2>1. z.lock_active => s.kbd \notin Clients  BY <1>0, <1>3 DEF Listed
  <2> QED  BY <1>0, <1>3, <2>1, WithListed
<1>19. Gives(s, u) /\ SameView(s, u)
  <2>1. s.kbd \in Unmanaged /\ s.kbd = s.session.exclusive_focus => s.kbd = e
    BY DistinctAssumption DEF e
  <2> QED  BY <1>0, <1>3, <2>1, WithGives, WithView
<1>21. u.selected_monitor = s.selected_monitor  BY <1>0, <1>3, WithEffect
<1> HIDE DEF u
<1>6. Sound(u)
  BY <1>1, <1>3, <1>4, <1>5 DEF Sound
<1>22. (Tagged(s) => Tagged(u)) /\ (Exclusive(s) => Exclusive(u))
  BY <1>3, <1>4, <1>19, DistinctAssumption DEF Gives, Views, Exclusive, e
<1>7. Follows(s, u)
  BY <1>3, <1>4, <1>5, <1>6, <1>22 DEF Follows, SameLock, TagsKept, up
<1>8. Layered(u, a)  BY <1>6, ArrangeLayersFollows
<1> HIDE DEF a
<1>9. Sound(a) /\ Listed(a) /\ a \in WindowState /\ a.session.layers_up = up
      /\ a.session.lock_active = s.session.lock_active
  BY <1>3, <1>4, <1>8 DEF Layered, Follows, Sound, Listed, SameLock
<1>10. Follows(a, Refocus(a)) /\ Safe(a, Refocus(a))  BY <1>9, RefocusFollows
<1>11. /\ Follows(a, t) /\ (Placed(a) => Placed(t)) /\ t.session = a.session
       /\ t.enabled = a.enabled
  <2>1. Follows(a, a)  BY <1>9, FollowsSelf
  <2> QED  BY <1>2, <1>10, <2>1 DEF Safe
<1>12. Follows(s, t)  BY <1>7, <1>8, <1>11, FollowsTwice DEF Layered
<1>13. Placed(s) => Placed(t)  BY <1>5, <1>8, <1>11 DEF Layered
<1>14. /\ t.session.layers_up = up /\ t.session.layers = s.session.layers
       /\ t.session.layer_mon = s.session.layer_mon /\ t.enabled = s.enabled
  BY <1>3, <1>4, <1>8, <1>11 DEF Layered
<1>15. a.kbd = s.kbd \/ (~s.session.lock_active /\ a.kbd \in TopLayers \cap up)
  BY <1>3, <1>4, <1>8 DEF Layered
<1>16. l \notin up /\ (s.session.lock_active <=> t.session.lock_active)
  BY <1>9, <1>11 DEF up
<1>17. Up(s) => Up(t)
  <2>1. CASE a.kbd = l /\ ~s.session.lock_active
    <3>1. ~KeepsKeyboard(a)
      BY <1>9, <1>16, <2>1, WindowKindsAssumption, DistinctAssumption DEF KeepsKeyboard
    <3>2. t.kbd \in Clients \cup {None}  BY <1>2, <1>9, <2>1, <3>1, RefocusTakes
    <3> QED  BY <3>2, DistinctAssumption DEF Up
  <2>2. CASE a.kbd # l /\ ~s.session.lock_active
    BY <1>2, <1>14, <1>15, <2>2 DEF Up, up
  <2>3. CASE s.session.lock_active  BY <1>16, <2>3 DEF Up
  <2> QED  BY <2>1, <2>2, <2>3
<1>18. s.kbd \in TopLayers /\ s.kbd \in up => t.kbd \in TopLayers
  BY <1>2, <1>15, <1>16
<1>20. Gives(s, t)
  <2>1. Gives(a, t)  BY <1>2, <1>9, RefocusGives, GivesSelf
  <2> QED  BY <1>8, <1>19, <2>1, GivesTwice DEF Layered
<1>23. Serves(s, t)
  <2>1. \A m : DrawnOn(s, m) => DrawnOn(u, m)
    BY <1>19 DEF DrawnOn, SameView, SameTags, Visible, Viewed
  <2>2. Serves(a, t)  BY <1>2, <1>9, RefocusFollows, ServesSelf
  <2>3. Rests(u, a) /\ Rests(a, t)  BY <1>8, <2>2 DEF Layered, Serves
  <2>4. Rests(s, t)  BY <1>4, <1>17, <2>1, <2>3 DEF Rests
  <2>5. Poises(s, u)  BY <1>4, <1>19, <1>21, GivesPoises
  <2>6. Poises(u, a) /\ Poises(a, t) /\ (Exclusive(u) => Exclusive(a))
    BY <1>8, <2>2 DEF Layered, Serves, Follows
  <2>7. Poises(s, t)  BY <1>22, <2>5, <2>6 DEF Poises
  <2> QED  BY <1>12, <2>4, <2>7 DEF Serves
<1> QED  BY <1>12, <1>13, <1>14, <1>17, <1>18, <1>20, <1>23 DEF t, up

-----------------------------------------------------------------------------
(* The session on its own: what its pointers point to is there. *)
Fit(z) ==
  /\ z \in SessionState
  /\ z.exclusive_focus \in z.menus_up \cup z.layers_up \cup {None}
  /\ IsInjective(z.lock_surfaces)
  /\ \A l \in Layers : z.layer_mon[l] # None => l \in ToSet(z.layers)

LEMMA SoundFit ==
  ASSUME NEW s, Sound(s)
  PROVE  /\ Fit(s.session) /\ Listed(s) /\ s \in WindowState
         /\ s.kbd \in Surfaces \cup {None}
         /\ s.session.lock_active => s.kbd \notin Clients
<1>1. Listed(s) /\ s \in WindowState  BY DEF Sound, Listed
<1>2. s.session \in SessionState /\ s.kbd \in Surfaces \cup {None}  BY <1>1 DEF WindowState
<1> QED  BY <1>1, <1>2 DEF Sound, Fit, Listed

(* The keyboard of a window that is on a monitor stays or goes elsewhere. *)
Releases(s, z, k) ==
  (k = s.kbd /\ z.lock_active = s.session.lock_active) \/ k \notin Clients

LEMMA WithSound ==
  ASSUME NEW s, Sound(s), NEW z, Fit(z), NEW k \in Surfaces \cup {None},
         z.lock_active => k \notin Clients
  PROVE  LET t == With(s, z, k)
         IN  /\ Sound(t) /\ t.session = z /\ t.kbd = k
             /\ t.monitors = s.monitors /\ t.enabled = s.enabled
             /\ t.clients = s.clients /\ t.mapped = s.mapped
             /\ t.mon = s.mon /\ t.tags = s.tags
             /\ t.selected_monitor = s.selected_monitor
             /\ \A M : Within(M, s) => Within(M, t)
             /\ Placed(s) /\ Releases(s, z, k) => Placed(t)
<1> DEFINE t == With(s, z, k)
<1>0. Listed(s) /\ s \in WindowState /\ z \in SessionState  BY SoundFit DEF Fit
<1>1. /\ t.session = z /\ t.kbd = k
      /\ t.monitors = s.monitors /\ t.enabled = s.enabled
      /\ t.clients = s.clients /\ t.mapped = s.mapped
      /\ t.mon = s.mon /\ t.tags = s.tags
      /\ t.selected_monitor = s.selected_monitor
  BY <1>0, WithEffect
<1>2. /\ Listed(t) /\ \A M : Within(M, s) => Within(M, t)
      /\ Placed(s) /\ Releases(s, z, k) => Placed(t)
  BY <1>0, WithListed DEF Releases
<1> HIDE DEF t
<1>3. Sound(t)  BY <1>1, <1>2 DEF Sound, Fit
<1> QED  BY <1>1, <1>2, <1>3 DEF t

Guarded(s) == Sound(s) /\ Locking(s)

(* No pointer to a monitor that is not in the list. *)
Plugged(s) ==
  LET plugged == ToSet(s.monitors) \cup {None}
  IN  /\ Within(plugged, s)
      /\ \A l \in Layers : s.session.layer_mon[l] \in plugged
      /\ ToSet(s.session.lock_surfaces) \subseteq plugged

(* What a handler of this module does. *)
Minds(s, t) ==
  /\ Guarded(t)
  /\ t.monitors = s.monitors /\ t.enabled = s.enabled
  /\ Placed(s) => Placed(t)
  /\ Up(s) => Up(t)
  /\ Plugged(s) => Plugged(t)
  /\ s.session.lock_active /\ t.session.lock_active =>
       t.kbd \in Monitors \cup {None, s.kbd}
  /\ /\ s.kbd \in TopLayers \cap s.session.layers_up \cap t.session.layers_up
     /\ ~s.session.lock_active /\ ~t.session.lock_active
     => t.kbd \in TopLayers

LEMMA SafeSound ==
  ASSUME NEW s, Sound(s), NEW t, Safe(s, t)
  PROVE  /\ Sound(t) /\ t.session = s.session
         /\ t.monitors = s.monitors /\ t.enabled = s.enabled
         /\ Placed(s) => Placed(t)
         /\ Up(s) => Up(t)
         /\ Plugged(s) => Plugged(t)
         /\ s.session.lock_active => t.kbd = s.kbd
         /\ KeepsKeyboard(s) => t.kbd = s.kbd
         /\ t.kbd \in Clients \cup Unmanaged \cup {None, s.kbd}
<1>1. /\ Listed(t) /\ t.session = s.session /\ t.monitors = s.monitors
      /\ t.enabled = s.enabled
      /\ Placed(s) => Placed(t)
      /\ s.session.lock_active \/ KeepsKeyboard(s) => t.kbd = s.kbd
      /\ t.kbd \in Clients \cup Unmanaged \cup {None, s.kbd}
      /\ \A M : Within(M, s) /\ ToSet(s.monitors) \cup {None} \subseteq M => Within(M, t)
  BY DEF Safe
<1>2. Sound(t)  BY <1>1 DEF Sound
<1>3. Plugged(s) => Plugged(t)  BY <1>1 DEF Plugged
<1>4. Up(s) => Up(t)  BY <1>1, DistinctAssumption DEF Up
<1> QED  BY <1>1, <1>2, <1>3, <1>4

LEMMA SafeMinds ==
  ASSUME NEW s, Guarded(s), NEW t, Safe(s, t)
  PROVE  Minds(s, t)
<1>1. /\ Sound(t) /\ t.session = s.session
      /\ t.monitors = s.monitors /\ t.enabled = s.enabled
      /\ Placed(s) => Placed(t)
      /\ Up(s) => Up(t)
      /\ Plugged(s) => Plugged(t)
      /\ s.session.lock_active => t.kbd = s.kbd
      /\ KeepsKeyboard(s) => t.kbd = s.kbd
  BY SafeSound DEF Guarded
<1>2. Locking(t)  BY <1>1 DEF Guarded, Locking
<1>3. s.kbd \in TopLayers \cap s.session.layers_up => t.kbd = s.kbd
  BY <1>1 DEF KeepsKeyboard
<1> QED  BY <1>1, <1>2, <1>3 DEF Minds, Guarded

(* A step that only gives the session another value and keeps the lock. *)
LEMMA WithMinds ==
  ASSUME NEW s, Guarded(s), NEW z, Fit(z), NEW k \in Surfaces \cup {None},
         z.lock_current => z.lock_active,
         ~z.lock_current => z.lock_surfaces = <<>>,
         z.lock_active => k \notin Clients,
         Releases(s, z, k)
  PROVE  LET t == With(s, z, k)
         IN  /\ Guarded(t) /\ t.session = z /\ t.kbd = k
             /\ t.monitors = s.monitors /\ t.enabled = s.enabled
             /\ t.selected_monitor = s.selected_monitor
             /\ t.mon = s.mon
             /\ Placed(s) => Placed(t)
             /\ \A M : Within(M, s) => Within(M, t)
<1> DEFINE t == With(s, z, k)
<1>1. /\ Sound(t) /\ t.session = z /\ t.kbd = k
      /\ t.monitors = s.monitors /\ t.enabled = s.enabled
      /\ t.selected_monitor = s.selected_monitor /\ t.mon = s.mon
      /\ Placed(s) => Placed(t)
      /\ \A M : Within(M, s) => Within(M, t)
  BY WithSound DEF Guarded
<1> HIDE DEF t
<1>2. Locking(t)  BY <1>1 DEF Locking
<1> QED  BY <1>1, <1>2 DEF Guarded, t

LEMMA NewLayerMinds ==
  ASSUME Guarded(wm), NEW l \in Layers, NewLayerSurface(l)
  PROVE  Minds(wm, wm') /\ Gives(wm, wm')
<1>1. l \notin ToSet(wm.session.layers)  BY DEF NewLayerSurface
<1>2. PICK m \in ToSet(wm.monitors) :
        wm' = [wm EXCEPT !.session.layers = <<l>> \o @, !.session.layer_mon[l] = m]
  BY DEF NewLayerSurface
<1> DEFINE list == <<l>> \o wm.session.layers
           on   == [wm.session.layer_mon EXCEPT ![l] = m]
           z == [wm.session EXCEPT !.layers = list, !.layer_mon = on]
           t == With(wm, z, wm.kbd)
<1>0. /\ Fit(wm.session) /\ wm \in WindowState /\ Sound(wm) /\ Locking(wm)
      /\ wm.kbd \in Surfaces \cup {None}
      /\ wm.session.lock_active => wm.kbd \notin Clients
  BY SoundFit DEF Guarded
<1>3. wm' = t  BY <1>0, <1>2 DEF With, WindowState, SessionState
<1>4. m \in Monitors  BY <1>0 DEF WindowState, ToSet
<1>5. /\ wm.session.layers \in Seq(Layers) /\ wm.session \in SessionState
      /\ wm.session.layer_mon \in [Layers -> Monitors \cup {None}]
  BY <1>0 DEF Fit, SessionState
<1>6. list \in Seq(Layers) /\ ToSet(list) = ToSet(wm.session.layers) \cup {l}
  <2>1. list \in Seq(Layers)  BY <1>5
  <2> QED  BY <1>5, <2>1, HeadSet
<1>7. /\ on \in [Layers -> Monitors \cup {None}]
      /\ \A x \in Layers : on[x] = IF x = l THEN m ELSE wm.session.layer_mon[x]
  BY <1>4, <1>5
<1> HIDE DEF list, on
<1>8. /\ z \in SessionState /\ z.exclusive_focus = wm.session.exclusive_focus
      /\ z.lock_active = wm.session.lock_active
      /\ z.lock_current = wm.session.lock_current
      /\ z.lock_surfaces = wm.session.lock_surfaces
      /\ z.menus_up = wm.session.menus_up /\ z.layers_up = wm.session.layers_up
      /\ z.layers = list /\ z.layer_mon = on
  BY <1>5, <1>6, <1>7 DEF SessionState
<1> HIDE DEF z
<1>9. Fit(z)  BY <1>0, <1>6, <1>7, <1>8 DEF Fit
<1>10. /\ Guarded(t) /\ t.session = z /\ t.kbd = wm.kbd
       /\ t.monitors = wm.monitors /\ t.enabled = wm.enabled
       /\ Placed(wm) => Placed(t)
       /\ \A M : Within(M, wm) => Within(M, t)
  BY <1>0, <1>8, <1>9, WithMinds DEF Releases, Locking
<1>13. Gives(wm, t)  BY <1>0, <1>8, WithGives
<1> HIDE DEF t
<1>11. Plugged(wm) => Plugged(t)  BY <1>2, <1>7, <1>8, <1>10 DEF Plugged
<1>12. Up(wm) => Up(t)  BY <1>8, <1>10 DEF Up
<1> QED  BY <1>3, <1>8, <1>10, <1>11, <1>12, <1>13 DEF Minds

LEMMA LayeredMinds ==
  ASSUME NEW s, Guarded(s), NEW t, Layered(s, t)
  PROVE  Minds(s, t)
<1>1. /\ Sound(t) /\ t.monitors = s.monitors /\ SameLock(s, t)
      /\ t.enabled = s.enabled
      /\ Placed(s) => Placed(t)
      /\ t.session.layers_up = s.session.layers_up
      /\ t.session.layer_mon = s.session.layer_mon
      /\ \A M : Within(M, s) /\ ToSet(s.monitors) \cup {None} \subseteq M => Within(M, t)
      /\ t.kbd = s.kbd \/ (/\ ~s.session.lock_active
                           /\ t.kbd \in TopLayers \cap s.session.layers_up)
  BY DEF Layered, Follows
<1>2. Locking(t)  BY <1>1 DEF Guarded, Locking, SameLock
<1>3. Up(s) => Up(t)  BY <1>1 DEF Up, SameLock
<1>4. Plugged(s) => Plugged(t)  BY <1>1 DEF Plugged, SameLock
<1> QED  BY <1>1, <1>2, <1>3, <1>4 DEF Minds, Guarded

LEMMA LayerCommitMinds ==
  ASSUME Guarded(wm), NEW l \in Layers, LayerCommit(l)
  PROVE  Minds(wm, wm') /\ Gives(wm, wm')
<1>1. PICK map \in BOOLEAN, resized \in BOOLEAN :
        wm' = monitor_arrange_layers(
                [wm EXCEPT !.session.layers_up = IF map THEN @ \cup {l} ELSE @],
                wm.session.layer_mon[l], resized)
  BY DEF LayerCommit
<1> DEFINE up == IF map THEN wm.session.layers_up \cup {l} ELSE wm.session.layers_up
           z == [wm.session EXCEPT !.layers_up = up]
           u == With(wm, z, wm.kbd)
           t == monitor_arrange_layers(u, wm.session.layer_mon[l], resized)
<1>0. /\ Fit(wm.session) /\ wm \in WindowState /\ Sound(wm) /\ Locking(wm)
      /\ wm.kbd \in Surfaces \cup {None}
      /\ wm.session.lock_active => wm.kbd \notin Clients
      /\ wm.session \in SessionState
  BY SoundFit DEF Guarded, Fit
<1>2. wm' = t
  <2>1. [wm EXCEPT !.session.layers_up = IF map THEN @ \cup {l} ELSE @] = u
    BY <1>0 DEF With, WindowState, SessionState
  <2> QED  BY <1>1, <2>1
<1>3. up \in SUBSET Layers /\ wm.session.layers_up \subseteq up
  BY <1>0 DEF SessionState
<1> HIDE DEF up
<1>4. /\ z \in SessionState /\ z.exclusive_focus = wm.session.exclusive_focus
      /\ z.lock_active = wm.session.lock_active
      /\ z.lock_current = wm.session.lock_current
      /\ z.lock_surfaces = wm.session.lock_surfaces
      /\ z.menus_up = wm.session.menus_up /\ z.layers_up = up
      /\ z.layers = wm.session.layers /\ z.layer_mon = wm.session.layer_mon
  BY <1>0, <1>3 DEF SessionState
<1> HIDE DEF z
<1>5. Fit(z)  BY <1>0, <1>3, <1>4 DEF Fit
<1>6. /\ Guarded(u) /\ u.session = z /\ u.kbd = wm.kbd
      /\ u.monitors = wm.monitors /\ u.enabled = wm.enabled
      /\ Placed(wm) => Placed(u)
      /\ \A M : Within(M, wm) => Within(M, u)
  BY <1>0, <1>4, <1>5, WithMinds DEF Releases, Locking
<1>11. Gives(wm, u)  BY <1>0, <1>4, WithGives
<1> HIDE DEF u
<1>7. (Plugged(wm) => Plugged(u)) /\ (Up(wm) => Up(u))
  BY <1>3, <1>4, <1>6 DEF Plugged, Up
<1>8. Layered(u, t)  BY <1>6, ArrangeLayersFollows DEF Guarded
<1> HIDE DEF t
<1>9. Minds(u, t) /\ t.session.lock_active = u.session.lock_active
      /\ t.session.layers_up = u.session.layers_up
  BY <1>6, <1>8, LayeredMinds DEF Layered, Follows, SameLock
<1>10. /\ wm.kbd \in TopLayers \cap wm.session.layers_up \cap t.session.layers_up
       /\ ~wm.session.lock_active /\ ~t.session.lock_active
       => t.kbd \in TopLayers
  BY <1>4, <1>6, <1>9 DEF Minds
<1>12. Gives(wm, t)  BY <1>8, <1>11, GivesTwice DEF Layered
<1> QED  BY <1>2, <1>4, <1>6, <1>7, <1>9, <1>10, <1>12 DEF Minds

LEMMA LayerUnmapMinds ==
  ASSUME Guarded(wm), NEW l \in Layers, LayerUnmap(l)
  PROVE  Minds(wm, wm') /\ Gives(wm, wm')
<1>1. PICK resized \in BOOLEAN : wm' = monitor_handle_layer_unmap(wm, l, resized)
  BY DEF LayerUnmap
<1> DEFINE t == monitor_handle_layer_unmap(wm, l, resized)
<1>2. /\ Follows(wm, t) /\ t.enabled = wm.enabled
      /\ Placed(wm) => Placed(t)
      /\ Up(wm) => Up(t)
      /\ wm.kbd \in TopLayers /\ wm.kbd \in t.session.layers_up => t.kbd \in TopLayers
      /\ t.session.layer_mon = wm.session.layer_mon /\ Gives(wm, t)
  BY LayerUnmapFollows DEF Guarded
<1> HIDE DEF t
<1>3. Locking(t)  BY <1>2 DEF Guarded, Locking, Follows, SameLock
<1>4. Plugged(wm) => Plugged(t)  BY <1>2 DEF Plugged, Follows, SameLock
<1> QED  BY <1>1, <1>2, <1>3, <1>4 DEF Minds, Guarded, Follows, t

(* A layer surface that is not mapped leaves the list. *)
LEMMA UnlistedSound ==
  ASSUME NEW s, Sound(s), NEW l \in Layers
  PROVE  LET t == Unlisted(s, l)
         IN  /\ Sound(t) /\ Follows(s, t)
             /\ t.session.layers_up = s.session.layers_up
             /\ ToSet(t.session.layers) \subseteq ToSet(s.session.layers)
             /\ t.session.layer_mon = [s.session.layer_mon EXCEPT ![l] = None]
             /\ t.kbd = s.kbd /\ t.enabled = s.enabled
             /\ t.selected_monitor = s.selected_monitor /\ t.mon = s.mon
             /\ Placed(s) => Placed(t)
             /\ Gives(s, t) /\ Serves(s, t)
<1> DEFINE list == Without(s.session.layers, l)
           on   == [s.session.layer_mon EXCEPT ![l] = None]
           z == [s.session EXCEPT !.layers = list, !.layer_mon = on]
           t == With(s, z, s.kbd)
<1>0. /\ Fit(s.session) /\ s \in WindowState
      /\ s.kbd \in Surfaces \cup {None}
      /\ s.session.lock_active => s.kbd \notin Clients
  BY SoundFit
<1>3. Unlisted(s, l) = t  BY <1>0 DEF Unlisted, With, WindowState, SessionState
<1>5. /\ s.session.layers \in Seq(Layers) /\ s.session \in SessionState
      /\ s.session.layer_mon \in [Layers -> Monitors \cup {None}]
  BY <1>0 DEF Fit, SessionState
<1>6. /\ list \in Seq(Layers) /\ ToSet(list) \subseteq ToSet(s.session.layers)
      /\ ToSet(s.session.layers) \ {l} \subseteq ToSet(list)
  BY <1>5, WithoutType, WithoutSet
<1>7. /\ on \in [Layers -> Monitors \cup {None}]
      /\ \A x \in Layers : on[x] = IF x = l THEN None ELSE s.session.layer_mon[x]
  BY <1>5
<1> HIDE DEF list
<1>8. /\ z \in SessionState /\ z.exclusive_focus = s.session.exclusive_focus
      /\ z.lock_active = s.session.lock_active
      /\ z.lock_current = s.session.lock_current
      /\ z.lock_surfaces = s.session.lock_surfaces
      /\ z.menus_up = s.session.menus_up /\ z.layers_up = s.session.layers_up
      /\ z.layers = list /\ z.layer_mon = on
  BY <1>5, <1>6, <1>7 DEF SessionState
<1> HIDE DEF z
<1>9. Fit(z)  BY <1>0, <1>6, <1>7, <1>8 DEF Fit
<1>10. /\ Sound(t) /\ t.session = z /\ t.kbd = s.kbd
       /\ t.monitors = s.monitors /\ t.enabled = s.enabled /\ t.tags = s.tags
       /\ t.clients = s.clients /\ t.mapped = s.mapped
       /\ t.selected_monitor = s.selected_monitor /\ t.mon = s.mon
       /\ Placed(s) => Placed(t)
       /\ \A M : Within(M, s) => Within(M, t)
  BY <1>0, <1>8, <1>9, WithSound DEF Releases
<1>12. Gives(s, t) /\ SameView(s, t)  BY <1>0, <1>5, <1>8, WithGives, WithView
<1> HIDE DEF t
<1>11. Follows(s, t)
  <2>1. Exclusive(s) => Exclusive(t)  BY <1>8, <1>10 DEF Exclusive
  <2>2. Tagged(s) => Tagged(t)  BY <1>12 DEF Gives, Views
  <2> QED  BY <1>7, <1>8, <1>10, <2>1, <2>2 DEF Follows, SameLock, TagsKept
<1>13. Rests(s, t)  BY <1>8, <1>10, <1>12, SameRests DEF Up
<1>14. Serves(s, t)  BY <1>10, <1>11, <1>12, <1>13, GivesPoises DEF Serves
<1> QED  BY <1>3, <1>6, <1>8, <1>10, <1>11, <1>12, <1>14

LEMMA LayerDestroyMinds ==
  ASSUME Guarded(wm), NEW l \in Layers, LayerDestroy(l)
  PROVE  Minds(wm, wm') /\ Gives(wm, wm')
<1> DEFINE t == Unlisted(wm, l)
<1>1. wm' = t  BY DEF LayerDestroy
<1>0. wm \in WindowState /\ wm.session \in SessionState /\ Sound(wm)
  BY SoundFit DEF Guarded, Fit
<1>2. /\ Sound(t) /\ Follows(wm, t)
      /\ t.session.layers_up = wm.session.layers_up
      /\ t.session.layer_mon = [wm.session.layer_mon EXCEPT ![l] = None]
      /\ t.kbd = wm.kbd /\ t.enabled = wm.enabled
      /\ Placed(wm) => Placed(t)
      /\ Gives(wm, t)
  BY <1>0, UnlistedSound
<1> HIDE DEF t
<1>3. Locking(t)  BY <1>2 DEF Guarded, Locking, Follows, SameLock
<1>4. Plugged(wm) => Plugged(t)  BY <1>2 DEF Plugged, Follows, SameLock
<1>5. Up(wm) => Up(t)  BY <1>2 DEF Up, Follows, SameLock
<1> QED  BY <1>1, <1>2, <1>3, <1>4, <1>5 DEF Minds, Guarded, Follows

(* A menu that gets the keyboard becomes exclusive; one that goes is no
   longer. *)
OneMenu == \A u, v \in WantsFocus : u = v

LEMMA MenuMapMinds ==
  ASSUME Guarded(wm), NEW u \in Unmanaged, MenuMap(u)
  PROVE  /\ Minds(wm, wm') /\ Views(wm, wm')
         /\ OneMenu => Gives(wm, wm')
<1> DEFINE menus == wm.session.menus_up \cup {u}
           z == [wm.session EXCEPT !.menus_up = menus]
           up == With(wm, z, wm.kbd)
           f == client_focus(up, u)
           y == [f.session EXCEPT !.exclusive_focus = u]
           t == With(f, y, f.kbd)
<1>0. /\ Fit(wm.session) /\ wm \in WindowState /\ Sound(wm) /\ Locking(wm)
      /\ wm.kbd \in Surfaces \cup {None}
      /\ wm.session.lock_active => wm.kbd \notin Clients
      /\ wm.session \in SessionState
  BY SoundFit DEF Guarded, Fit
<1>1. wm' = IF u \in WantsFocus THEN [f EXCEPT !.session.exclusive_focus = u] ELSE up
  <2>1. [wm EXCEPT !.session.menus_up = @ \cup {u}] = up
    BY <1>0 DEF With, WindowState, SessionState
  <2> HIDE DEF up
  <2> QED  BY <2>1 DEF MenuMap
<1>2. menus \in SUBSET Unmanaged /\ u \in menus /\ wm.session.menus_up \subseteq menus
  BY <1>0 DEF SessionState
<1> HIDE DEF menus
<1>3. /\ z \in SessionState /\ z.exclusive_focus = wm.session.exclusive_focus
      /\ z.lock_active = wm.session.lock_active
      /\ z.lock_current = wm.session.lock_current
      /\ z.lock_surfaces = wm.session.lock_surfaces
      /\ z.menus_up = menus /\ z.layers_up = wm.session.layers_up
      /\ z.layers = wm.session.layers /\ z.layer_mon = wm.session.layer_mon
  BY <1>0, <1>2 DEF SessionState
<1> HIDE DEF z
<1>4. Fit(z)  BY <1>0, <1>2, <1>3 DEF Fit
<1>5. /\ Guarded(up) /\ up.session = z /\ up.kbd = wm.kbd
      /\ up.monitors = wm.monitors /\ up.enabled = wm.enabled
      /\ Placed(wm) => Placed(up)
      /\ \A M : Within(M, wm) => Within(M, up)
  BY <1>0, <1>3, <1>4, WithMinds DEF Releases, Locking
<1>9. Gives(wm, up)  BY <1>0, <1>3, WithGives
<1> HIDE DEF up
<1>6. (Plugged(wm) => Plugged(up)) /\ (Up(wm) => Up(up))
  BY <1>3, <1>5 DEF Plugged, Up
<1>7. CASE u \notin WantsFocus
  BY <1>1, <1>3, <1>5, <1>6, <1>7, <1>9 DEF Minds, Gives
<1>8. CASE u \in WantsFocus
  <2>1. Safe(up, f)
    BY <1>5, FocusSafe, DistinctAssumption DEF Guarded, Sound
  <2>2. /\ Sound(f) /\ f.session = up.session
        /\ f.monitors = up.monitors /\ f.enabled = up.enabled
        /\ Placed(up) => Placed(f)
        /\ Up(up) => Up(f)
        /\ Plugged(up) => Plugged(f)
        /\ up.session.lock_active => f.kbd = up.kbd
        /\ KeepsKeyboard(up) => f.kbd = up.kbd
    BY <1>5, <2>1, SafeSound DEF Guarded
  <2>3. /\ Guarded(f) /\ f \in WindowState /\ f.session = z
        /\ f.kbd \in Surfaces \cup {None}
        /\ f.session.lock_active => f.kbd \notin Clients
    BY <1>5, <2>2, SoundFit DEF Guarded, Locking
  <2>11. Views(up, f)  BY <1>5, SoundFit, OtherFocusViews DEF Guarded
  <2>12. ~up.session.lock_active => f.kbd = u \/ (KeepsKeyboard(up) /\ f.kbd = up.kbd)
    <3>1. Target(up, u) = u  BY DistinctAssumption DEF Target
    <3>2. up \in WindowState  BY <1>5, SoundFit DEF Guarded
    <3>3. u # None  BY DistinctAssumption
    <3> HIDE DEF f
    <3> QED  BY <3>1, <3>2, <3>3, FocusEffect DEF f
  <2> HIDE DEF f
  <2>4. wm' = t  BY <1>1, <1>8, <2>3 DEF With, WindowState
  <2>5. /\ y \in SessionState /\ y.exclusive_focus = u
        /\ y.lock_active = z.lock_active
        /\ y.lock_current = z.lock_current
        /\ y.lock_surfaces = z.lock_surfaces
        /\ y.menus_up = menus /\ y.layers_up = z.layers_up
        /\ y.layers = z.layers /\ y.layer_mon = z.layer_mon
    BY <1>3, <2>3 DEF SessionState
  <2> HIDE DEF y
  <2>6. Fit(y)  BY <1>2, <1>4, <2>5 DEF Fit
  <2>7. /\ Guarded(t) /\ t.session = y /\ t.kbd = f.kbd
        /\ t.monitors = f.monitors /\ t.enabled = f.enabled
        /\ Placed(f) => Placed(t)
        /\ \A M : Within(M, f) => Within(M, t)
    BY <2>3, <2>5, <2>6, WithMinds DEF Releases, Guarded, Locking
  <2>13. Views(f, t)  BY <2>3, WithView, SameViews
  <2> HIDE DEF t
  <2>8. (Plugged(f) => Plugged(t)) /\ (Up(f) => Up(t))
    BY <2>3, <2>5, <2>7 DEF Plugged, Up
  <2>9. wm.session.lock_active => t.kbd = wm.kbd
    BY <1>3, <1>5, <2>2, <2>7
  <2>10. wm.kbd \in TopLayers \cap wm.session.layers_up => t.kbd = wm.kbd
    BY <1>3, <1>5, <2>2, <2>7 DEF KeepsKeyboard
  <2>15. Views(wm, t)  BY <1>9, <2>11, <2>13 DEF Gives, Views
  <2>14. ASSUME OneMenu  PROVE Gives(wm, t)
    <3>2. up.session.lock_active => Returned(t) /\ Exclusive(t)
      BY <1>5, <2>5, <2>7 DEF Returned, Exclusive
    <3>3. ~up.session.lock_active => t.kbd = u \/ (t.kbd \in Layers /\ t.kbd \notin Unmanaged)
      BY <1>8, <2>7, <2>12, <2>14, WindowKindsAssumption, DistinctAssumption
         DEF KeepsKeyboard, OneMenu
    <3>4. ~up.session.lock_active => Returned(t) /\ Exclusive(t)
      BY <2>5, <2>7, <3>3 DEF Returned, Exclusive
    <3> QED  BY <2>15, <3>2, <3>4 DEF Gives, Settles
  <2> QED  BY <1>5, <1>6, <2>2, <2>4, <2>7, <2>8, <2>9, <2>10, <2>14, <2>15 DEF Minds
<1> QED  BY <1>7, <1>8

LEMMA MenuUnmapMinds ==
  ASSUME Guarded(wm), NEW u \in Unmanaged, MenuUnmap(u)
  PROVE  Minds(wm, wm') /\ Gives(wm, wm')
<1> DEFINE menus == wm.session.menus_up \ {u}
           e == IF wm.session.exclusive_focus = u THEN None
                ELSE wm.session.exclusive_focus
           z == [wm.session EXCEPT !.menus_up = menus, !.exclusive_focus = e]
           d == With(wm, z, wm.kbd)
<1>0. /\ Fit(wm.session) /\ wm \in WindowState /\ Sound(wm) /\ Locking(wm)
      /\ wm.kbd \in Surfaces \cup {None}
      /\ wm.session.lock_active => wm.kbd \notin Clients
      /\ wm.session \in SessionState
  BY SoundFit DEF Guarded, Fit
<1>1. \/ wm' = Refocus(d) /\ wm.session.exclusive_focus = u
      \/ wm' = d /\ wm.session.exclusive_focus # u
  <2>1. CASE wm.session.exclusive_focus = u
    <3>1. [[wm EXCEPT !.session.menus_up = @ \ {u}] EXCEPT !.session.exclusive_focus = None]
            = d
      BY <1>0, <2>1 DEF With, WindowState, SessionState
    <3> HIDE DEF d
    <3> QED  BY <2>1, <3>1 DEF MenuUnmap
  <2>2. CASE wm.session.exclusive_focus # u
    <3>1. [wm EXCEPT !.session.menus_up = @ \ {u}] = d
      BY <1>0, <2>2 DEF With, WindowState, SessionState
    <3> HIDE DEF d
    <3> QED  BY <2>2, <3>1 DEF MenuUnmap
  <2> QED  BY <2>1, <2>2
<1>2. /\ menus \in SUBSET Unmanaged
      /\ e \in Unmanaged \cup Layers \cup {None}
      /\ e \in menus \cup wm.session.layers_up \cup {None}
  BY <1>0 DEF SessionState, Fit
<1>9. e = IF wm.session.exclusive_focus = u THEN None ELSE wm.session.exclusive_focus
  OBVIOUS
<1> HIDE DEF menus, e
<1>3. /\ z \in SessionState /\ z.exclusive_focus = e
      /\ z.lock_active = wm.session.lock_active
      /\ z.lock_current = wm.session.lock_current
      /\ z.lock_surfaces = wm.session.lock_surfaces
      /\ z.menus_up = menus /\ z.layers_up = wm.session.layers_up
      /\ z.layers = wm.session.layers /\ z.layer_mon = wm.session.layer_mon
  BY <1>0, <1>2 DEF SessionState
<1> HIDE DEF z
<1>4. Fit(z)  BY <1>0, <1>2, <1>3 DEF Fit
<1>5. /\ Guarded(d) /\ d.session = z /\ d.kbd = wm.kbd
      /\ d.monitors = wm.monitors /\ d.enabled = wm.enabled
      /\ Placed(wm) => Placed(d)
      /\ \A M : Within(M, wm) => Within(M, d)
  BY <1>0, <1>3, <1>4, WithMinds DEF Releases, Locking
<1>10. SameView(wm, d)  BY <1>0, WithView
<1> HIDE DEF d
<1>6. (Plugged(wm) => Plugged(d)) /\ (Up(wm) => Up(d))
  BY <1>3, <1>5 DEF Plugged, Up
<1>7. Minds(d, wm')
  <2>1. Sound(d) /\ Listed(d)  BY <1>5, SoundFit DEF Guarded
  <2>2. Safe(d, Refocus(d)) /\ Safe(d, d)  BY <2>1, RefocusSafe, SafeSelf
  <2> QED  BY <1>1, <1>5, <2>2, SafeMinds
<1>8. /\ d.session.lock_active = wm.session.lock_active
      /\ d.session.layers_up = wm.session.layers_up
  BY <1>3, <1>5
<1>11. Gives(wm, wm')
  <2>1. d \in WindowState /\ Listed(d)  BY <1>5, SoundFit DEF Guarded
  <2>2. Returned(wm) => Returned(d)  BY <1>0, <1>5, <1>8, <1>10, <2>1, SameFront
  <2>3. Views(wm, d)  BY <1>10, SameViews
  <2>4. CASE wm.session.exclusive_focus # u
    <3>1. Exclusive(wm) => Exclusive(d)  BY <1>3, <1>5, <1>9, <2>4 DEF Exclusive
    <3> QED  BY <1>1, <2>2, <2>3, <2>4, <3>1 DEF Gives, Settles
  <2>5. CASE wm.session.exclusive_focus = u
    <3>1. wm' = Refocus(d)  BY <1>1, <2>5
    <3>2. Gives(d, wm') /\ (Modal = {} => Returned(wm'))  BY <2>1, <3>1, RefocusGives
    <3>3. wm'.session = d.session /\ Restores(d, wm')
      BY <2>1, <3>1, RefocusSafe DEF Safe
    <3>4. Exclusive(wm) => Exclusive(wm')
      <4> SUFFICES ASSUME Exclusive(wm), ~wm'.session.lock_active, wm'.kbd \in Unmanaged
                   PROVE  FALSE
        BY DEF Exclusive
      <4>1. wm'.kbd = d.kbd /\ ~d.session.lock_active  BY <3>3 DEF Restores
      <4>2. d.kbd = u  BY <1>5, <1>8, <2>5, <4>1 DEF Exclusive
      <4>3. ~KeepsKeyboard(d)
        BY <1>3, <1>5, <1>9, <2>5, <4>2, WindowKindsAssumption, DistinctAssumption
           DEF KeepsKeyboard
      <4>4. wm'.kbd \in Clients \cup {None}  BY <2>1, <3>1, <4>1, <4>3, RefocusTakes
      <4> QED  BY <4>1, <4>2, <4>4, DistinctAssumption
    <3>5. Views(wm, wm')  BY <2>3, <3>2 DEF Gives, Views
    <3> QED  BY <3>2, <3>4, <3>5 DEF Gives, Settles
  <2> QED  BY <2>4, <2>5
<1> QED  BY <1>5, <1>6, <1>7, <1>8, <1>11 DEF Minds

LEMMA MenuPressMinds ==
  ASSUME Guarded(wm), NEW u \in Unmanaged, MenuPress(u)
  PROVE  Minds(wm, wm') /\ Views(wm, wm')
<1>1. PICK m \in Lit(wm) : wm' = client_focus([wm EXCEPT !.selected_monitor = m], u)
  BY DEF MenuPress
<1> DEFINE at == [wm EXCEPT !.selected_monitor = m]
<1>2. Listed(wm) /\ wm \in WindowState  BY SoundFit DEF Guarded
<1>3. m \in ToSet(wm.monitors) /\ m \in Monitors  BY <1>2 DEF Lit, WindowState
<1>4. Safe(wm, at)  BY <1>2, <1>3, SelectSafe
<1>6. /\ SameTags(wm, at) /\ at.selected_monitor = m /\ m # None
  BY <1>2, <1>3, DistinctAssumption DEF WindowState, SameTags
<1>7. Views(wm, at)  BY <1>4, <1>6, SafeViews
<1> HIDE DEF at
<1>8. Views(wm, client_focus(at, u))
  <2>1. Views(at, client_focus(at, u))  BY <1>4, OtherFocusViews DEF Safe
  <2> QED  BY <1>7, <2>1 DEF Views
<1>5. Safe(at, client_focus(at, u))
  BY <1>4, FocusSafe, DistinctAssumption DEF Safe
<1> QED  BY <1>1, <1>4, <1>5, SafeTwice, <1>8, SafeMinds DEF at

(* The lock takes the keyboard from any window. *)
LEMMA LockMinds ==
  ASSUME Guarded(wm), lock_handle_new_lock
  PROVE  Minds(wm, wm') /\ Gives(wm, wm')
<1> DEFINE f == client_focus(wm, None)
           z == [f.session EXCEPT !.lock_active = TRUE, !.lock_current = TRUE]
           t == With(f, z, f.kbd)
<1>0. /\ Sound(wm) /\ Listed(wm) /\ wm \in WindowState /\ Fit(wm.session)
      /\ wm.session.lock_active => wm.kbd \notin Clients
  BY SoundFit DEF Guarded
<1>1. Safe(wm, f)  BY <1>0, FocusSafe, DistinctAssumption
<1>12. Views(wm, f)  BY <1>0, OtherFocusViews
<1>2. /\ Sound(f) /\ f.session = wm.session
      /\ f.monitors = wm.monitors /\ f.enabled = wm.enabled
      /\ Placed(wm) => Placed(f)
      /\ Plugged(wm) => Plugged(f)
      /\ wm.session.lock_active => f.kbd = wm.kbd
  BY <1>0, <1>1, SafeSound
<1>3. f.kbd \notin Clients
  <2>1. Target(wm, None) = None  BY DistinctAssumption DEF Target
  <2>2. ~wm.session.lock_active => f.kbd = IF KeepsKeyboard(wm) THEN wm.kbd ELSE None
    BY <1>0, <2>1, FocusEffect
  <2>3. KeepsKeyboard(wm) => wm.kbd \notin Clients
    BY WindowKindsAssumption, DistinctAssumption DEF KeepsKeyboard
  <2> HIDE DEF f
  <2> QED  BY <1>0, <1>2, <2>2, <2>3, DistinctAssumption
<1>4. f \in WindowState /\ f.kbd \in Surfaces \cup {None} /\ f.session \in SessionState
      /\ Locking(f) /\ Fit(f.session)
  BY <1>2, SoundFit DEF Guarded, Locking, Fit
<1>5. wm' = [f EXCEPT !.session.lock_active = TRUE, !.session.lock_current = TRUE]
  BY DEF lock_handle_new_lock, Locked
<1> HIDE DEF f
<1>6. wm' = t  BY <1>4, <1>5 DEF With, WindowState, SessionState
<1>7. /\ z \in SessionState /\ z.exclusive_focus = f.session.exclusive_focus
      /\ z.lock_active /\ z.lock_current
      /\ z.lock_surfaces = f.session.lock_surfaces
      /\ z.menus_up = f.session.menus_up /\ z.layers_up = f.session.layers_up
      /\ z.layers = f.session.layers /\ z.layer_mon = f.session.layer_mon
  BY <1>4 DEF SessionState
<1> HIDE DEF z
<1>8. Fit(z)  BY <1>4, <1>7 DEF Fit
<1>9. /\ Guarded(t) /\ t.session = z /\ t.kbd = f.kbd
      /\ t.monitors = f.monitors /\ t.enabled = f.enabled
      /\ Placed(f) => Placed(t)
      /\ \A M : Within(M, f) => Within(M, t)
  <2>1. Guarded(f)  BY <1>2, <1>4 DEF Guarded
  <2> QED  BY <1>3, <1>4, <1>7, <1>8, <2>1, WithMinds DEF Releases
<1>13. Views(f, t)  BY <1>4, WithView, SameViews
<1> HIDE DEF t
<1>10. Plugged(f) => Plugged(t)  BY <1>7, <1>9 DEF Plugged
<1>11. Up(t)  BY <1>7, <1>9 DEF Up
<1>14. Gives(wm, t)
  <2>1. Returned(t) /\ Exclusive(t)  BY <1>7, <1>9 DEF Returned, Exclusive
  <2> QED  BY <1>12, <1>13, <2>1 DEF Gives, Views, Settles
<1> QED  BY <1>2, <1>6, <1>7, <1>9, <1>10, <1>11, <1>14 DEF Minds

LEMMA LockSurfaceMinds ==
  ASSUME Guarded(wm), NEW m \in Monitors, lock_handle_new_surface(m)
  PROVE  Minds(wm, wm') /\ Gives(wm, wm')
<1> DEFINE list == <<m>> \o wm.session.lock_surfaces
           k == IF m = wm.selected_monitor THEN m ELSE wm.kbd
           z == [wm.session EXCEPT !.lock_surfaces = list]
           t == With(wm, z, k)
<1>0. /\ Fit(wm.session) /\ wm \in WindowState /\ Sound(wm) /\ Locking(wm)
      /\ wm.kbd \in Surfaces \cup {None}
      /\ wm.session.lock_active => wm.kbd \notin Clients
      /\ wm.session \in SessionState
  BY SoundFit DEF Guarded, Fit
<1>1. /\ m \in ToSet(wm.monitors) /\ m \notin ToSet(wm.session.lock_surfaces)
      /\ wm.session.lock_current /\ wm.session.lock_active
      /\ wm.session.lock_surfaces \in Seq(Monitors)
      /\ IsInjective(wm.session.lock_surfaces)
  BY <1>0 DEF lock_handle_new_surface, Locking, Fit, SessionState
<1>2. wm' = t
  BY <1>0 DEF lock_handle_new_surface, With, WindowState, SessionState
<1>3. /\ list \in Seq(Monitors) /\ IsInjective(list)
      /\ ToSet(list) = ToSet(wm.session.lock_surfaces) \cup {m}
  <2>1. list \in Seq(Monitors)  BY <1>1
  <2> QED  BY <1>1, <2>1, HeadSet
<1>4. k \in Surfaces \cup {None} /\ k \notin Clients /\ k \in Monitors \cup {wm.kbd}
  BY <1>0, <1>1, DistinctAssumption DEF Surfaces
<1> HIDE DEF list, k
<1>5. /\ z \in SessionState /\ z.exclusive_focus = wm.session.exclusive_focus
      /\ z.lock_active = wm.session.lock_active
      /\ z.lock_current = wm.session.lock_current
      /\ z.lock_surfaces = list
      /\ z.menus_up = wm.session.menus_up /\ z.layers_up = wm.session.layers_up
      /\ z.layers = wm.session.layers /\ z.layer_mon = wm.session.layer_mon
  BY <1>0, <1>3 DEF SessionState
<1> HIDE DEF z
<1>6. Fit(z)  BY <1>0, <1>3, <1>5 DEF Fit
<1>7. /\ Guarded(t) /\ t.session = z /\ t.kbd = k
      /\ t.monitors = wm.monitors /\ t.enabled = wm.enabled
      /\ Placed(wm) => Placed(t)
      /\ \A M : Within(M, wm) => Within(M, t)
  <2>1. Releases(wm, z, k)  BY <1>4, <1>5 DEF Releases
  <2>2. /\ z.lock_current => z.lock_active
        /\ ~z.lock_current => z.lock_surfaces = <<>>
        /\ z.lock_active => k \notin Clients
    BY <1>1, <1>4, <1>5
  <2> QED  BY <1>4, <1>6, <2>1, <2>2, WithMinds
<1>10. Views(wm, t)  BY <1>0, WithView, SameViews
<1> HIDE DEF t
<1>8. Plugged(wm) => Plugged(t)  BY <1>1, <1>3, <1>5, <1>7 DEF Plugged
<1>9. Up(t)  BY <1>1, <1>5, <1>7 DEF Up
<1>11. Gives(wm, t)
  <2>1. Returned(t) /\ Exclusive(t)  BY <1>1, <1>5, <1>7 DEF Returned, Exclusive
  <2> QED  BY <1>10, <2>1 DEF Gives, Settles
<1> QED  BY <1>11, <1>1, <1>2, <1>4, <1>5, <1>7, <1>8, <1>9 DEF Minds

(* Lock surfaces go: what else they change is who of them has the keyboard. *)
Bared(s, t) ==
  /\ Sound(t) /\ SameView(s, t)
  /\ t.monitors = s.monitors /\ t.enabled = s.enabled /\ t.mon = s.mon
  /\ t.clients = s.clients /\ t.mapped = s.mapped /\ t.linked = s.linked
  /\ t.tags = s.tags /\ t.selected_monitor = s.selected_monitor
  /\ t.session.lock_active = s.session.lock_active
  /\ t.session.lock_current = s.session.lock_current
  /\ t.session.exclusive_focus = s.session.exclusive_focus
  /\ t.session.layers = s.session.layers
  /\ t.session.layer_mon = s.session.layer_mon
  /\ t.session.layers_up = s.session.layers_up
  /\ ToSet(t.session.lock_surfaces) \subseteq ToSet(s.session.lock_surfaces)
  /\ t.kbd \in Monitors \cup {None, s.kbd}
  /\ s.kbd \notin Monitors => t.kbd = s.kbd
  /\ Placed(s) => Placed(t)
  /\ \A M : Within(M, s) => Within(M, t)

LEMMA SurfaceDestroyBares ==
  ASSUME NEW s, Sound(s), NEW m \in ToSet(s.session.lock_surfaces),
         s.kbd \in Monitors => s.session.lock_active /\ s.session.lock_current
  PROVE  LET t == lock_handle_surface_destroy(s, m)
         IN  /\ Bared(s, t)
             /\ ToSet(t.session.lock_surfaces) = ToSet(s.session.lock_surfaces) \ {m}
<1> DEFINE t == lock_handle_surface_destroy(s, m)
           list == Without(s.session.lock_surfaces, m)
           z == [s.session EXCEPT !.lock_surfaces = list]
           k == IF s.kbd = m THEN Head(s.session.lock_surfaces) ELSE s.kbd
           w == With(s, z, k)
<1>0. /\ Fit(s.session) /\ s \in WindowState
      /\ s.kbd \in Surfaces \cup {None}
      /\ s.session.lock_active => s.kbd \notin Clients
      /\ s.session \in SessionState
  BY SoundFit DEF Fit
<1>1. s.session.lock_surfaces \in Seq(Monitors) /\ IsInjective(s.session.lock_surfaces)
  BY <1>0 DEF Fit, SessionState
<1>2. m \in Monitors  BY <1>1 DEF ToSet
<1>3. Head(s.session.lock_surfaces) \in Monitors
  BY <1>1 DEF ToSet
<1>4. t = w
  <2>1. [s EXCEPT !.session.lock_surfaces = Without(@, m)] = With(s, z, s.kbd)
    BY <1>0 DEF With, WindowState, SessionState
  <2>2. s.kbd = m =>
          [[s EXCEPT !.session.lock_surfaces = Without(@, m)] EXCEPT !.kbd = k] = w
    BY <1>0 DEF With, WindowState, SessionState
  <2>3. CASE s.kbd # m  BY <2>1, <2>3 DEF lock_handle_surface_destroy
  <2>4. CASE s.kbd = m
    BY <1>2, <2>2, <2>4 DEF lock_handle_surface_destroy
  <2> QED  BY <2>3, <2>4
<1>5. list \in Seq(Monitors) /\ IsInjective(list)
      /\ ToSet(list) = ToSet(s.session.lock_surfaces) \ {m}
  BY <1>1, WithoutType, WithoutSet
<1>6. /\ k \in Surfaces \cup {None} /\ k \in Monitors \cup {s.kbd}
      /\ s.kbd \notin Monitors => k = s.kbd
      /\ s.session.lock_active => k \notin Clients
      /\ k = s.kbd \/ k \notin Clients
  BY <1>0, <1>2, <1>3, DistinctAssumption DEF Surfaces
<1> HIDE DEF list, k, t
<1>7. /\ z \in SessionState /\ z.exclusive_focus = s.session.exclusive_focus
      /\ z.lock_active = s.session.lock_active
      /\ z.lock_current = s.session.lock_current
      /\ z.lock_surfaces = list
      /\ z.menus_up = s.session.menus_up /\ z.layers_up = s.session.layers_up
      /\ z.layers = s.session.layers /\ z.layer_mon = s.session.layer_mon
  BY <1>0, <1>5 DEF SessionState
<1> HIDE DEF z
<1>8. Fit(z)  BY <1>0, <1>5, <1>7 DEF Fit
<1>9. /\ Sound(w) /\ w.session = z /\ w.kbd = k
      /\ w.monitors = s.monitors /\ w.enabled = s.enabled
      /\ w.mon = s.mon /\ w.tags = s.tags
      /\ w.clients = s.clients /\ w.mapped = s.mapped
      /\ w.selected_monitor = s.selected_monitor
      /\ Placed(s) => Placed(w)
      /\ \A M : Within(M, s) => Within(M, w)
  BY <1>6, <1>7, <1>8, WithSound DEF Releases
<1>11. SameView(s, w)  BY <1>0, WithView
<1>12. w.linked = s.linked  BY <1>0 DEF With, WindowState
<1> HIDE DEF w
<1>10. Bared(s, w)  BY <1>5, <1>6, <1>7, <1>9, <1>11, <1>12 DEF Bared
<1> QED  BY <1>4, <1>5, <1>7, <1>9, <1>10 DEF t

LEMMA BaredSelf == ASSUME NEW s, Sound(s) PROVE Bared(s, s)
BY DEF Bared, SameView, SameTags

LEMMA BaredTwice ==
  ASSUME NEW s, NEW t, NEW u, Bared(s, t), Bared(t, u)
  PROVE  Bared(s, u)
BY DEF Bared, SameView, SameTags

(* Without a lock, or for good, all of them go. *)
BareTurn(a, s, m) == lock_handle_surface_destroy(s, m)
BareInv(a, i, s) ==
  /\ Bared(a, s)
  /\ ToSet(s.session.lock_surfaces) =
       {a.session.lock_surfaces[j] : j \in i + 1 .. Len(a.session.lock_surfaces)}
Bare == INSTANCE Loops WITH Turn <- BareTurn, Inv <- BareInv

LEMMA SurfacesDestroyBares ==
  ASSUME NEW s, Sound(s),
         s.kbd \in Monitors => s.session.lock_active /\ s.session.lock_current
  PROVE  LET t == SurfacesDestroyed(s)
         IN  Bared(s, t) /\ t.session.lock_surfaces = <<>>
<1> DEFINE list == s.session.lock_surfaces
           t == Bare!Fold(s, s, list)
<1>0. list \in Seq(Monitors) /\ IsInjective(list) /\ Len(list) \in Nat
  <2>1. s.session \in SessionState /\ IsInjective(list)  BY SoundFit DEF Fit
  <2> QED  BY <2>1 DEF SessionState
<1>1. t = SurfacesDestroyed(s)
  BY DEF Bare!Fold, Bare!Greatest, SurfacesDestroyed,
         FoldLeft, MapThenFoldSet, BareTurn, Max
<1> HIDE DEF t
<1>2. BareInv(s, 0, s)
  <2>1. ToSet(list) = {list[j] : j \in 1 .. Len(list)}  BY <1>0 DEF ToSet
  <2>2. Bared(s, s)  BY BaredSelf
  <2>3. 0 + 1 = 1  OBVIOUS
  <2> QED  BY <2>1, <2>2, <2>3 DEF BareInv
<1>3. ASSUME NEW i \in 1 .. Len(list), NEW r, BareInv(s, i - 1, r)
      PROVE  BareInv(s, i, BareTurn(s, r, list[i]))
  <2> DEFINE u == lock_handle_surface_destroy(r, list[i])
  <2>0. i \in Nat /\ (i - 1) + 1 = i /\ i + 1 \in Nat  BY <1>0
  <2>1. /\ Bared(s, r)
        /\ ToSet(r.session.lock_surfaces) = {list[j] : j \in i .. Len(list)}
    BY <1>3, <2>0 DEF BareInv
  <2>2. list[i] \in ToSet(r.session.lock_surfaces)  BY <1>0, <2>1
  <2>3. r.kbd \in Monitors => r.session.lock_active /\ r.session.lock_current
    BY <2>1 DEF Bared
  <2>4. /\ Bared(r, u)
        /\ ToSet(u.session.lock_surfaces) = ToSet(r.session.lock_surfaces) \ {list[i]}
    <3>1. Sound(r)  BY <2>1 DEF Bared
    <3> QED  BY <2>2, <2>3, <3>1, SurfaceDestroyBares
  <2> HIDE DEF u
  <2>5. {list[j] : j \in i .. Len(list)} \ {list[i]} = {list[j] : j \in i + 1 .. Len(list)}
    <3>1. \A j \in i .. Len(list) : j = i \/ j \in i + 1 .. Len(list)  BY <1>0, <2>0
    <3>2. \A j \in i + 1 .. Len(list) : j \in i .. Len(list) /\ j # i
      BY <1>0, <2>0
    <3>3. \A j \in i + 1 .. Len(list) : j \in DOMAIN list /\ i \in DOMAIN list
      BY <1>0, <2>0
    <3>4. \A j \in i + 1 .. Len(list) : list[j] # list[i]
      <4> HIDE DEF list
      <4> QED  BY <1>0, <3>2, <3>3 DEF IsInjective
    <3> HIDE DEF list
    <3> QED  BY <3>1, <3>2, <3>4
  <2>6. Bared(s, u)  BY <2>1, <2>4, BaredTwice
  <2>7. ToSet(u.session.lock_surfaces) = {list[j] : j \in i + 1 .. Len(list)}
    BY <2>1, <2>4, <2>5
  <2>8. BareTurn(s, r, list[i]) = u  BY DEF BareTurn, u
  <2> QED  BY <2>6, <2>7, <2>8 DEF BareInv
<1>4. BareInv(s, Len(list), t)
  <2> HIDE DEF list
  <2> QED  BY <1>0, <1>2, <1>3, LeastMembers, Bare!LoopKeeps DEF t
<1>5. Bared(s, t) /\ ToSet(t.session.lock_surfaces) = {}
  <2>1. Len(list) + 1 .. Len(list) = {}  BY <1>0
  <2> QED  BY <1>4, <2>1 DEF BareInv
<1>6. t.session.lock_surfaces = <<>>
  <2>1. Sound(t)  BY <1>5 DEF Bared
  <2>2. t.session.lock_surfaces \in Seq(Monitors)
    BY <2>1, SoundFit DEF Fit, SessionState
  <2>3. \A r \in Seq(Monitors) : ToSet(r) = {} => r = <<>>  BY DEF ToSet
  <2> QED  BY <1>5, <2>2, <2>3
<1> QED  BY <1>1, <1>5, <1>6

LEMMA BaredPlugged ==
  ASSUME NEW s, Plugged(s), NEW t, Bared(s, t)
  PROVE  Plugged(t)
<1>1. /\ t.monitors = s.monitors
      /\ t.session.layer_mon = s.session.layer_mon
      /\ ToSet(t.session.lock_surfaces) \subseteq ToSet(s.session.lock_surfaces)
      /\ \A M : Within(M, s) => Within(M, t)
  BY DEF Bared
<1> QED  BY <1>1 DEF Plugged

(* The lock surface of one output, if it has one. *)
LEMMA OwnSurfaceBares ==
  ASSUME NEW s, Guarded(s), NEW m \in Monitors
  PROVE  LET t == IF m \in ToSet(s.session.lock_surfaces)
                  THEN lock_handle_surface_destroy(s, m) ELSE s
         IN  /\ Bared(s, t)
             /\ m \notin ToSet(t.session.lock_surfaces)
             /\ s.session.lock_surfaces = <<>> => t.session.lock_surfaces = <<>>
<1> DEFINE t == lock_handle_surface_destroy(s, m)
<1>0. Sound(s) /\ Locking(s)  BY DEF Guarded
<1>1. CASE m \in ToSet(s.session.lock_surfaces)
  <2>1. s.session.lock_surfaces # <<>>  BY <1>1 DEF ToSet
  <2>2. s.session.lock_current /\ s.session.lock_active  BY <1>0, <2>1 DEF Locking
  <2>3. /\ Bared(s, t)
        /\ ToSet(t.session.lock_surfaces) = ToSet(s.session.lock_surfaces) \ {m}
    BY <1>0, <1>1, <2>2, SurfaceDestroyBares
  <2> HIDE DEF t
  <2> QED  BY <1>1, <2>1, <2>3 DEF t
<1>2. CASE m \notin ToSet(s.session.lock_surfaces)
  BY <1>0, <1>2, BaredSelf
<1> QED  BY <1>1, <1>2

LEMMA LockSurfaceDestroyMinds ==
  ASSUME Guarded(wm), NEW m \in Monitors, LockSurfaceDestroy(m)
  PROVE  Minds(wm, wm') /\ Gives(wm, wm')
<1> DEFINE t == lock_handle_surface_destroy(wm, m)
<1>0. Sound(wm) /\ Locking(wm)  BY DEF Guarded
<1>1. wm' = t /\ m \in ToSet(wm.session.lock_surfaces)  BY DEF LockSurfaceDestroy
<1>2. wm.session.lock_current /\ wm.session.lock_active
  <2>1. wm.session.lock_surfaces # <<>>  BY <1>1 DEF ToSet
  <2> QED  BY <1>0, <2>1 DEF Locking
<1>3. Bared(wm, t)  BY <1>0, <1>1, <1>2, SurfaceDestroyBares
<1> HIDE DEF t
<1>4. /\ Sound(t) /\ t.monitors = wm.monitors /\ t.enabled = wm.enabled
      /\ t.session.lock_active /\ t.session.lock_current
      /\ t.kbd \in Monitors \cup {None, wm.kbd}
      /\ Placed(wm) => Placed(t)
  BY <1>2, <1>3 DEF Bared
<1>5. Guarded(t) /\ Up(t)  BY <1>4 DEF Guarded, Locking, Up
<1>6. Plugged(wm) => Plugged(t)  BY <1>3, BaredPlugged
<1>7. Gives(wm, t)
  <2>1. Returned(t) /\ Exclusive(t)  BY <1>4 DEF Returned, Exclusive
  <2>2. Views(wm, t)  BY <1>3, SameViews DEF Bared
  <2> QED  BY <2>1, <2>2 DEF Gives, Settles
<1> QED  BY <1>7, <1>1, <1>2, <1>4, <1>5, <1>6 DEF Minds

LEMMA UnlockMinds ==
  ASSUME Guarded(wm), lock_handle_unlock
  PROVE  Minds(wm, wm') /\ Gives(wm, wm')
<1> DEFINE z == [wm.session EXCEPT !.lock_active = FALSE]
           r == With(wm, z, None)
           q == Refocus(r)
           y == [q.session EXCEPT !.lock_current = FALSE]
           w == With(q, y, q.kbd)
           t == SurfacesDestroyed(w)
<1>0. /\ Fit(wm.session) /\ wm \in WindowState /\ Sound(wm) /\ Locking(wm)
      /\ wm.session \in SessionState
      /\ wm.session.lock_current /\ wm.session.lock_active
  BY SoundFit DEF Guarded, Fit, lock_handle_unlock, Locking
<1>1. wm' = SurfacesDestroyed([q EXCEPT !.session.lock_current = FALSE])
  <2>1. [wm EXCEPT !.kbd = None, !.session.lock_active = ~TRUE] = r
    BY <1>0 DEF With, WindowState, SessionState
  <2> HIDE DEF r
  <2>2. lock_destroy(wm, TRUE) = [q EXCEPT !.session.lock_current = FALSE]
    BY <2>1 DEF lock_destroy
  <2> QED  BY <2>2 DEF lock_handle_unlock
<1>2. /\ z \in SessionState /\ z.exclusive_focus = wm.session.exclusive_focus
      /\ ~z.lock_active
      /\ z.lock_surfaces = wm.session.lock_surfaces
      /\ z.menus_up = wm.session.menus_up /\ z.layers_up = wm.session.layers_up
      /\ z.layers = wm.session.layers /\ z.layer_mon = wm.session.layer_mon
  BY <1>0 DEF SessionState
<1> HIDE DEF z
<1>3. Fit(z)  BY <1>0, <1>2 DEF Fit
<1>4. /\ Sound(r) /\ r.session = z /\ r.kbd = None
      /\ r.monitors = wm.monitors /\ r.enabled = wm.enabled
      /\ \A M : Within(M, wm) => Within(M, r)
      /\ Placed(wm) => Placed(r)
  BY <1>0, <1>2, <1>3, WithSound, DistinctAssumption DEF Releases
<1>18. Views(wm, r)  BY <1>0, WithView, SameViews
<1> HIDE DEF r
<1>5. Safe(r, q)  BY <1>4, SoundFit, RefocusSafe
<1>19. Views(r, q) /\ (Modal = {} => Returned(q)) /\ q.kbd \in Clients \cup {None}
  <2>1. Listed(r) /\ r \in WindowState  BY <1>4, SoundFit
  <2>2. q.kbd \in Clients \cup {None, r.kbd}  BY <2>1, RefocusSettles
  <2> QED  BY <1>4, <2>1, <2>2, RefocusGives DEF Gives
<1> HIDE DEF q
<1>6. /\ Sound(q) /\ q.session = z
      /\ q.monitors = r.monitors /\ q.enabled = r.enabled
      /\ Placed(r) => Placed(q)
      /\ Plugged(r) => Plugged(q)
      /\ q.kbd \in Clients \cup Unmanaged \cup {None}
  BY <1>4, <1>5, SafeSound
<1>7. q \in WindowState /\ q.kbd \in Surfaces \cup {None}  BY <1>6, SoundFit
<1>8. [q EXCEPT !.session.lock_current = FALSE] = w  BY <1>7 DEF With, WindowState
<1>9. /\ y \in SessionState /\ y.exclusive_focus = z.exclusive_focus
      /\ y.lock_active = z.lock_active /\ ~y.lock_current
      /\ y.lock_surfaces = z.lock_surfaces
      /\ y.menus_up = z.menus_up /\ y.layers_up = z.layers_up
      /\ y.layers = z.layers /\ y.layer_mon = z.layer_mon
  BY <1>2, <1>6 DEF SessionState
<1> HIDE DEF y
<1>10. Fit(y)  BY <1>3, <1>9 DEF Fit
<1>11. /\ Sound(w) /\ w.session = y /\ w.kbd = q.kbd
       /\ w.monitors = q.monitors /\ w.enabled = q.enabled
       /\ \A M : Within(M, q) => Within(M, w)
       /\ Placed(q) => Placed(w)
  <2>1. Releases(q, y, q.kbd)  BY <1>6, <1>9 DEF Releases
  <2> QED  BY <1>2, <1>6, <1>7, <1>9, <1>10, <2>1, WithSound
<1>20. SameView(q, w)  BY <1>7, WithView
<1> HIDE DEF w
<1>12. w.kbd \notin Monitors /\ w.kbd \notin Layers
  BY <1>6, <1>11, DistinctAssumption
<1>13. Bared(w, t) /\ t.session.lock_surfaces = <<>>
  BY <1>11, <1>12, SurfacesDestroyBares
<1> HIDE DEF t
<1>14. /\ Sound(t) /\ t.monitors = wm.monitors /\ t.enabled = wm.enabled
       /\ ~t.session.lock_active /\ ~t.session.lock_current
       /\ t.kbd = w.kbd
       /\ Placed(wm) => Placed(t)
  BY <1>2, <1>4, <1>6, <1>9, <1>11, <1>12, <1>13 DEF Bared
<1>15. Guarded(t) /\ Up(t)  BY <1>12, <1>13, <1>14 DEF Guarded, Locking, Up
<1>16. Plugged(wm) => Plugged(t)
  <2>1. Plugged(wm) => Plugged(r)  BY <1>2, <1>4 DEF Plugged
  <2>2. Plugged(q) => Plugged(w)  BY <1>6, <1>9, <1>11 DEF Plugged
  <2> QED  BY <1>6, <1>13, <2>1, <2>2, BaredPlugged
<1>17. wm' = t  BY <1>1, <1>8 DEF t
<1>21. Gives(wm, t)
  <2>1. SameView(q, t)  BY <1>13, <1>20 DEF Bared, SameView, SameTags
  <2>2. t \in WindowState  BY <1>14, SoundFit
  <2>3. Modal = {} => Returned(t)
    <3>1. t.kbd = q.kbd /\ t.session.lock_active = q.session.lock_active
      BY <1>6, <1>9, <1>11, <1>13, <1>14 DEF Bared
    <3> QED  BY <1>7, <1>19, <2>1, <2>2, <3>1, SameFront
  <2>4. Exclusive(t)  BY <1>11, <1>14, <1>19, DistinctAssumption DEF Exclusive
  <2>5. Views(q, t)  BY <2>1, SameViews
  <2> QED  BY <1>18, <1>19, <2>3, <2>4, <2>5 DEF Gives, Views, Settles
<1> QED  BY <1>0, <1>14, <1>15, <1>16, <1>17, <1>21 DEF Minds

LEMMA LockDestroyMinds ==
  ASSUME Guarded(wm), lock_handle_destroy
  PROVE  Minds(wm, wm') /\ Gives(wm, wm')
<1> DEFINE v == SurfacesDestroyed(wm)
           z == [v.session EXCEPT !.lock_active = TRUE, !.lock_current = FALSE]
           t == With(v, z, None)
<1>0. /\ Sound(wm) /\ Locking(wm)
      /\ wm.session.lock_current /\ wm.session.lock_active
  BY DEF Guarded, lock_handle_destroy, Locking
<1>1. Bared(wm, v) /\ v.session.lock_surfaces = <<>>
  BY <1>0, SurfacesDestroyBares
<1>2. wm' = [[v EXCEPT !.kbd = None, !.session.lock_active = ~FALSE]
               EXCEPT !.session.lock_current = FALSE]
  BY DEF lock_handle_destroy, lock_destroy
<1> HIDE DEF v
<1>3. /\ Sound(v) /\ v \in WindowState /\ Fit(v.session) /\ v.session \in SessionState
      /\ v.monitors = wm.monitors /\ v.enabled = wm.enabled
      /\ Placed(wm) => Placed(v)
  <2>1. /\ Sound(v) /\ v.monitors = wm.monitors /\ v.enabled = wm.enabled
        /\ Placed(wm) => Placed(v)
    BY <1>1 DEF Bared
  <2> QED  BY <2>1, SoundFit DEF Fit
<1>4. wm' = t  BY <1>2, <1>3 DEF With, WindowState, SessionState
<1>5. /\ z \in SessionState /\ z.exclusive_focus = v.session.exclusive_focus
      /\ z.lock_active /\ ~z.lock_current
      /\ z.lock_surfaces = v.session.lock_surfaces
      /\ z.menus_up = v.session.menus_up /\ z.layers_up = v.session.layers_up
      /\ z.layers = v.session.layers /\ z.layer_mon = v.session.layer_mon
  BY <1>3 DEF SessionState
<1> HIDE DEF z
<1>6. Fit(z)  BY <1>3, <1>5 DEF Fit
<1>7. /\ Sound(t) /\ t.session = z /\ t.kbd = None
      /\ t.monitors = v.monitors /\ t.enabled = v.enabled
      /\ \A M : Within(M, v) => Within(M, t)
      /\ Placed(v) => Placed(t)
  BY <1>3, <1>6, WithSound, DistinctAssumption DEF Releases
<1>10. Views(v, t)  BY <1>3, WithView, SameViews
<1> HIDE DEF t
<1>8. Guarded(t) /\ Up(t)  BY <1>1, <1>5, <1>7 DEF Guarded, Locking, Up
<1>9. Plugged(wm) => Plugged(t)
  <2>1. Plugged(v) => Plugged(t)  BY <1>5, <1>7 DEF Plugged
  <2> QED  BY <1>1, <2>1, BaredPlugged
<1>11. Gives(wm, t)
  <2>1. Returned(t) /\ Exclusive(t)  BY <1>5, <1>7 DEF Returned, Exclusive
  <2>2. Views(wm, v)  BY <1>1, SameViews DEF Bared
  <2> QED  BY <1>10, <2>1, <2>2 DEF Gives, Views, Settles
<1> QED  BY <1>0, <1>3, <1>4, <1>5, <1>7, <1>8, <1>9, <1>11 DEF Minds

LEMMA SurfaceGoneMinds ==
  ASSUME Guarded(wm), SurfaceGone
  PROVE  /\ Minds(wm, wm') /\ Views(wm, wm')
         /\ Up(wm) => Gives(wm, wm')
<1> DEFINE t == With(wm, wm.session, None)
<1>0. /\ Fit(wm.session) /\ wm \in WindowState /\ Locking(wm)
  BY SoundFit DEF Guarded
<1>1. wm' = t /\ wm.kbd \notin wm.session.layers_up
  BY <1>0 DEF SurfaceGone, With, WindowState, Alive
<1>2. /\ Guarded(t) /\ t.session = wm.session /\ t.kbd = None
      /\ t.monitors = wm.monitors /\ t.enabled = wm.enabled
      /\ Placed(wm) => Placed(t)
      /\ \A M : Within(M, wm) => Within(M, t)
  BY <1>0, WithMinds, DistinctAssumption DEF Releases, Locking
<1>4. Views(wm, t)  BY <1>0, WithView, SameViews
<1> HIDE DEF t
<1>3. (Plugged(wm) => Plugged(t)) /\ Up(t)
  BY <1>2, DistinctAssumption DEF Plugged, Up
<1>5. wm.session.lock_active => Returned(t) /\ Exclusive(t)
  BY <1>2 DEF Returned, Exclusive
<1>6. ~wm.session.lock_active /\ Up(wm) => ~(Returned(wm) /\ Exclusive(wm))
  <2> SUFFICES ASSUME ~wm.session.lock_active, Up(wm), Returned(wm), Exclusive(wm)
               PROVE  FALSE
    OBVIOUS
  <2>1. wm.kbd \notin Alive(wm) \cup {None}  BY DEF SurfaceGone
  <2>3. wm.kbd \notin Layers  BY <2>1 DEF Up, Alive
  <2>4. wm.kbd \notin Unmanaged
    <3>1. /\ wm.session.exclusive_focus \in wm.session.menus_up \cup wm.session.layers_up
                                              \cup {None}
      BY <1>0 DEF Fit
    <3> QED  BY <2>1, <3>1 DEF Exclusive, Alive
  <2>5. wm.kbd = client_top(wm, wm.selected_monitor)
    BY <2>3, <2>4 DEF Returned, InFront
  <2>6. wm.kbd \in ToSet(wm.focus_stack) \cup {None}  BY <1>0, <2>5, TopInStack
  <2>7. ToSet(wm.focus_stack) = wm.mapped  BY DEF Guarded, Sound, Listed
  <2> QED  BY <2>1, <2>6, <2>7 DEF Alive
<1> QED  BY <1>1, <1>2, <1>3, <1>4, <1>5, <1>6 DEF Minds, Gives, Settles

LEMMA FocusMinds ==
  ASSUME Guarded(wm), FocusNext
  PROVE  Minds(wm, wm')
<1>1. CASE WindowsNext
  <2>1. Listed(wm)  BY SoundFit DEF Guarded
  <2> QED  BY <1>1, <2>1, WindowsSafe, SafeMinds
<1>2. ASSUME NEW l \in Layers, LayerEvent(l)  PROVE Minds(wm, wm')
  BY <1>2, NewLayerMinds, LayerCommitMinds, LayerUnmapMinds, LayerDestroyMinds
     DEF LayerEvent
<1>3. ASSUME NEW u \in Unmanaged, MenuEvent(u)  PROVE Minds(wm, wm')
  BY <1>3, MenuMapMinds, MenuUnmapMinds, MenuPressMinds DEF MenuEvent
<1>4. CASE LockEvent
  BY <1>4, LockMinds, LockSurfaceMinds, LockSurfaceDestroyMinds, UnlockMinds,
     LockDestroyMinds DEF LockEvent
<1>5. CASE SurfaceGone  BY <1>5, SurfaceGoneMinds
<1> QED  BY <1>1, <1>2, <1>3, <1>4, <1>5 DEF FocusNext

LEMMA WindowsViews ==
  ASSUME Guarded(wm), Tagged(wm), WindowsNext
  PROVE  /\ Safe(wm, wm') /\ Tagged(wm')
         /\ Placed(wm) => Views(wm, wm')
         /\ Pointed(wm) => Settles(wm, wm')
<1>1. Listed(wm) /\ wm \in WindowState  BY SoundFit DEF Guarded
<1>2. Safe(wm, wm') /\ (Pointed(wm) => Restores(wm, wm'))  BY <1>1, WindowsSafe
<1>3. Tagged(wm')  BY <1>1, TaggedStep DEF TypeOK
<1>4. Exclusive(wm) /\ Pointed(wm) => Exclusive(wm')
  BY <1>2 DEF Restores, Exclusive, Safe
<1> QED  BY <1>2, <1>3, <1>4 DEF Views, Safe, Settles, Restores, Back

(* A step while no output changes: what is drawn, the tags, and the keyboard. *)
LEMMA FocusKeepsView ==
  ASSUME Guarded(wm), Tagged(wm), FocusNext
  PROVE  Tagged(wm') /\ (Drawing /\ Drawn(wm) => Drawn(wm'))
<1>1. CASE WindowsNext  BY <1>1, WindowsViews DEF Safe
<1>2. ASSUME NEW l \in Layers, LayerEvent(l)  PROVE Views(wm, wm')
  BY <1>2, NewLayerMinds, LayerCommitMinds, LayerUnmapMinds, LayerDestroyMinds
     DEF LayerEvent, Gives
<1>3. ASSUME NEW u \in Unmanaged, MenuEvent(u)  PROVE Views(wm, wm')
  BY <1>3, MenuMapMinds, MenuUnmapMinds, MenuPressMinds DEF MenuEvent, Gives
<1>4. CASE LockEvent
  <2>1. Views(wm, wm')
    BY <1>4, LockMinds, LockSurfaceMinds, LockSurfaceDestroyMinds, UnlockMinds,
       LockDestroyMinds DEF LockEvent, Gives
  <2> QED  BY <2>1 DEF Views
<1>5. CASE SurfaceGone  BY <1>5, SurfaceGoneMinds DEF Views
<1> QED  BY <1>1, <1>2, <1>3, <1>4, <1>5 DEF FocusNext, Views

LEMMA FocusViews ==
  ASSUME Guarded(wm), Placed(wm), Tagged(wm), FocusNext
  PROVE  Views(wm, wm')
<1>1. CASE WindowsNext  BY <1>1, WindowsViews
<1>2. ASSUME NEW l \in Layers, LayerEvent(l)  PROVE Views(wm, wm')
  BY <1>2, NewLayerMinds, LayerCommitMinds, LayerUnmapMinds, LayerDestroyMinds
     DEF LayerEvent, Gives
<1>3. ASSUME NEW u \in Unmanaged, MenuEvent(u)  PROVE Views(wm, wm')
  BY <1>3, MenuMapMinds, MenuUnmapMinds, MenuPressMinds DEF MenuEvent, Gives
<1>4. CASE LockEvent
  BY <1>4, LockMinds, LockSurfaceMinds, LockSurfaceDestroyMinds, UnlockMinds,
     LockDestroyMinds DEF LockEvent, Gives
<1>5. CASE SurfaceGone  BY <1>5, SurfaceGoneMinds
<1> QED  BY <1>1, <1>2, <1>3, <1>4, <1>5 DEF FocusNext

(* A press on a menu leaves it with the keyboard and not exclusive, and of two
   menus only one is; whatever else has the keyboard gives it back. *)
LEMMA FocusSettles ==
  ASSUME Guarded(wm), Up(wm), Tagged(wm), Pointed(wm), FocusNext,
         OneMenu, "menuclick" \notin Bound
  PROVE  Settles(wm, wm')
<1>1. CASE WindowsNext  BY <1>1, WindowsViews
<1>2. ASSUME NEW l \in Layers, LayerEvent(l)  PROVE Settles(wm, wm')
  BY <1>2, NewLayerMinds, LayerCommitMinds, LayerUnmapMinds, LayerDestroyMinds
     DEF LayerEvent, Gives
<1>3. ASSUME NEW u \in Unmanaged, MenuEvent(u)  PROVE Settles(wm, wm')
  <2>1. ~MenuPress(u)  BY DEF MenuPress
  <2> QED  BY <1>3, <2>1, MenuMapMinds, MenuUnmapMinds DEF MenuEvent, Gives
<1>4. CASE LockEvent
  BY <1>4, LockMinds, LockSurfaceMinds, LockSurfaceDestroyMinds, UnlockMinds,
     LockDestroyMinds DEF LockEvent, Gives
<1>5. CASE SurfaceGone  BY <1>5, SurfaceGoneMinds DEF Gives
<1> QED  BY <1>1, <1>2, <1>3, <1>4, <1>5 DEF FocusNext

-----------------------------------------------------------------------------
(* At the start nothing is mapped or locked. *)
LEMMA GuardedStart ==
  ASSUME NEW Lit0 \in SUBSET Monitors, NEW list \in SetToSeqs(Lit0),
         wm = InitialState(list, Lit0)
  PROVE  Guarded(wm) /\ Placed(wm) /\ Up(wm) /\ Plugged(wm)
<1>1. list \in Seq(Lit0) /\ IsInjective(list)
  <2>1. Cardinality(Lit0) \in Nat
    BY FiniteAssumption, FS_CardinalityType, FS_Subset
  <2> QED  BY <2>1 DEF SetToSeqs, IsInjective
<1>2. list \in Seq(Monitors)  BY <1>1
<1>3. First(list) \in Monitors \cup {None} /\ First(list) \in ToSet(list) \cup {None}
  <2>1. list # <<>> => list[1] \in Monitors /\ list[1] \in ToSet(list)
    BY <1>2 DEF ToSet
  <2> QED  BY <2>1 DEF First
<1>4. 1 \in Tags  BY TagCountAssumption DEF Tags
<1>5. InitialSession(Lit0) \in SessionState
  BY DEF InitialSession, SessionState
<1>6. wm \in WindowState
  BY <1>2, <1>3, <1>4, <1>5 DEF InitialState, WindowState, Surfaces
<1>7. /\ wm.clients = <<>> /\ wm.focus_stack = <<>> /\ wm.mapped = {}
      /\ wm.mapwait = {} /\ wm.shown = {} /\ wm.monitors = list
      /\ wm.selected_monitor = First(list) /\ wm.kbd = None
      /\ wm.session = InitialSession(Lit0)
      /\ \A c \in Clients : wm.mon[c] = None
  BY DEF InitialState
<1>8. /\ wm.session.exclusive_focus = None /\ ~wm.session.lock_active
      /\ ~wm.session.lock_current /\ wm.session.lock_surfaces = <<>>
      /\ \A l \in Layers : wm.session.layer_mon[l] = None
  BY <1>7 DEF InitialSession
<1>9. ToSet(<<>>) = {} /\ IsInjective(<<>>)  BY DEF ToSet, IsInjective
<1>10. Listed(wm)  BY <1>6, <1>7, <1>8, <1>9 DEF Listed
<1>11. Guarded(wm)  BY <1>1, <1>7, <1>8, <1>9, <1>10 DEF Guarded, Sound, Locking
<1>12. Placed(wm) /\ Up(wm)
  BY <1>7, DistinctAssumption DEF Placed, Held, PlacedBut, Up
<1>13. Plugged(wm)  BY <1>3, <1>7, <1>8, <1>9 DEF Plugged, Within
<1> QED  BY <1>11, <1>12, <1>13

-----------------------------------------------------------------------------
(* As long as the outputs stay: what has the keyboard is mapped. *)
Focused == Guarded(wm) /\ Placed(wm) /\ Up(wm)

LEMMA FocusedStep == Focused /\ [FocusNext]_wm => Focused'
<1>1. CASE UNCHANGED wm
  BY <1>1 DEF Focused, Guarded, Sound, Locking, Listed, Placed, Held, PlacedBut, Up
<1>2. CASE FocusNext
  BY <1>2, FocusMinds DEF Focused, Minds
<1> QED  BY <1>1, <1>2

LEMMA FocusedAlways == FocusSpec => []Focused
<1>1. WindowsInit => Focused
  BY GuardedStart DEF WindowsInit, Focused
<1> QED  BY <1>1, FocusedStep, PTL DEF FocusSpec

(* Outside the lock the keyboard is never left with a window or a layer
   surface that is gone, as long as no output is: client_handle_unmap,
   monitor_handle_layer_unmap and the unlock each refocus after they took the
   surface away. *)
THEOREM KeyboardIsNotDangling == FocusSpec => []FocusIsAlive
<1>1. Focused => FocusIsAlive
  <2>1. Focused => ToSet(wm.focus_stack) = wm.mapped
    BY DEF Focused, Guarded, Sound, Listed
  <2> QED  BY <2>1 DEF Focused, FocusIsAlive, Placed, Held, Up
<1> QED  BY <1>1, FocusedAlways, PTL

(* While a layer surface above the windows is mapped and has the keyboard, no
   handler of a window, a menu or another layer surface takes it away from
   the layers. *)
THEOREM OverlaysKeepTheKeyboard == FocusSpec => OverlayKeepsKeyboard
<1> DEFINE Keeps ==
      /\ wm.kbd \in TopLayers \cap wm.session.layers_up \cap wm'.session.layers_up
      /\ ~wm.session.lock_active /\ ~wm'.session.lock_active
      => wm'.kbd \in TopLayers
<1>1. Focused /\ [FocusNext]_wm => [Keeps]_wm
  <2>1. CASE FocusNext  BY <2>1, FocusMinds DEF Focused, Minds
  <2> QED  BY <2>1
<1> QED  BY <1>1, FocusedAlways, PTL DEF FocusSpec, OverlayKeepsKeyboard

(* What the windows look like meanwhile. *)
Viewing ==
  /\ Focused /\ Tagged(wm) /\ (Drawing => Drawn(wm))
  /\ wm.selected_monitor = None => wm.monitors = <<>>

LEMMA ViewingStart ==
  ASSUME WindowsInit
  PROVE  Viewing /\ Returned(wm) /\ Exclusive(wm)
<1>1. PICK list \in SetToSeqs(Monitors) : wm = InitialState(list, Monitors)
  BY DEF WindowsInit
<1>2. Focused  BY <1>1, GuardedStart DEF Focused
<1>3. Tagged(wm)  BY TaggedStart
<1>4. /\ wm.mapped = {} /\ wm.monitors = list /\ wm.selected_monitor = First(list)
      /\ wm.kbd = None /\ wm.focus_stack = <<>>
  BY <1>1 DEF InitialState
<1>5. wm.selected_monitor = None => wm.monitors = <<>>
  <2>1. list \in Seq(Monitors)
    <3>1. Cardinality(Monitors) \in Nat  BY FiniteAssumption, FS_CardinalityType
    <3> QED  BY <3>1 DEF SetToSeqs
  <2>2. list # <<>> => list[1] \in Monitors  BY <2>1
  <2> QED  BY <1>4, <2>2, DistinctAssumption DEF First
<1>6. Drawn(wm)  BY <1>4 DEF Drawn
<1>7. client_top(wm, wm.selected_monitor) = None
  BY <1>4 DEF client_top, FirstFocused
<1>8. Returned(wm) /\ Exclusive(wm)
  BY <1>4, <1>7, DistinctAssumption DEF Returned, InFront, Exclusive
<1> QED  BY <1>2, <1>3, <1>5, <1>6, <1>8 DEF Viewing

LEMMA ViewingStep == Viewing /\ [FocusNext]_wm => Viewing'
<1> SUFFICES ASSUME Viewing, [FocusNext]_wm  PROVE Viewing'
  OBVIOUS
<1>1. Focused'  BY FocusedStep DEF Viewing
<1>2. CASE UNCHANGED wm
  BY <1>1, <1>2 DEF Viewing, Tagged, Drawn, Visible, Viewed
<1>3. CASE FocusNext
  <2>1. Views(wm, wm') /\ wm'.monitors = wm.monitors
    BY <1>3, FocusViews, FocusMinds DEF Viewing, Focused, Minds
  <2>2. Tagged(wm)'  BY <2>1 DEF Viewing, Views, Tagged
  <2>3. Drawing => Drawn(wm)'
    BY <2>1 DEF Viewing, Views, Drawn, Visible, Viewed
  <2> QED  BY <1>1, <2>1, <2>2, <2>3 DEF Viewing, Views
<1> QED  BY <1>2, <1>3

LEMMA ViewingAlways == FocusSpec => []Viewing
<1>1. WindowsInit => Viewing  BY ViewingStart
<1> QED  BY <1>1, ViewingStep, PTL DEF FocusSpec

(* No window and no monitor is left without a tag, whatever layer surfaces,
   menus and the lock do between the handlers of the windows. *)
THEOREM TagsStayThroughTheLock == FocusSpec => []EverythingHasATag
<1>1. Viewing => EverythingHasATag
  BY DEF Viewing, Focused, Guarded, Sound, Listed, WindowState, Tagged, EverythingHasATag
<1> QED  BY <1>1, ViewingAlways, PTL

(* What is drawn is what the tags say, also behind layer surfaces that take
   room from the windows and behind the lock, where the commands of a held key
   and activate go on changing the view. *)
THEOREM DrawnThroughTheLock ==
  ASSUME -1 \notin StackSteps,
         Modal = {} \/ \A m, n \in Monitors : m = n
  PROVE  FocusSpec => []ShownIffVisible
<1>1. Viewing => ShownIffVisible
  BY DEF Viewing, Drawing, OneMonitor, Drawn, ShownIffVisible
<1> QED  BY <1>1, ViewingAlways, PTL

(* When layer surfaces, the menu and the lock have let go of the keyboard it is
   on the top window of the selected monitor, or on none if the view is empty:
   client_focus keeps the focus stack in order also while something else has
   the keyboard, and whatever gives it back asks client_top.  There is one menu
   that wants the keyboard and a press does not give it to it (with either, the
   menu may go without being exclusive_focus, and nothing refocuses); the
   pointer, that selects the monitor below it, is left out, or there is one
   monitor. *)
THEOREM KeyboardReturns ==
  ASSUME Modal = {}, \A u, v \in WantsFocus : u = v, "menuclick" \notin Bound,
         \/ Bound \cap {"click", "sloppyfocus"} = {}
         \/ -1 \notin StackSteps /\ \A m, n \in Monitors : m = n
  PROVE  FocusSpec => []KeyboardComesBack
<1> DEFINE Inv == Viewing /\ Returned(wm) /\ Exclusive(wm)
<1>1. WindowsInit => Inv  BY ViewingStart
<1>2. Inv /\ [FocusNext]_wm => Inv'
  <2> SUFFICES ASSUME Inv, [FocusNext]_wm  PROVE Inv'
    OBVIOUS
  <2>1. Viewing'  BY ViewingStep
  <2>2. CASE UNCHANGED wm
    <3>1. Returned(wm)' /\ Exclusive(wm)'
      BY <2>2 DEF Returned, InFront, Exclusive, client_top, FirstFocused, Visible, Viewed
    <3> QED  BY <2>1, <3>1
  <2>3. CASE FocusNext
    <3>1. Pointed(wm)  BY DEF Viewing, Focused, Pointed, Drawing, OneMonitor
    <3>2. Settles(wm, wm')  BY <2>3, <3>1, FocusSettles DEF Viewing, Focused, OneMenu
    <3>3. Returned(wm') /\ Exclusive(wm')  BY <3>2 DEF Settles
    <3>4. Returned(wm)' /\ Exclusive(wm)'
      BY <3>3 DEF Returned, InFront, Exclusive, client_top, FirstFocused, Visible, Viewed
    <3> QED  BY <2>1, <3>4
  <2> QED  BY <2>2, <2>3
<1>3. Inv => KeyboardComesBack
  BY DEF Returned, InFront, KeyboardComesBack
<1> QED  BY <1>1, <1>2, <1>3, PTL DEF FocusSpec
=============================================================================
