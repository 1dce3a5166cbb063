---------------------------- MODULE OutputsProofs ---------------------------
(***************************************************************************)
(* What is true of windows, the keyboard and the lock while outputs are    *)
(* plugged, unplugged, put to sleep and reconfigured under them, for any   *)
(* number of each: what FocusProofs shows of the other handlers, and here of*)
(* those of the outputs and of their loops.                                *)
(***************************************************************************)
EXTENDS FocusProofs

-----------------------------------------------------------------------------
(* Outputs come and go. *)

LEMMA FollowsGuarded ==
  ASSUME NEW s, Guarded(s), NEW t, Follows(s, t)
  PROVE  Guarded(t)
BY DEF Guarded, Follows, Locking, SameLock

(* A window that is moved keeps the tags it has, and so do the others. *)
LEMMA SetMonitorKeepsTags ==
  ASSUME NEW s \in WindowState, NEW c \in Clients,
         NEW m \in Monitors \cup {None}
  PROVE  TagsKept(s, client_set_monitor(s, c, m, s.tags[c]))
<1> DEFINE old    == s.mon[c]
           new    == TagsOn(s, m, s.tags[c])
           moved  == [s EXCEPT !.mon[c] = m]
           left   == IF old = None THEN moved ELSE layout_arrange(moved, old)
           tagged == [left EXCEPT !.tags[c] = new]
           placed == ArrangeOf(tagged, c)
           t      == client_set_monitor(s, c, m, s.tags[c])
<1>0. s.tags \in [Clients -> SUBSET Tags]  BY DEF WindowState
<1>1. moved \in WindowState /\ moved.tags = s.tags  BY DEF WindowState
<1>2. left \in WindowState /\ left.tags = s.tags
  <2> HIDE DEF moved
  <2> QED  BY <1>1, ArrangeType, ArrangeKeepsTags DEF SameTags
<1>3. m # None => new \in SUBSET Tags
  <2>1. m # None => m \in Monitors  OBVIOUS
  <2> QED  BY <1>0, <2>1, ViewedType DEF TagsOn
<1>4. s.tags[c] # {} => new = s.tags[c]  BY DEF TagsOn
<1> HIDE DEF new, left
<1>5. m # None => /\ tagged \in WindowState
                  /\ tagged.tags = [s.tags EXCEPT ![c] = new]
  BY <1>2, <1>3 DEF WindowState
<1> HIDE DEF tagged
<1>6. m # None => placed \in WindowState /\ placed.tags = tagged.tags
  BY <1>5, ArrangeOfType, ArrangeOfKeepsTags DEF SameTags
<1> HIDE DEF placed
<1>7. t = IF old = m THEN s ELSE Refocus(IF m = None THEN left ELSE placed)
  BY DEF client_set_monitor, placed, tagged, left, new
<1>8. \/ t = s \/ t.tags = s.tags
      \/ m # None /\ t.tags = [s.tags EXCEPT ![c] = new]
  <2>1. Refocus(left).tags = s.tags  BY <1>2, RefocusKeepsTags DEF SameTags
  <2>2. m # None => Refocus(placed).tags = [s.tags EXCEPT ![c] = new]
    BY <1>5, <1>6, RefocusKeepsTags DEF SameTags
  <2> QED  BY <1>7, <2>1, <2>2
<1> HIDE DEF t
<1>9. TagsKept(s, t)  BY <1>0, <1>4, <1>8 DEF TagsKept
<1> QED  BY <1>9 DEF t

LEMMA InnerFollows ==
  ASSUME NEW s, Sound(s), NEW t, Inner(s, t),
         \A c \in Clients \ s.mapped : t.mon[c] = None,
         TagsKept(s, t), Tagged(s) => Tagged(t),
         \A M : Within(M, s) /\ ToSet(s.monitors) \cup {None} \subseteq M => Within(M, t)
  PROVE  Follows(s, t)
<1>1. /\ t.session = s.session /\ t.monitors = s.monitors
      /\ t.clients = s.clients /\ t.mapped = s.mapped
      /\ s.session.lock_active => t.kbd = s.kbd
      /\ t.kbd \in Clients \cup {None, s.kbd}
  BY DEF Inner, SameLists, Grip
<1>2. Listed(t)  BY InnerListed DEF Sound
<1>3. Sound(t)  BY <1>1, <1>2 DEF Sound
<1>4. Exclusive(s) => Exclusive(t)  BY <1>1, DistinctAssumption DEF Exclusive
<1> QED  BY <1>1, <1>3, <1>4 DEF Follows, SameLock

(* A mapped window that is moved leaves what is drawn on every monitor as it
   should be, and the keyboard with the windows. *)
LEMMA SetMonitorDraws ==
  ASSUME NEW s \in WindowState, NEW c \in s.mapped,
         NEW m \in Monitors \cup {None}, NEW newtags \in SUBSET Tags
  PROVE  LET t == client_set_monitor(s, c, m, newtags)
         IN  /\ ToSet(s.clients) = s.mapped =>
                  \A n : DrawnOn(s, n) => DrawnOn(t, n)
             /\ Modal = {} /\ m # s.mon[c] => Returned(t)
<1> DEFINE old    == s.mon[c]
           new    == TagsOn(s, m, newtags)
           moved  == [s EXCEPT !.mon[c] = m]
           left   == IF old = None THEN moved ELSE layout_arrange(moved, old)
           tagged == [left EXCEPT !.tags[c] = new]
           placed == IF m = None THEN left ELSE ArrangeOf(tagged, c)
           t      == client_set_monitor(s, c, m, newtags)
           Full   == ToSet(s.clients) = s.mapped
<1>0. /\ t = IF old = m THEN s ELSE Refocus(placed)
      /\ c \in Clients /\ s.mapped \subseteq Clients
      /\ s.mon \in [Clients -> Monitors \cup {None}]
  BY DEF client_set_monitor, WindowState
<1>1. /\ moved \in WindowState /\ moved.mapped = s.mapped /\ moved.clients = s.clients
      /\ moved.mon = [s.mon EXCEPT ![c] = m] /\ moved.enabled = s.enabled
      /\ moved.mapwait = s.mapwait /\ moved.shown = s.shown /\ moved.tags = s.tags
      /\ moved.tagset = s.tagset /\ moved.seltags = s.seltags
  BY <1>0 DEF WindowState
<1> HIDE DEF moved
<1>2. \A n : n # m /\ DrawnOn(s, n) => DrawnOn(moved, n)
  BY <1>0, <1>1 DEF DrawnOn, Visible, Viewed
<1>3. /\ left \in WindowState /\ left.mapped = s.mapped /\ left.clients = s.clients
      /\ left.mon = moved.mon /\ left.enabled = s.enabled
      /\ Full => \A n : DrawnOn(moved, n) => DrawnOn(left, n)
  <2>1. CASE old = None  BY <1>1, <2>1
  <2>2. CASE old # None
    <3> DEFINE u == layout_arrange(moved, old)
    <3>1. left = u  BY <2>2
    <3>2. u \in WindowState /\ SameLists(moved, u) /\ u.mon = moved.mon
      BY <1>1, ArrangeEffect
    <3>3. ToSet(moved.clients) = moved.mapped => \A n : DrawnOn(moved, n) => DrawnOn(u, n)
      BY <1>1, ArrangeDraws
    <3> HIDE DEF u, left
    <3> QED  BY <1>1, <3>1, <3>2, <3>3 DEF SameLists
  <2> QED  BY <2>1, <2>2
<1> HIDE DEF left
<1>4. CASE old = m
  <2>1. t = s  BY <1>0, <1>4
  <2> HIDE DEF t
  <2> QED  BY <1>4, <2>1 DEF t
<1>5. CASE old # m
  <2>1. placed \in WindowState /\ (Full => \A n : DrawnOn(s, n) => DrawnOn(placed, n))
    <3>1. CASE m = None
      <4>1. None \notin s.enabled  BY DistinctAssumption DEF WindowState
      <4>2. \A n : DrawnOn(s, n) => DrawnOn(moved, n)
        BY <1>1, <1>2, <3>1, <4>1 DEF DrawnOn
      <4> QED  BY <1>3, <3>1, <4>2
    <3>2. CASE m # None
      <4>1. new \in SUBSET Tags  BY <3>2, ViewedType DEF TagsOn
      <4> HIDE DEF new
      <4>2. /\ tagged \in WindowState /\ tagged.mapped = left.mapped
            /\ tagged.clients = left.clients /\ tagged.enabled = left.enabled
            /\ tagged.mon = left.mon /\ tagged.shown = left.shown
            /\ tagged.mapwait = left.mapwait
            /\ tagged.tags = [left.tags EXCEPT ![c] = new]
            /\ tagged.tagset = left.tagset /\ tagged.seltags = left.seltags
            /\ left.tags \in [Clients -> SUBSET Tags]
        BY <1>0, <1>3, <4>1 DEF WindowState
      <4> HIDE DEF tagged
      <4>3. left.mon[c] = m  BY <1>0, <1>1, <1>3
      <4>4. \A n : n # m /\ DrawnOn(left, n) => DrawnOn(tagged, n)
        BY <1>0, <1>3, <4>2, <4>3 DEF DrawnOn, Visible, Viewed
      <4>5. placed = layout_arrange(tagged, m)
        BY <1>3, <3>2, <4>2, <4>3 DEF ArrangeOf
      <4> HIDE DEF placed
      <4>6. /\ placed \in WindowState
            /\ Full => /\ DrawnOn(placed, m)
                       /\ \A n : n # m /\ DrawnOn(tagged, n) => DrawnOn(placed, n)
        BY <1>3, <4>2, <4>5, ArrangeType, ArrangeDraws
      <4> HIDE DEF Full
      <4> QED  BY <1>2, <1>3, <4>4, <4>6
    <3> QED  BY <3>1, <3>2
  <2>2. t = Refocus(placed)  BY <1>0, <1>5
  <2> HIDE DEF placed, t
  <2>3. (Modal = {} => Returned(t)) /\ \A n : DrawnOn(placed, n) => DrawnOn(t, n)
    BY <2>1, <2>2, RefocusSettles
  <2> QED  BY <1>5, <2>1, <2>3 DEF t
<1> QED  BY <1>4, <1>5

LEMMA SelectFollows ==
  ASSUME NEW s, Sound(s), NEW m \in Monitors \cup {None},
         m \in ToSet(s.monitors) \cup {None}
  PROVE  LET t == [s EXCEPT !.selected_monitor = m]
         IN  /\ Follows(s, t) /\ t.selected_monitor = m /\ t.mon = s.mon
             /\ Rests(s, t)
             /\ m \in s.enabled => Serves(s, t)
<1> DEFINE t == [s EXCEPT !.selected_monitor = m]
<1>1. Listed(s) /\ s \in WindowState  BY SoundFit
<1>2. /\ t \in WindowState /\ t.clients = s.clients /\ t.mapped = s.mapped
      /\ t.mapwait = s.mapwait /\ t.monitors = s.monitors
      /\ t.session = s.session /\ t.focus_stack = s.focus_stack /\ t.kbd = s.kbd
      /\ t.mon = s.mon /\ t.shown = s.shown /\ t.tags = s.tags
      /\ t.tagset = s.tagset /\ t.seltags = s.seltags
      /\ t.selected_monitor = m /\ t.enabled = s.enabled
  BY <1>1 DEF WindowState
<1> HIDE DEF t
<1>3. Listed(t)  BY <1>1, <1>2 DEF Listed
<1>4. Sound(t)  BY <1>2, <1>3 DEF Sound
<1>5. \A M : Within(M, s) /\ ToSet(s.monitors) \cup {None} \subseteq M => Within(M, t)
  BY <1>2 DEF Within
<1>7. /\ Tagged(s) => Tagged(t)
      /\ Exclusive(s) => Exclusive(t)
  BY <1>2, SameTagged DEF Exclusive, SameTags
<1>6. Follows(s, t)  BY <1>2, <1>4, <1>5, <1>7 DEF Follows, SameLock, TagsKept
<1>8. Rests(s, t)  BY <1>2 DEF Rests, Up, DrawnOn, Visible, Viewed
<1>9. m \in s.enabled => Serves(s, t)  BY <1>2, <1>6, <1>8 DEF Serves, Poises, Poised
<1> QED  BY <1>2, <1>6, <1>8, <1>9 DEF t

LEMMA MoveToFollows ==
  ASSUME NEW s, Sound(s), NEW c \in ToSet(s.clients)
  PROVE  LET t == MoveTo(s, c)
         IN  /\ Follows(s, t) /\ Serves(s, t)
             /\ t.mon = [s.mon EXCEPT ![c] = s.selected_monitor]
             /\ Modal = {} => t.selected_monitor = s.selected_monitor
<1> DEFINE m == s.selected_monitor
           t == client_set_monitor(s, c, m, s.tags[c])
<1>1. /\ Listed(s) /\ s \in WindowState /\ c \in s.mapped
      /\ m \in Monitors \cup {None} /\ c \in Clients /\ s.tags[c] \in SUBSET Tags
      /\ s.mon \in [Clients -> Monitors \cup {None}]
  <2>1. Listed(s) /\ s \in WindowState  BY SoundFit
  <2> QED  BY <2>1 DEF Listed, WindowState
<1>2. /\ Inner(s, t)
      /\ t.mon = [s.mon EXCEPT ![c] = m]
      /\ Modal = {} => t.selected_monitor = s.selected_monitor
      /\ \A M : Within(M, s) /\ m \in M => Within(M, t)
      /\ m = s.mon[c] => t = s
  BY <1>1, SetMonitorInner
<1>3. TagsKept(s, t) /\ (Tagged(s) => Tagged(t))
  BY <1>1, SetMonitorKeepsTags, SetMonitorTagged
<1>7. /\ -1 \notin StackSteps => \A n : DrawnOn(s, n) => DrawnOn(t, n)
      /\ Modal = {} /\ m # s.mon[c] => Returned(t)
  BY <1>1, SetMonitorDraws DEF Listed
<1> HIDE DEF t
<1>4. \A d \in Clients \ s.mapped : t.mon[d] = None
  BY <1>1, <1>2 DEF Listed
<1>5. \A M : Within(M, s) => Within(M, t)  BY <1>2 DEF Within
<1>6. Follows(s, t)  BY <1>2, <1>3, <1>4, <1>5, InnerFollows
<1>8. Rests(s, t)
  <2>1. /\ t.enabled = s.enabled /\ t.session = s.session
        /\ t.kbd \in Clients \cup {None, s.kbd}
    BY <1>2 DEF Inner, SameLists, Grip
  <2> QED  BY <1>7, <2>1, DistinctAssumption DEF Rests, Up
<1>9. Poises(s, t)  BY <1>2, <1>7 DEF Poises, Poised
<1> QED  BY <1>2, <1>6, <1>8, <1>9 DEF MoveTo, t, Serves

(* The loops of monitor_close and monitor_update_layout, each turn by turn. *)
MoveTurn(m, s, c) == IF s.mon[c] = m THEN MoveTo(s, c) ELSE s

LEMMA MoveTurnFollows ==
  ASSUME NEW s, Sound(s), NEW m, NEW c \in ToSet(s.clients)
  PROVE  LET t == MoveTurn(m, s, c)
         IN  /\ Serves(s, t) /\ Follows(s, t)
             /\ Modal = {} => t.selected_monitor = s.selected_monitor
             /\ s.selected_monitor # m => t.mon[c] # m
             /\ \A d \in Clients : t.mon[d] \in {s.mon[d], s.selected_monitor}
<1>0. s.mon \in [Clients -> Monitors \cup {None}] /\ c \in Clients
  <2>1. s \in WindowState  BY SoundFit
  <2> QED  BY <2>1 DEF WindowState, ToSet
<1>1. CASE s.mon[c] = m
  <2> DEFINE t == MoveTo(s, c)
  <2>1. /\ Serves(s, t) /\ Follows(s, t)
        /\ t.mon = [s.mon EXCEPT ![c] = s.selected_monitor]
        /\ Modal = {} => t.selected_monitor = s.selected_monitor
    BY MoveToFollows
  <2>2. MoveTurn(m, s, c) = t  BY <1>1 DEF MoveTurn
  <2> HIDE DEF t
  <2> QED  BY <1>0, <2>1, <2>2
<1>2. CASE s.mon[c] # m
  BY <1>2, ServesSelf, FollowsSelf DEF MoveTurn
<1> QED  BY <1>1, <1>2

MovedTurn(a, s, c) == MoveTurn(a.m, s, c)
MovedInv(a, i, s) ==
  /\ Serves(a.base, s)
  /\ Modal = {} /\ a.base.selected_monitor # a.m =>
       /\ s.selected_monitor = a.base.selected_monitor
       /\ \A j \in 1 .. i : s.mon[a.base.clients[j]] # a.m
Moved == INSTANCE Loops WITH Turn <- MovedTurn, Inv <- MovedInv
MovedFrom(s, m) == Moved!Fold([base |-> s, m |-> m], s, s.clients)

LEMMA MovedFollows ==
  ASSUME NEW s, Sound(s), NEW m
  PROVE  LET t == MovedFrom(s, m)
         IN  /\ Serves(s, t)
             /\ Modal = {} /\ s.selected_monitor # m =>
                  /\ t.selected_monitor = s.selected_monitor
                  /\ \A c \in ToSet(s.clients) : t.mon[c] # m
<1> DEFINE list == s.clients
           a == [base |-> s, m |-> m]
           t == Moved!Fold(a, s, list)
<1>0. s \in WindowState /\ list \in Seq(Clients) /\ Len(list) \in Nat
  BY SoundFit DEF WindowState
<1>1. t = MovedFrom(s, m)  BY DEF MovedFrom
<1> HIDE DEF t
<1>2. MovedInv(a, 0, s)  BY ServesSelf DEF MovedInv
<1>3. ASSUME NEW i \in 1 .. Len(list), NEW r, MovedInv(a, i - 1, r)
      PROVE  MovedInv(a, i, MovedTurn(a, r, list[i]))
  <2> DEFINE c == list[i]
             u == MoveTurn(m, r, c)
  <2>1. /\ Serves(s, r)
        /\ Modal = {} /\ s.selected_monitor # m =>
             /\ r.selected_monitor = s.selected_monitor
             /\ \A j \in 1 .. i - 1 : r.mon[list[j]] # m
    BY <1>3 DEF MovedInv
  <2>2. Sound(r) /\ r.clients = list  BY <2>1 DEF Serves, Follows
  <2>3. c \in ToSet(list) /\ \A j \in 1 .. Len(list) : list[j] \in Clients
    BY <1>0 DEF ToSet
  <2>4. /\ Serves(r, u)
        /\ Modal = {} => u.selected_monitor = r.selected_monitor
        /\ r.selected_monitor # m => u.mon[c] # m
        /\ \A d \in Clients : u.mon[d] \in {r.mon[d], r.selected_monitor}
    BY <2>2, <2>3, MoveTurnFollows
  <2>5. MovedTurn(a, r, list[i]) = u  BY DEF MovedTurn
  <2> HIDE DEF u
  <2>6. Serves(s, u)  BY <2>1, <2>4, ServesTwice
  <2>7. ASSUME Modal = {}, s.selected_monitor # m
        PROVE  /\ u.selected_monitor = s.selected_monitor
               /\ \A j \in 1 .. i : u.mon[list[j]] # m
    <3>1. u.selected_monitor = s.selected_monitor /\ r.selected_monitor # m
      BY <2>1, <2>4, <2>7
    <3>2. \A j \in 1 .. i : j = i \/ j \in 1 .. i - 1  BY <1>0
    <3>3. \A j \in 1 .. i : list[j] \in Clients  BY <1>0, <2>3
    <3>4. \A j \in 1 .. i - 1 : u.mon[list[j]] # m
      <4> TAKE j \in 1 .. i - 1
      <4>1. j \in 1 .. i  BY <1>0
      <4>2. u.mon[list[j]] \in {r.mon[list[j]], r.selected_monitor}
        BY <2>4, <3>3, <4>1
      <4> QED  BY <2>1, <2>7, <3>1, <4>2
    <3> QED  BY <2>4, <3>1, <3>2, <3>4
  <2> QED  BY <2>5, <2>6, <2>7 DEF MovedInv
<1>4. MovedInv(a, Len(list), t)
  <2> HIDE DEF list, a
  <2> QED  BY <1>0, <1>2, <1>3, LeastMembers, Moved!LoopKeeps DEF t
<1>5. /\ Serves(s, t)
      /\ Modal = {} /\ s.selected_monitor # m =>
           /\ t.selected_monitor = s.selected_monitor
           /\ \A c \in ToSet(s.clients) : t.mon[c] # m
  BY <1>0, <1>4 DEF MovedInv, ToSet
<1> QED  BY <1>1, <1>5

(* The windows of a monitor move to the selected one, which is another, or
   none. *)
LEMMA CloseFollows ==
  ASSUME NEW s, Sound(s), NEW m \in Monitors
  PROVE  LET t == monitor_close(s, m)
         IN  /\ Follows(s, t) /\ Serves(s, t)
             /\ Modal = {} => Returned(t)
             /\ /\ Modal = {} /\ -1 \notin StackSteps
                /\ m \notin ToSet(s.monitors)
                /\ Within(ToSet(s.monitors) \cup {None, m}, s)
                => Within(ToSet(s.monitors) \cup {None}, t)
<1> DEFINE at == IF s.monitors = <<>> \/ m = s.selected_monitor
                 THEN [s EXCEPT !.selected_monitor = Successor(s)] ELSE s
           v == MovedFrom(at, m)
           t == Refocus(v)
           plugged == ToSet(s.monitors) \cup {None}
<1>0. /\ Listed(s) /\ s \in WindowState /\ s.monitors \in Seq(Monitors)
      /\ m # None
  <2>1. Listed(s) /\ s \in WindowState  BY SoundFit
  <2> QED  BY <2>1, DistinctAssumption DEF WindowState
<1>1. monitor_close(s, m) = t
  BY DEF monitor_close, MovedFrom, Moved!Fold, Moved!Greatest, FoldLeft, MapThenFoldSet,
         MovedTurn, MoveTurn, Max
<1>2. /\ Successor(s) \in Monitors \cup {None}
      /\ Successor(s) \in ToSet(s.monitors) \cup {None}
  BY <1>0 DEF Successor, ToSet
<1>3. /\ Follows(s, at) /\ Rests(s, at) /\ at.mon = s.mon
      /\ at.selected_monitor =
           IF s.monitors = <<>> \/ m = s.selected_monitor
           THEN Successor(s) ELSE s.selected_monitor
  BY <1>2, SelectFollows, FollowsSelf, ServesSelf DEF Serves
<1> HIDE DEF at
<1>4. Sound(at) /\ at.monitors = s.monitors /\ at.clients = s.clients
      /\ at.mapped = s.mapped
  BY <1>3 DEF Follows
<1>5. /\ Follows(at, v) /\ Serves(at, v)
      /\ Modal = {} /\ at.selected_monitor # m =>
           /\ v.selected_monitor = at.selected_monitor
           /\ \A c \in ToSet(at.clients) : v.mon[c] # m
  BY <1>4, MovedFollows DEF Serves
<1> HIDE DEF v
<1>6. Sound(v) /\ Listed(v)  BY <1>5, SoundFit DEF Follows
<1>7. /\ Follows(v, t) /\ Serves(v, t)
      /\ Modal = {} => Returned(t)
  <2>1. v \in WindowState  BY <1>6, SoundFit
  <2> QED  BY <1>6, <2>1, RefocusFollows, RefocusSettles
<1>8. Follows(s, t)  BY <1>3, <1>5, <1>7, FollowsTwice
<1>9. ASSUME Modal = {}, -1 \notin StackSteps, m \notin ToSet(s.monitors),
             Within(plugged \cup {m}, s)
      PROVE  Within(plugged, t)
  <2>1. at.selected_monitor # m /\ at.selected_monitor \in plugged
    <3>1. s.selected_monitor \in plugged \cup {m}  BY <1>9 DEF Within
    <3> QED  BY <1>0, <1>2, <1>3, <1>9, <3>1
  <2>2. Within(plugged \cup {m}, v)
    <3>1. ToSet(s.monitors) \cup {None} \subseteq plugged \cup {m}  OBVIOUS
    <3>2. Within(plugged \cup {m}, at)  BY <1>3, <1>9, <3>1 DEF Follows
    <3> QED  BY <1>4, <1>5, <3>1, <3>2 DEF Follows
  <2>3. \A c \in Clients : v.mon[c] # m
    <3>1. /\ ToSet(v.clients) = v.mapped
          /\ \A c \in Clients \ v.mapped : v.mon[c] = None
      BY <1>6, <1>9 DEF Listed
    <3>2. v.clients = at.clients  BY <1>5 DEF Follows
    <3> QED  BY <1>0, <1>5, <1>9, <2>1, <3>1, <3>2
  <2>4. Within(plugged, v)
    BY <1>5, <1>9, <2>1, <2>2, <2>3 DEF Within
  <2>5. v.monitors = s.monitors  BY <1>4, <1>5 DEF Follows
  <2> QED  BY <1>7, <2>4, <2>5 DEF Follows
<1> HIDE DEF t
<1>10. Rests(s, t)  BY <1>3, <1>5, <1>7, RestsTwice DEF Serves
<1>11. Serves(s, t)  BY <1>7, <1>8, <1>10 DEF Serves, Poises, Poised
<1> QED  BY <1>1, <1>7, <1>8, <1>9, <1>11

(* The loops of monitor_update_layout. *)
ServesInv(a, i, s) == Serves(a, s)

CloseTurn(a, s, m) ==
  IF m \in s.enabled \cup s.session.asleep THEN s ELSE monitor_close(s, m)
Closing == INSTANCE Loops WITH Turn <- CloseTurn, Inv <- ServesInv

LEMMA ClosedDisabledFollows ==
  ASSUME NEW s, Sound(s)
  PROVE  Serves(s, ClosedDisabled(s))
<1> DEFINE list == s.monitors
<1>0. list \in Seq(Monitors)  BY SoundFit DEF WindowState
<1>1. Closing!Fold(s, s, list) = ClosedDisabled(s)
  BY DEF Closing!Fold, Closing!Greatest,
         ClosedDisabled, FoldLeft, MapThenFoldSet, CloseTurn, Max
<1>2. ServesInv(s, 0, s)  BY ServesSelf DEF ServesInv
<1> HIDE DEF list
<1>3. ASSUME NEW i \in 1 .. Len(list), NEW r, ServesInv(s, i - 1, r)
      PROVE  ServesInv(s, i, CloseTurn(s, r, list[i]))
  <2>1. Serves(s, r) /\ Sound(r) /\ list[i] \in Monitors
    BY <1>0, <1>3 DEF ServesInv, Serves, Follows
  <2>2. Serves(r, monitor_close(r, list[i]))  BY <2>1, CloseFollows
  <2>3. Serves(s, CloseTurn(s, r, list[i]))
    BY <2>1, <2>2, ServesTwice DEF CloseTurn
  <2> QED  BY <2>3 DEF ServesInv
<1>4. ServesInv(s, Len(list), Closing!Fold(s, s, list))
  BY <1>0, <1>2, <1>3, LeastMembers, Closing!LoopKeeps
<1> QED  BY <1>1, <1>4 DEF ServesInv

SettleTurn(a, s, m) ==
  LET r == layout_arrange(monitor_arrange_layers(s, m, TRUE), m)
  IN  IF m \notin s.enabled THEN s
      ELSE IF r.selected_monitor = None THEN [r EXCEPT !.selected_monitor = m] ELSE r
SettleInv(a, i, s) ==
  /\ Serves(a, s)
  /\ -1 \notin StackSteps =>
       \A j \in 1 .. i : a.monitors[j] \in a.enabled => DrawnOn(s, a.monitors[j])
Settling == INSTANCE Loops WITH Turn <- SettleTurn, Inv <- SettleInv

LEMMA SettleTurnFollows ==
  ASSUME NEW s, Sound(s), NEW m \in Monitors, m \in ToSet(s.monitors), NEW a
  PROVE  LET t == SettleTurn(a, s, m)
         IN  /\ Serves(s, t)
             /\ -1 \notin StackSteps /\ m \in s.enabled => DrawnOn(t, m)
<1> DEFINE l == monitor_arrange_layers(s, m, TRUE)
           u == layout_arrange(l, m)
           v == [u EXCEPT !.selected_monitor = m]
           t == SettleTurn(a, s, m)
<1>1. t = IF m \notin s.enabled THEN s
          ELSE IF u.selected_monitor = None THEN v ELSE u
  BY DEF SettleTurn
<1> HIDE DEF t
<1>2. Serves(s, l) /\ l.enabled = s.enabled  BY ArrangeLayersFollows DEF Layered
<1> HIDE DEF l
<1>3. Sound(l) /\ l.monitors = s.monitors  BY <1>2 DEF Serves, Follows
<1>4. Serves(l, u) /\ (-1 \notin StackSteps => DrawnOn(u, m))
  BY <1>3, ArrangeFollows
<1> HIDE DEF u
<1>5. Sound(u) /\ u.monitors = s.monitors /\ u.enabled = s.enabled
  BY <1>2, <1>3, <1>4 DEF Serves, Follows, Rests
<1>6. Rests(u, v) /\ (m \in s.enabled => Serves(u, v))
  BY <1>5, SelectFollows
<1> HIDE DEF v
<1>7. Serves(s, u)  BY <1>2, <1>4, ServesTwice
<1>8. m \in s.enabled => Serves(s, v)  BY <1>6, <1>7, ServesTwice
<1>9. -1 \notin StackSteps => DrawnOn(v, m)  BY <1>4, <1>6 DEF Rests
<1>10. Serves(s, t)  BY <1>1, <1>7, <1>8, ServesSelf
<1>11. -1 \notin StackSteps /\ m \in s.enabled => DrawnOn(t, m)
  BY <1>1, <1>4, <1>9
<1> QED  BY <1>10, <1>11 DEF t

(* Every lit monitor of the list is drawn. *)
LitDrawn(s) ==
  -1 \notin StackSteps => \A m \in ToSet(s.monitors) \cap s.enabled : DrawnOn(s, m)

LEMMA ServesDrawn ==
  ASSUME NEW s, LitDrawn(s), NEW t, Serves(s, t)
  PROVE  LitDrawn(t)
BY DEF LitDrawn, Serves, Rests, Follows

LEMMA ArrangedFollows ==
  ASSUME NEW s, Sound(s)
  PROVE  Serves(s, Arranged(s)) /\ LitDrawn(Arranged(s))
<1> DEFINE list == s.monitors
           t == Settling!Fold(s, s, list)
<1>0. list \in Seq(Monitors) /\ Len(list) \in Nat  BY SoundFit DEF WindowState
<1>1. t = Arranged(s)
  BY DEF Settling!Fold, Settling!Greatest,
         Arranged, FoldLeft, MapThenFoldSet, SettleTurn, Max
<1> HIDE DEF t
<1>2. SettleInv(s, 0, s)  BY ServesSelf DEF SettleInv
<1>3. ASSUME NEW i \in 1 .. Len(list), NEW r, SettleInv(s, i - 1, r)
      PROVE  SettleInv(s, i, SettleTurn(s, r, list[i]))
  <2> DEFINE m == list[i]
             u == SettleTurn(s, r, m)
  <2>1. /\ Serves(s, r)
        /\ -1 \notin StackSteps =>
             \A j \in 1 .. i - 1 : list[j] \in s.enabled => DrawnOn(r, list[j])
    BY <1>3 DEF SettleInv
  <2>2. /\ Sound(r) /\ r.enabled = s.enabled /\ r.monitors = list
        /\ m \in Monitors /\ m \in ToSet(list)
    BY <1>0, <2>1 DEF Serves, Follows, Rests, ToSet
  <2>3. Serves(r, u) /\ (-1 \notin StackSteps /\ m \in s.enabled => DrawnOn(u, m))
    BY <2>2, SettleTurnFollows
  <2> HIDE DEF u
  <2>4. Serves(s, u)  BY <2>1, <2>3, ServesTwice
  <2>5. -1 \notin StackSteps => \A n : DrawnOn(r, n) => DrawnOn(u, n)
    BY <2>3 DEF Serves, Rests
  <2>6. \A j \in 1 .. i : j = i \/ j \in 1 .. i - 1  BY <1>0
  <2>7. -1 \notin StackSteps =>
          \A j \in 1 .. i : list[j] \in s.enabled => DrawnOn(u, list[j])
    BY <2>1, <2>3, <2>5, <2>6
  <2>8. SettleInv(s, i, u)  BY <2>4, <2>7 DEF SettleInv
  <2> QED  BY <2>8 DEF u
<1>4. SettleInv(s, Len(list), t)
  <2> HIDE DEF list
  <2> QED  BY <1>0, <1>2, <1>3, LeastMembers, Settling!LoopKeeps DEF t
<1>5. Serves(s, t) /\ t.monitors = list /\ t.enabled = s.enabled
  BY <1>4 DEF SettleInv, Serves, Follows, Rests
<1>6. LitDrawn(t)
  <2>1. \A m \in ToSet(list) : \E j \in 1 .. Len(list) : list[j] = m
    BY <1>0 DEF ToSet
  <2> QED  BY <1>4, <1>5, <2>1 DEF SettleInv, LitDrawn
<1> QED  BY <1>1, <1>5, <1>6

AdoptTurn(a, s, c) == MoveTurn(None, s, c)
Adopting == INSTANCE Loops WITH Turn <- AdoptTurn, Inv <- ServesInv

LEMMA AdoptedFollows ==
  ASSUME NEW s, Guarded(s)
  PROVE  LET t == Adopted(s)
         IN  /\ Serves(s, t)
             /\ Modal = {} /\ Poised(s) => Returned(t)
<1> DEFINE list == s.clients
           v == Adopting!Fold(s, s, list)
           r == Refocus(v)
           w == With(r, r.session, r.selected_monitor)
           t == Adopted(s)
<1>0. list \in Seq(Clients) /\ Sound(s) /\ Locking(s)
  BY SoundFit DEF WindowState, Guarded
<1>1. t =
        IF s.selected_monitor \notin s.enabled THEN s
        ELSE IF r.selected_monitor \in ToSet(r.session.lock_surfaces)
             THEN [r EXCEPT !.kbd = r.selected_monitor] ELSE r
  BY DEF Adopting!Fold, Adopting!Greatest,
         Adopted, FoldLeft, MapThenFoldSet, AdoptTurn, MoveTurn, Max
<1> HIDE DEF t
<1>2. ServesInv(s, 0, s)  BY <1>0, ServesSelf DEF ServesInv
<1>3. ASSUME NEW i \in 1 .. Len(list), NEW q, ServesInv(s, i - 1, q)
      PROVE  ServesInv(s, i, AdoptTurn(s, q, list[i]))
  <2>1. Serves(s, q) /\ Sound(q) /\ q.clients = list
    BY <1>3 DEF ServesInv, Serves, Follows
  <2>2. list[i] \in ToSet(q.clients)  BY <1>0, <2>1 DEF ToSet
  <2> HIDE DEF list
  <2>3. Serves(q, MoveTurn(None, q, list[i]))  BY <2>1, <2>2, MoveTurnFollows
  <2> QED  BY <2>1, <2>3, ServesTwice DEF ServesInv, AdoptTurn
<1>4. Serves(s, v)
  <2> HIDE DEF list
  <2>1. ServesInv(s, Len(list), v)
    BY <1>0, <1>2, <1>3, LeastMembers, Adopting!LoopKeeps
  <2> QED  BY <2>1 DEF ServesInv
<1> HIDE DEF v
<1>5. Serves(v, r) /\ (Modal = {} => Returned(r))
  <2>1. Sound(v) /\ v \in WindowState  BY <1>4, SoundFit DEF Serves, Follows
  <2> QED  BY <2>1, RefocusFollows, RefocusSettles
<1> HIDE DEF r
<1>6. Serves(s, r) /\ Sound(r) /\ SameLock(s, r)
  BY <1>4, <1>5, ServesTwice DEF Serves, Follows
<1>7. ASSUME r.selected_monitor \in ToSet(r.session.lock_surfaces)
      PROVE  /\ Serves(s, [r EXCEPT !.kbd = r.selected_monitor])
             /\ Returned([r EXCEPT !.kbd = r.selected_monitor])
  <2>1. Fit(r.session) /\ r \in WindowState /\ r.session \in SessionState
    BY <1>6, SoundFit DEF Fit
  <2>2. r.selected_monitor \in Monitors
    BY <1>7, <2>1 DEF SessionState, ToSet
  <2>3. [r EXCEPT !.kbd = r.selected_monitor] = w  BY <2>1 DEF With, WindowState
  <2>4. r.selected_monitor \in Surfaces /\ r.selected_monitor \notin Clients
    BY <2>2, DistinctAssumption DEF Surfaces
  <2>5. /\ Sound(w) /\ w.session = r.session /\ w.kbd = r.selected_monitor
        /\ w.monitors = r.monitors /\ w.tags = r.tags
        /\ w.clients = r.clients /\ w.mapped = r.mapped
        /\ \A M : Within(M, r) => Within(M, w)
    BY <1>6, <2>1, <2>4, WithSound
  <2>6. SameView(r, w)  BY <2>1, WithView
  <2>7. r.session.lock_active
    <3>1. r.session.lock_surfaces # <<>>  BY <1>7 DEF ToSet
    <3> QED  BY <1>0, <1>6, <3>1 DEF SameLock, Locking
  <2> HIDE DEF w
  <2>8. /\ Tagged(r) => Tagged(w)
        /\ Exclusive(r) => Exclusive(w)
        /\ Up(r) => Up(w)
        /\ Returned(w)
    BY <2>5, <2>6, <2>7, SameTagged DEF SameView, Exclusive, Up, Returned
  <2>9. Follows(r, w)  BY <2>2, <2>5, <2>8 DEF Follows, SameLock, TagsKept
  <2>10. Rests(r, w)  BY <2>6, <2>8, SameRests
  <2>11. Serves(r, w)  BY <2>8, <2>9, <2>10 DEF Serves, Poises, Poised
  <2> QED  BY <1>6, <2>3, <2>8, <2>11, ServesTwice
<1>8. Serves(s, t)  BY <1>0, <1>1, <1>6, <1>7, ServesSelf
<1>9. Modal = {} /\ Poised(s) => Returned(t)
  BY <1>1, <1>5, <1>7 DEF Poised
<1> QED  BY <1>8, <1>9 DEF t

LayersTurn(a, s, m) == monitor_arrange_layers(s, m, FALSE)
LayersInv(a, i, s) == Serves(a, s) /\ Settles(a, s)
Layering == INSTANCE Loops WITH Turn <- LayersTurn, Inv <- LayersInv

(* What a pass of monitor_update_layout settles: the keyboard is back with
   the windows, and what is lit is drawn. *)
Updated(s, t) ==
  /\ Serves(s, t) /\ LitDrawn(t)
  /\ Modal = {} /\ Exclusive(s) /\ Poised(s) => Returned(t)

LEMMA ServesGuarded ==
  ASSUME NEW s, Guarded(s), NEW t, Serves(s, t)
  PROVE  Guarded(t)
BY FollowsGuarded DEF Serves

LEMMA LayoutPassFollows ==
  ASSUME NEW s, Guarded(s)
  PROVE  Updated(s, LayoutPass(s))
<1> DEFINE c == ClosedDisabled(s)
           b == Arranged(c)
           r == Adopted(b)
           list == s.monitors
           t == Layering!Fold(r, r, list)
<1>0. list \in Seq(Monitors) /\ Sound(s)  BY SoundFit DEF WindowState, Guarded
<1>1. t = LayoutPass(s)
  BY DEF Layering!Fold, Layering!Greatest,
         LayoutPass, FoldLeft, MapThenFoldSet, LayersTurn, Max
<1> HIDE DEF t
<1>2. /\ Serves(s, r) /\ LitDrawn(r)
      /\ Modal = {} /\ Exclusive(s) /\ Poised(s) => Returned(r) /\ Exclusive(r)
  <2>1. Serves(s, c)  BY <1>0, ClosedDisabledFollows
  <2> HIDE DEF c
  <2>2. Serves(c, b) /\ LitDrawn(b)  BY <2>1, ArrangedFollows DEF Serves, Follows
  <2> HIDE DEF b
  <2>3. Serves(s, b)  BY <2>1, <2>2, ServesTwice
  <2>4. Guarded(b)  BY <2>3, ServesGuarded
  <2>5. Serves(b, r) /\ (Modal = {} /\ Poised(b) => Returned(r))
    BY <2>4, AdoptedFollows
  <2> HIDE DEF r
  <2>6. Serves(s, r)  BY <2>3, <2>5, ServesTwice
  <2>7. LitDrawn(r)  BY <2>2, <2>5, ServesDrawn
  <2>8. Modal = {} /\ Exclusive(s) /\ Poised(s) => Poised(b)
    BY <2>3 DEF Serves, Poises
  <2>9. Exclusive(s) => Exclusive(r)  BY <2>6 DEF Serves, Follows
  <2> QED  BY <2>5, <2>6, <2>7, <2>8, <2>9
<1> HIDE DEF r, list
<1>3. LayersInv(r, 0, r)
  <2>1. Sound(r)  BY <1>2 DEF Serves, Follows
  <2> QED  BY <2>1, ServesSelf DEF LayersInv, Settles
<1>4. ASSUME NEW i \in 1 .. Len(list), NEW q, LayersInv(r, i - 1, q)
      PROVE  LayersInv(r, i, LayersTurn(r, q, list[i]))
  <2> DEFINE u == monitor_arrange_layers(q, list[i], FALSE)
  <2>1. Serves(r, q) /\ Settles(r, q) /\ Sound(q)
    BY <1>4 DEF LayersInv, Serves, Follows
  <2>2. Serves(q, u) /\ Settles(q, u)
    BY <2>1, ArrangeLayersFollows DEF Layered, Gives
  <2>3. LayersTurn(r, q, list[i]) = u  BY DEF LayersTurn
  <2> HIDE DEF u
  <2>4. Serves(r, u)  BY <2>1, <2>2, ServesTwice
  <2>5. Settles(r, u)  BY <2>1, <2>2 DEF Settles
  <2> QED  BY <2>3, <2>4, <2>5 DEF LayersInv
<1>5. LayersInv(r, Len(list), t)
  BY <1>0, <1>3, <1>4, LeastMembers, Layering!LoopKeeps DEF t
<1>6. Serves(r, t) /\ Settles(r, t)  BY <1>5 DEF LayersInv
<1>7. Serves(s, t)  BY <1>2, <1>6, ServesTwice
<1>8. LitDrawn(t)  BY <1>2, <1>6, ServesDrawn
<1>9. Modal = {} /\ Exclusive(s) /\ Poised(s) => Returned(t)
  BY <1>2, <1>6 DEF Settles
<1>10. Updated(s, t)  BY <1>7, <1>8, <1>9 DEF Updated
<1> QED  BY <1>1, <1>10

(* What is lit, asleep or laid out changes. *)
Switched(s, on, asleep, layout) ==
  [s EXCEPT !.enabled = on,
            !.session = [s.session EXCEPT !.asleep = asleep, !.layout = layout]]

Switches(s, t) ==
  /\ Follows(s, t)
  /\ t.session.layer_mon = s.session.layer_mon
  /\ t.selected_monitor = s.selected_monitor /\ t.mon = s.mon
  /\ Up(s) => Up(t)
  /\ Returned(s) => Returned(t)
  /\ t.enabled \subseteq s.enabled => \A m : DrawnOn(s, m) => DrawnOn(t, m)
  /\ t.enabled = s.enabled => Serves(s, t)

LEMMA SwitchFollows ==
  ASSUME NEW s, Sound(s), NEW on \in SUBSET Monitors,
         NEW asleep \in SUBSET Monitors, NEW layout \in SUBSET Monitors
  PROVE  LET t == Switched(s, on, asleep, layout)
         IN  Switches(s, t) /\ t.enabled = on
<1> DEFINE z == [s.session EXCEPT !.asleep = asleep, !.layout = layout]
           t == [s EXCEPT !.enabled = on, !.session = z]
<1>0. /\ Fit(s.session) /\ s \in WindowState /\ Listed(s)
      /\ s.session \in SessionState
  BY SoundFit DEF Fit
<1>1. /\ z \in SessionState /\ z.exclusive_focus = s.session.exclusive_focus
      /\ z.lock_active = s.session.lock_active
      /\ z.lock_current = s.session.lock_current
      /\ z.lock_surfaces = s.session.lock_surfaces
      /\ z.menus_up = s.session.menus_up /\ z.layers_up = s.session.layers_up
      /\ z.layers = s.session.layers /\ z.layer_mon = s.session.layer_mon
  BY <1>0 DEF SessionState
<1> HIDE DEF z
<1>2. /\ t \in WindowState /\ t.session = z /\ t.kbd = s.kbd
      /\ t.clients = s.clients /\ t.mapped = s.mapped
      /\ t.mapwait = s.mapwait /\ t.monitors = s.monitors
      /\ t.focus_stack = s.focus_stack
      /\ t.mon = s.mon /\ t.tags = s.tags /\ t.shown = s.shown
      /\ t.tagset = s.tagset /\ t.seltags = s.seltags
      /\ t.selected_monitor = s.selected_monitor /\ t.enabled = on
  BY <1>0, <1>1 DEF WindowState
<1> HIDE DEF t
<1>3. Listed(t)  BY <1>0, <1>1, <1>2 DEF Listed
<1>4. Sound(t)  BY <1>1, <1>2, <1>3 DEF Sound
<1>5. Tagged(s) => Tagged(t)  BY <1>2, SameTagged DEF SameTags
<1>6. /\ Exclusive(s) => Exclusive(t)
      /\ Up(s) => Up(t)
      /\ Returned(s) => Returned(t)
  BY <1>0, <1>1, <1>2, SameReturned DEF Exclusive, Up
<1>7. Follows(s, t)
  BY <1>1, <1>2, <1>4, <1>5, <1>6 DEF Follows, SameLock, TagsKept, Within
<1>8. on \subseteq s.enabled => \A m : DrawnOn(s, m) => DrawnOn(t, m)
  BY <1>2 DEF DrawnOn, Visible, Viewed
<1>9. on = s.enabled => Serves(s, t)
  BY <1>2, <1>6, <1>7, <1>8 DEF Serves, Rests, Poises, Poised
<1>10. t.session.layer_mon = s.session.layer_mon  BY <1>1, <1>2
<1>11. Switches(s, t)  BY <1>2, <1>6, <1>7, <1>8, <1>9, <1>10 DEF Switches
<1>12. t = Switched(s, on, asleep, layout)  BY DEF t, z, Switched
<1> QED  BY <1>2, <1>11, <1>12

LEMMA UpdatedTwice ==
  ASSUME NEW s, NEW t, NEW u, Updated(s, t), Updated(t, u)
  PROVE  Updated(s, u)
<1>1. Serves(s, u) /\ (Exclusive(s) => Exclusive(t))
  BY ServesTwice DEF Updated, Serves, Follows
<1>2. Modal = {} /\ Exclusive(s) /\ Poised(s) => Poised(t)
  BY DEF Updated, Poised
<1> QED  BY <1>1, <1>2 DEF Updated

LEMMA ServesUpdated ==
  ASSUME NEW s, NEW t, NEW u, Serves(s, t), Updated(t, u)
  PROVE  Updated(s, u)
<1>1. Serves(s, u) /\ (Exclusive(s) => Exclusive(t))
  BY ServesTwice DEF Updated, Serves, Follows
<1> QED  BY <1>1 DEF Updated, Serves, Poises

LEMMA UpdateLayoutFollows ==
  ASSUME NEW s, Guarded(s)
  PROVE  LET t == monitor_update_layout(s)
         IN  Updated(s, t) /\ Follows(s, t) /\ Serves(s, t)
<1> DEFINE placed == [s EXCEPT !.session.layout = LaidOut(s)]
           once == LayoutPass(placed)
           twice == LayoutPass(once)
<1>1. Sound(s) /\ s \in WindowState /\ s.session \in SessionState
  BY SoundFit DEF Guarded, Fit
<1>2. /\ s.enabled \in SUBSET Monitors /\ s.session.asleep \in SUBSET Monitors
      /\ LaidOut(s) \in SUBSET Monitors
  BY <1>1 DEF WindowState, SessionState, LaidOut, ToSet
<1>3. placed = Switched(s, s.enabled, s.session.asleep, LaidOut(s))
  BY <1>1 DEF Switched, WindowState, SessionState
<1>4. monitor_update_layout(s) = IF placed = s THEN LayoutPass(s) ELSE twice
  BY DEF monitor_update_layout
<1> HIDE DEF placed
<1>5. Serves(s, placed) /\ Guarded(placed)
  BY <1>1, <1>2, <1>3, SwitchFollows, ServesGuarded DEF Switches
<1>6. Updated(placed, once) /\ Guarded(once)
  BY <1>5, LayoutPassFollows, ServesGuarded DEF Updated
<1> HIDE DEF once
<1>7. Updated(once, twice)  BY <1>6, LayoutPassFollows
<1> HIDE DEF twice
<1>8. Updated(s, twice)  BY <1>5, <1>6, <1>7, UpdatedTwice, ServesUpdated
<1>9. Updated(s, monitor_update_layout(s))  BY <1>4, <1>8, LayoutPassFollows
<1> QED  BY <1>9 DEF Updated, Serves

(* What is lit is in the list. *)
Wired(s) == s.enabled \subseteq ToSet(s.monitors)

(* What an event of an output does, and the steps it takes. *)
Turns(s, t) ==
  /\ Guarded(t)
  /\ s.session.lock_active /\ t.session.lock_active =>
       t.kbd \in Monitors \cup {None, s.kbd}
  /\ TagsKept(s, t) /\ (Tagged(s) => Tagged(t))
  /\ Exclusive(s) => Exclusive(t)
  /\ Up(s) => Up(t)
  /\ Wired(s) => Wired(t)
  /\ Modal = {} /\ -1 \notin StackSteps /\ Plugged(s) =>
       /\ Plugged(t)
       /\ Exclusive(s) /\ Returned(s) => Returned(t)

(* Once it is over what is lit is drawn. *)
Shows(s, t) == -1 \notin StackSteps /\ Wired(s) /\ Drawn(s) => Drawn(t)

LEMMA FollowsPlugged ==
  ASSUME NEW s, NEW t, Follows(s, t), Plugged(s)
  PROVE  Plugged(t)
<1>1. /\ t.monitors = s.monitors
      /\ t.session.lock_surfaces = s.session.lock_surfaces
      /\ \A l \in Layers : t.session.layer_mon[l] \in {s.session.layer_mon[l], None}
      /\ \A M : Within(M, s) /\ ToSet(s.monitors) \cup {None} \subseteq M => Within(M, t)
  BY DEF Follows, SameLock
<1> QED  BY <1>1 DEF Plugged

LEMMA TurnsSelf == ASSUME NEW s, Guarded(s) PROVE Turns(s, s)
BY DEF Turns, TagsKept

LEMMA TurnsFollows ==
  ASSUME NEW s, NEW r, NEW t, Turns(s, r), Follows(r, t), Up(r) => Up(t),
         Wired(s) => Wired(t), Modal = {} /\ Exclusive(r) /\ Returned(r) => Returned(t)
  PROVE  Turns(s, t)
<1>1. Guarded(t)  BY FollowsGuarded DEF Turns
<1>2. Plugged(r) => Plugged(t)  BY FollowsPlugged
<1>3. TagsKept(s, t)  BY DEF Turns, Follows, TagsKept
<1>4. s.session.lock_active /\ t.session.lock_active =>
        t.kbd \in Monitors \cup {None, s.kbd}
  BY DEF Turns, Follows, SameLock
<1>5. (Tagged(r) => Tagged(t)) /\ (Exclusive(r) => Exclusive(t))  BY DEF Follows
<1> QED  BY <1>1, <1>2, <1>3, <1>4, <1>5 DEF Turns

LEMMA UpdateTurns ==
  ASSUME NEW s, NEW r, Turns(s, r)
  PROVE  LET t == monitor_update_layout(r)
         IN  Turns(s, t) /\ Shows(s, t) /\ t.monitors = r.monitors
<1> DEFINE t == monitor_update_layout(r)
<1>1. Updated(r, t) /\ Follows(r, t)  BY UpdateLayoutFollows DEF Turns
<1> HIDE DEF t
<1>2. t.monitors = r.monitors /\ t.enabled = r.enabled /\ (Up(r) => Up(t))
  BY <1>1 DEF Updated, Serves, Follows, Rests
<1>3. Wired(s) => Wired(t)  BY <1>2 DEF Turns, Wired
<1>4. Modal = {} /\ Exclusive(r) /\ Returned(r) => Returned(t)
  BY <1>1 DEF Updated, Poised
<1>5. Turns(s, t)  BY <1>1, <1>2, <1>3, <1>4, TurnsFollows
<1>6. Wired(t) /\ -1 \notin StackSteps => Drawn(t)
  BY <1>1 DEF Updated, LitDrawn, Wired, Drawn, DrawnOn
<1>7. Shows(s, t)  BY <1>3, <1>6 DEF Shows
<1> QED  BY <1>2, <1>5, <1>7 DEF t

LEMMA SwitchTurns ==
  ASSUME NEW s, NEW r, Turns(s, r), NEW on \in SUBSET Monitors,
         NEW asleep \in SUBSET Monitors, NEW layout \in SUBSET Monitors,
         on \subseteq r.enabled \cup ToSet(r.monitors)
  PROVE  LET t == Switched(r, on, asleep, layout)
         IN  Turns(s, t) /\ t.monitors = r.monitors
<1> DEFINE t == Switched(r, on, asleep, layout)
<1>1. /\ Follows(r, t) /\ t.enabled = on /\ (Up(r) => Up(t))
      /\ Returned(r) => Returned(t)
  <2>1. Sound(r)  BY DEF Turns, Guarded
  <2>2. Switches(r, t) /\ t.enabled = on  BY <2>1, SwitchFollows
  <2> QED  BY <2>2 DEF Switches
<1> HIDE DEF t
<1>2. t.monitors = r.monitors  BY <1>1 DEF Follows
<1>3. Wired(s) => Wired(t)  BY <1>1, <1>2 DEF Turns, Wired
<1> QED  BY <1>1, <1>2, <1>3, TurnsFollows DEF t

(* A new output comes into the list before the layout is updated. *)
LEMMA NewOutputOpens ==
  ASSUME Guarded(wm), NEW m \in Monitors, NewOutput(m)
  PROVE  \E t : /\ wm' = monitor_update_layout(t) /\ Turns(wm, t)
                /\ t.mapped = wm.mapped /\ t.linked = wm.linked
                /\ t.mon = wm.mon /\ t.selected_monitor = wm.selected_monitor
<1>0. /\ Fit(wm.session) /\ wm \in WindowState /\ Listed(wm) /\ Sound(wm)
      /\ wm.session \in SessionState /\ Locking(wm)
  BY SoundFit DEF Guarded, Fit
<1>1. PICK lit \in BOOLEAN :
        wm' = monitor_update_layout(
                [wm EXCEPT !.monitors = <<m>> \o @,
                           !.enabled = IF lit THEN @ \cup {m} ELSE @ \ {m},
                           !.session.layout = @ \cup {m},
                           !.tagset[m] = [i \in {0, 1} |-> {1}],
                           !.seltags[m] = 0])
  BY Zenon DEF NewOutput
<1> DEFINE list == <<m>> \o wm.monitors
           on == IF lit THEN wm.enabled \cup {m} ELSE wm.enabled \ {m}
           z == [wm.session EXCEPT !.layout = wm.session.layout \cup {m}]
           sets == [wm.tagset EXCEPT ![m] = [i \in {0, 1} |-> {1}]]
           sel == [wm.seltags EXCEPT ![m] = 0]
           t == [wm EXCEPT !.monitors = list, !.enabled = on, !.session = z,
                           !.tagset = sets, !.seltags = sel]
<1>2. wm' = monitor_update_layout(t)
  <2>1. [wm EXCEPT !.monitors = <<m>> \o @,
                   !.enabled = IF lit THEN @ \cup {m} ELSE @ \ {m},
                   !.session.layout = @ \cup {m},
                   !.tagset[m] = [i \in {0, 1} |-> {1}],
                   !.seltags[m] = 0] = t
    BY <1>0 DEF WindowState, SessionState
  <2> HIDE DEF t
  <2> QED  BY <1>1, <2>1
<1>3. /\ list \in Seq(Monitors) /\ IsInjective(list)
      /\ ToSet(list) = ToSet(wm.monitors) \cup {m}
  <2>1. /\ wm.monitors \in Seq(Monitors) /\ IsInjective(wm.monitors)
        /\ m \notin ToSet(wm.monitors)
    BY <1>0 DEF WindowState, Sound, NewOutput
  <2>2. list \in Seq(Monitors)  BY <2>1
  <2> QED  BY <2>1, <2>2, HeadSet
<1>4. /\ on \in SUBSET Monitors
      /\ sets \in [Monitors -> [{0, 1} -> SUBSET Tags]]
      /\ sel \in [Monitors -> {0, 1}]
  <2>1. {1} \in SUBSET Tags  BY TagCountAssumption DEF Tags
  <2>2. [i \in {0, 1} |-> {1}] \in [{0, 1} -> SUBSET Tags]  BY <2>1
  <2> QED  BY <1>0, <2>2 DEF WindowState
<1>5. /\ z \in SessionState /\ z.exclusive_focus = wm.session.exclusive_focus
      /\ z.lock_active = wm.session.lock_active
      /\ z.lock_current = wm.session.lock_current
      /\ z.lock_surfaces = wm.session.lock_surfaces
      /\ z.menus_up = wm.session.menus_up /\ z.layers_up = wm.session.layers_up
      /\ z.layers = wm.session.layers /\ z.layer_mon = wm.session.layer_mon
  BY <1>0 DEF SessionState
<1>12. /\ on \subseteq wm.enabled \cup {m}
       /\ \A n \in Monitors \ {m} : sets[n] = wm.tagset[n] /\ sel[n] = wm.seltags[n]
       /\ \A i \in {0, 1} : sets[m][i] = {1}
  BY <1>0 DEF WindowState
<1> HIDE DEF list, on, z, sets, sel
<1>6. /\ t \in WindowState /\ t.session = z /\ t.kbd = wm.kbd
      /\ t.clients = wm.clients /\ t.mapped = wm.mapped
      /\ t.mapwait = wm.mapwait /\ t.monitors = list
      /\ t.focus_stack = wm.focus_stack
      /\ t.mon = wm.mon /\ t.tags = wm.tags /\ t.shown = wm.shown
      /\ t.tagset = sets /\ t.seltags = sel /\ t.linked = wm.linked
      /\ t.selected_monitor = wm.selected_monitor /\ t.enabled = on
  BY <1>0, <1>3, <1>4, <1>5 DEF WindowState
<1> HIDE DEF t
<1>7. Listed(t)  BY <1>0, <1>5, <1>6 DEF Listed
<1>8. Sound(t)  BY <1>0, <1>3, <1>5, <1>6, <1>7 DEF Sound
<1>9. Guarded(t)  BY <1>0, <1>5, <1>6, <1>8 DEF Guarded, Locking
<1>10. Plugged(wm) => Plugged(t)  BY <1>3, <1>5, <1>6 DEF Plugged, Within
<1>13. Tagged(wm) => Tagged(t)  BY <1>6, <1>12 DEF Tagged
<1>14. /\ Exclusive(wm) => Exclusive(t)
       /\ Up(wm) => Up(t)
       /\ Wired(wm) => Wired(t)
  BY <1>3, <1>5, <1>6, <1>12 DEF Exclusive, Up, Wired
<1>15. ASSUME Plugged(wm), Returned(wm)  PROVE Returned(t)
  <2>1. /\ wm.selected_monitor # m /\ \A c \in Clients : wm.mon[c] # m
    BY <1>15, DistinctAssumption DEF Plugged, Within, NewOutput
  <2>2. wm.focus_stack \in Seq(Clients)
        /\ wm.selected_monitor \in Monitors \cup {None}
    BY <1>0 DEF WindowState
  <2>3. \A c : Visible(t, c, wm.selected_monitor) <=> Visible(wm, c, wm.selected_monitor)
    BY <1>6, <1>12, <2>1, <2>2 DEF Visible, Viewed
  <2>4. client_top(t, t.selected_monitor) = client_top(wm, wm.selected_monitor)
    BY <1>6, <2>2, <2>3 DEF client_top, FirstFocused
  <2> QED  BY <1>5, <1>6, <1>15, <2>4 DEF Returned, InFront
<1>11. Turns(wm, t)  BY <1>6, <1>9, <1>10, <1>13, <1>14, <1>15 DEF Turns, TagsKept
<1> QED  BY <1>2, <1>6, <1>11

LEMMA NewOutputTurns ==
  ASSUME Guarded(wm), NEW m \in Monitors, NewOutput(m)
  PROVE  Turns(wm, wm') /\ Shows(wm, wm')
BY NewOutputOpens, UpdateTurns

LEMMA PowerTurns ==
  ASSUME Guarded(wm), NEW m \in Monitors, PowerSetMode(m)
  PROVE  Turns(wm, wm') /\ Shows(wm, wm')
<1>0. /\ wm \in WindowState /\ Sound(wm) /\ wm.session \in SessionState
  BY SoundFit DEF Guarded, Fit
<1>1. PICK on \in BOOLEAN :
        wm' = monitor_update_layout(
                [wm EXCEPT !.enabled = IF on THEN @ \cup {m} ELSE @ \ {m},
                           !.session.asleep = IF on THEN @ \ {m} ELSE @ \cup {m}])
  BY Zenon DEF PowerSetMode
<1> DEFINE lit == IF on THEN wm.enabled \cup {m} ELSE wm.enabled \ {m}
           off == IF on THEN wm.session.asleep \ {m} ELSE wm.session.asleep \cup {m}
           t == Switched(wm, lit, off, wm.session.layout)
<1>2. wm' = monitor_update_layout(t)
  <2>1. [wm EXCEPT !.enabled = IF on THEN @ \cup {m} ELSE @ \ {m},
                   !.session.asleep = IF on THEN @ \ {m} ELSE @ \cup {m}] = t
    BY <1>0 DEF Switched, WindowState, SessionState
  <2> HIDE DEF t
  <2> QED  BY <1>1, <2>1
<1>3. lit \in SUBSET Monitors /\ off \in SUBSET Monitors
      /\ wm.session.layout \in SUBSET Monitors
      /\ lit \subseteq wm.enabled \cup ToSet(wm.monitors)
  BY <1>0 DEF WindowState, SessionState, PowerSetMode
<1> HIDE DEF lit, off
<1>4. Turns(wm, t)  BY <1>3, TurnsSelf, SwitchTurns
<1> HIDE DEF t
<1> QED  BY <1>2, <1>4, UpdateTurns

(* The commits of monitor_apply_or_test_config, one output after the other. *)
CommitTurn(a, s, m) == Commit(s, m, a.on, a.moved)
CommitInv(a, i, s) == Turns(a.base, s) /\ s.monitors = a.base.monitors
Commits == INSTANCE Loops WITH Turn <- CommitTurn, Inv <- CommitInv

LEMMA ConfigTurns ==
  ASSUME Guarded(wm), ConfigApply
  PROVE  Turns(wm, wm') /\ Shows(wm, wm')
<1>1. PICK On \in SUBSET ToSet(wm.monitors), Shifted \in SUBSET ToSet(wm.monitors) :
        wm' = monitor_update_layout(Committed(wm, On, Shifted))
  BY DEF ConfigApply
<1> DEFINE a == [base |-> wm, on |-> On, moved |-> Shifted]
           list == wm.monitors
           t == Commits!Fold(a, wm, list)
<1>0. list \in Seq(Monitors) /\ Sound(wm)
  <2>1. Sound(wm)  BY DEF Guarded
  <2>2. wm \in WindowState  BY <2>1, SoundFit
  <2> QED  BY <2>1, <2>2 DEF WindowState
<1>2. wm' = monitor_update_layout(t)
  <2>1. t = Committed(wm, On, Shifted)
    BY DEF Commits!Fold, Commits!Greatest,
           Committed, FoldLeft, MapThenFoldSet, CommitTurn, Max
  <2> QED  BY <1>1, <2>1
<1>3. CommitInv(a, 0, wm)  BY TurnsSelf DEF CommitInv
<1>4. ASSUME NEW i \in 1 .. Len(list), NEW q, CommitInv(a, i - 1, q)
      PROVE  CommitInv(a, i, CommitTurn(a, q, list[i]))
  <2> DEFINE m == list[i]
             lit == IF m \in On THEN q.enabled \cup {m} ELSE q.enabled \ {m}
             off == q.session.asleep \ {m}
             r == Switched(q, lit, off, q.session.layout)
  <2>1. /\ Turns(wm, q) /\ Sound(q) /\ q.monitors = list
        /\ m \in Monitors /\ m \in ToSet(list)
    BY <1>0, <1>4 DEF CommitInv, Turns, Guarded, ToSet
  <2>2. q \in WindowState /\ q.session \in SessionState  BY <2>1, SoundFit DEF Fit
  <2> HIDE DEF m
  <2>3. [q EXCEPT !.enabled = IF m \in On THEN @ \cup {m} ELSE @ \ {m},
                  !.session.asleep = @ \ {m}] = r
    BY <2>2 DEF Switched, WindowState, SessionState
  <2>4. CommitTurn(a, q, m) \in {r, monitor_update_layout(r)}
    <3> HIDE DEF r
    <3> QED  BY <2>3 DEF CommitTurn, Commit
  <2>5. lit \in SUBSET Monitors /\ off \in SUBSET Monitors
        /\ q.session.layout \in SUBSET Monitors
        /\ lit \subseteq q.enabled \cup ToSet(q.monitors)
    BY <2>1, <2>2 DEF WindowState, SessionState
  <2> HIDE DEF lit, off
  <2>6. Turns(wm, r) /\ r.monitors = list  BY <2>1, <2>5, SwitchTurns
  <2> HIDE DEF r
  <2>7. LET u == monitor_update_layout(r) IN Turns(wm, u) /\ u.monitors = list
    BY <2>6, UpdateTurns
  <2>8. LET u == CommitTurn(a, q, m) IN Turns(a.base, u) /\ u.monitors = list
    BY <2>4, <2>6, <2>7
  <2> QED  BY <2>8 DEF CommitInv, m
<1>5. Turns(wm, t)
  <2>1. CommitInv(a, Len(list), t)
    <3> HIDE DEF a, list
    <3> QED  BY <1>0, <1>3, <1>4, LeastMembers, Commits!LoopKeeps
  <2> HIDE DEF t
  <2> QED  BY <2>1 DEF CommitInv
<1> HIDE DEF t
<1> QED  BY <1>2, <1>5, UpdateTurns

(* An output is gone: first its layer surfaces, then its place in the list
   and its lock surface, then its windows. *)
DestroyTurn(a, s, l) ==
  IF s.session.layer_mon[l] # a.m THEN s
  ELSE Unlisted(IF l \in s.session.layers_up
                THEN monitor_handle_layer_unmap(s, l, TRUE) ELSE s, l)
DestroyInv(a, i, s) ==
  /\ Follows(a.base, s) /\ Rests(a.base, s)
  /\ \A j \in 1 .. i : s.session.layer_mon[a.base.session.layers[j]] # a.m
Destroying == INSTANCE Loops WITH Turn <- DestroyTurn, Inv <- DestroyInv

LEMMA LayersDestroyedFollows ==
  ASSUME NEW s, Sound(s), NEW m \in Monitors
  PROVE  LET t == LayersDestroyed(s, m)
         IN  /\ Follows(s, t) /\ Rests(s, t)
             /\ \A l \in Layers : t.session.layer_mon[l] # m
<1> DEFINE list == s.session.layers
           a == [base |-> s, m |-> m]
           t == Destroying!Fold(a, s, list)
<1>0. /\ list \in Seq(Layers) /\ Len(list) \in Nat /\ m # None
      /\ \A l \in Layers : s.session.layer_mon[l] # None => l \in ToSet(list)
  <2>1. Fit(s.session)  BY SoundFit
  <2>2. s.session \in SessionState
        /\ \A l \in Layers : s.session.layer_mon[l] # None => l \in ToSet(list)
    BY <2>1 DEF Fit
  <2> QED  BY <2>2, DistinctAssumption DEF SessionState
<1>1. t = LayersDestroyed(s, m)
  BY DEF Destroying!Fold, Destroying!Greatest, LayersDestroyed, FoldLeft, MapThenFoldSet,
         DestroyTurn, Max
<1> HIDE DEF t
<1>2. DestroyInv(a, 0, s)  BY ServesSelf DEF DestroyInv, Serves
<1>3. ASSUME NEW i \in 1 .. Len(list), NEW r, DestroyInv(a, i - 1, r)
      PROVE  DestroyInv(a, i, DestroyTurn(a, r, list[i]))
  <2> DEFINE l == list[i]
             q == IF l \in r.session.layers_up
                  THEN monitor_handle_layer_unmap(r, l, TRUE) ELSE r
             u == IF r.session.layer_mon[l] # m THEN r ELSE Unlisted(q, l)
  <2>1. /\ Follows(s, r) /\ Rests(s, r) /\ Sound(r)
        /\ \A j \in 1 .. i - 1 : r.session.layer_mon[list[j]] # m
    BY <1>3 DEF DestroyInv, Follows
  <2>2. l \in Layers /\ \A j \in 1 .. i : list[j] \in Layers  BY <1>0
  <2>3. DestroyTurn(a, r, list[i]) = u  BY DEF DestroyTurn
  <2> HIDE DEF l
  <2>4. Serves(r, q) /\ Sound(q) /\ q.session \in SessionState
    <3>1. Serves(r, monitor_handle_layer_unmap(r, l, TRUE))
      BY <2>1, <2>2, LayerUnmapFollows
    <3>2. Serves(r, q)  BY <2>1, <3>1, ServesSelf
    <3> HIDE DEF q
    <3>3. Sound(q)  BY <3>2 DEF Serves, Follows
    <3> QED  BY <3>2, <3>3, SoundFit DEF Fit
  <2> HIDE DEF q
  <2>5. /\ Serves(q, Unlisted(q, l))
        /\ Unlisted(q, l).session.layer_mon = [q.session.layer_mon EXCEPT ![l] = None]
    BY <2>2, <2>4, UnlistedSound
  <2>6. Serves(r, u) /\ u.session.layer_mon[l] # m
    <3>1. CASE r.session.layer_mon[l] # m  BY <2>1, <3>1, ServesSelf
    <3>2. CASE r.session.layer_mon[l] = m
      <4>1. q.session.layer_mon \in [Layers -> Monitors \cup {None}]
        BY <2>4 DEF SessionState
      <4>2. Serves(r, Unlisted(q, l))  BY <2>4, <2>5, ServesTwice
      <4>3. Unlisted(q, l).session.layer_mon[l] = None  BY <2>2, <2>5, <4>1
      <4> QED  BY <1>0, <3>2, <4>2, <4>3
    <3> QED  BY <3>1, <3>2
  <2> HIDE DEF u
  <2>7. Follows(s, u) /\ Rests(s, u)
    BY <2>1, <2>6, FollowsTwice, RestsTwice DEF Serves
  <2>8. \A j \in 1 .. i : u.session.layer_mon[list[j]] # m
    <3>1. \A j \in 1 .. i : j = i \/ j \in 1 .. i - 1  BY <1>0
    <3>2. \A k \in Layers : u.session.layer_mon[k] \in {r.session.layer_mon[k], None}
      BY <2>6 DEF Serves, Follows
    <3>3. \A j \in 1 .. i - 1 : j \in 1 .. i  BY <1>0
    <3>4. \A j \in 1 .. i - 1 : u.session.layer_mon[list[j]] # m
      BY <1>0, <2>1, <2>2, <3>2, <3>3
    <3> QED  BY <2>6, <3>1, <3>4 DEF l
  <2> QED  BY <2>3, <2>7, <2>8 DEF DestroyInv
<1>4. DestroyInv(a, Len(list), t)
  <2> HIDE DEF list, a
  <2> QED  BY <1>0, <1>2, <1>3, LeastMembers, Destroying!LoopKeeps DEF t
<1>5. Follows(s, t) /\ Rests(s, t) /\ \A j \in 1 .. Len(list) : t.session.layer_mon[list[j]] # m
  BY <1>4 DEF DestroyInv
<1>6. \A l \in Layers : t.session.layer_mon[l] # m
  <2>1. \A l \in Layers : t.session.layer_mon[l] \in {s.session.layer_mon[l], None}
    BY <1>5 DEF Follows
  <2>2. \A l \in ToSet(list) : \E j \in 1 .. Len(list) : list[j] = l
    BY <1>0 DEF ToSet
  <2> QED  BY <1>0, <1>5, <2>1, <2>2
<1> QED  BY <1>1, <1>5, <1>6

(* Its place in the list. *)
LEMMA UnpluggedSound ==
  ASSUME NEW s, Sound(s), NEW m \in Monitors
  PROVE  LET t == [s EXCEPT !.monitors = Without(@, m)]
         IN  /\ Sound(t) /\ SameView(s, t)
             /\ t.session = s.session /\ t.kbd = s.kbd
             /\ t.mon = s.mon /\ t.tags = s.tags
             /\ t.selected_monitor = s.selected_monitor
             /\ ToSet(t.monitors) = ToSet(s.monitors) \ {m}
<1> DEFINE list == Without(s.monitors, m)
           t == [s EXCEPT !.monitors = list]
<1>0. /\ s \in WindowState /\ Listed(s) /\ IsInjective(s.monitors)
      /\ s.monitors \in Seq(Monitors)
  <2>1. s \in WindowState /\ Listed(s)  BY SoundFit
  <2> QED  BY <2>1 DEF Sound, WindowState
<1>1. /\ list \in Seq(Monitors) /\ IsInjective(list)
      /\ ToSet(list) = ToSet(s.monitors) \ {m}
  BY <1>0, WithoutType, WithoutSet
<1>2. t = [s EXCEPT !.monitors = Without(@, m)]  BY <1>0 DEF WindowState
<1> HIDE DEF list
<1>3. /\ t \in WindowState /\ t.session = s.session /\ t.kbd = s.kbd
      /\ t.clients = s.clients /\ t.mapped = s.mapped
      /\ t.mapwait = s.mapwait /\ t.monitors = list
      /\ t.focus_stack = s.focus_stack
      /\ t.mon = s.mon /\ t.tags = s.tags /\ t.shown = s.shown
      /\ t.tagset = s.tagset /\ t.seltags = s.seltags
      /\ t.selected_monitor = s.selected_monitor /\ t.enabled = s.enabled
  BY <1>0, <1>1 DEF WindowState
<1> HIDE DEF t
<1>4. Listed(t)  BY <1>0, <1>3 DEF Listed
<1>5. Sound(t)  BY <1>1, <1>3, <1>4 DEF Sound
<1>6. SameView(s, t)  BY <1>3 DEF SameView, SameTags
<1> QED  BY <1>1, <1>2, <1>3, <1>5, <1>6

LEMMA DestroyTurns ==
  ASSUME Guarded(wm), NEW m \in Monitors, monitor_handle_destroy(m)
  PROVE  Turns(wm, wm') /\ Shows(wm, wm')
<1> DEFINE d == LayersDestroyed(wm, m)
           bare == [d EXCEPT !.monitors = Without(@, m)]
           unlocked == IF m \in ToSet(bare.session.lock_surfaces)
                       THEN lock_handle_surface_destroy(bare, m) ELSE bare
           removed == [unlocked EXCEPT !.session.layout = @ \ {m}]
           updated == IF removed = unlocked THEN removed
                      ELSE monitor_update_layout(removed)
           closed == monitor_close(updated, m)
           last == [closed EXCEPT !.enabled = @ \ {m}, !.session.asleep = @ \ {m}]
<1>0. Sound(wm) /\ Locking(wm) /\ m # None
  BY DistinctAssumption DEF Guarded
<1>1. wm' = last  BY DEF monitor_handle_destroy
<1>2. Follows(wm, d) /\ Rests(wm, d) /\ \A l \in Layers : d.session.layer_mon[l] # m
  BY <1>0, LayersDestroyedFollows
<1> HIDE DEF d
<1>3. /\ Sound(bare) /\ SameView(d, bare) /\ bare.session = d.session /\ bare.kbd = d.kbd
      /\ bare.mon = d.mon /\ bare.tags = d.tags
      /\ bare.selected_monitor = d.selected_monitor
      /\ ToSet(bare.monitors) = ToSet(d.monitors) \ {m}
  <2>1. Sound(d)  BY <1>2 DEF Follows
  <2> QED  BY <2>1, UnpluggedSound
<1> HIDE DEF bare
<1>4. /\ Bared(bare, unlocked)
      /\ m \notin ToSet(unlocked.session.lock_surfaces)
      /\ wm.session.lock_surfaces = <<>> => unlocked.session.lock_surfaces = <<>>
  <2>1. bare.session.lock_surfaces = wm.session.lock_surfaces
    BY <1>2, <1>3 DEF Follows, SameLock
  <2>2. Guarded(bare)
    BY <1>0, <1>2, <1>3, <2>1 DEF Guarded, Locking, Follows, SameLock
  <2> QED  BY <2>1, <2>2, OwnSurfaceBares
<1> HIDE DEF unlocked
<1>5. Serves(unlocked, removed) /\ \A M : Within(M, unlocked) => Within(M, removed)
  <2>1. Sound(unlocked)  BY <1>4 DEF Bared
  <2>2. unlocked \in WindowState /\ unlocked.session \in SessionState
    BY <2>1, SoundFit DEF Fit
  <2> DEFINE lay == unlocked.session.layout \ {m}
  <2>3. /\ unlocked.enabled \in SUBSET Monitors
        /\ unlocked.session.asleep \in SUBSET Monitors
        /\ lay \in SUBSET Monitors
    BY <2>2 DEF WindowState, SessionState
  <2> DEFINE t == Switched(unlocked, unlocked.enabled, unlocked.session.asleep, lay)
  <2>4. removed = t
    <3> HIDE DEF lay
    <3>1. removed = [unlocked EXCEPT !.session.layout = lay]  BY DEF lay
    <3> HIDE DEF removed
    <3> QED  BY <2>2, <3>1 DEF Switched, WindowState, SessionState
  <2> HIDE DEF lay, removed
  <2>5. /\ Serves(unlocked, t) /\ t.mon = unlocked.mon
        /\ t.selected_monitor = unlocked.selected_monitor
    <3>1. Switches(unlocked, t) /\ t.enabled = unlocked.enabled
      BY <2>1, <2>3, SwitchFollows
    <3> QED  BY <3>1 DEF Switches
  <2> HIDE DEF t
  <2> QED  BY <2>4, <2>5 DEF Within
<1> HIDE DEF removed
<1>6. Follows(unlocked, updated) /\ Serves(unlocked, updated)
  <2>1. Guarded(unlocked)
    <3>1. /\ unlocked.session.lock_current = wm.session.lock_current
          /\ unlocked.session.lock_active = wm.session.lock_active
      BY <1>2, <1>3, <1>4 DEF Follows, SameLock, Bared
    <3> QED  BY <1>0, <1>4, <3>1 DEF Guarded, Locking, Bared
  <2>2. Guarded(removed)  BY <1>5, <2>1, ServesGuarded
  <2>3. Serves(removed, monitor_update_layout(removed))
    BY <2>2, UpdateLayoutFollows
  <2>4. Serves(unlocked, updated)  BY <1>5, <2>3, ServesTwice
  <2> QED  BY <2>4 DEF Serves
<1> HIDE DEF updated
<1> DEFINE plugged == ToSet(unlocked.monitors) \cup {None}
<1>7. /\ Follows(updated, closed) /\ Serves(updated, closed)
      /\ Modal = {} => Returned(closed)
      /\ /\ Modal = {} /\ -1 \notin StackSteps
         /\ m \notin ToSet(unlocked.monitors)
         /\ Within(plugged \cup {m}, updated)
         => Within(plugged, closed)
  <2>1. Sound(updated) /\ updated.monitors = unlocked.monitors
    BY <1>6 DEF Follows
  <2> QED  BY <2>1, CloseFollows
<1> HIDE DEF closed
<1>8. /\ Follows(closed, last) /\ \A M : Within(M, closed) => Within(M, last)
      /\ last.enabled = closed.enabled \ {m}
      /\ Up(closed) => Up(last)
      /\ Returned(closed) => Returned(last)
      /\ \A n : DrawnOn(closed, n) => DrawnOn(last, n)
  <2>1. Sound(closed)  BY <1>7 DEF Follows
  <2>2. closed \in WindowState /\ closed.session \in SessionState
    BY <2>1, SoundFit DEF Fit
  <2> DEFINE on == closed.enabled \ {m}
             off == closed.session.asleep \ {m}
  <2>3. /\ on \in SUBSET Monitors /\ off \in SUBSET Monitors
        /\ closed.session.layout \in SUBSET Monitors
    BY <2>2 DEF WindowState, SessionState
  <2> DEFINE t == Switched(closed, on, off, closed.session.layout)
  <2>4. last = t
    <3> HIDE DEF on, off
    <3>1. last = [closed EXCEPT !.enabled = on, !.session.asleep = off]
      BY DEF on, off
    <3> HIDE DEF last
    <3> QED  BY <2>2, <3>1 DEF Switched, WindowState, SessionState
  <2>6. on \subseteq closed.enabled /\ on = closed.enabled \ {m}  OBVIOUS
  <2> HIDE DEF on, off, last
  <2>5. /\ Follows(closed, t) /\ t.mon = closed.mon
        /\ t.enabled = on
        /\ Up(closed) => Up(t)
        /\ Returned(closed) => Returned(t)
        /\ \A n : DrawnOn(closed, n) => DrawnOn(t, n)
        /\ t.selected_monitor = closed.selected_monitor
    <3>1. Switches(closed, t) /\ t.enabled = on  BY <2>1, <2>3, SwitchFollows
    <3> QED  BY <2>6, <3>1 DEF Switches
  <2> HIDE DEF t
  <2> QED  BY <2>4, <2>5, <2>6 DEF Within
<1> HIDE DEF last
<1>9. Follows(unlocked, last)  BY <1>6, <1>7, <1>8, FollowsTwice
<1>10. /\ Sound(last) /\ last.monitors = unlocked.monitors
       /\ ToSet(last.monitors) = ToSet(wm.monitors) \ {m}
  BY <1>2, <1>3, <1>4, <1>9 DEF Follows, Bared
<1>11. Guarded(last)
  <2>1. /\ last.session.lock_current = wm.session.lock_current
        /\ last.session.lock_active = wm.session.lock_active
        /\ last.session.lock_surfaces = unlocked.session.lock_surfaces
    BY <1>2, <1>3, <1>4, <1>9 DEF Follows, SameLock, Bared
  <2> QED  BY <1>0, <1>4, <1>10, <2>1 DEF Guarded, Locking
<1>12. wm.session.lock_active => last.kbd \in Monitors \cup {None, wm.kbd}
  <2>1. wm.session.lock_active => unlocked.session.lock_active
    BY <1>2, <1>3, <1>4 DEF Follows, SameLock, Bared
  <2>2. wm.session.lock_active => d.kbd \in Monitors \cup {None, wm.kbd}
    BY <1>2 DEF Follows
  <2>3. unlocked.kbd \in Monitors \cup {None, d.kbd}  BY <1>3, <1>4 DEF Bared
  <2>4. unlocked.session.lock_active => last.kbd \in Monitors \cup {None, unlocked.kbd}
    BY <1>9 DEF Follows
  <2> QED  BY <2>1, <2>2, <2>3, <2>4
<1>13. TagsKept(wm, last)
  <2>1. TagsKept(wm, d) /\ TagsKept(unlocked, last) /\ unlocked.tags = d.tags
    BY <1>2, <1>3, <1>4, <1>9 DEF Follows, Bared
  <2> QED  BY <2>1 DEF TagsKept
<1>14. ASSUME Modal = {}, -1 \notin StackSteps, Plugged(wm)
       PROVE  Plugged(last)
  <2> DEFINE all == ToSet(wm.monitors) \cup {None}
  <2>1. /\ ToSet(unlocked.monitors) = ToSet(wm.monitors) \ {m}
        /\ plugged \cup {m} = all /\ m \notin ToSet(unlocked.monitors)
    BY <1>0, <1>10 DEF monitor_handle_destroy
  <2>2. Within(all, unlocked)
    <3>1. Within(all, wm)  BY <1>14 DEF Plugged
    <3>2. Within(all, d)  BY <1>2, <3>1 DEF Follows
    <3>3. Within(all, bare)  BY <1>3, <3>2 DEF Within
    <3> QED  BY <1>4, <3>3 DEF Bared
  <2>3. Within(all, updated)
    <3>1. ToSet(unlocked.monitors) \cup {None} \subseteq all  BY <2>1
    <3> QED  BY <1>6, <2>2, <3>1 DEF Follows
  <2>4. Within(plugged, last)  BY <1>7, <1>8, <1>14, <2>1, <2>3
  <2>5. \A l \in Layers : last.session.layer_mon[l] \in plugged
    <3>1. \A l \in Layers : wm.session.layer_mon[l] \in all  BY <1>14 DEF Plugged
    <3>2. \A l \in Layers : d.session.layer_mon[l] \in {wm.session.layer_mon[l], None}
      BY <1>2 DEF Follows
    <3>3. unlocked.session.layer_mon = d.session.layer_mon
      BY <1>3, <1>4 DEF Bared
    <3>4. \A l \in Layers :
            last.session.layer_mon[l] \in {unlocked.session.layer_mon[l], None}
      BY <1>9 DEF Follows
    <3> QED  BY <1>2, <2>1, <3>1, <3>2, <3>3, <3>4
  <2>6. ToSet(last.session.lock_surfaces) \subseteq plugged
    <3>1. last.session.lock_surfaces = unlocked.session.lock_surfaces
      BY <1>9 DEF Follows, SameLock
    <3>2. ToSet(unlocked.session.lock_surfaces) \subseteq ToSet(wm.session.lock_surfaces)
      BY <1>2, <1>3, <1>4 DEF Follows, SameLock, Bared
    <3>3. ToSet(wm.session.lock_surfaces) \subseteq all  BY <1>14 DEF Plugged
    <3> QED  BY <1>4, <2>1, <3>1, <3>2, <3>3
  <2> QED  BY <1>10, <2>4, <2>5, <2>6 DEF Plugged
<1>15. Tagged(wm) => Tagged(last)
  <2>1. (Tagged(wm) => Tagged(d)) /\ (Tagged(unlocked) => Tagged(last))
    BY <1>2, <1>9 DEF Follows
  <2>2. Tagged(d) => Tagged(unlocked)
    BY <1>3, <1>4, SameTagged DEF Bared, SameView
  <2> QED  BY <2>1, <2>2
<1>16. Exclusive(wm) => Exclusive(last)
  <2>1. (Exclusive(wm) => Exclusive(d)) /\ (Exclusive(unlocked) => Exclusive(last))
    BY <1>2, <1>9 DEF Follows
  <2>2. Exclusive(d) => Exclusive(unlocked)
    BY <1>3, <1>4, DistinctAssumption DEF Bared, Exclusive
  <2> QED  BY <2>1, <2>2
<1>17. Up(wm) => Up(last)
  <2>1. (Up(wm) => Up(d)) /\ (Up(unlocked) => Up(last))
    BY <1>2, <1>6, <1>7, <1>8 DEF Serves, Rests
  <2>2. Up(d) => Up(unlocked)
    BY <1>3, <1>4, DistinctAssumption DEF Bared, Up
  <2> QED  BY <2>1, <2>2
<1>18. last.enabled = wm.enabled \ {m}
  <2>1. d.enabled = wm.enabled /\ closed.enabled = unlocked.enabled
    BY <1>2, <1>6, <1>7 DEF Serves, Rests
  <2>2. unlocked.enabled = d.enabled  BY <1>3, <1>4 DEF Bared, SameView
  <2> QED  BY <1>8, <2>1, <2>2
<1>19. Wired(wm) => Wired(last)  BY <1>10, <1>18 DEF Wired
<1>20. Modal = {} => Returned(last)  BY <1>7, <1>8
<1>21. Shows(wm, last)
  <2>1. ASSUME -1 \notin StackSteps, NEW n, DrawnOn(wm, n)  PROVE DrawnOn(last, n)
    <3>1. DrawnOn(d, n)  BY <1>2, <2>1 DEF Rests
    <3>2. DrawnOn(unlocked, n)
      BY <1>3, <1>4, <3>1 DEF Bared, SameView, SameTags, DrawnOn, Visible, Viewed
    <3>3. DrawnOn(updated, n)  BY <1>6, <2>1, <3>2 DEF Serves, Rests
    <3>4. DrawnOn(closed, n)  BY <1>7, <2>1, <3>3 DEF Serves, Rests
    <3> QED  BY <1>8, <3>4
  <2> QED  BY <2>1, DrawnOnAll DEF Shows
<1> QED
  BY <1>1, <1>11, <1>12, <1>13, <1>14, <1>15, <1>16, <1>17, <1>19, <1>20, <1>21 DEF Turns

LEMMA OutputTurns ==
  ASSUME Guarded(wm), OutputEvent
  PROVE  Turns(wm, wm') /\ Shows(wm, wm')
<1>1. CASE RequestState
  <2>1. Turns(wm, wm)  BY TurnsSelf
  <2> QED  BY <1>1, <2>1, UpdateTurns DEF RequestState
<1> QED
  BY <1>1, NewOutputTurns, DestroyTurns, PowerTurns, ConfigTurns DEF OutputEvent

-----------------------------------------------------------------------------
(* With outputs that come and go: the type, and that the pointers of the
   session point to surfaces that are there and the locker has what it locked. *)
LEMMA GuardedStep == Guarded(wm) /\ [OutputsNext]_wm => Guarded(wm)'
<1>1. CASE UNCHANGED wm
  BY <1>1 DEF Guarded, Sound, Locking, Listed
<1>2. ASSUME Guarded(wm), FocusNext  PROVE Guarded(wm')
  BY <1>2, FocusMinds DEF Minds
<1>3. ASSUME Guarded(wm), OutputEvent  PROVE Guarded(wm')
  BY <1>3, OutputTurns DEF Turns
<1> QED
  BY <1>1, <1>2, <1>3 DEF OutputsNext, Guarded, Sound, Locking, Listed

LEMMA GuardedAlways == OutputsSpec => []Guarded(wm)
<1>1. OutputsInit => Guarded(wm)  BY GuardedStart DEF OutputsInit
<1> QED  BY <1>1, GuardedStep, PTL DEF OutputsSpec

(* As long as the outputs stay it is the same compositor: what is true of
   OutputsSpec is true of FocusSpec. *)
LEMMA OutputsMayStay == FocusSpec => OutputsSpec
<1>1. WindowsInit => OutputsInit  BY DEF WindowsInit, OutputsInit
<1>2. [FocusNext]_wm => [OutputsNext]_wm  BY DEF OutputsNext
<1> QED  BY <1>1, <1>2, PTL DEF FocusSpec, OutputsSpec

(* Every handler leaves every field of the state with its type, also while
   outputs come and go under windows, layer surfaces, menus and the lock. *)
THEOREM OutputsTypeCorrect == OutputsSpec => []TypeOK
<1>1. Guarded(wm) => TypeOK  BY SoundFit DEF Guarded, TypeOK
<1> QED  BY <1>1, GuardedAlways, PTL

(* exclusive_focus never outlives the surface it points to: the unmap
   handlers of layer surfaces and menus clear it, and so does an output that
   takes its layer surfaces with it (monitor_handle_layer_unmap,
   client_handle_unmap, monitor_handle_destroy). *)
THEOREM ExclusiveStaysUp == OutputsSpec => []ExclusiveIsUp
<1>1. Guarded(wm) => ExclusiveIsUp  BY DEF Guarded, Sound, ExclusiveIsUp
<1> QED  BY <1>1, GuardedAlways, PTL

(* From lock_handle_new_lock to the unlock, or for good if the locker died,
   no handler gives the keyboard to a window, a menu or a layer surface:
   neither client_focus, nor monitor_arrange_layers, nor an output that comes
   or goes. *)
THEOREM LockHolds == OutputsSpec => LockedOut
<1> DEFINE Holds ==
      /\ wm'.session.lock_active => wm'.kbd \notin Clients
      /\ wm.session.lock_active /\ wm'.session.lock_active =>
           wm'.kbd \in Monitors \cup {None, wm.kbd}
<1>1. Guarded(wm) /\ [OutputsNext]_wm => [Holds]_wm
  <2> SUFFICES ASSUME Guarded(wm), OutputsNext  PROVE Holds
    OBVIOUS
  <2>1. Minds(wm, wm') \/ Turns(wm, wm')
    BY FocusMinds, OutputTurns DEF OutputsNext
  <2>2. Guarded(wm')  BY <2>1 DEF Minds, Turns
  <2>3. wm'.session.lock_active => wm'.kbd \notin Clients
    BY <2>2, SoundFit DEF Guarded
  <2> QED  BY <2>1, <2>3 DEF Minds, Turns
<1> QED  BY <1>1, GuardedAlways, PTL DEF OutputsSpec, LockedOut

(* A window that has tags has the same ones after its output went dark, was
   unplugged or came back: monitor_close moves windows with the tags they
   have, and setting a window's monitor only gives tags to one without. *)
THEOREM TagsSurvive == OutputsSpec => TagsSurviveUnplug
<1> DEFINE Keeps ==
      OutputEvent => \A c \in wm.mapped : wm.tags[c] \in {{}, wm'.tags[c]}
<1>1. Guarded(wm) /\ [OutputsNext]_wm => [Keeps]_wm
  <2> SUFFICES ASSUME Guarded(wm), OutputEvent, NEW c \in wm.mapped
               PROVE  wm.tags[c] \in {{}, wm'.tags[c]}
    OBVIOUS
  <2>1. TagsKept(wm, wm')  BY OutputTurns DEF Turns
  <2>2. c \in Clients
    <3>1. wm \in WindowState  BY SoundFit DEF Guarded
    <3> QED  BY <3>1 DEF WindowState
  <2> QED  BY <2>1, <2>2 DEF TagsKept
<1> QED  BY <1>1, GuardedAlways, PTL DEF OutputsSpec, TagsSurviveUnplug

(* The tiling order and the focus stack agree while outputs come and go, if
   no binding moves a window up the stack. *)
THEOREM ListsAgreeUnplugged ==
  ASSUME -1 \notin StackSteps
  PROVE  OutputsSpec => []BothListsHoldTheMapped
<1>1. Guarded(wm) => BothListsHoldTheMapped
  BY DEF Guarded, Sound, Listed, BothListsHoldTheMapped
<1> QED  BY <1>1, GuardedAlways, PTL

-----------------------------------------------------------------------------
(* What the windows look like while outputs come and go. *)
Wiring ==
  /\ Guarded(wm) /\ Tagged(wm) /\ Up(wm) /\ Wired(wm)
  /\ Drawing => Drawn(wm)
  /\ Modal = {} /\ -1 \notin StackSteps => Plugged(wm)

(* A list of the outputs of a set, each once, holds all of them. *)
LEMMA SetToSeqsIn ==
  ASSUME NEW S, IsFiniteSet(S), NEW list \in SetToSeqs(S)
  PROVE  ToSet(list) = S
<1> DEFINE n == Cardinality(S)
           D == 1 .. n
<1>1. n \in Nat  BY FS_CardinalityType
<1>2. list \in [D -> S] /\ \A i, j \in D : i # j => list[i] # list[j]
  BY DEF SetToSeqs
<1>3. IsFiniteSet(D) /\ Cardinality(D) = n
  <2> HIDE DEF n
  <2>1. IsFiniteSet(1 .. n) /\ Cardinality(1 .. n) = IF 1 > n THEN 0 ELSE n - 1 + 1
    BY <1>1, FS_Interval
  <2> QED  BY <1>1, <2>1
<1> HIDE DEF D
<1>4. list \in Injection(D, S)  BY <1>2 DEF Injection, IsInjective
<1>5. list \in Surjection(D, S)  BY <1>3, <1>4, FS_Injection
<1>6. Len(list) = n /\ DOMAIN list = D  BY <1>1, <1>2 DEF D
<1> QED  BY <1>2, <1>5, <1>6 DEF Surjection, ToSet, D

LEMMA WiringStart ==
  ASSUME OutputsInit
  PROVE  Wiring /\ Returned(wm) /\ Exclusive(wm)
<1>1. PICK lit \in SUBSET Monitors : \E list \in SetToSeqs(lit) : wm = InitialState(list, lit)
  BY DEF OutputsInit
<1>2. PICK list \in SetToSeqs(lit) : wm = InitialState(list, lit)  BY <1>1
<1>3. Guarded(wm) /\ Up(wm) /\ Plugged(wm)  BY <1>2, GuardedStart
<1>4. Tagged(wm)  BY <1>2 DEF InitialState, Tagged
<1>5. /\ wm.mapped = {} /\ wm.monitors = list /\ wm.enabled = lit
      /\ wm.kbd = None /\ wm.focus_stack = <<>>
  BY <1>2 DEF InitialState
<1>6. Wired(wm)
  <2>1. IsFiniteSet(lit)  BY FiniteAssumption, FS_Subset
  <2>2. ToSet(list) = lit  BY <1>2, <2>1, SetToSeqsIn
  <2> QED  BY <1>5, <2>2 DEF Wired
<1>7. Drawn(wm)  BY <1>5 DEF Drawn
<1>8. client_top(wm, wm.selected_monitor) = None
  BY <1>5 DEF client_top, FirstFocused
<1>9. Returned(wm) /\ Exclusive(wm)
  BY <1>5, <1>8, DistinctAssumption DEF Returned, InFront, Exclusive
<1> QED  BY <1>3, <1>4, <1>6, <1>7, <1>9 DEF Wiring

LEMMA WiringStep == Wiring /\ [OutputsNext]_wm => Wiring'
<1> SUFFICES ASSUME Wiring, [OutputsNext]_wm  PROVE Wiring'
  OBVIOUS
<1>1. CASE UNCHANGED wm
  BY <1>1 DEF Wiring, Guarded, Sound, Locking, Listed, Tagged, Up, Wired, Drawn,
              Visible, Viewed, Plugged, Within
<1>2. CASE OutputsNext
  <2>1. Guarded(wm)'  BY GuardedStep DEF Wiring
  <2>2. /\ Tagged(wm') /\ Up(wm') /\ Wired(wm')
        /\ Drawing => Drawn(wm')
        /\ Modal = {} /\ -1 \notin StackSteps => Plugged(wm')
    <3>1. CASE FocusNext
      <4>1. Minds(wm, wm')  BY <3>1, FocusMinds DEF Wiring
      <4>2. Tagged(wm') /\ (Drawing => Drawn(wm'))
        BY <3>1, FocusKeepsView DEF Wiring
      <4> QED  BY <4>1, <4>2 DEF Wiring, Minds, Wired
    <3>2. CASE OutputEvent
      <4>1. Turns(wm, wm') /\ Shows(wm, wm')  BY <3>2, OutputTurns DEF Wiring
      <4> QED  BY <4>1 DEF Wiring, Turns, Shows, Drawing
    <3> QED  BY <1>2, <3>1, <3>2 DEF OutputsNext
  <2> QED
    BY <2>1, <2>2 DEF Wiring, Tagged, Up, Wired, Drawn, Visible, Viewed, Plugged, Within
<1> QED  BY <1>1, <1>2

LEMMA WiringAlways == OutputsSpec => []Wiring
<1>1. OutputsInit => Wiring  BY WiringStart
<1> QED  BY <1>1, WiringStep, PTL DEF OutputsSpec

(* No window and no monitor is left without a tag while outputs come and go: a
   monitor that is new shows its first tag, and a window that comes to a
   monitor with no tag of its own gets the tags in view there. *)
THEOREM TagsStayUnplugged == OutputsSpec => []EverythingHasATag
<1>1. Wiring => EverythingHasATag
  BY DEF Wiring, Guarded, Sound, Listed, WindowState, Tagged, EverythingHasATag
<1> QED  BY <1>1, WiringAlways, PTL

(* On every lit monitor what is drawn is what the tags say, also after one went
   dark, was unplugged or came back: monitor_update_layout arranges every lit
   monitor of the list, and what is lit is in the list. *)
THEOREM DrawnUnplugged ==
  ASSUME -1 \notin StackSteps,
         Modal = {} \/ \A m, n \in Monitors : m = n
  PROVE  OutputsSpec => []ShownIffVisible
<1>1. Wiring => ShownIffVisible
  BY DEF Wiring, Drawing, OneMonitor, Drawn, ShownIffVisible
<1> QED  BY <1>1, WiringAlways, PTL

(* The keyboard is on the top window of the selected monitor, or on none if the
   view there is empty, whatever outputs come and go: monitor_close refocuses
   after the windows moved, and monitor_update_layout ends with the window on
   top of the selected monitor if that is lit.  Without the pointer, which may
   select a monitor that shows nothing; the stack is complete, so that no
   window is left on a monitor that was freed and selects it when activated. *)
THEOREM KeyboardReturnsUnplugged ==
  ASSUME Modal = {}, -1 \notin StackSteps, \A u, v \in WantsFocus : u = v,
         Bound \cap {"click", "sloppyfocus", "menuclick"} = {}
  PROVE  OutputsSpec => []KeyboardComesBack
<1> DEFINE Inv == Wiring /\ Returned(wm) /\ Exclusive(wm)
<1>1. OutputsInit => Inv  BY WiringStart
<1>2. Inv /\ [OutputsNext]_wm => Inv'
  <2> SUFFICES ASSUME Inv, [OutputsNext]_wm  PROVE Inv'
    OBVIOUS
  <2>1. Wiring'  BY WiringStep
  <2>2. CASE UNCHANGED wm
    <3>1. Returned(wm)' /\ Exclusive(wm)'
      BY <2>2 DEF Returned, InFront, Exclusive, client_top, FirstFocused, Visible, Viewed
    <3> QED  BY <2>1, <3>1
  <2>3. CASE OutputsNext
    <3>1. Returned(wm') /\ Exclusive(wm')
      <4>1. CASE FocusNext
        <5>1. Pointed(wm)  BY DEF Pointed
        <5>2. Settles(wm, wm')  BY <4>1, <5>1, FocusSettles DEF Wiring, OneMenu
        <5> QED  BY <5>2 DEF Settles
      <4>2. CASE OutputEvent
        BY <4>2, OutputTurns DEF Wiring, Turns
      <4> QED  BY <2>3, <4>1, <4>2 DEF OutputsNext
    <3>2. Returned(wm)' /\ Exclusive(wm)'
      BY <3>1 DEF Returned, InFront, Exclusive, client_top, FirstFocused, Visible, Viewed
    <3> QED  BY <2>1, <3>2
  <2> QED  BY <2>2, <2>3 DEF OutputsNext
<1>3. Inv => KeyboardComesBack
  BY DEF Returned, InFront, KeyboardComesBack
<1> QED  BY <1>1, <1>2, <1>3, PTL DEF OutputsSpec

(* Nothing points to an output that was unplugged and freed: no window, no
   layer surface, no lock surface and not selected_monitor.  A modal dialog
   may (monitor_close selects the monitor of the dialog it focuses, freed or
   not), and a window that a movestack -1 dropped from the tiling order is
   not found by the loop of monitor_close: without these. *)
THEOREM NothingPointsToAFreedMonitor ==
  ASSUME Modal = {}, -1 \notin StackSteps
  PROVE  OutputsSpec => []NoFreedMonitor
<1>1. Wiring => NoFreedMonitor
  BY DEF Wiring, Plugged, Within, NoFreedMonitor
<1> QED  BY <1>1, WiringAlways, PTL

-----------------------------------------------------------------------------
(* No window is lost.  What nearly every handler leaves alone: the outputs,
   the windows that are mapped and linked, and whether a monitor is selected;
   and, but for client_set_monitor, which windows are where. *)
Stands(s, t) ==
  /\ t.mapped = s.mapped /\ t.linked = s.linked
  /\ t.monitors = s.monitors /\ t.enabled = s.enabled
  /\ t.selected_monitor = None <=> s.selected_monitor = None

Stays(s, t) == Stands(s, t) /\ t.mon = s.mon

LEMMA StaysSelf == \A s : Stays(s, s) /\ Stands(s, s)
BY DEF Stays, Stands

LEMMA StaysTwice ==
  ASSUME NEW s, NEW t, NEW u
  PROVE  /\ Stays(s, t) /\ Stays(t, u) => Stays(s, u)
         /\ Stands(s, t) /\ Stands(t, u) => Stands(s, u)
BY DEF Stays, Stands

(* client_focus selects the monitor of the window or of a dialog in view. *)
LEMMA FocusStays ==
  ASSUME NEW s \in WindowState, NEW c \in Clients \cup Unmanaged \cup {None},
         c \in Clients => s.selected_monitor # None /\ s.mon[c] # None
  PROVE  Stays(s, client_focus(s, c))
<1> DEFINE t == client_focus(s, c)
           d == Target(s, c)
<1>1. /\ t \in WindowState /\ SameWindows(s, t)
      /\ s.session.lock_active \/ (d # None /\ d = s.kbd) => t = s
      /\ ~s.session.lock_active /\ (d = None \/ d # s.kbd) =>
           t.selected_monitor = IF d \in Clients THEN s.mon[d] ELSE s.selected_monitor
  BY FocusEffect
<1>2. /\ c \notin Clients => d = c
      /\ c \in Clients => d = c \/ s.mon[d] # None
  BY TargetIn DEF Visible
<1> HIDE DEF d, t
<1>3. t.selected_monitor = None <=> s.selected_monitor = None  BY <1>1, <1>2
<1> QED  BY <1>1, <1>3 DEF Stays, Stands, SameWindows, t

LEMMA RefocusStays ==
  ASSUME NEW s \in WindowState
  PROVE  Stays(s, Refocus(s)) /\ Refocus(s) \in WindowState
<1> DEFINE c == client_top(s, s.selected_monitor)
<1>1. /\ c \in Clients \cup {None}
      /\ c # None => s.selected_monitor # None /\ s.mon[c] = s.selected_monitor
  BY TopIn DEF Visible
<1>2. Stays(s, client_focus(s, c))
  <2> HIDE DEF c
  <2> QED  BY <1>1, FocusStays, DistinctAssumption
<1> QED  BY <1>2, RefocusType DEF Refocus

LEMMA ArrangeStays ==
  ASSUME NEW s \in WindowState, NEW m
  PROVE  Stays(s, layout_arrange(s, m)) /\ layout_arrange(s, m) \in WindowState
BY ArrangeEffect DEF Stays, Stands, SameLists

LEMMA ArrangeOfStays ==
  ASSUME NEW s \in WindowState, NEW c
  PROVE  Stays(s, ArrangeOf(s, c)) /\ ArrangeOf(s, c) \in WindowState
BY ArrangeStays, StaysSelf DEF ArrangeOf

LEMMA RefocusArrangeStays ==
  ASSUME NEW s \in WindowState
  PROVE  Stays(s, RefocusArrange(s)) /\ RefocusArrange(s) \in WindowState
<1>1. Stays(s, Refocus(s)) /\ Refocus(s) \in WindowState  BY RefocusStays
<1> QED  BY <1>1, ArrangeStays, StaysTwice DEF RefocusArrange

(* client_set_monitor moves one window. *)
LEMMA SetMonitorStands ==
  ASSUME NEW s \in WindowState, NEW c \in Clients,
         NEW m \in Monitors \cup {None}, NEW newtags \in SUBSET Tags
  PROVE  LET t == client_set_monitor(s, c, m, newtags)
         IN  /\ t \in WindowState /\ Stands(s, t)
             /\ t.mon = [s.mon EXCEPT ![c] = m]
<1> DEFINE old    == s.mon[c]
           new    == TagsOn(s, m, newtags)
           moved  == [s EXCEPT !.mon[c] = m]
           left   == IF old = None THEN moved ELSE layout_arrange(moved, old)
           tagged == [left EXCEPT !.tags[c] = new]
           placed == IF m = None THEN left ELSE ArrangeOf(tagged, c)
           t      == client_set_monitor(s, c, m, newtags)
<1>0. t = IF old = m THEN s ELSE Refocus(placed)  BY DEF client_set_monitor
<1>1. /\ t \in WindowState /\ SameLists(s, t) /\ t.mon = [s.mon EXCEPT ![c] = m]
  BY SetMonitorInner DEF Inner
<1>2. moved \in WindowState /\ Stands(s, moved)  BY DEF WindowState, Stands
<1> HIDE DEF moved
<1>3. left \in WindowState /\ Stands(s, left)
  <2>1. Stays(moved, left) /\ left \in WindowState  BY <1>2, ArrangeStays, StaysSelf
  <2> QED  BY <1>2, <2>1, StaysTwice DEF Stays
<1> HIDE DEF left
<1>4. m # None => tagged \in WindowState /\ Stands(s, tagged)
  <2>1. m # None => new \in SUBSET Tags  BY ViewedType DEF TagsOn
  <2> HIDE DEF new
  <2> QED  BY <1>3, <2>1 DEF WindowState, Stands
<1> HIDE DEF tagged
<1>5. placed \in WindowState /\ Stands(s, placed)
  <2>1. m # None => Stays(tagged, ArrangeOf(tagged, c)) /\ ArrangeOf(tagged, c) \in WindowState
    BY <1>4, ArrangeOfStays
  <2> QED  BY <1>3, <1>4, <2>1, StaysTwice DEF Stays
<1> HIDE DEF placed
<1>6. Stands(s, Refocus(placed))
  BY <1>5, RefocusStays, StaysTwice DEF Stays
<1>7. Stands(s, t)
  <2> HIDE DEF t
  <2> QED  BY <1>0, <1>6, StaysSelf
<1> QED  BY <1>1, <1>7

-----------------------------------------------------------------------------
(* While a monitor is selected every window is on one; none is selected only
   if none is lit; and a window's parent is mapped. *)
Homed(s) == s.selected_monitor # None => \A c \in s.mapped : s.mon[c] # None
Chosen(s) == s.selected_monitor = None => ToSet(s.monitors) \cap s.enabled = {}
Linked(s) == \A c \in s.linked : Parent[c] \in s.mapped
Homely(s) == Homed(s) /\ Chosen(s) /\ Linked(s)

LEMMA StaysHomely ==
  ASSUME NEW s, NEW t, Stays(s, t)
  PROVE  (Homely(s) => Homely(t)) /\ (Homed(s) => Homed(t))
BY DEF Stays, Stands, Homely, Homed, Chosen, Linked

(* A window moves to a monitor, or is not mapped. *)
LEMMA MovedHomely ==
  ASSUME NEW s \in WindowState, NEW t, Stands(s, t), NEW c, NEW m,
         t.mon = [s.mon EXCEPT ![c] = m],
         m # None \/ s.selected_monitor = None \/ c \notin s.mapped
  PROVE  (Homely(s) => Homely(t)) /\ (Homed(s) => Homed(t))
<1>1. \A d \in s.mapped : t.mon[d] = s.mon[d] \/ (d = c /\ t.mon[d] = m)
  BY DEF WindowState
<1> QED  BY <1>1 DEF Stands, Homely, Homed, Chosen, Linked

-----------------------------------------------------------------------------
(* The handlers of windows. *)
LEMMA KeptStays ==
  ASSUME NEW s, NEW t, Kept(s, t), t = s \/ s.selected_monitor # None
  PROVE  Stays(s, t)
BY StaysSelf DEF Kept, Inner, SameLists, Stays, Stands

LEMMA NothingOnTop ==
  ASSUME NEW s \in WindowState, s.selected_monitor = None
  PROVE  client_top(s, s.selected_monitor) = None
BY TopIn DEF Visible

LEMMA TagCommandStays ==
  ASSUME wm \in WindowState, TagCommand
  PROVE  Stays(wm, wm')
<1>1. ASSUME wm.selected_monitor = None  PROVE wm' = wm
  <2>1. client_top(wm, wm.selected_monitor) = None  BY <1>1, NothingOnTop
  <2>2. \A mask : layout_view(wm, mask) = wm /\ layout_toggle_view(wm, mask) = wm
    BY <1>1 DEF layout_view, layout_toggle_view
  <2>3. \A mask : layout_tag(wm, mask) = wm /\ layout_toggle_tag(wm, mask) = wm
    BY <2>1 DEF layout_tag, layout_toggle_tag
  <2>4. \A step : layout_shift_view(wm, step) = wm /\ layout_shift_tag(wm, step) = wm
    BY <1>1, <2>1 DEF layout_shift_view, layout_shift_tag
  <2> QED  BY <2>2, <2>3, <2>4 DEF TagCommand
<1> QED  BY <1>1, TagCommandKept, KeptStays

(* A rule, a parent or lack of both gives a new window a monitor if one is
   selected. *)
LEMMA ApplyRulesStands ==
  ASSUME NEW s \in WindowState, NEW c \in Clients, NEW rule \in Rules
  PROVE  LET t == client_apply_rules(s, c, rule)
         IN  /\ t \in WindowState /\ Stands(s, t)
             /\ \E m \in Monitors \cup {None} :
                  /\ t.mon = [s.mon EXCEPT ![c] = m]
                  /\ s.selected_monitor # None => m # None
<1> DEFINE m == IF rule.monitor \in DOMAIN s.monitors
                THEN s.monitors[rule.monitor] ELSE s.selected_monitor
           f == IF rule.isfloating THEN s.isfloating \cup {c} ELSE s.isfloating \ {c}
           float == [s EXCEPT !.isfloating = f]
           r == IF rule.isfloating = None THEN s ELSE float
           t == client_set_monitor(r, c, m, rule.tags)
<1>1. /\ m \in Monitors \cup {None} /\ rule.tags \in SUBSET Tags
      /\ s.selected_monitor # None => m # None
  BY RulesAssumption, DistinctAssumption DEF WindowState, Rule
<1>2. float \in WindowState /\ Stays(s, float)
  <2>1. f \in SUBSET Clients  BY DEF WindowState
  <2> HIDE DEF f
  <2> QED  BY <2>1 DEF WindowState, Stays, Stands
<1> HIDE DEF float
<1>3. r \in WindowState /\ Stays(s, r)  BY <1>2, StaysSelf
<1>4. client_apply_rules(s, c, rule) = t  BY DEF client_apply_rules, float
<1> HIDE DEF r, m
<1>5. t \in WindowState /\ Stands(r, t) /\ t.mon = [r.mon EXCEPT ![c] = m]
  BY <1>1, <1>3, SetMonitorStands
<1> HIDE DEF t
<1>6. Stands(s, t) /\ t.mon = [s.mon EXCEPT ![c] = m]
  BY <1>3, <1>5, StaysTwice DEF Stays
<1> QED  BY <1>1, <1>4, <1>5, <1>6

LEMMA PlaceStands ==
  ASSUME NEW s \in WindowState, NEW c \in Clients, NEW rule \in Rules,
         c \in s.linked /\ s.selected_monitor # None => s.mon[Parent[c]] # None
  PROVE  LET t == Place(s, c, rule)
         IN  /\ t \in WindowState /\ Stands(s, t)
             /\ \E m \in Monitors \cup {None} :
                  /\ t.mon = [s.mon EXCEPT ![c] = m]
                  /\ s.selected_monitor # None => m # None
<1> DEFINE parent == client_get_parent(s, c)
           float == [s EXCEPT !.isfloating = @ \cup {c}]
           m == s.mon[parent]
           t == client_set_monitor(float, c, m, s.tags[parent])
<1>1. CASE parent = None  BY <1>1, ApplyRulesStands DEF Place
<1>2. CASE parent # None
  <2>1. /\ parent \in Clients
        /\ s.selected_monitor # None => m # None
    BY <1>2, ParentType DEF client_get_parent
  <2>2. float \in WindowState /\ Stays(s, float)  BY DEF WindowState, Stays, Stands
  <2>3. m \in Monitors \cup {None} /\ s.tags[parent] \in SUBSET Tags
    BY <2>1 DEF WindowState
  <2>4. Place(s, c, rule) = t  BY <1>2 DEF Place
  <2> HIDE DEF float, m, parent
  <2>5. t \in WindowState /\ Stands(float, t) /\ t.mon = [float.mon EXCEPT ![c] = m]
    BY <2>2, <2>3, SetMonitorStands
  <2> HIDE DEF t
  <2>6. Stands(s, t) /\ t.mon = [s.mon EXCEPT ![c] = m]
    BY <2>2, <2>5, StaysTwice DEF Stays
  <2> QED  BY <2>1, <2>3, <2>4, <2>5, <2>6
<1> QED  BY <1>1, <1>2

LEMMA MapHomely ==
  ASSUME wm \in WindowState, Homely(wm), NEW c \in Clients, client_handle_map(c)
  PROVE  Homely(wm')
<1>1. PICK rule \in Rules, late \in BOOLEAN :
        wm' = UnsetFullscreen(toplevel_map(
                HoldBack(Place(Insert(wm, c), c, rule), c, late), c), c)
  BY DEF client_handle_map
<1> DEFINE i == Insert(wm, c)
           p == Place(i, c, rule)
           h == HoldBack(p, c, late)
           u == toplevel_map(h, c)
           t == UnsetFullscreen(u, c)
<1>2. /\ i \in WindowState /\ i.mapped = wm.mapped \cup {c} /\ i.linked = wm.linked
      /\ i.mon = wm.mon /\ i.selected_monitor = wm.selected_monitor
      /\ i.monitors = wm.monitors /\ i.enabled = wm.enabled
  <2>1. i \in WindowState  BY InsertType
  <2>2. \A l, k : LET r == [wm EXCEPT !.mapped = @ \cup {c}, !.shown = @ \ {c},
                                      !.clients = l, !.focus_stack = k]
                 IN  /\ r.mapped = wm.mapped \cup {c} /\ r.linked = wm.linked
                     /\ r.mon = wm.mon /\ r.selected_monitor = wm.selected_monitor
                     /\ r.monitors = wm.monitors /\ r.enabled = wm.enabled
    BY DEF WindowState
  <2> QED  BY <2>1, <2>2 DEF Insert
<1> HIDE DEF i
<1>3. c \in i.linked /\ i.selected_monitor # None => i.mon[Parent[c]] # None
  BY <1>2 DEF Homely, Homed, Linked
<1>4. /\ p \in WindowState /\ Stands(i, p)
      /\ \E m \in Monitors \cup {None} :
           /\ p.mon = [i.mon EXCEPT ![c] = m]
           /\ i.selected_monitor # None => m # None
  BY <1>2, <1>3, PlaceStands
<1> HIDE DEF p
<1>5. Homely(p)
  <2>1. i.selected_monitor # None => \A d \in i.mapped : p.mon[d] # None
    BY <1>2, <1>4 DEF Homely, Homed, WindowState
  <2> QED  BY <1>2, <1>4, <2>1 DEF Stands, Homely, Homed, Chosen, Linked
<1>6. h \in WindowState /\ Stays(p, h)
  <2>1. h \in WindowState  BY <1>4, HoldBackType
  <2> QED  BY <1>4, <2>1, StaysSelf DEF HoldBack, Stays, Stands, WindowState
<1> HIDE DEF h
<1>7. u \in WindowState /\ Stays(h, u)
  <2>1. u.monitors = h.monitors
    <3> DEFINE r == [h EXCEPT !.ftl = @ \cup {c}]
    <3>1. r.monitors = h.monitors /\ r \in WindowState  BY <1>6 DEF WindowState
    <3>2. u = r \/ \E a : u = [r EXCEPT !.toplevel_active = a]
      BY Zenon DEF toplevel_map, toplevel_focus
    <3> HIDE DEF r, u
    <3> QED  BY <3>1, <3>2 DEF WindowState
  <2> QED  BY <1>6, <2>1, ToplevelMapEffect DEF Stays, Stands
<1> HIDE DEF u
<1>8. Stays(u, t)
  <2> DEFINE parent == client_get_parent(u, c)
             others == {o \in ToSet(u.clients) \ {c, parent} :
                          /\ o \in u.isfullscreen
                          /\ u.mon[o] = u.mon[c]
                          /\ u.tags[o] \cap u.tags[c] # {}}
             r == [u EXCEPT !.isfullscreen = @ \ others]
  <2>1. t = IF others = {} \/ u.mon[c] = None THEN r ELSE layout_arrange(r, u.mon[c])
    BY DEF UnsetFullscreen
  <2> HIDE DEF t, others
  <2>2. r \in WindowState /\ Stays(u, r)  BY <1>7 DEF WindowState, Stays, Stands
  <2> HIDE DEF r
  <2> QED  BY <2>1, <2>2, ArrangeStays, StaysTwice
<1> QED  BY <1>1, <1>5, <1>6, <1>7, <1>8, StaysHomely DEF i, p, h, u

LEMMA UnmapHomely ==
  ASSUME Listed(wm), Homely(wm), NEW c \in Clients, client_handle_unmap(c)
  PROVE  Homely(wm')
<1> DEFINE d == Detached(wm, c)
           a == client_set_monitor(d, c, None, {})
<1>1. /\ wm' = [a EXCEPT !.focus_stack = Without(@, c), !.shown = @ \ {c},
                        !.linked = Unlinked(@, c)]
      /\ c \in wm.mapped /\ wm \in WindowState
  BY DEF client_handle_unmap, Listed
<1>2. /\ d \in WindowState /\ d.mapped = wm.mapped \ {c}
      /\ d.mon = wm.mon /\ d.enabled = wm.enabled
      /\ d.selected_monitor = wm.selected_monitor /\ d.monitors = wm.monitors
  BY <1>1, DetachedEffect
<1>3. d.linked = wm.linked
  BY <1>1 DEF Detached, toplevel_unmap, WindowState
<1> HIDE DEF d
<1>4. a \in WindowState /\ Stands(d, a) /\ a.mon = [d.mon EXCEPT ![c] = None]
  BY <1>2, SetMonitorStands
<1> HIDE DEF a
<1>5. /\ wm'.mapped = a.mapped /\ wm'.monitors = a.monitors /\ wm'.enabled = a.enabled
      /\ wm'.mon = a.mon /\ wm'.selected_monitor = a.selected_monitor
      /\ wm'.linked = Unlinked(a.linked, c)
  BY <1>1, <1>4 DEF WindowState
<1>6. \A e \in wm.mapped \ {c} : wm'.mon[e] = wm.mon[e]
  BY <1>1, <1>2, <1>4, <1>5 DEF WindowState
<1>7. Homed(wm')  BY <1>2, <1>4, <1>5, <1>6 DEF Homely, Homed, Stands
<1>8. Linked(wm')
  BY <1>2, <1>3, <1>4, <1>5 DEF Homely, Linked, Stands, Unlinked
<1>9. Chosen(wm')  BY <1>2, <1>4, <1>5 DEF Homely, Chosen, Stands
<1> QED  BY <1>7, <1>8, <1>9 DEF Homely

LEMMA ClientEventHomely ==
  ASSUME Listed(wm), Homely(wm), "activate" \notin Bound,
         NEW c \in Clients, ClientEvent(c)
  PROVE  Homely(wm')
<1>0. wm \in WindowState  BY DEF Listed
<1>1. CASE InitialCommit(c)
  <2>1. PICK rule \in Rules :
          wm' = client_set_monitor(client_apply_rules(wm, c, rule), c, None, {})
    BY <1>1 DEF InitialCommit
  <2> DEFINE r == client_apply_rules(wm, c, rule)
             t == client_set_monitor(r, c, None, {})
  <2>2. /\ r \in WindowState /\ Stands(wm, r)
        /\ \E m \in Monitors \cup {None} : r.mon = [wm.mon EXCEPT ![c] = m]
    BY <1>0, ApplyRulesStands
  <2> HIDE DEF r
  <2>3. t \in WindowState /\ Stands(r, t) /\ t.mon = [r.mon EXCEPT ![c] = None]
    BY <2>2, SetMonitorStands
  <2> HIDE DEF t
  <2>4. c \notin wm.mapped /\ c \notin r.mapped
    BY <1>1, <2>2 DEF InitialCommit, Stands
  <2>5. Homely(r)  BY <1>0, <2>2, <2>4, MovedHomely
  <2>6. Homely(t)  BY <2>2, <2>3, <2>4, <2>5, MovedHomely
  <2> QED  BY <2>1, <2>6 DEF r, t
<1>2. CASE SetParent(c)
  BY <1>0, <1>2 DEF SetParent, WindowState, Homely, Homed, Chosen, Linked
<1>3. CASE client_handle_map(c)  BY <1>0, <1>3, MapHomely
<1>4. CASE client_map_wait_done(c)
  BY <1>0, <1>4 DEF client_map_wait_done, WindowState, Homely, Homed, Chosen, Linked
<1>5. CASE client_handle_unmap(c)  BY <1>5, UnmapHomely
<1>6. CASE RequestFullscreen(c)
  <2>1. PICK on \in BOOLEAN : wm' = client_set_fullscreen(wm, c, on)
    BY <1>6 DEF RequestFullscreen
  <2> DEFINE r == [wm EXCEPT !.isfullscreen = IF on THEN @ \cup {c} ELSE @ \ {c}]
  <2>2. r \in WindowState /\ Stays(wm, r)  BY <1>0 DEF WindowState, Stays, Stands
  <2>3. wm' = ArrangeOf(r, c)  BY <2>1 DEF client_set_fullscreen
  <2> HIDE DEF r
  <2> QED  BY <2>2, <2>3, ArrangeOfStays, StaysHomely
<1>7. CASE RingBell(c)
  BY <1>0, <1>7 DEF RingBell, WindowState, Homely, Homed, Chosen, Linked
<1>8. CASE client_activate(c)  BY <1>8 DEF client_activate
<1> QED  BY <1>1, <1>2, <1>3, <1>4, <1>5, <1>6, <1>7, <1>8 DEF ClientEvent

LEMMA StackCommandStays ==
  ASSUME wm \in WindowState, StackCommand
  PROVE  Stays(wm, wm')
<1> DEFINE sel == client_top(wm, wm.selected_monitor)
<1>0. /\ wm \in WindowState /\ sel \in Clients \cup {None}
      /\ sel # None => wm.selected_monitor # None /\ wm.mon[sel] # None
      /\ wm.clients \in Seq(Clients)
  BY TopIn DEF Visible, WindowState
(* a window in view on the selected monitor takes the focus *)
<1>5. ASSUME NEW s \in WindowState, Stays(wm, s), sel # None, NEW i \in InView(wm)
      PROVE  Stays(wm, client_focus(s, wm.clients[i]))
  <2>1. /\ wm.clients[i] \in Clients
        /\ wm.mon[wm.clients[i]] # None
    BY <1>0, <1>5 DEF InView, Visible
  <2>2. Stays(s, client_focus(s, wm.clients[i]))
    BY <1>0, <1>5, <2>1, FocusStays DEF Stays, Stands
  <2> QED  BY <1>5, <2>2, StaysTwice
<1>1. ASSUME NEW step \in {-1, 1}, layout_focus_stack(step)  PROVE Stays(wm, wm')
  <2> DEFINE at   == Position(wm.clients, sel)
             next == NextInView(wm, at, step)
  <2>1. sel # None /\ sel \in ToSet(wm.clients)  BY <1>1 DEF layout_focus_stack
  <2>2. at \in InView(wm)
    <3>1. at \in 1 .. Len(wm.clients) /\ wm.clients[at] = sel
      BY <1>0, <2>1, InViewType, PositionType
    <3>2. Visible(wm, sel, wm.selected_monitor)  BY <1>0, <2>1, TopIn
    <3> QED  BY <1>0, <3>1, <3>2, InViewType DEF InView
  <2>3. next \in InView(wm)  BY <1>0, <2>2, NextInViewType
  <2>4. wm' = client_focus(wm, wm.clients[next])  BY <1>1 DEF layout_focus_stack
  <2> HIDE DEF next, sel
  <2> QED  BY <1>0, <1>5, <2>1, <2>3, <2>4, StaysSelf
<1>2. ASSUME NEW step \in StackSteps, layout_move_stack(step)  PROVE Stays(wm, wm')
  <2> DEFINE list == IF step > 0 THEN MoveDown(wm, sel) ELSE MoveUp(wm, sel)
             t == [wm EXCEPT !.clients = list]
  <2>1. sel # None /\ sel \in ToSet(wm.clients)  BY <1>2 DEF layout_move_stack
  <2>2. list \in Seq(Clients)  BY <1>0, <2>1, MoveDownType, MoveUpType
  <2>3. t \in WindowState /\ Stays(wm, t)
    <3> HIDE DEF list
    <3> QED  BY <1>0, <2>2 DEF WindowState, Stays, Stands
  <2>4. wm' = layout_arrange(t, wm.selected_monitor)  BY <1>2 DEF layout_move_stack
  <2> HIDE DEF t
  <2> QED  BY <2>3, <2>4, ArrangeStays, StaysTwice
<1>3. CASE layout_zoom
  <2> DEFINE tiles == {i \in InView(wm) : wm.clients[i] \notin wm.isfloating}
             later == tiles \ {Min(tiles)}
             first == wm.clients[Min(tiles)]
             up    == IF first # sel THEN sel ELSE wm.clients[Min(later)]
             t     == [wm EXCEPT !.clients = ToHead(@, up)]
             moved == client_focus(t, up)
  <2>1. sel # None /\ (first = sel => later # {})  BY <1>3 DEF layout_zoom
  <2>2. up \in Clients /\ wm.mon[up] # None
    <3>1. CASE first # sel  BY <1>0, <2>1, <3>1
    <3>2. CASE first = sel
      <4>1. later # {} /\ later \in SUBSET Nat /\ later \subseteq InView(wm)
        BY <1>0, <2>1, <3>2, InViewType
      <4>2. Min(later) \in InView(wm)
        <5> HIDE DEF later
        <5> QED  BY <4>1, MinIn
      <4>3. wm.clients[Min(later)] \in Clients /\ wm.mon[wm.clients[Min(later)]] # None
        <5> HIDE DEF later
        <5> QED  BY <1>0, <4>2, InViewType DEF InView, Visible
      <4> QED  BY <3>2, <4>3
    <3> QED  BY <3>1, <3>2
  <2>3. t \in WindowState /\ Stays(wm, t)
    <3>1. ToHead(wm.clients, up) \in Seq(Clients)
      <4> HIDE DEF up
      <4> QED  BY <1>0, <2>2, InViewType, ToHeadType
    <3> HIDE DEF up
    <3> QED  BY <1>0, <3>1 DEF WindowState, Stays, Stands
  <2>4. moved \in WindowState /\ Stays(wm, moved)
    <3> HIDE DEF t, up
    <3>1. Stays(t, moved)  BY <1>0, <2>1, <2>2, <2>3, FocusStays DEF Stays, Stands
    <3> QED  BY <2>2, <2>3, <3>1, FocusType, StaysTwice
  <2>5. wm' = layout_arrange(moved, moved.selected_monitor)  BY <1>3 DEF layout_zoom
  <2> HIDE DEF moved
  <2> QED  BY <2>4, <2>5, ArrangeStays, StaysTwice
<1>4. ASSUME NEW on, sel \in Clients,
             wm' \in {client_set_floating(wm, sel, on), client_set_fullscreen(wm, sel, on)}
      PROVE  Stays(wm, wm')
  <2> DEFINE p == [wm EXCEPT !.isfloating = IF on THEN @ \cup {sel} ELSE @ \ {sel}]
             q == [wm EXCEPT !.isfullscreen = IF on THEN @ \cup {sel} ELSE @ \ {sel}]
  <2> HIDE DEF sel
  <2>1. /\ p \in WindowState /\ Stays(wm, p)
        /\ q \in WindowState /\ Stays(wm, q)
    BY <1>0, <1>4, Zenon DEF WindowState, Stays, Stands
  <2>2. wm' = ArrangeOf(p, sel) \/ wm' = ArrangeOf(q, sel)
    BY <1>4 DEF client_set_floating, client_set_fullscreen
  <2> HIDE DEF p, q
  <2> QED  BY <2>1, <2>2, ArrangeOfStays, StaysTwice
<1>6. CASE client_toggle_floating
  BY <1>0, <1>4, <1>6 DEF client_toggle_floating
<1>7. CASE client_toggle_fullscreen
  BY <1>0, <1>4, <1>7 DEF client_toggle_fullscreen
<1> QED  BY <1>1, <1>2, <1>3, <1>6, <1>7 DEF StackCommand

(* A monitor that is lit is selected only while one is. *)
LEMMA SelectStays ==
  ASSUME wm \in WindowState, Homely(wm), NEW m \in Lit(wm) \cup {wm.selected_monitor},
         m \in Lit(wm) \/ wm.selected_monitor # None
  PROVE  LET at == [wm EXCEPT !.selected_monitor = m]
         IN  /\ at \in WindowState /\ Stays(wm, at) /\ at.selected_monitor # None
             /\ \A c \in wm.mapped : at.mon[c] # None
<1> DEFINE at == [wm EXCEPT !.selected_monitor = m]
<1>1. ToSet(wm.monitors) \subseteq Monitors  BY DEF WindowState, ToSet
<1>2. m \in Monitors \/ m = wm.selected_monitor  BY <1>1 DEF Lit
<1>3. m # None /\ wm.selected_monitor # None
  BY <1>1, DistinctAssumption DEF Lit, Homely, Chosen
<1>4. at \in WindowState /\ at.selected_monitor = m /\ Stays(wm, at)
  BY <1>2, <1>3 DEF WindowState, Stays, Stands
<1> HIDE DEF at
<1> QED  BY <1>3, <1>4 DEF at, Homely, Homed, Stays

LEMMA MonitorCommandHomely ==
  ASSUME Listed(wm), Homely(wm), MonitorCommand
  PROVE  Homely(wm')
<1>0. /\ wm \in WindowState /\ wm.shown \subseteq wm.mapped /\ wm.mapped \subseteq Clients
      /\ ToSet(wm.monitors) \subseteq Monitors
  BY DEF Listed, WindowState, ToSet
<1>1. CASE monitor_focus
  <2>1. PICK m \in Lit(wm) \cup {wm.selected_monitor} :
          wm' = Refocus([wm EXCEPT !.selected_monitor = m])
    BY <1>1 DEF monitor_focus
  <2> DEFINE at == [wm EXCEPT !.selected_monitor = m]
  <2>2. at \in WindowState /\ Stays(wm, at)
    BY <1>0, <1>1, SelectStays DEF monitor_focus
  <2> HIDE DEF at
  <2> QED  BY <2>1, <2>2, RefocusStays, StaysTwice, StaysHomely DEF at
<1>2. CASE monitor_send_client
  <2> DEFINE sel == client_top(wm, wm.selected_monitor)
  <2>1. sel \in Clients \cup {None} /\ sel # None
    BY <1>0, <1>2, TopIn DEF monitor_send_client
  <2>2. PICK m \in ToSet(wm.monitors) : wm' = client_set_monitor(wm, sel, m, {})
    BY <1>2 DEF monitor_send_client
  <2> HIDE DEF sel
  <2>3. m \in Monitors /\ m # None  BY <1>0, DistinctAssumption
  <2>4. wm' \in WindowState /\ Stands(wm, wm') /\ wm'.mon = [wm.mon EXCEPT ![sel] = m]
    BY <1>0, <2>1, <2>2, <2>3, SetMonitorStands
  <2> QED  BY <1>0, <2>3, <2>4, MovedHomely
<1>3. ASSUME NEW m \in Lit(wm), NEW c \in wm.shown \cup {None},
             LET at == [wm EXCEPT !.selected_monitor = m]
             IN  wm' = at \/ wm' = client_focus(at, c)
      PROVE  Homely(wm')
  <2> DEFINE at == [wm EXCEPT !.selected_monitor = m]
  <2>1. /\ at \in WindowState /\ Stays(wm, at) /\ at.selected_monitor # None
        /\ \A d \in wm.mapped : at.mon[d] # None
    BY <1>0, SelectStays
  <2>2. wm' = at \/ wm' = client_focus(at, c)  BY <1>3
  <2> HIDE DEF at
  <2>3. Stays(at, client_focus(at, c))
    <3>1. c \in Clients => at.mon[c] # None  BY <1>0, <2>1, DistinctAssumption
    <3> QED  BY <1>0, <2>1, <3>1, FocusStays
  <2> QED  BY <2>1, <2>2, <2>3, StaysHomely
<1>4. CASE PointerPress  BY <1>3, <1>4 DEF PointerPress
<1>5. CASE PointerMotion  BY <1>3, <1>5 DEF PointerMotion
<1> QED  BY <1>1, <1>2, <1>4, <1>5 DEF MonitorCommand

LEMMA WindowsHomely ==
  ASSUME Listed(wm), Homely(wm), "activate" \notin Bound, WindowsNext
  PROVE  Homely(wm')
<1>0. wm \in WindowState  BY DEF Listed
<1> QED  BY <1>0, ClientEventHomely, TagCommandStays, StackCommandStays,
            MonitorCommandHomely, StaysHomely DEF WindowsNext

-----------------------------------------------------------------------------
(* Layer surfaces, menus and the lock leave the windows where they are. *)
LEMMA UnfocusStays ==
  ASSUME NEW s \in WindowState
  PROVE  Stays(s, client_focus(s, None)) /\ client_focus(s, None) \in WindowState
BY FocusStays, FocusType, DistinctAssumption

LEMMA ArrangeLayersStays ==
  ASSUME NEW s \in WindowState, NEW m, NEW resized \in BOOLEAN
  PROVE  Stays(s, monitor_arrange_layers(s, m, resized))
<1> DEFINE a == IF resized THEN layout_arrange(s, m) ELSE s
           l == TopmostLayer(a, m)
           f == client_focus(a, None)
           u == [f EXCEPT !.session.exclusive_focus = l, !.kbd = l]
<1>1. a \in WindowState /\ Stays(s, a)  BY ArrangeStays, StaysSelf
<1>2. monitor_arrange_layers(s, m, resized) \in {s, a, u}
  BY DEF monitor_arrange_layers
<1> HIDE DEF a, l
<1>3. f \in WindowState /\ Stays(s, f)  BY <1>1, UnfocusStays, StaysTwice
<1> HIDE DEF f
<1>4. Stays(f, u)  BY <1>3 DEF WindowState, Stays, Stands
<1> HIDE DEF u
<1> QED  BY <1>1, <1>2, <1>3, <1>4, StaysSelf, StaysTwice

(* A state that differs in the session and the keyboard. *)
LEMMA WithStays ==
  ASSUME NEW s \in WindowState, NEW z, NEW k
  PROVE  Stays(s, With(s, z, k))
BY DEF With, WindowState, Stays, Stands

LEMMA LayerUnmapStays ==
  ASSUME NEW s, Sound(s), NEW l \in Layers, NEW resized \in BOOLEAN
  PROVE  Stays(s, monitor_handle_layer_unmap(s, l, resized))
<1> DEFINE up == s.session.layers_up \ {l}
           e  == IF s.session.exclusive_focus = l THEN None
                 ELSE s.session.exclusive_focus
           z  == [s.session EXCEPT !.layers_up = up, !.exclusive_focus = e]
           u  == With(s, z, s.kbd)
           a  == monitor_arrange_layers(u, s.session.layer_mon[l], resized)
<1>0. /\ s \in WindowState /\ s.session \in SessionState /\ Fit(s.session)
      /\ s.kbd \in Surfaces \cup {None}
      /\ s.session.lock_active => s.kbd \notin Clients
  BY SoundFit DEF Fit
<1>1. e \in Unmanaged \cup Layers \cup {None} /\ up \in SUBSET Layers
      /\ e \in s.session.menus_up \cup up \cup {None}
  BY <1>0 DEF SessionState, Fit
<1>2. monitor_handle_layer_unmap(s, l, resized) = IF a.kbd = l THEN Refocus(a) ELSE a
  <2>1. [s EXCEPT !.session.layers_up = @ \ {l},
                  !.session.exclusive_focus = IF @ = l THEN None ELSE @] = u
    BY <1>0 DEF With, WindowState, SessionState
  <2> HIDE DEF u
  <2> QED  BY <2>1 DEF monitor_handle_layer_unmap
<1> HIDE DEF e, up
<1>3. Fit(z) /\ z.lock_active = s.session.lock_active
  BY <1>0, <1>1 DEF Fit, SessionState
<1> HIDE DEF z
<1>4. Sound(u) /\ u \in WindowState /\ Stays(s, u)
  <2>1. Sound(u)  BY <1>0, <1>3, WithSound
  <2> QED  BY <1>0, <2>1, SoundFit, WithStays
<1> HIDE DEF u
<1>5. a \in WindowState /\ Stays(u, a)
  <2>1. Sound(a)  BY <1>4, ArrangeLayersFollows DEF Layered, Follows
  <2> QED  BY <1>4, <2>1, SoundFit, ArrangeLayersStays
<1> HIDE DEF a
<1> QED  BY <1>2, <1>4, <1>5, RefocusStays, StaysTwice

LEMMA UnlistedStays ==
  ASSUME NEW s \in WindowState, NEW l
  PROVE  Stays(s, Unlisted(s, l))
BY DEF Unlisted, WindowState, Stays, Stands

LEMMA LayerEventStays ==
  ASSUME Guarded(wm), NEW l \in Layers, LayerEvent(l)
  PROVE  Stays(wm, wm')
<1>0. wm \in WindowState /\ Sound(wm)  BY SoundFit DEF Guarded
<1>1. CASE NewLayerSurface(l)
  <2>1. PICK m \in ToSet(wm.monitors) :
          wm' = [wm EXCEPT !.session.layers = <<l>> \o @, !.session.layer_mon[l] = m]
    BY <1>1, Zenon DEF NewLayerSurface
  <2> DEFINE list == <<l>> \o wm.session.layers
             on   == [wm.session.layer_mon EXCEPT ![l] = m]
             z    == [wm.session EXCEPT !.layers = list, !.layer_mon = on]
  <2>2. wm' = With(wm, z, wm.kbd)
    BY <1>0, <2>1 DEF With, WindowState, SessionState
  <2> HIDE DEF z
  <2> QED  BY <1>0, <2>2, WithStays
<1>2. CASE LayerCommit(l)
  <2>1. PICK map \in BOOLEAN, resized \in BOOLEAN :
          wm' = monitor_arrange_layers(
                  [wm EXCEPT !.session.layers_up = IF map THEN @ \cup {l} ELSE @],
                  wm.session.layer_mon[l], resized)
    BY <1>2 DEF LayerCommit
  <2> DEFINE up == IF map THEN wm.session.layers_up \cup {l} ELSE wm.session.layers_up
             z == [wm.session EXCEPT !.layers_up = up]
             u == With(wm, z, wm.kbd)
  <2>2. wm' = monitor_arrange_layers(u, wm.session.layer_mon[l], resized)
    <3>1. [wm EXCEPT !.session.layers_up = IF map THEN @ \cup {l} ELSE @] = u
      BY <1>0 DEF With, WindowState, SessionState
    <3> HIDE DEF u
    <3> QED  BY <2>1, <3>1
  <2>3. z \in SessionState
    <3>1. up \in SUBSET Layers /\ wm.session \in SessionState
      BY <1>0 DEF WindowState, SessionState
    <3> HIDE DEF up
    <3> QED  BY <3>1 DEF SessionState
  <2> HIDE DEF z
  <2>4. u \in WindowState /\ Stays(wm, u)
    BY <1>0, <2>3, WithStays, Zenon DEF With, WindowState
  <2> HIDE DEF u
  <2> QED  BY <2>2, <2>4, ArrangeLayersStays, StaysTwice
<1>3. CASE LayerUnmap(l)  BY <1>0, <1>3, LayerUnmapStays DEF LayerUnmap
<1>4. CASE LayerDestroy(l)  BY <1>0, <1>4, UnlistedStays DEF LayerDestroy
<1> QED  BY <1>1, <1>2, <1>3, <1>4 DEF LayerEvent

LEMMA MenuEventHomely ==
  ASSUME Guarded(wm), Homely(wm), NEW u \in Unmanaged, MenuEvent(u)
  PROVE  Homely(wm')
<1>0. wm \in WindowState /\ wm.session \in SessionState /\ u \notin Clients
  BY SoundFit, DistinctAssumption DEF Guarded, Fit
<1>1. CASE MenuMap(u)
  <2> DEFINE up == [wm EXCEPT !.session.menus_up = @ \cup {u}]
             f == client_focus(up, u)
  <2>1. up \in WindowState /\ Stays(wm, up)
    BY <1>0 DEF WindowState, SessionState, Stays, Stands
  <2>2. wm' = up \/ wm' = [f EXCEPT !.session.exclusive_focus = u]
    BY <1>1 DEF MenuMap
  <2> HIDE DEF up
  <2>3. f \in WindowState /\ Stays(wm, f)
    BY <1>0, <2>1, FocusStays, FocusType, StaysTwice
  <2> HIDE DEF f
  <2>4. Stays(f, [f EXCEPT !.session.exclusive_focus = u])
    BY <2>3 DEF WindowState, Stays, Stands
  <2> QED  BY <2>1, <2>2, <2>3, <2>4, StaysTwice, StaysHomely
<1>2. CASE MenuUnmap(u)
  <2> DEFINE down == [wm EXCEPT !.session.menus_up = @ \ {u}]
             free == [down EXCEPT !.session.exclusive_focus = None]
  <2>1. /\ down \in WindowState /\ Stays(wm, down) /\ down.session \in SessionState
    BY <1>0 DEF WindowState, SessionState, Stays, Stands
  <2>2. wm' = down \/ wm' = Refocus(free)  BY <1>2 DEF MenuUnmap
  <2> HIDE DEF down
  <2>3. free \in WindowState /\ Stays(down, free)
    BY <2>1 DEF WindowState, SessionState, Stays, Stands
  <2> HIDE DEF free
  <2> QED  BY <2>1, <2>2, <2>3, RefocusStays, StaysTwice, StaysHomely
<1>3. CASE MenuPress(u)
  <2>1. PICK m \in Lit(wm) : wm' = client_focus([wm EXCEPT !.selected_monitor = m], u)
    BY <1>3 DEF MenuPress
  <2> DEFINE at == [wm EXCEPT !.selected_monitor = m]
  <2>2. at \in WindowState /\ Stays(wm, at)  BY <1>0, SelectStays
  <2> HIDE DEF at
  <2> QED  BY <1>0, <2>1, <2>2, FocusStays, StaysTwice, StaysHomely DEF at
<1> QED  BY <1>1, <1>2, <1>3 DEF MenuEvent

(* The lock. *)
LEMMA BaredStays == \A s, t : Bared(s, t) => Stays(s, t)
BY DEF Bared, SameView, Stays, Stands

LEMMA UnlockStays ==
  ASSUME Guarded(wm), lock_handle_unlock
  PROVE  Stays(wm, wm')
<1> DEFINE z == [wm.session EXCEPT !.lock_active = FALSE]
           r == With(wm, z, None)
           q == Refocus(r)
           y == [q.session EXCEPT !.lock_current = FALSE]
           w == With(q, y, q.kbd)
<1>0. /\ wm \in WindowState /\ Sound(wm) /\ Fit(wm.session)
      /\ wm.session \in SessionState
  BY SoundFit DEF Guarded, Fit
<1>1. wm' = SurfacesDestroyed([q EXCEPT !.session.lock_current = FALSE])
  <2>1. [wm EXCEPT !.kbd = None, !.session.lock_active = ~TRUE] = r
    BY <1>0 DEF With, WindowState, SessionState
  <2> HIDE DEF r
  <2>2. lock_destroy(wm, TRUE) = [q EXCEPT !.session.lock_current = FALSE]
    BY <2>1 DEF lock_destroy
  <2> QED  BY <2>2 DEF lock_handle_unlock
<1>2. Fit(z) /\ ~z.lock_active  BY <1>0 DEF Fit, SessionState
<1> HIDE DEF z
<1>3. Sound(r) /\ r.kbd = None /\ Stays(wm, r) /\ r \in WindowState
  <2>1. Sound(r) /\ r.kbd = None  BY <1>0, <1>2, WithSound
  <2> QED  BY <1>0, <2>1, WithStays, SoundFit
<1> HIDE DEF r
<1>4. /\ Sound(q) /\ Fit(q.session) /\ q \in WindowState /\ Stays(wm, q)
      /\ q.kbd \in Clients \cup {None}
  <2>1. Sound(q)  BY <1>3, RefocusFollows DEF Follows
  <2>2. q.kbd \in Clients \cup {None, r.kbd}  BY <1>3, RefocusSettles
  <2> QED  BY <1>3, <2>1, <2>2, SoundFit, RefocusStays, StaysTwice
<1> HIDE DEF q
<1>5. [q EXCEPT !.session.lock_current = FALSE] = w
  BY <1>4 DEF With, WindowState
<1>6. Fit(y) /\ y.lock_active = q.session.lock_active
  BY <1>4 DEF Fit, SessionState
<1> HIDE DEF y
<1>7. Sound(w) /\ w.kbd = q.kbd /\ Stays(q, w)
  <2>1. q.kbd \in Surfaces \cup {None} /\ (y.lock_active => q.kbd \notin Clients)
    BY <1>4, <1>6, SoundFit
  <2> QED  BY <1>4, <1>6, <2>1, WithSound, WithStays
<1> HIDE DEF w
<1>8. Bared(w, wm')
  <2>1. w.kbd \notin Monitors  BY <1>4, <1>7, DistinctAssumption
  <2> QED  BY <1>1, <1>5, <1>7, <2>1, SurfacesDestroyBares
<1> QED  BY <1>4, <1>7, <1>8, BaredStays, StaysTwice

LEMMA LockEventStays ==
  ASSUME Guarded(wm), LockEvent
  PROVE  Stays(wm, wm')
<1>0. wm \in WindowState /\ Sound(wm) /\ Locking(wm)  BY SoundFit DEF Guarded
<1>1. CASE lock_handle_new_lock
  <2> DEFINE f == client_focus(wm, None)
  <2>1. f \in WindowState /\ Stays(wm, f)  BY <1>0, UnfocusStays
  <2>2. wm' = [f EXCEPT !.session.lock_active = TRUE, !.session.lock_current = TRUE]
    BY <1>1 DEF lock_handle_new_lock, Locked
  <2> HIDE DEF f
  <2>3. Stays(f, wm')  BY <2>1, <2>2 DEF WindowState, Stays, Stands
  <2> QED  BY <2>1, <2>3, StaysTwice
<1>2. ASSUME NEW m \in Monitors, lock_handle_new_surface(m)  PROVE Stays(wm, wm')
  BY <1>0, <1>2 DEF lock_handle_new_surface, WindowState, Stays, Stands
<1>3. ASSUME NEW m \in Monitors, LockSurfaceDestroy(m)  PROVE Stays(wm, wm')
  <2>1. m \in ToSet(wm.session.lock_surfaces)
        /\ wm' = lock_handle_surface_destroy(wm, m)
    BY <1>3 DEF LockSurfaceDestroy
  <2> QED  BY <2>1, OwnSurfaceBares, BaredStays
<1>4. CASE lock_handle_unlock  BY <1>4, UnlockStays
<1>5. CASE lock_handle_destroy
  <2> DEFINE v == SurfacesDestroyed(wm)
  <2>1. wm.session.lock_current /\ wm.session.lock_active
    BY <1>0, <1>5 DEF lock_handle_destroy, Locking
  <2>2. Bared(wm, v)  BY <1>0, <2>1, SurfacesDestroyBares
  <2>3. wm' = [[v EXCEPT !.kbd = None, !.session.lock_active = ~FALSE]
                 EXCEPT !.session.lock_current = FALSE]
    BY <1>5 DEF lock_handle_destroy, lock_destroy
  <2> HIDE DEF v
  <2>4. v \in WindowState  BY <2>2, SoundFit DEF Bared
  <2>5. Stays(v, wm')  BY <2>3, <2>4 DEF WindowState, Stays, Stands
  <2> QED  BY <2>2, <2>5, BaredStays, StaysTwice
<1> QED  BY <1>1, <1>2, <1>3, <1>4, <1>5 DEF LockEvent

LEMMA FocusHomely ==
  ASSUME Guarded(wm), Homely(wm), "activate" \notin Bound, FocusNext
  PROVE  Homely(wm')
<1>0. wm \in WindowState /\ Listed(wm)  BY SoundFit DEF Guarded
<1>1. CASE WindowsNext  BY <1>0, <1>1, WindowsHomely
<1>2. ASSUME NEW l \in Layers, LayerEvent(l)  PROVE Homely(wm')
  BY <1>2, LayerEventStays, StaysHomely
<1>3. ASSUME NEW u \in Unmanaged, MenuEvent(u)  PROVE Homely(wm')
  BY <1>3, MenuEventHomely
<1>4. CASE LockEvent  BY <1>4, LockEventStays, StaysHomely
<1>5. CASE SurfaceGone
  BY <1>0, <1>5, StaysHomely DEF SurfaceGone, WindowState, Stays, Stands
<1> QED  BY <1>1, <1>2, <1>3, <1>4, <1>5 DEF FocusNext

-----------------------------------------------------------------------------
(* Outputs that come and go.  What they leave alone, and that the windows stay
   on monitors. *)
Lodges(s, t) ==
  /\ t.mapped = s.mapped /\ t.linked = s.linked
  /\ t.monitors = s.monitors /\ t.enabled = s.enabled
  /\ Homed(s) => Homed(t)

LEMMA LodgesTwice ==
  ASSUME NEW s, NEW t, NEW u
  PROVE  /\ Lodges(s, s)
         /\ Lodges(s, t) /\ Lodges(t, u) => Lodges(s, u)
         /\ Stays(s, t) => Lodges(s, t)
BY StaysHomely DEF Lodges, Stays, Stands

LEMMA ArrangedLayersStay ==
  ASSUME NEW s, Sound(s), NEW m, NEW resized \in BOOLEAN
  PROVE  LET t == monitor_arrange_layers(s, m, resized)
         IN  Sound(t) /\ Stays(s, t) /\ t.selected_monitor = s.selected_monitor
BY SoundFit, ArrangeLayersFollows, ArrangeLayersStays DEF Layered, Follows

(* A window that moves comes to the selected monitor. *)
LEMMA MoveTurnStands ==
  ASSUME NEW s \in WindowState, NEW m, NEW c \in Clients
  PROVE  LET t == MoveTurn(m, s, c)
         IN  /\ t \in WindowState /\ Stands(s, t) /\ Lodges(s, t)
             /\ \A d \in Clients : t.mon[d] = s.mon[d] \/ t.mon[d] = s.selected_monitor
             /\ s.mon[c] = m => t.mon[c] = s.selected_monitor
<1> DEFINE k == s.selected_monitor
           t == MoveTo(s, c)
<1>1. /\ k \in Monitors \cup {None} /\ s.tags[c] \in SUBSET Tags
      /\ s.mon \in [Clients -> Monitors \cup {None}]
  BY DEF WindowState
<1>2. t \in WindowState /\ Stands(s, t) /\ t.mon = [s.mon EXCEPT ![c] = k]
  BY <1>1, SetMonitorStands DEF MoveTo
<1> HIDE DEF t
<1>3. Lodges(s, t)  BY <1>2, MovedHomely DEF Lodges, Stands
<1>4. MoveTurn(m, s, c) = IF s.mon[c] = m THEN t ELSE s  BY DEF MoveTurn, t
<1> QED  BY <1>1, <1>2, <1>3, <1>4, StaysSelf, LodgesTwice

(* The loops that move windows: of monitor_close, and of monitor_update_layout
   for the windows without a monitor. *)
HomeInv(a, i, s) ==
  /\ s \in WindowState /\ Stands(a.base, s) /\ Lodges(a.base, s)
  /\ a.m = None /\ a.base.selected_monitor # None =>
       \A j \in 1 .. i : s.mon[a.base.clients[j]] # None
Home == INSTANCE Loops WITH Turn <- MovedTurn, Inv <- HomeInv

LEMMA MovedHome ==
  ASSUME NEW s \in WindowState, NEW m
  PROVE  LET t == MovedFrom(s, m)
         IN  /\ t \in WindowState /\ Stands(s, t) /\ Lodges(s, t)
             /\ m = None /\ s.selected_monitor # None =>
                  \A c \in ToSet(s.clients) : t.mon[c] # None
<1> DEFINE list == s.clients
           a == [base |-> s, m |-> m]
           t == Home!Fold(a, s, list)
<1>0. list \in Seq(Clients) /\ Len(list) \in Nat  BY DEF WindowState
<1>1. t = MovedFrom(s, m)
  BY DEF MovedFrom, Home!Fold, Home!Greatest,
         Moved!Fold, Moved!Greatest
<1> HIDE DEF t
<1>2. HomeInv(a, 0, s)  BY StaysSelf, LodgesTwice DEF HomeInv
<1>3. ASSUME NEW i \in 1 .. Len(list), NEW r, HomeInv(a, i - 1, r)
      PROVE  HomeInv(a, i, MovedTurn(a, r, list[i]))
  <2> DEFINE c == list[i]
             u == MoveTurn(m, r, c)
  <2>0. c \in Clients /\ \A j \in 1 .. i : list[j] \in Clients  BY <1>0
  <2>1. /\ r \in WindowState /\ Stands(s, r) /\ Lodges(s, r)
        /\ m = None /\ s.selected_monitor # None =>
             \A j \in 1 .. i - 1 : r.mon[list[j]] # None
    BY <1>3 DEF HomeInv
  <2>2. /\ u \in WindowState /\ Stands(r, u) /\ Lodges(r, u)
        /\ \A d \in Clients : u.mon[d] = r.mon[d] \/ u.mon[d] = r.selected_monitor
        /\ r.mon[c] = m => u.mon[c] = r.selected_monitor
    BY <2>0, <2>1, MoveTurnStands
  <2>3. MovedTurn(a, r, list[i]) = u  BY DEF MovedTurn
  <2> HIDE DEF u
  <2>4. Stands(s, u) /\ Lodges(s, u)  BY <2>1, <2>2, StaysTwice, LodgesTwice
  <2>5. ASSUME m = None, s.selected_monitor # None, NEW j \in 1 .. i
        PROVE  u.mon[list[j]] # None
    <3>1. r.selected_monitor # None  BY <2>1, <2>5 DEF Stands
    <3>2. CASE j = i  BY <2>0, <2>2, <2>5, <3>1, <3>2
    <3>3. CASE j # i
      <4>1. j \in 1 .. i - 1  BY <1>0, <3>3
      <4> QED  BY <2>0, <2>1, <2>2, <2>5, <3>1, <4>1
    <3> QED  BY <3>2, <3>3
  <2> HIDE DEF list
  <2>6. HomeInv(a, i, u)  BY <2>2, <2>4, <2>5 DEF HomeInv, list
  <2> QED  BY <2>3, <2>6
<1>4. HomeInv(a, Len(list), t)
  <2> HIDE DEF list, a
  <2> QED  BY <1>0, <1>2, <1>3, LeastMembers, Home!LoopKeeps DEF t
<1>5. /\ t \in WindowState /\ Stands(s, t) /\ Lodges(s, t)
      /\ m = None /\ s.selected_monitor # None =>
           \A j \in 1 .. Len(list) : t.mon[list[j]] # None
  BY <1>4 DEF HomeInv
<1>6. \A c \in ToSet(list) : \E j \in 1 .. Len(list) : list[j] = c
  BY <1>0 DEF ToSet
<1> HIDE DEF list
<1> QED  BY <1>1, <1>5, <1>6 DEF list

(* A monitor closes: the monitor that is selected then, if any, takes its
   windows. *)
LEMMA CloseHome ==
  ASSUME NEW s \in WindowState, NEW m \in Monitors
  PROVE  LET t == monitor_close(s, m)
         IN  /\ t \in WindowState /\ Lodges(s, t)
             /\ t.selected_monitor = None <=>
                  (IF s.monitors = <<>> \/ m = s.selected_monitor
                   THEN Successor(s) ELSE s.selected_monitor) = None
<1> DEFINE k == IF s.monitors = <<>> \/ m = s.selected_monitor
                THEN Successor(s) ELSE s.selected_monitor
           at == IF s.monitors = <<>> \/ m = s.selected_monitor
                 THEN [s EXCEPT !.selected_monitor = Successor(s)] ELSE s
           v == MovedFrom(at, m)
           t == Refocus(v)
<1>1. monitor_close(s, m) = t
  BY DEF monitor_close, MovedFrom, Moved!Fold, Moved!Greatest, FoldLeft, MapThenFoldSet,
         MovedTurn, MoveTurn, Max
<1>2. Successor(s) \in Monitors \cup {None}
      /\ (s.monitors = <<>> => Successor(s) = None)
  BY DEF WindowState, Successor
<1>3. /\ at \in WindowState /\ at.selected_monitor = k
      /\ at.mapped = s.mapped /\ at.linked = s.linked
      /\ at.monitors = s.monitors /\ at.enabled = s.enabled /\ at.mon = s.mon
  BY <1>2 DEF WindowState
<1> HIDE DEF at
<1>4. k # None => s.selected_monitor # None  BY <1>2, DistinctAssumption
<1>5. Lodges(s, at)  BY <1>3, <1>4 DEF Lodges, Homed
<1>6. v \in WindowState /\ Stands(at, v) /\ Lodges(at, v)  BY <1>3, MovedHome
<1> HIDE DEF v
<1>7. t \in WindowState /\ Stays(v, t)  BY <1>6, RefocusStays
<1> HIDE DEF t
<1>8. t.selected_monitor = None <=> k = None  BY <1>3, <1>6, <1>7 DEF Stays, Stands
<1>9. Lodges(s, t)  BY <1>5, <1>6, <1>7, LodgesTwice
<1> QED  BY <1>1, <1>7, <1>8, <1>9 DEF t

(* The passes of monitor_update_layout. *)
LodgesInv(a, i, s) == s \in WindowState /\ Lodges(a, s)
ClosingHome == INSTANCE Loops WITH Turn <- CloseTurn, Inv <- LodgesInv

LEMMA ClosedDisabledHome ==
  ASSUME NEW s \in WindowState
  PROVE  Lodges(s, ClosedDisabled(s))
<1> DEFINE list == s.monitors
<1>0. list \in Seq(Monitors)  BY DEF WindowState
<1>1. ClosingHome!Fold(s, s, list) = ClosedDisabled(s)
  BY DEF ClosingHome!Fold, ClosingHome!Greatest, ClosedDisabled, FoldLeft, MapThenFoldSet,
         CloseTurn, Max
<1>2. LodgesInv(s, 0, s)  BY LodgesTwice DEF LodgesInv
<1> HIDE DEF list
<1>3. ASSUME NEW i \in 1 .. Len(list), NEW r, LodgesInv(s, i - 1, r)
      PROVE  LodgesInv(s, i, CloseTurn(s, r, list[i]))
  <2> DEFINE u == monitor_close(r, list[i])
  <2>1. r \in WindowState /\ Lodges(s, r) /\ list[i] \in Monitors
    BY <1>0, <1>3 DEF LodgesInv
  <2>2. u \in WindowState /\ Lodges(r, u)  BY <2>1, CloseHome
  <2>3. CloseTurn(s, r, list[i]) \in {r, u}  BY DEF CloseTurn
  <2> HIDE DEF u
  <2> QED  BY <2>1, <2>2, <2>3, LodgesTwice DEF LodgesInv
<1>4. LodgesInv(s, Len(list), ClosingHome!Fold(s, s, list))
  BY <1>0, <1>2, <1>3, LeastMembers, ClosingHome!LoopKeeps
<1> QED  BY <1>1, <1>4 DEF LodgesInv

(* Once the monitors are arranged one that is lit is selected, or none is, or
   the one that was. *)
Choice(a, i, s) ==
  /\ a.selected_monitor # None => s.selected_monitor = a.selected_monitor
  /\ a.selected_monitor = None =>
       \/ s.selected_monitor \in a.enabled
       \/ /\ s.selected_monitor = None
          /\ \A j \in 1 .. i : a.monitors[j] \notin a.enabled
ChoiceInv(a, i, s) ==
  /\ Sound(s) /\ Choice(a, i, s)
  /\ s.mapped = a.mapped /\ s.linked = a.linked /\ s.mon = a.mon
  /\ s.monitors = a.monitors /\ s.enabled = a.enabled
Choosing == INSTANCE Loops WITH Turn <- SettleTurn, Inv <- ChoiceInv

LEMMA SettleTurnChooses ==
  ASSUME NEW s, Sound(s), NEW m \in Monitors, m \in ToSet(s.monitors), NEW a
  PROVE  LET t == SettleTurn(a, s, m)
         IN  /\ Sound(t)
             /\ t.mapped = s.mapped /\ t.linked = s.linked /\ t.mon = s.mon
             /\ t.monitors = s.monitors /\ t.enabled = s.enabled
             /\ t.selected_monitor =
                  IF s.selected_monitor = None /\ m \in s.enabled THEN m
                  ELSE s.selected_monitor
<1> DEFINE l == monitor_arrange_layers(s, m, TRUE)
           u == layout_arrange(l, m)
           v == [u EXCEPT !.selected_monitor = m]
           t == SettleTurn(a, s, m)
<1>0. Sound(t)  BY SettleTurnFollows DEF Serves, Follows
<1>1. t = IF m \notin s.enabled THEN s
          ELSE IF u.selected_monitor = None THEN v ELSE u
  BY DEF SettleTurn
<1> HIDE DEF t
<1>2. Sound(l) /\ Stays(s, l) /\ l.selected_monitor = s.selected_monitor
  BY ArrangedLayersStay
<1> HIDE DEF l
<1>3. /\ u \in WindowState /\ Stays(l, u) /\ u.selected_monitor = l.selected_monitor
  BY <1>2, SoundFit, ArrangeStays, ArrangeEffect
<1> HIDE DEF u
<1>4. Stays(s, u)  BY <1>2, <1>3, StaysTwice
<1>5. /\ v.mapped = u.mapped /\ v.linked = u.linked /\ v.mon = u.mon
      /\ v.monitors = u.monitors /\ v.enabled = u.enabled /\ v.selected_monitor = m
  BY <1>3 DEF WindowState
<1> HIDE DEF v
<1> QED  BY <1>0, <1>1, <1>2, <1>3, <1>4, <1>5 DEF Stays, Stands, t

LEMMA ArrangedHome ==
  ASSUME NEW s, Sound(s)
  PROVE  LET t == Arranged(s)
         IN  /\ t.mapped = s.mapped /\ t.linked = s.linked
             /\ t.monitors = s.monitors /\ t.enabled = s.enabled
             /\ Homed(s) => Homed(t) \/ t.selected_monitor \in t.enabled
             /\ Chosen(t)
<1> DEFINE list == s.monitors
           t == Choosing!Fold(s, s, list)
<1>0. list \in Seq(Monitors) /\ Len(list) \in Nat  BY SoundFit DEF WindowState
<1>1. t = Arranged(s)
  BY DEF Choosing!Fold, Choosing!Greatest,
         Arranged, FoldLeft, MapThenFoldSet, SettleTurn, Max
<1> HIDE DEF t
<1>2. ChoiceInv(s, 0, s)
  <2>1. 1 .. 0 = {}  OBVIOUS
  <2> QED  BY <2>1 DEF ChoiceInv, Choice
<1>3. ASSUME NEW i \in 1 .. Len(list), NEW r, ChoiceInv(s, i - 1, r)
      PROVE  ChoiceInv(s, i, SettleTurn(s, r, list[i]))
  <2> DEFINE m == list[i]
             u == SettleTurn(s, r, m)
  <2>1. /\ Sound(r) /\ Choice(s, i - 1, r)
        /\ r.mapped = s.mapped /\ r.linked = s.linked /\ r.mon = s.mon
        /\ r.monitors = list /\ r.enabled = s.enabled
        /\ m \in Monitors /\ m \in ToSet(list)
    BY <1>0, <1>3 DEF ChoiceInv, ToSet
  <2>2. /\ Sound(u)
        /\ u.mapped = r.mapped /\ u.linked = r.linked /\ u.mon = r.mon
        /\ u.monitors = r.monitors /\ u.enabled = r.enabled
        /\ u.selected_monitor =
             IF r.selected_monitor = None /\ m \in r.enabled THEN m
             ELSE r.selected_monitor
    BY <2>1, SettleTurnChooses
  <2> HIDE DEF u
  <2>3. Choice(s, i, u)
    <3>1. \A j \in 1 .. i : j = i \/ j \in 1 .. i - 1  BY <1>0
    <3>2. None \notin s.enabled
      <4>1. s \in WindowState  BY SoundFit
      <4> QED  BY <4>1, DistinctAssumption DEF WindowState
    <3> QED  BY <2>1, <2>2, <3>1, <3>2 DEF Choice
  <2> QED  BY <2>1, <2>2, <2>3 DEF ChoiceInv, u
<1>4. ChoiceInv(s, Len(list), t)
  <2> HIDE DEF list
  <2> QED  BY <1>0, <1>2, <1>3, LeastMembers, Choosing!LoopKeeps DEF t
<1>5. /\ t.mapped = s.mapped /\ t.linked = s.linked /\ t.mon = s.mon
      /\ t.monitors = s.monitors /\ t.enabled = s.enabled
      /\ Choice(s, Len(list), t)
  BY <1>4 DEF ChoiceInv
<1>6. t.selected_monitor = None => \A j \in 1 .. Len(list) : list[j] \notin s.enabled
  <2>1. None \notin s.enabled
    <3>1. s \in WindowState  BY SoundFit
    <3> QED  BY <3>1, DistinctAssumption DEF WindowState
  <2> QED  BY <1>5, <2>1 DEF Choice
<1>7. \A m \in ToSet(list) : \E j \in 1 .. Len(list) : list[j] = m
  BY <1>0 DEF ToSet
<1>8. Chosen(t)
  <2> HIDE DEF list
  <2> QED  BY <1>5, <1>6, <1>7 DEF Chosen, list
<1>9. Homed(s) => Homed(t) \/ t.selected_monitor \in t.enabled
  BY <1>5 DEF Choice, Homed
<1> QED  BY <1>1, <1>5, <1>8, <1>9

-----------------------------------------------------------------------------
(* The windows without a monitor come to the selected one, if that is lit. *)
LEMMA AdoptedHome ==
  ASSUME NEW s, Guarded(s), -1 \notin StackSteps
  PROVE  LET t == Adopted(s)
         IN  /\ Guarded(t) /\ Stands(s, t)
             /\ Homed(s) \/ s.selected_monitor \in s.enabled => Homed(t)
<1> DEFINE v == FoldLeft(LAMBDA q, c : IF q.mon[c] = None THEN MoveTo(q, c) ELSE q,
                        s, s.clients)
           r == Refocus(v)
           w == [r EXCEPT !.kbd = r.selected_monitor]
           t == Adopted(s)
<1>0. /\ s \in WindowState /\ ToSet(s.clients) = s.mapped
      /\ None \notin s.enabled
  <2>1. s \in WindowState /\ Listed(s)  BY SoundFit DEF Guarded
  <2> QED  BY <2>1, DistinctAssumption DEF Listed, WindowState
<1>1. Guarded(t)  BY AdoptedFollows, ServesGuarded
<1>2. t =
        IF s.selected_monitor \notin s.enabled THEN s
        ELSE IF r.selected_monitor \in ToSet(r.session.lock_surfaces) THEN w ELSE r
  BY DEF Adopted, FoldLeft, MapThenFoldSet
<1> HIDE DEF t
<1>3. /\ v \in WindowState /\ Stands(s, v)
      /\ s.selected_monitor # None => \A c \in s.mapped : v.mon[c] # None
  <2>1. v = MovedFrom(s, None)
    BY DEF MovedFrom, Moved!Fold, Moved!Greatest, FoldLeft, MapThenFoldSet, MovedTurn,
           MoveTurn, Max
  <2> HIDE DEF v
  <2> QED  BY <1>0, <2>1, MovedHome
<1> HIDE DEF v
<1>4. r \in WindowState /\ Stays(v, r)  BY <1>3, RefocusStays
<1> HIDE DEF r
<1>5. Stays(r, w)  BY <1>4 DEF WindowState, Stays, Stands
<1> HIDE DEF w
<1>6. ASSUME s.selected_monitor \in s.enabled
      PROVE  Stands(s, t) /\ Homed(t)
  <2>1. Stays(v, t)  BY <1>2, <1>4, <1>5, <1>6, StaysTwice
  <2>2. Stands(s, t)  BY <1>3, <2>1, StaysTwice DEF Stays
  <2>3. Homed(t)  BY <1>0, <1>3, <1>6, <2>1, <2>2 DEF Stays, Stands, Homed
  <2> QED  BY <2>2, <2>3
<1>7. CASE s.selected_monitor \notin s.enabled
  BY <1>1, <1>2, <1>7, StaysSelf DEF t
<1> QED  BY <1>1, <1>6, <1>7 DEF t

StaysInv(a, i, s) == Sound(s) /\ Stays(a, s)
LayeringHome == INSTANCE Loops WITH Turn <- LayersTurn, Inv <- StaysInv

LEMMA LayoutPassHome ==
  ASSUME NEW s, Guarded(s), -1 \notin StackSteps
  PROVE  LET t == LayoutPass(s)
         IN  Lodges(s, t) /\ Chosen(t)
<1> DEFINE c == ClosedDisabled(s)
           b == Arranged(c)
           r == Adopted(b)
           list == s.monitors
           t == LayeringHome!Fold(r, r, list)
<1>0. list \in Seq(Monitors) /\ Sound(s) /\ s \in WindowState
  BY SoundFit DEF WindowState, Guarded
<1>1. t = LayoutPass(s)
  BY DEF LayeringHome!Fold, LayeringHome!Greatest, LayoutPass, FoldLeft, MapThenFoldSet,
         LayersTurn, Max
<1> HIDE DEF t
<1>2. Lodges(s, r) /\ Chosen(r) /\ Sound(r)
  <2>1. Lodges(s, c) /\ Guarded(c)
    BY <1>0, ClosedDisabledHome, ClosedDisabledFollows, ServesGuarded
  <2> HIDE DEF c
  <2>2. Guarded(b)
    <3>1. Serves(c, b)  BY <2>1, ArrangedFollows DEF Guarded
    <3> QED  BY <2>1, <3>1, ServesGuarded
  <2>3. /\ b.mapped = c.mapped /\ b.linked = c.linked
        /\ b.monitors = c.monitors /\ b.enabled = c.enabled
        /\ Homed(c) => Homed(b) \/ b.selected_monitor \in b.enabled
        /\ Chosen(b)
    BY <2>1, ArrangedHome DEF Guarded
  <2> HIDE DEF b
  <2>4. /\ Guarded(r) /\ Stands(b, r)
        /\ Homed(b) \/ b.selected_monitor \in b.enabled => Homed(r)
    BY <2>2, AdoptedHome
  <2> HIDE DEF r
  <2>5. Chosen(r)  BY <2>3, <2>4 DEF Chosen, Stands
  <2> QED  BY <2>1, <2>3, <2>4, <2>5 DEF Lodges, Stands, Guarded
<1> HIDE DEF r, list
<1>3. StaysInv(r, 0, r)  BY <1>2, StaysSelf DEF StaysInv
<1>4. ASSUME NEW i \in 1 .. Len(list), NEW q, StaysInv(r, i - 1, q)
      PROVE  StaysInv(r, i, LayersTurn(r, q, list[i]))
  BY <1>4, ArrangedLayersStay, StaysTwice DEF StaysInv, LayersTurn
<1>5. StaysInv(r, Len(list), t)
  BY <1>0, <1>3, <1>4, LeastMembers, LayeringHome!LoopKeeps DEF t
<1>6. Stays(r, t)  BY <1>5 DEF StaysInv
<1>7. Lodges(s, t)  BY <1>2, <1>6, LodgesTwice
<1>8. Chosen(t)  BY <1>2, <1>6 DEF Chosen, Stays, Stands
<1> QED  BY <1>1, <1>7, <1>8

(* monitor_update_layout: no window is lost, and a monitor is selected unless
   none is lit. *)
LEMMA UpdateLayoutHome ==
  ASSUME NEW s, Guarded(s), -1 \notin StackSteps
  PROVE  LET t == monitor_update_layout(s)
         IN  Guarded(t) /\ Lodges(s, t) /\ Chosen(t)
<1> DEFINE placed == [s EXCEPT !.session.layout = LaidOut(s)]
           once == LayoutPass(placed)
           twice == LayoutPass(once)
<1>1. Sound(s) /\ s \in WindowState /\ s.session \in SessionState
  BY SoundFit DEF Guarded, Fit
<1>2. /\ s.enabled \in SUBSET Monitors /\ s.session.asleep \in SUBSET Monitors
      /\ LaidOut(s) \in SUBSET Monitors
  BY <1>1 DEF WindowState, SessionState, LaidOut, ToSet
<1>3. placed = Switched(s, s.enabled, s.session.asleep, LaidOut(s))
  BY <1>1, Zenon DEF Switched, WindowState, SessionState
<1>4. monitor_update_layout(s) = IF placed = s THEN LayoutPass(s) ELSE twice
  BY DEF monitor_update_layout
<1>9. Stays(s, placed)  BY <1>1 DEF WindowState, Stays, Stands
<1> HIDE DEF placed
<1>5. Guarded(placed)
  BY <1>1, <1>2, <1>3, SwitchFollows, ServesGuarded DEF Switches
<1>6. Guarded(once) /\ Lodges(s, once)
  BY <1>5, <1>9, LayoutPassFollows, ServesGuarded, LayoutPassHome, LodgesTwice
     DEF Updated
<1> HIDE DEF once
<1>7. Lodges(once, twice) /\ Chosen(twice)  BY <1>6, LayoutPassHome
<1> HIDE DEF twice
<1>8. Guarded(monitor_update_layout(s))
  BY UpdateLayoutFollows, ServesGuarded
<1> QED  BY <1>4, <1>6, <1>7, <1>8, LayoutPassHome, LodgesTwice

(* A window that is linked is the child of one that is mapped. *)
LEMMA LodgesHomely ==
  ASSUME NEW s, NEW r, NEW t,
         Homed(s), Linked(s), r.mapped = s.mapped, r.linked = s.linked,
         Homed(s) => Homed(r), Lodges(r, t), Chosen(t)
  PROVE  Homely(t)
BY DEF Homely, Lodges, Linked

LEMMA SwitchedFields ==
  ASSUME NEW s \in WindowState, NEW on, NEW asleep, NEW layout
  PROVE  LET t == Switched(s, on, asleep, layout)
         IN  /\ t.mapped = s.mapped /\ t.linked = s.linked /\ t.mon = s.mon
             /\ t.monitors = s.monitors /\ t.enabled = on
             /\ t.selected_monitor = s.selected_monitor
BY DEF Switched, WindowState

-----------------------------------------------------------------------------
(* The events of outputs. *)
LEMMA CommitHome ==
  ASSUME NEW s, Guarded(s), -1 \notin StackSteps, NEW m \in Monitors,
         NEW On, NEW Shifted
  PROVE  LET t == Commit(s, m, On, Shifted)
         IN  /\ Guarded(t) /\ t.mapped = s.mapped /\ t.linked = s.linked
             /\ Homed(s) => Homed(t)
<1> DEFINE lit == IF m \in On THEN s.enabled \cup {m} ELSE s.enabled \ {m}
           off == s.session.asleep \ {m}
           r == Switched(s, lit, off, s.session.layout)
           u == monitor_update_layout(r)
<1>0. Sound(s) /\ s \in WindowState /\ s.session \in SessionState
  BY SoundFit DEF Guarded, Fit
<1>1. [s EXCEPT !.enabled = IF m \in On THEN @ \cup {m} ELSE @ \ {m},
                !.session.asleep = @ \ {m}] = r
  BY <1>0 DEF Switched, WindowState, SessionState
<1>2. Commit(s, m, On, Shifted) \in {r, u}
  <2> HIDE DEF r
  <2> QED  BY <1>1 DEF Commit
<1>3. lit \in SUBSET Monitors /\ off \in SUBSET Monitors
      /\ s.session.layout \in SUBSET Monitors
  BY <1>0 DEF WindowState, SessionState
<1> HIDE DEF lit, off
<1>4. Guarded(r)
  <2>1. Follows(s, r)  BY <1>0, <1>3, SwitchFollows DEF Switches
  <2> QED  BY <2>1, FollowsGuarded
<1>5. r.mapped = s.mapped /\ r.linked = s.linked /\ (Homed(s) => Homed(r))
  BY <1>0, SwitchedFields DEF Homed
<1> HIDE DEF r
<1>6. Guarded(u) /\ Lodges(r, u)  BY <1>4, UpdateLayoutHome
<1> HIDE DEF u
<1> QED  BY <1>2, <1>4, <1>5, <1>6 DEF Lodges

CommitHomeInv(a, i, s) ==
  /\ Guarded(s) /\ s.mapped = a.base.mapped /\ s.linked = a.base.linked
  /\ Homed(a.base) => Homed(s)
CommitsHome == INSTANCE Loops WITH Turn <- CommitTurn, Inv <- CommitHomeInv

LEMMA ConfigHomely ==
  ASSUME Guarded(wm), Homely(wm), -1 \notin StackSteps, ConfigApply
  PROVE  Homely(wm')
<1>1. PICK On \in SUBSET ToSet(wm.monitors), Shifted \in SUBSET ToSet(wm.monitors) :
        wm' = monitor_update_layout(Committed(wm, On, Shifted))
  BY DEF ConfigApply
<1> DEFINE a == [base |-> wm, on |-> On, moved |-> Shifted]
           list == wm.monitors
           t == CommitsHome!Fold(a, wm, list)
<1>0. list \in Seq(Monitors)  BY SoundFit DEF Guarded, WindowState
<1>2. wm' = monitor_update_layout(t)
  <2>1. t = Committed(wm, On, Shifted)
    BY DEF CommitsHome!Fold, CommitsHome!Greatest, Committed, FoldLeft, MapThenFoldSet,
           CommitTurn, Max
  <2> QED  BY <1>1, <2>1
<1>3. CommitHomeInv(a, 0, wm)  BY DEF CommitHomeInv
<1>4. ASSUME NEW i \in 1 .. Len(list), NEW q, CommitHomeInv(a, i - 1, q)
      PROVE  CommitHomeInv(a, i, CommitTurn(a, q, list[i]))
  <2> DEFINE u == Commit(q, list[i], On, Shifted)
  <2>1. CommitTurn(a, q, list[i]) = u  BY DEF CommitTurn
  <2>2. list[i] \in Monitors  BY <1>0
  <2> HIDE DEF a
  <2>3. /\ Guarded(q) /\ q.mapped = a.base.mapped /\ q.linked = a.base.linked
        /\ Homed(a.base) => Homed(q)
    BY <1>4 DEF CommitHomeInv
  <2>4. /\ Guarded(u) /\ u.mapped = q.mapped /\ u.linked = q.linked
        /\ Homed(q) => Homed(u)
    BY <2>2, <2>3, CommitHome
  <2> HIDE DEF u
  <2> QED  BY <2>1, <2>3, <2>4 DEF CommitHomeInv
<1>5. /\ Guarded(t) /\ t.mapped = wm.mapped /\ t.linked = wm.linked
      /\ Homed(wm) => Homed(t)
  <2>1. CommitHomeInv(a, Len(list), t)
    <3> HIDE DEF a, list
    <3> QED  BY <1>0, <1>3, <1>4, LeastMembers, CommitsHome!LoopKeeps
  <2> HIDE DEF t
  <2> QED  BY <2>1 DEF CommitHomeInv
<1> HIDE DEF t
<1>6. Lodges(t, wm') /\ Chosen(wm')  BY <1>2, <1>5, UpdateLayoutHome
<1> QED  BY <1>5, <1>6, LodgesHomely DEF Homely

(* The layer surfaces of an output that goes. *)
DestroyStaysInv(a, i, s) == Sound(s) /\ Stays(a.base, s)
DestroyingHome == INSTANCE Loops WITH Turn <- DestroyTurn, Inv <- DestroyStaysInv

LEMMA LayersDestroyedStays ==
  ASSUME NEW s, Sound(s), NEW m \in Monitors
  PROVE  Stays(s, LayersDestroyed(s, m))
<1> DEFINE list == s.session.layers
           a == [base |-> s, m |-> m]
           t == DestroyingHome!Fold(a, s, list)
<1>0. list \in Seq(Layers)
  <2>1. s.session \in SessionState  BY SoundFit DEF Fit
  <2> QED  BY <2>1 DEF SessionState
<1>1. t = LayersDestroyed(s, m)
  BY DEF DestroyingHome!Fold, DestroyingHome!Greatest, LayersDestroyed, FoldLeft,
         MapThenFoldSet, DestroyTurn, Max
<1> HIDE DEF t
<1>2. DestroyStaysInv(a, 0, s)  BY StaysSelf DEF DestroyStaysInv
<1>3. ASSUME NEW i \in 1 .. Len(list), NEW r, DestroyStaysInv(a, i - 1, r)
      PROVE  DestroyStaysInv(a, i, DestroyTurn(a, r, list[i]))
  <2> DEFINE l == list[i]
             d == monitor_handle_layer_unmap(r, l, TRUE)
             q == IF l \in r.session.layers_up THEN d ELSE r
             u == Unlisted(q, l)
  <2>1. Sound(r) /\ Stays(s, r)  BY <1>3 DEF DestroyStaysInv
  <2>2. l \in Layers  BY <1>0
  <2>3. DestroyTurn(a, r, list[i]) \in {r, u}  BY DEF DestroyTurn
  <2> HIDE DEF l
  <2>4. Sound(d) /\ Stays(r, d)
    <3>1. Serves(r, d)  BY <2>1, <2>2, LayerUnmapFollows
    <3> QED  BY <2>1, <2>2, <3>1, LayerUnmapStays, Zenon DEF Serves, Follows
  <2> HIDE DEF d
  <2>5. Sound(q) /\ Stays(s, q)  BY <2>1, <2>4, StaysTwice
  <2> HIDE DEF q
  <2>6. Sound(u) /\ Stays(s, u)
    <3>1. Serves(q, u)  BY <2>2, <2>5, UnlistedSound
    <3>2. Stays(q, u)  BY <2>5, SoundFit, UnlistedStays
    <3> QED  BY <2>5, <3>1, <3>2, StaysTwice DEF Serves, Follows
  <2> HIDE DEF u
  <2> QED  BY <2>1, <2>3, <2>6 DEF DestroyStaysInv
<1>4. DestroyStaysInv(a, Len(list), t)
  <2> HIDE DEF list, a
  <2> QED  BY <1>0, <1>2, <1>3, LeastMembers, DestroyingHome!LoopKeeps DEF t
<1> QED  BY <1>1, <1>4 DEF DestroyStaysInv

-----------------------------------------------------------------------------
(* An output is gone: of two monitors the other one, if it is lit, has all
   windows. *)
LEMMA DestroyHomely ==
  ASSUME Guarded(wm), Homely(wm), -1 \notin StackSteps,
         \A a, b, c \in Monitors : a = b \/ b = c \/ a = c,
         NEW m \in Monitors, monitor_handle_destroy(m)
  PROVE  Homely(wm')
<1> DEFINE d == LayersDestroyed(wm, m)
           bare == [d EXCEPT !.monitors = Without(@, m)]
           unlocked == IF m \in ToSet(bare.session.lock_surfaces)
                       THEN lock_handle_surface_destroy(bare, m) ELSE bare
           removed == [unlocked EXCEPT !.session.layout = @ \ {m}]
           updated == IF removed = unlocked THEN removed
                      ELSE monitor_update_layout(removed)
           closed == monitor_close(updated, m)
           last == [closed EXCEPT !.enabled = @ \ {m}, !.session.asleep = @ \ {m}]
<1>0. Sound(wm) /\ Locking(wm)  BY DEF Guarded
<1>1. wm' = last /\ m \in ToSet(wm.monitors)  BY DEF monitor_handle_destroy
<1>2. Stays(wm, d) /\ Guarded(d) /\ Sound(d) /\ d \in WindowState
  <2>1. Guarded(d)  BY <1>0, LayersDestroyedFollows, FollowsGuarded
  <2> QED  BY <1>0, <2>1, LayersDestroyedStays, SoundFit DEF Guarded
<1> HIDE DEF d
<1>3. /\ Guarded(bare)
      /\ bare.mapped = d.mapped /\ bare.linked = d.linked
      /\ bare.mon = d.mon /\ bare.selected_monitor = d.selected_monitor
      /\ bare.enabled = d.enabled
      /\ ToSet(bare.monitors) = ToSet(d.monitors) \ {m}
  <2>1. /\ Sound(bare) /\ bare.session = d.session
        /\ ToSet(bare.monitors) = ToSet(d.monitors) \ {m}
    BY <1>2, UnpluggedSound
  <2>2. /\ bare.mapped = d.mapped /\ bare.linked = d.linked
        /\ bare.mon = d.mon /\ bare.selected_monitor = d.selected_monitor
        /\ bare.enabled = d.enabled
    BY <1>2 DEF WindowState
  <2> HIDE DEF bare
  <2> QED  BY <1>2, <2>1, <2>2 DEF Guarded, Locking
<1> HIDE DEF bare
<1>4. Stays(bare, unlocked) /\ Guarded(unlocked) /\ unlocked \in WindowState
  <2>1. /\ Bared(bare, unlocked)
        /\ bare.session.lock_surfaces = <<>> => unlocked.session.lock_surfaces = <<>>
    BY <1>3, OwnSurfaceBares
  <2> HIDE DEF unlocked
  <2>2. Guarded(unlocked)  BY <1>3, <2>1 DEF Bared, Guarded, Locking
  <2> QED  BY <2>1, <2>2, BaredStays, SoundFit DEF Guarded
<1> HIDE DEF unlocked
<1>5. Stays(unlocked, removed) /\ Guarded(removed) /\ removed \in WindowState
  <2> DEFINE lay == unlocked.session.layout \ {m}
             t == Switched(unlocked, unlocked.enabled, unlocked.session.asleep, lay)
  <2>1. Sound(unlocked) /\ unlocked.session \in SessionState
    BY <1>4, SoundFit DEF Guarded, Fit
  <2>2. removed = t  BY <1>4, <2>1 DEF Switched, WindowState, SessionState
  <2>3. /\ unlocked.enabled \in SUBSET Monitors
        /\ unlocked.session.asleep \in SUBSET Monitors
        /\ lay \in SUBSET Monitors
    BY <1>4, <2>1 DEF WindowState, SessionState
  <2> HIDE DEF removed, lay
  <2>4. Guarded(t)
    <3>1. Follows(unlocked, t)  BY <2>1, <2>3, SwitchFollows DEF Switches
    <3> QED  BY <1>4, <3>1, FollowsGuarded
  <2>5. Stays(unlocked, t)  BY <1>4, SwitchedFields DEF Stays, Stands
  <2> HIDE DEF t
  <2> QED  BY <2>2, <2>4, <2>5, SoundFit DEF Guarded
<1> HIDE DEF removed
<1>6. Lodges(removed, updated) /\ Guarded(updated) /\ Chosen(updated)
      /\ updated \in WindowState
  <2>1. Homed(wm) /\ Chosen(wm)  BY DEF Homely
  <2>2. Chosen(removed)
    BY <1>2, <1>3, <1>4, <1>5, <2>1 DEF Chosen, Stays, Stands
  <2>3. LET t == monitor_update_layout(removed)
        IN  Guarded(t) /\ Lodges(removed, t) /\ Chosen(t)
    BY <1>5, UpdateLayoutHome
  <2>4. Guarded(updated) /\ Lodges(removed, updated) /\ Chosen(updated)
    BY <1>5, <2>2, <2>3, LodgesTwice
  <2> QED  BY <2>4, SoundFit DEF Guarded
<1> HIDE DEF updated
<1>7. /\ closed \in WindowState /\ Lodges(updated, closed)
      /\ closed.selected_monitor = None <=>
           (IF updated.monitors = <<>> \/ m = updated.selected_monitor
            THEN Successor(updated) ELSE updated.selected_monitor) = None
  BY <1>6, CloseHome
<1> HIDE DEF closed
<1>8. /\ last.mapped = closed.mapped /\ last.linked = closed.linked
      /\ last.mon = closed.mon /\ last.monitors = closed.monitors
      /\ last.selected_monitor = closed.selected_monitor
      /\ last.enabled = closed.enabled \ {m}
  BY <1>7 DEF WindowState
<1> HIDE DEF last
<1>9. /\ last.mapped = wm.mapped /\ last.linked = wm.linked
      /\ Homed(wm) => Homed(last)
  <2>1. closed.mapped = wm.mapped /\ closed.linked = wm.linked
    BY <1>2, <1>3, <1>4, <1>5, <1>6, <1>7 DEF Stays, Stands, Lodges
  <2>2. Homed(wm) => Homed(removed)
    BY <1>2, <1>3, <1>4, <1>5 DEF Homed, Stays, Stands
  <2>3. Homed(removed) => Homed(closed)  BY <1>6, <1>7 DEF Lodges
  <2> QED  BY <1>8, <2>1, <2>2, <2>3 DEF Homed
<1>10. Chosen(last)
  <2> SUFFICES ASSUME last.selected_monitor = None, NEW n \in ToSet(last.monitors)
               PROVE  n \notin last.enabled
    BY DEF Chosen
  <2>1. /\ last.monitors = updated.monitors /\ closed.enabled = updated.enabled
        /\ ToSet(updated.monitors) = ToSet(wm.monitors) \ {m}
    BY <1>2, <1>3, <1>4, <1>5, <1>6, <1>7, <1>8 DEF Stays, Stands, Lodges
  <2>2. updated.monitors \in Seq(Monitors) /\ n \in ToSet(updated.monitors)
    BY <1>6, <2>1 DEF WindowState
  <2>3. updated.monitors # <<>>  BY <2>2 DEF ToSet
  <2>4. CASE m = updated.selected_monitor
    <3>1. updated.monitors[1] \in Monitors /\ updated.monitors[1] \in ToSet(updated.monitors)
      BY <2>2, <2>3 DEF ToSet
    <3>2. updated.monitors[1] \notin updated.enabled
      BY <1>7, <1>8, <2>3, <2>4, <3>1, DistinctAssumption DEF Successor
    <3>3. n = updated.monitors[1]
      <4>1. n \in Monitors /\ n # m /\ updated.monitors[1] # m
        BY <2>1, <2>2, <3>1 DEF ToSet
      <4> QED  BY <3>1, <4>1
    <3> QED  BY <1>8, <2>1, <3>2, <3>3
  <2>5. CASE m # updated.selected_monitor
    <3>1. updated.selected_monitor = None  BY <1>7, <1>8, <2>3, <2>5
    <3> QED  BY <1>6, <1>8, <2>1, <2>2, <3>1 DEF Chosen
  <2> QED  BY <2>4, <2>5
<1> QED  BY <1>1, <1>9, <1>10 DEF Homely, Linked

LEMMA OutputHomely ==
  ASSUME Guarded(wm), Homely(wm), -1 \notin StackSteps,
         \A a, b, c \in Monitors : a = b \/ b = c \/ a = c,
         OutputEvent
  PROVE  Homely(wm')
<1>0. wm \in WindowState /\ wm.session \in SessionState
  BY SoundFit DEF Guarded, Fit
<1>1. ASSUME NEW m \in Monitors, NewOutput(m)  PROVE Homely(wm')
  <2>1. PICK t : /\ wm' = monitor_update_layout(t) /\ Turns(wm, t)
                 /\ t.mapped = wm.mapped /\ t.linked = wm.linked
                 /\ t.mon = wm.mon /\ t.selected_monitor = wm.selected_monitor
    BY <1>1, NewOutputOpens
  <2>2. Homed(wm) => Homed(t)  BY <2>1 DEF Homed
  <2>3. Lodges(t, wm') /\ Chosen(wm')  BY <2>1, UpdateLayoutHome DEF Turns
  <2> QED  BY <2>1, <2>2, <2>3, LodgesHomely DEF Homely
<1>2. ASSUME NEW m \in Monitors, PowerSetMode(m)  PROVE Homely(wm')
  <2>1. PICK on \in BOOLEAN :
          wm' = monitor_update_layout(
                  [wm EXCEPT !.enabled = IF on THEN @ \cup {m} ELSE @ \ {m},
                             !.session.asleep = IF on THEN @ \ {m} ELSE @ \cup {m}])
    BY <1>2, Zenon DEF PowerSetMode
  <2> DEFINE lit == IF on THEN wm.enabled \cup {m} ELSE wm.enabled \ {m}
             off == IF on THEN wm.session.asleep \ {m} ELSE wm.session.asleep \cup {m}
             t == Switched(wm, lit, off, wm.session.layout)
  <2>2. wm' = monitor_update_layout(t)
    <3>1. [wm EXCEPT !.enabled = IF on THEN @ \cup {m} ELSE @ \ {m},
                     !.session.asleep = IF on THEN @ \ {m} ELSE @ \cup {m}] = t
      BY <1>0, Zenon DEF Switched, WindowState, SessionState
    <3> HIDE DEF t
    <3> QED  BY <2>1, <3>1
  <2>3. lit \in SUBSET Monitors /\ off \in SUBSET Monitors
        /\ wm.session.layout \in SUBSET Monitors
    BY <1>0 DEF WindowState, SessionState
  <2> HIDE DEF lit, off
  <2>4. Guarded(t)
    <3>1. Follows(wm, t)  BY <2>3, SwitchFollows DEF Guarded, Switches
    <3> QED  BY <3>1, FollowsGuarded
  <2>5. t.mapped = wm.mapped /\ t.linked = wm.linked /\ (Homed(wm) => Homed(t))
    BY <1>0, SwitchedFields DEF Homed
  <2> HIDE DEF t
  <2>6. Lodges(t, wm') /\ Chosen(wm')  BY <2>2, <2>4, UpdateLayoutHome
  <2> QED  BY <2>5, <2>6, LodgesHomely DEF Homely
<1>3. CASE RequestState
  <2>1. Lodges(wm, wm') /\ Chosen(wm')  BY <1>3, UpdateLayoutHome DEF RequestState
  <2> QED  BY <2>1, LodgesHomely DEF Homely
<1> QED
  BY <1>1, <1>2, <1>3, DestroyHomely, ConfigHomely DEF OutputEvent

(* As long as some output is lit no mapped window is without a monitor, and
   one is selected, whatever is unplugged, switched off or reconfigured under
   the windows, the dialogs and the lock: monitor_close moves the windows to
   the monitor it selects, and monitor_update_layout selects a lit one and
   brings the windows that had none.  With two outputs: the loop of
   monitor_close looks at the first of the list only, and of three may miss
   the one that is lit.  And without client_activate, which selects the
   monitor of the window, dark or not, while others are on none; movestack -1
   drops windows from the list that monitor_close walks. *)
THEOREM NoWindowIsLeftBehind ==
  ASSUME -1 \notin StackSteps, "activate" \notin Bound,
         \A a, b, c \in Monitors : a = b \/ b = c \/ a = c
  PROVE  OutputsSpec => []NoWindowIsLost
<1> DEFINE Inv == Wiring /\ Homely(wm)
<1>1. OutputsInit => Inv
  <2> SUFFICES ASSUME OutputsInit  PROVE Inv
    OBVIOUS
  <2>1. Wiring  BY WiringStart
  <2>2. PICK lit \in SUBSET Monitors :
          \E list \in SetToSeqs(lit) : wm = InitialState(list, lit)
    BY DEF OutputsInit
  <2>3. PICK list \in SetToSeqs(lit) : wm = InitialState(list, lit)  BY <2>2
  <2>4. /\ wm.mapped = {} /\ wm.linked = {} /\ wm.monitors = list
        /\ wm.selected_monitor = First(list)
    BY <2>3 DEF InitialState
  <2>5. list \in Seq(Monitors) /\ None \notin Monitors
    <3>1. wm \in WindowState  BY <2>1, SoundFit DEF Wiring, Guarded
    <3> QED  BY <2>4, <3>1, DistinctAssumption DEF WindowState
  <2>6. First(list) = None => ToSet(list) = {}
    <3>1. list # <<>> => list[1] \in Monitors  BY <2>5
    <3> QED  BY <2>5, <3>1 DEF First, ToSet
  <2>7. Homely(wm)  BY <2>4, <2>6 DEF Homely, Homed, Chosen, Linked
  <2> QED  BY <2>1, <2>7
<1>2. Inv /\ [OutputsNext]_wm => Inv'
  <2> SUFFICES ASSUME Inv, [OutputsNext]_wm  PROVE Inv'
    OBVIOUS
  <2>1. Wiring'  BY WiringStep
  <2>2. Homely(wm')
    <3>1. CASE UNCHANGED wm  BY <3>1
    <3>2. CASE FocusNext  BY <3>2, FocusHomely DEF Wiring
    <3>3. CASE OutputEvent  BY <3>3, OutputHomely DEF Wiring
    <3> QED  BY <3>1, <3>2, <3>3 DEF OutputsNext
  <2>3. Homely(wm)'  BY <2>2 DEF Homely, Homed, Chosen, Linked
  <2> QED  BY <2>1, <2>3
<1>3. Inv => NoWindowIsLost
  <2> SUFFICES ASSUME Inv, wm.enabled # {}
               PROVE  wm.selected_monitor # None /\ \A c \in wm.mapped : wm.mon[c] # None
    BY DEF NoWindowIsLost
  <2>1. wm.selected_monitor # None  BY DEF Wiring, Wired, Homely, Chosen
  <2> QED  BY <2>1 DEF Homely, Homed
<1> QED  BY <1>1, <1>2, <1>3, PTL DEF OutputsSpec
=============================================================================
