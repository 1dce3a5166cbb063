---------------------------- MODULE WindowsProofs ---------------------------
(***************************************************************************)
(* What is true of the window manager for any number of windows, outputs   *)
(* and tags, any rules and any key bindings: no handler leaves a field     *)
(* with a value the next one cannot read, nothing is ever left without a   *)
(* tag, the lists and the taskbars agree with what is mapped, the screen   *)
(* with the tags, and the keyboard is where the user looks.                *)
(*                                                                         *)
(* First what the functions of WindowCore return and keep: a state of the  *)
(* right type; the keyboard on a window that nothing blocks, marked in the *)
(* taskbars; a screen that shows what the tags say.  FocusProofs and       *)
(* OutputsProofs cite these lemmas too, once per handler.                  *)
(***************************************************************************)
EXTENDS Windows, ListProofs, TLAPS

-----------------------------------------------------------------------------
(* Reading the state. *)

LEMMA TopIn ==
  ASSUME NEW s \in WindowState, NEW m
  PROVE  /\ client_top(s, m) \in Clients \cup {None}
         /\ client_top(s, m) # None => Visible(s, client_top(s, m), m)
<1> DEFINE at == {i \in DOMAIN s.focus_stack : Visible(s, s.focus_stack[i], m)}
<1>0. s.focus_stack \in Seq(Clients)  BY DEF WindowState
<1>1. at \in SUBSET Nat  BY <1>0
<1>2. CASE at = {}  BY <1>2 DEF client_top, FirstFocused
<1>3. CASE at # {}
  <2>1. Min(at) \in at  BY <1>1, <1>3, MinIn
  <2>2. client_top(s, m) = s.focus_stack[Min(at)]
    BY <1>3 DEF client_top, FirstFocused
  <2>3. PICK i \in at : client_top(s, m) = s.focus_stack[i]  BY <2>1, <2>2
  <2>4. s.focus_stack[i] \in Clients  BY <1>0
  <2> QED  BY <2>3, <2>4
<1> QED  BY <1>2, <1>3

(* One turn of client_modal_top stays, or goes to a linked dialog. *)
LEMMA ModalChildIn ==
  ASSUME NEW s \in WindowState, NEW c \in Clients
  PROVE  /\ ModalChild(s, c) \in Clients
         /\ ModalChild(s, c) # c => Parent[ModalChild(s, c)] = c
<1> DEFINE P(d) == /\ d # c
                   /\ d \in Modal
                   /\ s.mon[d] # None
                   /\ Visible(s, d, s.mon[d])
                   /\ client_get_parent(s, d) = c
           at == {i \in DOMAIN s.focus_stack : P(s.focus_stack[i])}
           dialog == IF at = {} THEN None ELSE s.focus_stack[Min(at)]
<1>0. s.focus_stack \in Seq(Clients)  BY DEF WindowState
<1>1. at \in SUBSET Nat  BY <1>0
<1>2. ModalChild(s, c) = IF dialog = None THEN c ELSE dialog
  BY DEF ModalChild, FirstFocused
<1>3. CASE dialog = None  BY <1>2, <1>3
<1>4. CASE dialog # None
  <2>1. Min(at) \in at  BY <1>1, <1>4, MinIn
  <2>2. PICK i \in at : dialog = s.focus_stack[i]  BY <1>4, <2>1
  <2>3. dialog \in Clients /\ P(dialog)
    <3>1. i \in DOMAIN s.focus_stack /\ P(s.focus_stack[i])  OBVIOUS
    <3> HIDE DEF P, at, dialog
    <3> QED  BY <1>0, <2>2, <3>1
  <2> QED  BY <1>2, <1>4, <2>3, DistinctAssumption DEF client_get_parent
<1> QED  BY <1>3, <1>4

(* Following it ends: every turn goes deeper, and Parent has a depth. *)
LEMMA DialogsEnd ==
  ASSUME NEW s \in WindowState, NEW c \in Clients
  PROVE  /\ Dialogs(s, c) \subseteq Clients
         /\ \E d \in Dialogs(s, c) : ModalChild(s, d) = d
<1>1. Dialogs(s, c) \subseteq Clients  BY DEF Dialogs
<1>2. c \in Dialogs(s, c)  BY DEF Dialogs
<1>3. \A d \in Dialogs(s, c) : ModalChild(s, d) \in Dialogs(s, c)
  BY ModalChildIn DEF Dialogs
<1>4. \E d \in Dialogs(s, c) : ModalChild(s, d) = d
  <2> DEFINE n == Cardinality(Clients)
  <2>1. n \in Nat  BY FiniteAssumption, FS_CardinalityType
  <2>2. PICK depth \in [Clients -> 0 .. n] :
          \A d \in Clients : Parent[d] # None => depth[Parent[d]] < depth[d]
    BY ParentAssumption
  <2> DEFINE S == {depth[d] : d \in Dialogs(s, c)}
  <2>3. S \in SUBSET (0 .. n) /\ S # {}  BY <1>1, <1>2, <2>2
  <2>4. Max(S) \in S /\ \A y \in S : y <= Max(S)
    <3> HIDE DEF S, n
    <3> QED  BY <2>1, <2>3, MaxIn
  <2>5. PICK d \in Dialogs(s, c) : Max(S) = depth[d]  BY <2>4
  <2>6. ASSUME ModalChild(s, d) # d  PROVE FALSE
    <3> DEFINE e == ModalChild(s, d)
    <3>1. e \in Dialogs(s, c) /\ e \in Clients /\ d \in Clients  BY <1>1, <1>3
    <3>2. Parent[e] = d  BY <2>6, <3>1, ModalChildIn
    <3>3. depth[d] < depth[e]  BY <2>2, <3>1, <3>2, DistinctAssumption
    <3>4. depth[e] <= depth[d]  BY <2>4, <2>5, <3>1
    <3>5. depth[d] \in Int /\ depth[e] \in Int  BY <2>1, <2>2, <3>1
    <3> QED  BY <3>3, <3>4, <3>5
  <2> QED  BY <2>6
<1> QED  BY <1>1, <1>4

LEMMA ModalTopIn ==
  ASSUME NEW s \in WindowState, NEW c \in Clients
  PROVE  client_modal_top(s, c) \in Clients
BY DialogsEnd DEF client_modal_top

-----------------------------------------------------------------------------
(* Changing it. *)

LEMMA RaiseType ==
  ASSUME NEW s \in WindowState, NEW c
  PROVE  Raise(s, c) \in WindowState
<1>1. CASE c \in Clients
  <2>1. ToHead(s.focus_stack, c) \in Seq(Clients)
    BY <1>1, ToHeadType DEF WindowState
  <2>2. s.mon[c] \in Monitors \cup {None}  BY <1>1 DEF WindowState
  <2> QED  BY <1>1, <2>1, <2>2 DEF Raise, WindowState
<1> QED  BY <1>1 DEF Raise

LEMMA TakeKeyboardType ==
  ASSUME NEW s \in WindowState, NEW c \in Clients \cup Unmanaged \cup {None}
  PROVE  TakeKeyboard(s, c) \in WindowState
<1> DEFINE t == [s EXCEPT !.kbd = c]
<1>1. t \in WindowState  BY DEF WindowState, Surfaces
<1>2. toplevel_focus(t, c) \in WindowState
  <2> DEFINE a == IF c \in t.ftl THEN c ELSE None
  <2>1. a \in Clients \cup {None}  BY <1>1 DEF WindowState
  <2>2. [t EXCEPT !.toplevel_active = a] \in WindowState
    <3> HIDE DEF t, a
    <3> QED  BY <1>1, <2>1 DEF WindowState
  <2> QED  BY <1>1, <2>2 DEF toplevel_focus
<1> QED  BY <1>2 DEF TakeKeyboard

LEMMA FocusType ==
  ASSUME NEW s \in WindowState, NEW c \in Clients \cup Unmanaged \cup {None}
  PROVE  client_focus(s, c) \in WindowState
<1> DEFINE d == Target(s, c)
<1>1. d \in Clients \cup Unmanaged \cup {None}  BY ModalTopIn DEF Target
<1>2. Raise(s, d) \in WindowState  BY RaiseType
<1>3. TakeKeyboard(Raise(s, d), d) \in WindowState
  BY <1>1, <1>2, TakeKeyboardType
<1> QED  BY <1>2, <1>3 DEF client_focus, FocusOn, Offer

LEMMA RefocusType ==
  ASSUME NEW s \in WindowState
  PROVE  Refocus(s) \in WindowState
BY TopIn, FocusType DEF Refocus

LEMMA ArrangeType ==
  ASSUME NEW s \in WindowState, NEW m
  PROVE  layout_arrange(s, m) \in WindowState
BY DEF layout_arrange, WindowState

LEMMA ArrangeOfType ==
  ASSUME NEW s \in WindowState, NEW c
  PROVE  ArrangeOf(s, c) \in WindowState
BY ArrangeType DEF ArrangeOf

LEMMA SetFullscreenType ==
  ASSUME NEW s \in WindowState, NEW c \in Clients, NEW on \in BOOLEAN
  PROVE  client_set_fullscreen(s, c, on) \in WindowState
<1> DEFINE t == [s EXCEPT !.isfullscreen = IF on THEN @ \cup {c} ELSE @ \ {c}]
<1>1. t \in WindowState  BY DEF WindowState
<1> QED  BY <1>1, ArrangeOfType DEF client_set_fullscreen

LEMMA SetFloatingType ==
  ASSUME NEW s \in WindowState, NEW c \in Clients, NEW on \in BOOLEAN
  PROVE  client_set_floating(s, c, on) \in WindowState
<1> DEFINE t == [s EXCEPT !.isfloating = IF on THEN @ \cup {c} ELSE @ \ {c}]
<1>1. t \in WindowState  BY DEF WindowState
<1> QED  BY <1>1, ArrangeOfType DEF client_set_floating

LEMMA ViewedType ==
  ASSUME NEW s \in WindowState, NEW m \in Monitors
  PROVE  Viewed(s, m) \in SUBSET Tags
BY DEF Viewed, WindowState

LEMMA SetMonitorType ==
  ASSUME NEW s \in WindowState, NEW c \in Clients,
         NEW m \in Monitors \cup {None}, NEW newtags \in SUBSET Tags
  PROVE  client_set_monitor(s, c, m, newtags) \in WindowState
<1> DEFINE old    == s.mon[c]
           moved  == [s EXCEPT !.mon[c] = m]
           left   == IF old = None THEN moved ELSE layout_arrange(moved, old)
           new    == TagsOn(s, m, newtags)
           tagged == [left EXCEPT !.tags[c] = new]
<1>1. moved \in WindowState  BY DEF WindowState
<1>2. left \in WindowState  BY <1>1, ArrangeType
<1>3. CASE m = None
  BY <1>2, <1>3, RefocusType DEF client_set_monitor
<1>4. CASE m \in Monitors
  <2>1. new \in SUBSET Tags  BY <1>4, ViewedType DEF TagsOn
  <2>2. tagged \in WindowState
    <3> HIDE DEF left, new
    <3> QED  BY <1>2, <2>1 DEF WindowState
  <2>3. ArrangeOf(tagged, c) \in WindowState  BY <2>2, ArrangeOfType
  <2> QED  BY <1>2, <2>3, RefocusType DEF client_set_monitor
<1> QED  BY <1>3, <1>4

-----------------------------------------------------------------------------
(* What client_focus does, field by field. *)

(* What client_focus never changes: the windows, their places and the
   outputs.  It changes the order of the focus stack, the selected monitor,
   the urgency hints, the keyboard and the mark in the taskbars. *)
SameWindows(s, t) ==
  /\ t.clients = s.clients /\ t.mapped = s.mapped /\ t.linked = s.linked
  /\ t.ftl = s.ftl /\ t.mon = s.mon /\ t.tags = s.tags
  /\ t.isfloating = s.isfloating /\ t.isfullscreen = s.isfullscreen
  /\ t.mapwait = s.mapwait /\ t.shown = s.shown
  /\ t.monitors = s.monitors /\ t.enabled = s.enabled
  /\ t.tagset = s.tagset /\ t.seltags = s.seltags /\ t.session = s.session

LEMMA RaiseEffect ==
  ASSUME NEW s \in WindowState, NEW d
  PROVE  LET r == Raise(s, d)
         IN  /\ r \in WindowState /\ SameWindows(s, r)
             /\ r.kbd = s.kbd /\ r.toplevel_active = s.toplevel_active
             /\ r.focus_stack = IF d \in Clients THEN ToHead(s.focus_stack, d)
                                ELSE s.focus_stack
             /\ r.selected_monitor = IF d \in Clients THEN s.mon[d]
                                     ELSE s.selected_monitor
             /\ KeepsKeyboard(r) <=> KeepsKeyboard(s)
<1>1. Raise(s, d) \in WindowState  BY RaiseType
<1>2. CASE d \notin Clients  BY <1>1, <1>2 DEF Raise, SameWindows
<1>3. CASE d \in Clients
  BY <1>1, <1>3 DEF Raise, SameWindows, WindowState, KeepsKeyboard
<1> QED  BY <1>2, <1>3

LEMMA TakeKeyboardEffect ==
  ASSUME NEW s \in WindowState, NEW d \in Clients \cup Unmanaged \cup {None}
  PROVE  LET t == TakeKeyboard(s, d)
         IN  /\ t \in WindowState /\ SameWindows(s, t)
             /\ t.kbd = d
             /\ t.toplevel_active = IF d \in Unmanaged THEN s.toplevel_active
                                    ELSE IF d \in s.ftl THEN d ELSE None
             /\ t.focus_stack = s.focus_stack
             /\ t.selected_monitor = s.selected_monitor
<1>1. TakeKeyboard(s, d) \in WindowState  BY TakeKeyboardType
<1> DEFINE k == [s EXCEPT !.kbd = d]
<1>2. /\ k.ftl = s.ftl /\ k.kbd = d /\ SameWindows(s, k)
      /\ k.toplevel_active = s.toplevel_active /\ k.focus_stack = s.focus_stack
      /\ k.selected_monitor = s.selected_monitor
  BY DEF SameWindows, WindowState
<1>3. k \in WindowState  BY DEF WindowState, Surfaces
<1>4. TakeKeyboard(s, d) = IF d \in Unmanaged THEN k
        ELSE [k EXCEPT !.toplevel_active = IF d \in k.ftl THEN d ELSE None]
  BY DEF TakeKeyboard, toplevel_focus
<1>5. CASE d \in Unmanaged
  <2> HIDE DEF k
  <2> QED  BY <1>1, <1>2, <1>4, <1>5
<1>6. CASE d \notin Unmanaged
  <2> DEFINE a == IF d \in k.ftl THEN d ELSE None
             t == [k EXCEPT !.toplevel_active = a]
  <2> HIDE DEF k
  <2>1. TakeKeyboard(s, d) = t  BY <1>4, <1>6
  <2>2. a = IF d \in s.ftl THEN d ELSE None  BY <1>2
  <2> HIDE DEF a
  <2>3. /\ SameWindows(k, t) /\ t.kbd = k.kbd /\ t.toplevel_active = a
        /\ t.focus_stack = k.focus_stack /\ t.selected_monitor = k.selected_monitor
    BY <1>3 DEF SameWindows, WindowState
  <2> HIDE DEF t
  <2>4. SameWindows(s, t)  BY <1>2, <2>3 DEF SameWindows
  <2> QED  BY <1>1, <1>2, <1>6, <2>1, <2>2, <2>3, <2>4
<1> QED  BY <1>5, <1>6

LEMMA SameTwice ==
  ASSUME NEW s, NEW t, NEW u, SameWindows(s, t), SameWindows(t, u)
  PROVE  SameWindows(s, u)
BY DEF SameWindows

(* All of client_focus, field by field. *)
LEMMA FocusEffect ==
  ASSUME NEW s \in WindowState, NEW c \in Clients \cup Unmanaged \cup {None}
  PROVE  LET t == client_focus(s, c)
             d == Target(s, c)
         IN  /\ t \in WindowState /\ SameWindows(s, t)
             /\ s.session.lock_active \/ (d # None /\ d = s.kbd) => t = s
             /\ ~s.session.lock_active /\ (d = None \/ d # s.kbd) =>
                /\ t.focus_stack = IF d \in Clients THEN ToHead(s.focus_stack, d)
                                   ELSE s.focus_stack
                /\ t.selected_monitor = IF d \in Clients THEN s.mon[d]
                                        ELSE s.selected_monitor
                /\ t.kbd = IF KeepsKeyboard(s) THEN s.kbd ELSE d
                /\ t.toplevel_active =
                     IF KeepsKeyboard(s) \/ d \in Unmanaged THEN s.toplevel_active
                     ELSE IF d \in s.ftl THEN d ELSE None
<1> DEFINE d == Target(s, c)
           r == Raise(s, d)
<1>1. d \in Clients \cup Unmanaged \cup {None}  BY ModalTopIn DEF Target
<1>2. client_focus(s, c) =
        IF s.session.lock_active \/ (d # None /\ d = s.kbd) THEN s
        ELSE IF KeepsKeyboard(r) THEN r ELSE TakeKeyboard(r, d)
  BY DEF client_focus, FocusOn, Offer
<1>3. SameWindows(s, s)  BY DEF SameWindows
<1> HIDE DEF d
<1>4. /\ r \in WindowState /\ SameWindows(s, r)
      /\ r.kbd = s.kbd /\ r.toplevel_active = s.toplevel_active
      /\ r.focus_stack = IF d \in Clients THEN ToHead(s.focus_stack, d) ELSE s.focus_stack
      /\ r.selected_monitor = IF d \in Clients THEN s.mon[d] ELSE s.selected_monitor
      /\ KeepsKeyboard(r) <=> KeepsKeyboard(s)
  BY RaiseEffect
<1> HIDE DEF r
<1>5. CASE s.session.lock_active \/ (d # None /\ d = s.kbd)
  <2>1. client_focus(s, c) = s  BY <1>2, <1>5
  <2> QED  BY <1>3, <1>5, <2>1 DEF d
<1>6. CASE ~(s.session.lock_active \/ (d # None /\ d = s.kbd)) /\ KeepsKeyboard(s)
  <2>1. client_focus(s, c) = r  BY <1>2, <1>4, <1>6
  <2> QED  BY <1>4, <1>6, <2>1 DEF d
<1>7. CASE ~(s.session.lock_active \/ (d # None /\ d = s.kbd)) /\ ~KeepsKeyboard(s)
  <2> DEFINE t == TakeKeyboard(r, d)
  <2>1. client_focus(s, c) = t  BY <1>2, <1>4, <1>7
  <2>2. /\ t \in WindowState /\ SameWindows(r, t)
        /\ t.kbd = d
        /\ t.toplevel_active = IF d \in Unmanaged THEN r.toplevel_active
                               ELSE IF d \in r.ftl THEN d ELSE None
        /\ t.focus_stack = r.focus_stack
        /\ t.selected_monitor = r.selected_monitor
    BY <1>1, <1>4, TakeKeyboardEffect
  <2> HIDE DEF t
  <2>3. SameWindows(s, t)  BY <1>4, <2>2, SameTwice
  <2>4. r.ftl = s.ftl  BY <1>4 DEF SameWindows
  <2> QED  BY <1>4, <1>7, <2>1, <2>2, <2>3, <2>4 DEF d
<1> QED  BY <1>5, <1>6, <1>7

(* client_focus goes to the window itself or to a modal dialog in view, which
   no other dialog blocks. *)
LEMMA TargetIn ==
  ASSUME NEW s \in WindowState, NEW c \in Clients \cup Unmanaged \cup {None}
  PROVE  LET d == Target(s, c)
         IN  /\ c \notin Clients => d = c
             /\ c \in Clients => d \in Clients /\ ModalChild(s, d) = d
             /\ d = c \/ /\ d \in Modal /\ d \in ToSet(s.focus_stack)
                         /\ Visible(s, d, s.mon[d])
<1>1. CASE c \notin Clients  BY <1>1 DEF Target
<1>2. CASE c \in Clients
  <2> DEFINE D == {c} \cup {x \in Clients : /\ x \in Modal /\ x \in ToSet(s.focus_stack)
                                           /\ Visible(s, x, s.mon[x])}
             d == client_modal_top(s, c)
  <2>1. ASSUME NEW x \in D  PROVE ModalChild(s, x) \in D
    <3> DEFINE P(y) == /\ y # x
                       /\ y \in Modal
                       /\ s.mon[y] # None
                       /\ Visible(s, y, s.mon[y])
                       /\ client_get_parent(s, y) = x
               at == {i \in DOMAIN s.focus_stack : P(s.focus_stack[i])}
               dialog == IF at = {} THEN None ELSE s.focus_stack[Min(at)]
    <3>0. s.focus_stack \in Seq(Clients) /\ x \in Clients  BY <1>2 DEF WindowState
    <3>1. at \in SUBSET Nat  BY <3>0
    <3>2. ModalChild(s, x) = IF dialog = None THEN x ELSE dialog
      BY DEF ModalChild, FirstFocused
    <3>3. CASE dialog = None  BY <3>2, <3>3
    <3>4. CASE dialog # None
      <4>1. Min(at) \in at  BY <3>1, <3>4, MinIn
      <4>2. PICK i \in at : dialog = s.focus_stack[i]  BY <3>4, <4>1
      <4>3. P(dialog) /\ dialog \in ToSet(s.focus_stack) /\ dialog \in Clients
        <5>1. i \in DOMAIN s.focus_stack /\ P(s.focus_stack[i])  OBVIOUS
        <5> HIDE DEF P, at, dialog
        <5> QED  BY <3>0, <4>2, <5>1 DEF ToSet
      <4>4. ModalChild(s, x) = dialog  BY <3>2, <3>4
      <4> HIDE DEF dialog, at
      <4> QED  BY <4>3, <4>4
    <3> QED  BY <3>3, <3>4
  <2>2. Dialogs(s, c) \subseteq D
    <3>1. D \in SUBSET Clients /\ c \in D  BY <1>2
    <3> HIDE DEF D
    <3> QED  BY <2>1, <3>1 DEF Dialogs
  <2>3. d \in Dialogs(s, c) /\ ModalChild(s, d) = d  BY <1>2, DialogsEnd DEF client_modal_top
  <2>4. d \in Clients  BY <1>2, ModalTopIn
  <2>5. Target(s, c) = d  BY <1>2 DEF Target
  <2> HIDE DEF d
  <2> QED  BY <1>2, <2>2, <2>3, <2>4, <2>5
<1> QED  BY <1>1, <1>2

-----------------------------------------------------------------------------
(* The keyboard: who has it, and what client_focus makes of it. *)

(* The session is unlocked, no menu or layer surface has the keyboard, and
   the window that has it is the one marked in the taskbars, if it has a
   handle there. *)
Marked(s) ==
  /\ ~s.session.lock_active
  /\ s.kbd \in Clients \cup {None}
  /\ s.toplevel_active = IF s.kbd \in s.ftl THEN s.kbd ELSE None

(* Moreover the window is in the focus stack and on a monitor. *)
Attended(s) ==
  /\ Marked(s)
  /\ s.kbd # None => s.kbd \in ToSet(s.focus_stack) /\ s.mon[s.kbd] # None

Unblocked(s) == s.kbd \in Clients => ModalChild(s, s.kbd) = s.kbd

LEMMA NotKept ==
  ASSUME NEW s, Marked(s)
  PROVE  ~KeepsKeyboard(s)
<1>1. s.kbd \in Clients \cup {None}  BY DEF Marked
<1>2. s.kbd \notin TopLayers /\ s.kbd \notin WantsFocus
  BY <1>1, DistinctAssumption, WindowKindsAssumption
<1> QED  BY <1>2 DEF KeepsKeyboard

(* A window blocks c if it is a modal dialog of c in view. *)
Blocks(s, d, c) ==
  /\ d # c
  /\ d \in Modal
  /\ s.mon[d] # None
  /\ Visible(s, d, s.mon[d])
  /\ client_get_parent(s, d) = c

LEMMA StaysIff ==
  ASSUME NEW s \in WindowState, NEW c \in Clients
  PROVE  ModalChild(s, c) = c <=> \A d \in ToSet(s.focus_stack) : ~Blocks(s, d, c)
<1> DEFINE at == {i \in DOMAIN s.focus_stack : Blocks(s, s.focus_stack[i], c)}
           dialog == IF at = {} THEN None ELSE s.focus_stack[Min(at)]
<1>0. s.focus_stack \in Seq(Clients) /\ at \in SUBSET Nat  BY DEF WindowState
<1>1. ModalChild(s, c) = IF dialog = None THEN c ELSE dialog
  BY DEF ModalChild, FirstFocused, Blocks
<1>2. CASE at = {}
  <2>1. \A d \in ToSet(s.focus_stack) : ~Blocks(s, d, c)  BY <1>2 DEF ToSet
  <2> QED  BY <1>1, <1>2, <2>1
<1>3. CASE at # {}
  <2>1. Min(at) \in at
    <3> HIDE DEF at
    <3> QED  BY <1>0, <1>3, MinIn
  <2>2. PICK i \in at : i = Min(at)  BY <2>1
  <2>3. /\ i \in DOMAIN s.focus_stack /\ Blocks(s, s.focus_stack[i], c)
        /\ dialog = s.focus_stack[i]
    BY <1>3, <2>2
  <2>4. dialog \in Clients /\ dialog \in ToSet(s.focus_stack)
        /\ Blocks(s, dialog, c)
    <3> HIDE DEF at, dialog
    <3> QED  BY <1>0, <2>3 DEF ToSet
  <2> HIDE DEF at, dialog
  <2> QED  BY <1>1, <2>4, DistinctAssumption DEF Blocks
<1> QED  BY <1>2, <1>3

(* client_focus of a window of the focus stack, or of none. *)
LEMMA FocusKeeps ==
  ASSUME NEW s \in WindowState, NEW c \in ToSet(s.focus_stack) \cup {None}
  PROVE  LET t == client_focus(s, c)
         IN  /\ t \in WindowState /\ SameWindows(s, t)
             /\ ToSet(t.focus_stack) = ToSet(s.focus_stack)
             /\ IsInjective(s.focus_stack) => IsInjective(t.focus_stack)
             /\ Marked(s) /\ (c # None => s.mon[c] # None) => Attended(t) /\ Unblocked(t)
             /\ t.selected_monitor = None =>
                  s.selected_monitor = None \/ (c # None /\ s.mon[c] = None)
<1> DEFINE d == Target(s, c)
           t == client_focus(s, c)
<1>0. s.focus_stack \in Seq(Clients) /\ ToSet(s.focus_stack) \subseteq Clients
  BY DEF WindowState, ToSet
<1>1. c \in Clients \cup Unmanaged \cup {None}  BY <1>0
<1>2. /\ c \notin Clients => d = c
      /\ c \in Clients => d \in Clients /\ ModalChild(s, d) = d
      /\ d = c \/ /\ d \in Modal /\ d \in ToSet(s.focus_stack)
                  /\ Visible(s, d, s.mon[d])
  BY <1>1, TargetIn
<1>3. /\ t \in WindowState /\ SameWindows(s, t)
      /\ s.session.lock_active \/ (d # None /\ d = s.kbd) => t = s
      /\ ~s.session.lock_active /\ (d = None \/ d # s.kbd) =>
         /\ t.focus_stack = IF d \in Clients THEN ToHead(s.focus_stack, d)
                            ELSE s.focus_stack
         /\ t.selected_monitor = IF d \in Clients THEN s.mon[d]
                                 ELSE s.selected_monitor
         /\ t.kbd = IF KeepsKeyboard(s) THEN s.kbd ELSE d
         /\ t.toplevel_active =
              IF KeepsKeyboard(s) \/ d \in Unmanaged THEN s.toplevel_active
              ELSE IF d \in s.ftl THEN d ELSE None
  BY <1>1, FocusEffect
<1> HIDE DEF t, d
<1>4. /\ None \notin Clients /\ (c \in Clients <=> c # None)
      /\ d \in ToSet(s.focus_stack) \cup {None} /\ (d = None <=> c = None)
  BY <1>0, <1>2, DistinctAssumption
<1>5. d # None => d \in Clients /\ (s.mon[d] = None => c = d)
  BY <1>0, <1>4, <1>2 DEF Visible
<1>6. /\ ToSet(t.focus_stack) = ToSet(s.focus_stack)
      /\ IsInjective(s.focus_stack) => IsInjective(t.focus_stack)
  <2>0. t.focus_stack = s.focus_stack \/
        (d \in Clients /\ d \in ToSet(s.focus_stack) /\ t.focus_stack = ToHead(s.focus_stack, d))
    <3>1. CASE t = s  BY <3>1
    <3>2. CASE t # s
      <4>1. ~s.session.lock_active /\ (d = None \/ d # s.kbd)  BY <1>3, <3>2
      <4>2. t.focus_stack = IF d \in Clients THEN ToHead(s.focus_stack, d)
                            ELSE s.focus_stack
        BY <1>3, <4>1
      <4> QED  BY <1>4, <4>2
    <3> QED  BY <3>1, <3>2
  <2>1. d \in Clients => ToSet(ToHead(s.focus_stack, d)) = ToSet(s.focus_stack) \cup {d}
        /\ (IsInjective(s.focus_stack) => IsInjective(ToHead(s.focus_stack, d)))
    BY <1>0, ToHeadSet
  <2>2. d \in ToSet(s.focus_stack) => ToSet(s.focus_stack) \cup {d} = ToSet(s.focus_stack)
    OBVIOUS
  <2> QED  BY <2>0, <2>1, <2>2
<1>7. ASSUME Marked(s), c # None => s.mon[c] # None  PROVE Attended(t) /\ Unblocked(t)
  <2>1. ~KeepsKeyboard(s) /\ ~s.session.lock_active /\ s.kbd \in Clients \cup {None}
    BY <1>7, NotKept DEF Marked
  <2>2. t.session = s.session /\ t.ftl = s.ftl /\ t.mon = s.mon  BY <1>3 DEF SameWindows
  <2>3. t.kbd = d
    <3>1. CASE d # None /\ d = s.kbd  BY <1>3, <3>1
    <3>2. CASE d = None \/ d # s.kbd  BY <1>3, <2>1, <3>2
    <3> QED  BY <3>1, <3>2
  <2>4. t.toplevel_active = IF d \in s.ftl THEN d ELSE None
    <3>1. d \notin Unmanaged  BY <1>4, <1>5, DistinctAssumption
    <3>2. CASE d # None /\ d = s.kbd  BY <1>3, <1>7, <3>2 DEF Marked
    <3> QED  BY <1>3, <2>1, <3>1, <3>2
  <2>5. Marked(t)  BY <1>4, <1>5, <2>1, <2>2, <2>3, <2>4 DEF Marked
  <2>6. Attended(t)  BY <1>4, <1>5, <1>6, <1>7, <2>2, <2>3, <2>5 DEF Attended
  <2>7. Unblocked(t)
    <3> SUFFICES ASSUME t.kbd \in Clients  PROVE ModalChild(t, d) = d
      BY <2>3 DEF Unblocked
    <3>1. \A x \in ToSet(s.focus_stack) : ~Blocks(s, x, d)  BY <1>2, <1>4, <2>3, StaysIff
    <3>2. \A x \in ToSet(s.focus_stack) : Blocks(t, x, d) <=> Blocks(s, x, d)
      BY <1>3 DEF SameWindows, Blocks, Visible, Viewed, client_get_parent
    <3> QED  BY <1>3, <1>6, <2>3, <3>1, <3>2, StaysIff
  <2> QED  BY <2>6, <2>7
<1>8. ASSUME t.selected_monitor = None
      PROVE  s.selected_monitor = None \/ (c # None /\ s.mon[c] = None)
  <2>1. CASE t = s  BY <1>8, <2>1
  <2>2. CASE t # s
    <3>1. ~s.session.lock_active /\ (d = None \/ d # s.kbd)  BY <1>3, <2>2
    <3>2. t.selected_monitor = IF d \in Clients THEN s.mon[d] ELSE s.selected_monitor
      BY <1>3, <3>1
    <3>3. CASE d \in Clients
      <4>1. s.mon[d] = None /\ d # None  BY <1>4, <1>8, <3>2, <3>3
      <4> QED  BY <1>4, <1>5, <4>1
    <3>4. CASE d \notin Clients  BY <1>8, <3>2, <3>4
    <3> QED  BY <3>3, <3>4
  <2> QED  BY <2>1, <2>2
<1> QED  BY <1>3, <1>6, <1>7, <1>8 DEF t

(* The top window comes from the focus stack. *)
LEMMA TopInStack ==
  ASSUME NEW s \in WindowState, NEW m
  PROVE  client_top(s, m) \in ToSet(s.focus_stack) \cup {None}
<1> DEFINE at == {i \in DOMAIN s.focus_stack : Visible(s, s.focus_stack[i], m)}
<1>0. s.focus_stack \in Seq(Clients) /\ at \in SUBSET Nat  BY DEF WindowState
<1>1. CASE at = {}  BY <1>1 DEF client_top, FirstFocused
<1>2. CASE at # {}
  <2>1. Min(at) \in at
    <3> HIDE DEF at
    <3> QED  BY <1>0, <1>2, MinIn
  <2>2. client_top(s, m) = s.focus_stack[Min(at)]
    BY <1>2 DEF client_top, FirstFocused
  <2>3. Min(at) \in DOMAIN s.focus_stack  BY <2>1
  <2> QED  BY <2>2, <2>3 DEF ToSet
<1> QED  BY <1>1, <1>2

OneMonitor == \A m, n \in Monitors : m = n

LEMMA RefocusKeeps ==
  ASSUME NEW s \in WindowState
  PROVE  LET t == Refocus(s)
         IN  /\ t \in WindowState /\ SameWindows(s, t)
             /\ ToSet(t.focus_stack) = ToSet(s.focus_stack)
             /\ IsInjective(s.focus_stack) => IsInjective(t.focus_stack)
             /\ Marked(s) => Attended(t) /\ Unblocked(t)
             /\ Modal = {} \/ OneMonitor => t.selected_monitor = s.selected_monitor
             /\ t.selected_monitor = None => s.selected_monitor = None
<1> DEFINE c == client_top(s, s.selected_monitor)
           d == Target(s, c)
           t == Refocus(s)
<1>1. t = client_focus(s, c)  BY DEF Refocus
<1>2. c \in ToSet(s.focus_stack) \cup {None}  BY TopInStack
<1>3. c \in Clients \cup {None} /\ (c # None => Visible(s, c, s.selected_monitor))
  BY TopIn
<1> HIDE DEF c
<1>4. /\ t \in WindowState /\ SameWindows(s, t)
      /\ ToSet(t.focus_stack) = ToSet(s.focus_stack)
      /\ IsInjective(s.focus_stack) => IsInjective(t.focus_stack)
      /\ Marked(s) /\ (c # None => s.mon[c] # None) => Attended(t) /\ Unblocked(t)
      /\ t.selected_monitor = None =>
           s.selected_monitor = None \/ (c # None /\ s.mon[c] = None)
  BY <1>1, <1>2, FocusKeeps
<1>5. c # None => s.mon[c] = s.selected_monitor /\ s.mon[c] # None
  BY <1>3 DEF Visible
<1>6. ASSUME Modal = {} \/ OneMonitor  PROVE t.selected_monitor = s.selected_monitor
  <2>1. /\ s.session.lock_active \/ (d # None /\ d = s.kbd) => t = s
        /\ ~s.session.lock_active /\ (d = None \/ d # s.kbd) =>
           t.selected_monitor = IF d \in Clients THEN s.mon[d] ELSE s.selected_monitor
    BY <1>1, <1>3, FocusEffect
  <2>2. /\ c \notin Clients => d = c
        /\ c \in Clients => d \in Clients
        /\ d = c \/ (d \in Modal /\ Visible(s, d, s.mon[d]))
    BY <1>3, TargetIn
  <2>3. d \in Clients => s.mon[d] = s.selected_monitor
    <3>1. CASE d = c  BY <1>3, <1>5, <3>1, DistinctAssumption
    <3>2. CASE d # c /\ d \in Clients
      <4>1. c \in Clients /\ c # None  BY <2>2, <3>2, <1>3, DistinctAssumption
      <4>2. s.mon[d] \in Monitors /\ s.mon[c] \in Monitors
        BY <1>5, <2>2, <3>2, <4>1 DEF WindowState, Visible
      <4>3. OneMonitor  BY <1>6, <2>2, <3>2
      <4> QED  BY <1>5, <4>1, <4>2, <4>3 DEF OneMonitor
    <3> QED  BY <3>1, <3>2
  <2> HIDE DEF d
  <2>4. d = None \/ d # s.kbd \/ (d # None /\ d = s.kbd)  OBVIOUS
  <2> QED  BY <2>1, <2>3, <2>4
<1> QED  BY <1>4, <1>5, <1>6 DEF t

-----------------------------------------------------------------------------
(* The top window, by its place in the focus stack. *)

LEMMA TopIs ==
  ASSUME NEW s \in WindowState, NEW m
  PROVE  /\ client_top(s, m) = None => \A j \in DOMAIN s.focus_stack :
                                         ~Visible(s, s.focus_stack[j], m)
         /\ client_top(s, m) # None =>
              \E i \in DOMAIN s.focus_stack :
                /\ s.focus_stack[i] = client_top(s, m)
                /\ Visible(s, s.focus_stack[i], m)
                /\ \A j \in DOMAIN s.focus_stack :
                     j < i => ~Visible(s, s.focus_stack[j], m)
<1> DEFINE at == {i \in DOMAIN s.focus_stack : Visible(s, s.focus_stack[i], m)}
<1>0. s.focus_stack \in Seq(Clients) /\ at \in SUBSET Nat /\ None \notin Clients
  BY DistinctAssumption DEF WindowState
<1>1. client_top(s, m) = IF at = {} THEN None ELSE s.focus_stack[Min(at)]
  BY DEF client_top, FirstFocused
<1>2. CASE at = {}  BY <1>1, <1>2
<1>3. CASE at # {}
  <2>1. Min(at) \in at /\ \A y \in at : Min(at) <= y
    <3> HIDE DEF at
    <3> QED  BY <1>0, <1>3, MinIn
  <2>2. PICK i \in at : i = Min(at)  BY <2>1
  <2>3. /\ i \in DOMAIN s.focus_stack /\ Visible(s, s.focus_stack[i], m)
        /\ client_top(s, m) = s.focus_stack[i]
    BY <1>1, <1>3, <2>2
  <2>4. \A j \in DOMAIN s.focus_stack : j < i => ~Visible(s, s.focus_stack[j], m)
    <3> SUFFICES ASSUME NEW j \in DOMAIN s.focus_stack, j < i,
                        Visible(s, s.focus_stack[j], m)
                 PROVE  FALSE
      OBVIOUS
    <3>1. j \in at /\ i <= j /\ i \in Nat /\ j \in Nat  BY <1>0, <2>1, <2>2
    <3> HIDE DEF at
    <3> QED  BY <3>1
  <2>5. client_top(s, m) # None  BY <1>0, <2>3
  <2> QED  BY <2>3, <2>4, <2>5
<1> QED  BY <1>2, <1>3

LEMMA TopFrom ==
  ASSUME NEW s \in WindowState, NEW m
  PROVE  /\ (\A j \in DOMAIN s.focus_stack : ~Visible(s, s.focus_stack[j], m))
              => client_top(s, m) = None
         /\ \A i \in DOMAIN s.focus_stack :
              /\ Visible(s, s.focus_stack[i], m)
              /\ \A j \in DOMAIN s.focus_stack :
                   j < i => ~Visible(s, s.focus_stack[j], m)
              => client_top(s, m) = s.focus_stack[i]
<1>0. s.focus_stack \in Seq(Clients) /\ None \notin Clients
  BY DistinctAssumption DEF WindowState
<1>1. ASSUME \A j \in DOMAIN s.focus_stack : ~Visible(s, s.focus_stack[j], m)
      PROVE  client_top(s, m) = None
  BY <1>1, TopIs
<1>2. ASSUME NEW i \in DOMAIN s.focus_stack, Visible(s, s.focus_stack[i], m),
             \A j \in DOMAIN s.focus_stack : j < i => ~Visible(s, s.focus_stack[j], m)
      PROVE  client_top(s, m) = s.focus_stack[i]
  <2>1. client_top(s, m) # None  BY <1>2, TopIs
  <2>2. PICK k \in DOMAIN s.focus_stack :
          /\ s.focus_stack[k] = client_top(s, m)
          /\ Visible(s, s.focus_stack[k], m)
          /\ \A j \in DOMAIN s.focus_stack :
               j < k => ~Visible(s, s.focus_stack[j], m)
    BY <2>1, TopIs
  <2>3. i \in Nat /\ k \in Nat  BY <1>0
  <2>4. ~(k < i) /\ ~(i < k)  BY <1>2, <2>2
  <2>5. k = i  BY <2>3, <2>4
  <2> QED  BY <2>2, <2>5
<1> QED  BY <1>1, <1>2

(* Only the stack and what is visible count. *)
LEMMA TopSame ==
  ASSUME NEW s \in WindowState, NEW t \in WindowState, NEW m,
         t.focus_stack = s.focus_stack, t.mon = s.mon, t.tags = s.tags,
         t.tagset = s.tagset, t.seltags = s.seltags
  PROVE  client_top(t, m) = client_top(s, m)
BY DEF client_top, FirstFocused, Visible, Viewed

(* The head of the stack is on top where it is visible. *)
LEMMA TopHead ==
  ASSUME NEW s \in WindowState, NEW m, s.focus_stack # <<>>,
         Visible(s, s.focus_stack[1], m)
  PROVE  client_top(s, m) = s.focus_stack[1]
<1>1. s.focus_stack \in Seq(Clients)  BY DEF WindowState
<1>2. 1 \in DOMAIN s.focus_stack /\ \A j \in DOMAIN s.focus_stack : ~(j < 1)  BY <1>1
<1> QED  BY <1>2, TopFrom

-----------------------------------------------------------------------------
(* Who is in front. *)

(* The keyboard is on the top window of its monitor; *)
OnTop(s) == s.kbd \in Clients => s.kbd = client_top(s, s.mon[s.kbd])

(* of the selected one, if there is no other; *)
InFront(s) == s.kbd = client_top(s, s.selected_monitor)

(* as far as no dialog takes it over. *)
Foremost(s) == Modal = {} => OnTop(s) /\ (OneMonitor => InFront(s))

LEMMA FocusFront ==
  ASSUME NEW s \in WindowState, NEW c \in ToSet(s.focus_stack) \cup {None},
         Marked(s), Modal = {},
         c # None => Visible(s, c, s.mon[c])
  PROVE  LET t == client_focus(s, c)
         IN  /\ t.kbd = c
             /\ c # None /\ c # s.kbd => OnTop(t) /\ InFront(t)
             /\ c # None /\ c = s.kbd => t = s
             /\ c = None => /\ t.focus_stack = s.focus_stack
                            /\ t.selected_monitor = s.selected_monitor
<1> DEFINE t == client_focus(s, c)
           d == Target(s, c)
<1>0. /\ s.focus_stack \in Seq(Clients) /\ ToSet(s.focus_stack) \subseteq Clients
      /\ None \notin Clients
  BY DistinctAssumption DEF WindowState, ToSet
<1>1. d = c  BY <1>0, TargetIn
<1>2. ~KeepsKeyboard(s) /\ ~s.session.lock_active  BY NotKept DEF Marked
<1>3. /\ t \in WindowState /\ SameWindows(s, t)
      /\ c # None /\ c = s.kbd => t = s
      /\ c = None \/ c # s.kbd =>
         /\ t.focus_stack = IF c \in Clients THEN ToHead(s.focus_stack, c)
                            ELSE s.focus_stack
         /\ t.selected_monitor = IF c \in Clients THEN s.mon[c]
                                 ELSE s.selected_monitor
         /\ t.kbd = c
  <2> HIDE DEF t
  <2>1. c \in Clients \cup Unmanaged \cup {None}  BY <1>0
  <2> QED  BY <1>1, <1>2, <2>1, FocusEffect DEF t
<1> HIDE DEF t, d
<1>4. ASSUME c # None, c # s.kbd  PROVE OnTop(t) /\ InFront(t)
  <2>1. c \in Clients  BY <1>0, <1>4
  <2>2. t.focus_stack = ToHead(s.focus_stack, c) /\ t.selected_monitor = s.mon[c] /\ t.kbd = c
    BY <1>3, <1>4, <2>1
  <2>3. Without(s.focus_stack, c) \in Seq(Clients)  BY <1>0, WithoutType
  <2>4. t.focus_stack # <<>> /\ t.focus_stack[1] = c
    BY <2>1, <2>2, <2>3 DEF ToHead
  <2>5. Visible(t, c, s.mon[c]) /\ t.mon = s.mon
    BY <1>3, <1>4 DEF SameWindows, Visible, Viewed
  <2>6. client_top(t, s.mon[c]) = c  BY <1>3, <2>4, <2>5, TopHead
  <2> QED  BY <2>2, <2>5, <2>6 DEF OnTop, InFront
<1> QED  BY <1>0, <1>3, <1>4 DEF t

LEMMA RefocusFront ==
  ASSUME NEW s \in WindowState, Marked(s)
  PROVE  Foremost(Refocus(s))
<1> SUFFICES ASSUME Modal = {}
             PROVE  OnTop(Refocus(s)) /\ InFront(Refocus(s))
  BY DEF Foremost
<1> DEFINE c == client_top(s, s.selected_monitor)
           t == client_focus(s, c)
<1>1. c \in ToSet(s.focus_stack) \cup {None}  BY TopInStack
<1>2. c # None => Visible(s, c, s.selected_monitor) /\ s.mon[c] = s.selected_monitor
  BY TopIn DEF Visible
<1>3. Refocus(s) = t  BY DEF Refocus
<1> HIDE DEF c
<1>4. /\ t.kbd = c
      /\ c # None /\ c # s.kbd => OnTop(t) /\ InFront(t)
      /\ c # None /\ c = s.kbd => t = s
      /\ c = None => /\ t.focus_stack = s.focus_stack
                     /\ t.selected_monitor = s.selected_monitor
  BY <1>1, <1>2, FocusFront
<1>5. t \in WindowState /\ SameWindows(s, t)  BY <1>1, FocusKeeps
<1> HIDE DEF t
<1>6. CASE c # None /\ c = s.kbd
  BY <1>2, <1>3, <1>4, <1>6 DEF OnTop, InFront, c
<1>7. CASE c = None
  <2>1. client_top(t, s.selected_monitor) = c
    BY <1>4, <1>5, <1>7, TopSame DEF SameWindows, c
  <2> QED  BY <1>3, <1>4, <1>7, <2>1, DistinctAssumption DEF OnTop, InFront
<1> QED  BY <1>3, <1>4, <1>6, <1>7

-----------------------------------------------------------------------------
(* Who is in front, when layer surfaces, menus and the lock compete. *)

(* Once these have let go of the keyboard it is on the top window. *)
Returned(s) ==
  ~s.session.lock_active /\ s.kbd \notin Layers \cup Unmanaged => InFront(s)

Back(s, t) == Modal = {} /\ Returned(s) => Returned(t)

LEMMA SameReturned ==
  ASSUME NEW s \in WindowState, NEW t \in WindowState,
         t.session.lock_active = s.session.lock_active,
         t.focus_stack = s.focus_stack, t.kbd = s.kbd,
         t.selected_monitor = s.selected_monitor,
         t.mon = s.mon, t.tags = s.tags, t.tagset = s.tagset, t.seltags = s.seltags
  PROVE  Returned(s) <=> Returned(t)
<1>1. \A m : client_top(t, m) = client_top(s, m)  BY TopSame
<1> QED  BY <1>1 DEF Returned, InFront

(* client_focus on a window in view, or on none if there is none, returns the
   keyboard to the windows as far as nothing keeps it. *)
LEMMA FocusReturns ==
  ASSUME NEW s \in WindowState, NEW c \in Clients \cup {None}, Modal = {},
         c # None => Visible(s, c, s.mon[c]),
         c = None => client_top(s, s.selected_monitor) = None,
         c # None /\ c = s.kbd => InFront(s)
  PROVE  Returned(client_focus(s, c))
<1> DEFINE t == client_focus(s, c)
           d == Target(s, c)
<1> SUFFICES Returned(t)  OBVIOUS
<1>0. s.focus_stack \in Seq(Clients) /\ None \notin Clients
  BY DistinctAssumption DEF WindowState
<1>1. d = c  BY TargetIn
<1>2. /\ t \in WindowState /\ SameWindows(s, t)
      /\ s.session.lock_active \/ (c # None /\ c = s.kbd) => t = s
      /\ ~s.session.lock_active /\ (c = None \/ c # s.kbd) =>
         /\ t.focus_stack = IF c \in Clients THEN ToHead(s.focus_stack, c)
                            ELSE s.focus_stack
         /\ t.selected_monitor = IF c \in Clients THEN s.mon[c]
                                 ELSE s.selected_monitor
         /\ t.kbd = IF KeepsKeyboard(s) THEN s.kbd ELSE c
  <2> HIDE DEF t
  <2>1. c \in Clients \cup Unmanaged \cup {None}  OBVIOUS
  <2> QED  BY <1>1, <2>1, FocusEffect DEF t
<1> HIDE DEF t, d
<1>3. CASE s.session.lock_active  BY <1>2, <1>3 DEF Returned
<1>4. CASE ~s.session.lock_active /\ c # None /\ c = s.kbd
  BY <1>2, <1>4 DEF Returned
<1>5. CASE ~s.session.lock_active /\ (c = None \/ c # s.kbd) /\ KeepsKeyboard(s)
  <2>1. t.kbd \in Layers \cup Unmanaged
    BY <1>2, <1>5, WindowKindsAssumption DEF KeepsKeyboard
  <2> QED  BY <2>1 DEF Returned
<1>6. CASE ~s.session.lock_active /\ c = None /\ ~KeepsKeyboard(s)
  <2>1. client_top(t, s.selected_monitor) = None
    BY <1>0, <1>2, <1>6, TopSame DEF SameWindows
  <2> QED  BY <1>0, <1>2, <1>6, <2>1 DEF Returned, InFront
<1>7. CASE ~s.session.lock_active /\ c # None /\ c # s.kbd /\ ~KeepsKeyboard(s)
  <2>1. c \in Clients  BY <1>7
  <2>2. t.focus_stack = ToHead(s.focus_stack, c) /\ t.selected_monitor = s.mon[c] /\ t.kbd = c
    BY <1>2, <1>7, <2>1
  <2>3. Without(s.focus_stack, c) \in Seq(Clients)  BY <1>0, WithoutType
  <2>4. t.focus_stack # <<>> /\ t.focus_stack[1] = c
    BY <2>1, <2>2, <2>3 DEF ToHead
  <2>5. Visible(t, c, s.mon[c])
    BY <1>2, <1>7 DEF SameWindows, Visible, Viewed
  <2>6. client_top(t, s.mon[c]) = c  BY <1>2, <2>4, <2>5, TopHead
  <2> QED  BY <2>2, <2>6 DEF Returned, InFront
<1> QED  BY <1>3, <1>4, <1>5, <1>6, <1>7

(* So does refocusing, whoever had it before. *)
LEMMA RefocusReturns ==
  ASSUME NEW s \in WindowState, Modal = {}
  PROVE  Returned(Refocus(s))
<1> DEFINE c == client_top(s, s.selected_monitor)
<1>1. c \in Clients \cup {None} /\ (c # None => Visible(s, c, s.selected_monitor))
  BY TopIn
<1>2. c # None => Visible(s, c, s.mon[c])  BY <1>1 DEF Visible
<1>3. c # None /\ c = s.kbd => InFront(s)  BY DEF InFront
<1>4. Refocus(s) = client_focus(s, c)  BY DEF Refocus
<1>5. c = None => client_top(s, s.selected_monitor) = None  OBVIOUS
<1> HIDE DEF c
<1> QED  BY <1>1, <1>2, <1>3, <1>4, <1>5, FocusReturns

-----------------------------------------------------------------------------
(* What the functions below the handlers keep. *)

(* The lists hold the same windows; which are mapped, held back, linked and
   have a handle, and the outputs, do not change. *)
SameLists(s, t) ==
  /\ t.clients = s.clients /\ t.mapped = s.mapped /\ t.linked = s.linked
  /\ t.ftl = s.ftl /\ t.mapwait = s.mapwait /\ t.monitors = s.monitors
  /\ t.enabled = s.enabled /\ t.session = s.session
  /\ ToSet(t.focus_stack) = ToSet(s.focus_stack)
  /\ IsInjective(s.focus_stack) => IsInjective(t.focus_stack)

(* The keyboard is on a window that nothing blocks, or stays where it was. *)
Passes(s, t) == Unblocked(t) \/ (t.kbd = s.kbd /\ ~Unblocked(s))

(* What is drawn is what the tags say, on the monitors that are lit. *)
Drawn(s) ==
  \A c \in s.mapped :
    s.mon[c] \in s.enabled =>
      (c \in s.shown <=> Visible(s, c, s.mon[c]) /\ c \notin s.mapwait)

(* The drawing keeps up when the tiling order is complete and no dialog can
   take the focus to another monitor. *)
Drawable(s) == ToSet(s.clients) = s.mapped /\ (Modal = {} \/ OneMonitor)

(* Every window drawn is on a monitor, but for c. *)
PlacedBut(s, c) == \A d \in s.shown : d # c => s.mon[d] # None

(* A window that has the keyboard is in the focus stack and on a monitor, and
   has it only while the session is unlocked. *)
Held(s) ==
  s.kbd \in Clients =>
    /\ ~s.session.lock_active
    /\ s.kbd \in ToSet(s.focus_stack) /\ s.mon[s.kbd] # None

(* The lock, an overlay or a menu that keeps the keyboard keeps it, and no
   window's handler gives it to a menu, a layer surface or a lock surface. *)
Grip(s, t) ==
  /\ s.session.lock_active \/ KeepsKeyboard(s) => t.kbd = s.kbd
  /\ t.kbd \in Clients \cup {None, s.kbd}
  /\ Held(s) => Held(t)

(* The monitors of the windows, and the selected one, are in M. *)
Within(M, s) ==
  s.selected_monitor \in M /\ \A c \in Clients : s.mon[c] \in M

Inner(s, t) ==
  /\ t \in WindowState
  /\ SameLists(s, t) /\ Grip(s, t)
  /\ t.shown \subseteq s.shown \cup ToSet(s.clients)
  /\ Attended(s) => Attended(t) /\ Passes(s, t) /\ (Foremost(s) => Foremost(t))
  /\ Back(s, t)
  /\ Drawable(s) /\ Drawn(s) => Drawn(t)
  /\ t.selected_monitor = None => s.selected_monitor = None

LEMMA PlacedAll ==
  ASSUME NEW s \in WindowState, PlacedBut(s, None)
  PROVE  \A c : PlacedBut(s, c)
<1>1. None \notin s.shown  BY DistinctAssumption DEF WindowState
<1> QED  BY <1>1 DEF PlacedBut

LEMMA SameUnblocked ==
  ASSUME NEW s, NEW t, t.kbd = s.kbd, t.focus_stack = s.focus_stack,
         t.linked = s.linked, t.mon = s.mon, t.tags = s.tags,
         t.tagset = s.tagset, t.seltags = s.seltags
  PROVE  (Unblocked(s) <=> Unblocked(t)) /\ Passes(s, t)
<1>1. Unblocked(s) <=> Unblocked(t)
  BY DEF Unblocked, ModalChild, FirstFocused, Visible, Viewed, client_get_parent
<1> QED  BY <1>1 DEF Passes

LEMMA InnerSelf ==
  ASSUME NEW s \in WindowState
  PROVE  Inner(s, s)
BY DEF Inner, SameLists, Passes, Grip, Back

LEMMA GripTwice ==
  ASSUME NEW s, NEW t, NEW u, t.session = s.session, Grip(s, t), Grip(t, u)
  PROVE  Grip(s, u)
<1>1. KeepsKeyboard(s) /\ t.kbd = s.kbd => KeepsKeyboard(t)  BY DEF KeepsKeyboard
<1> QED  BY <1>1 DEF Grip

LEMMA GripSame ==
  ASSUME NEW s, NEW t, t.session = s.session, t.kbd = s.kbd, t.mon = s.mon,
         ToSet(t.focus_stack) = ToSet(s.focus_stack)
  PROVE  Grip(s, t)
BY DEF Grip, Held

LEMMA InnerTwice ==
  ASSUME NEW s, NEW t, NEW u, Inner(s, t), Inner(t, u)
  PROVE  Inner(s, u)
<1>1. SameLists(s, u)  BY DEF Inner, SameLists
<1>2. t.clients = s.clients /\ t.mapped = s.mapped  BY DEF Inner, SameLists
<1>3. u.shown \subseteq s.shown \cup ToSet(s.clients)  BY <1>2 DEF Inner
<1>4. Drawable(s) /\ Drawn(s) => Drawn(u)
  <2>1. Drawable(s) => Drawable(t)  BY <1>2 DEF Drawable
  <2> QED  BY <2>1 DEF Inner
<1>5. Attended(s) => Attended(u) /\ Passes(s, u) /\ (Foremost(s) => Foremost(u))
  <2>1. Passes(s, t) /\ Passes(t, u) => Passes(s, u)  BY DEF Passes
  <2> QED  BY <2>1 DEF Inner
<1>6. Grip(s, u)
  <2>1. Grip(s, t) /\ Grip(t, u) /\ t.session = s.session  BY DEF Inner, SameLists
  <2> QED  BY <2>1, GripTwice
<1>7. Back(s, u)  BY DEF Inner, Back
<1> QED  BY <1>1, <1>3, <1>4, <1>5, <1>6, <1>7 DEF Inner

(* Nothing but what is drawn. *)
LEMMA ArrangeEffect ==
  ASSUME NEW s \in WindowState, NEW m
  PROVE  LET t == layout_arrange(s, m)
         IN  /\ t \in WindowState /\ SameLists(s, t)
             /\ t.focus_stack = s.focus_stack /\ t.kbd = s.kbd
             /\ t.toplevel_active = s.toplevel_active
             /\ t.selected_monitor = s.selected_monitor
             /\ t.mon = s.mon /\ t.tags = s.tags
             /\ t.tagset = s.tagset /\ t.seltags = s.seltags
             /\ m \notin s.enabled => t.shown = s.shown
             /\ m \in s.enabled =>
                  \A c \in Clients : c \in t.shown <=>
                    IF c \in ToSet(s.clients) /\ s.mon[c] = m
                    THEN Visible(s, c, m) /\ c \notin s.mapwait
                    ELSE c \in s.shown
<1>1. CASE m \notin s.enabled  BY <1>1 DEF layout_arrange, SameLists
<1>2. CASE m \in s.enabled
  <2> DEFINE set == {c \in Clients : IF c \in ToSet(s.clients) /\ s.mon[c] = m
                                     THEN Visible(s, c, m) /\ c \notin s.mapwait
                                     ELSE c \in s.shown}
             t == [s EXCEPT !.shown = set]
  <2>1. layout_arrange(s, m) = t  BY <1>2 DEF layout_arrange
  <2>2. t.shown = set /\ t \in WindowState /\ SameLists(s, t)
        /\ t.focus_stack = s.focus_stack /\ t.kbd = s.kbd
        /\ t.toplevel_active = s.toplevel_active
        /\ t.selected_monitor = s.selected_monitor
        /\ t.mon = s.mon /\ t.tags = s.tags
        /\ t.tagset = s.tagset /\ t.seltags = s.seltags
    <3> HIDE DEF set
    <3>1. set \subseteq Clients  BY DEF set
    <3> QED  BY <3>1 DEF WindowState, SameLists
  <2> HIDE DEF t
  <2> QED  BY <1>2, <2>1, <2>2
<1> QED  BY <1>1, <1>2

(* The same keyboard, stack and places: attended, blocked and in front alike. *)
LEMMA SameKeyboard ==
  ASSUME NEW s \in WindowState, NEW t \in WindowState, SameLists(s, t),
         t.focus_stack = s.focus_stack, t.kbd = s.kbd,
         t.toplevel_active = s.toplevel_active,
         t.selected_monitor = s.selected_monitor,
         t.mon = s.mon, t.tags = s.tags, t.tagset = s.tagset, t.seltags = s.seltags
  PROVE  /\ Attended(s) <=> Attended(t)
         /\ Unblocked(s) <=> Unblocked(t)
         /\ Passes(s, t)
         /\ Foremost(s) <=> Foremost(t)
         /\ Back(s, t)
<1>1. Attended(s) <=> Attended(t)  BY DEF Attended, Marked, SameLists
<1>2. (Unblocked(s) <=> Unblocked(t)) /\ Passes(s, t)
  BY SameUnblocked DEF SameLists
<1>4. \A m : client_top(t, m) = client_top(s, m)  BY TopSame
<1>5. Foremost(s) <=> Foremost(t)  BY <1>4 DEF Foremost, OnTop, InFront
<1>6. Back(s, t)  BY SameReturned DEF Back, SameLists
<1> QED  BY <1>1, <1>2, <1>5, <1>6

(* Drawing a monitor settles it, and leaves the others as they are. *)
DrawnOn(s, m) ==
  \A c \in s.mapped :
    m \in s.enabled /\ s.mon[c] = m =>
      (c \in s.shown <=> Visible(s, c, m) /\ c \notin s.mapwait)

LEMMA DrawnOnAll ==
  ASSUME NEW s
  PROVE  Drawn(s) <=> \A m : DrawnOn(s, m)
BY DEF Drawn, DrawnOn

LEMMA ArrangeDraws ==
  ASSUME NEW s \in WindowState, NEW m, ToSet(s.clients) = s.mapped
  PROVE  LET t == layout_arrange(s, m)
         IN  DrawnOn(t, m) /\ \A n : n # m /\ DrawnOn(s, n) => DrawnOn(t, n)
<1> DEFINE t == layout_arrange(s, m)
<1>1. /\ t.mapped = s.mapped /\ t.mapwait = s.mapwait /\ t.enabled = s.enabled
      /\ t.mon = s.mon /\ s.mapped \subseteq Clients
      /\ \A c, n : Visible(t, c, n) <=> Visible(s, c, n)
      /\ m \notin s.enabled => t.shown = s.shown
      /\ m \in s.enabled =>
           \A c \in Clients : c \in t.shown <=>
             IF c \in ToSet(s.clients) /\ s.mon[c] = m
             THEN Visible(s, c, m) /\ c \notin s.mapwait
             ELSE c \in s.shown
  <2> HIDE DEF t
  <2>1. s.mapped \subseteq Clients  BY DEF WindowState
  <2> QED  BY <2>1, ArrangeEffect DEF SameLists, Visible, Viewed, t
<1> HIDE DEF t
<1>2. DrawnOn(t, m)  BY <1>1 DEF DrawnOn
<1>3. ASSUME NEW n, n # m, DrawnOn(s, n)  PROVE DrawnOn(t, n)
  BY <1>1, <1>3 DEF DrawnOn
<1> QED  BY <1>2, <1>3 DEF t

LEMMA ArrangeInner ==
  ASSUME NEW s \in WindowState, NEW m
  PROVE  LET t == layout_arrange(s, m)
         IN  /\ Inner(s, t) /\ t.mon = s.mon
             /\ m # None => \A c : PlacedBut(s, c) => PlacedBut(t, c)
             /\ \A M : Within(M, s) => Within(M, t)
<1> DEFINE t == layout_arrange(s, m)
<1>1. /\ t \in WindowState /\ SameLists(s, t)
      /\ t.focus_stack = s.focus_stack /\ t.kbd = s.kbd
      /\ t.toplevel_active = s.toplevel_active
      /\ t.selected_monitor = s.selected_monitor
      /\ t.mon = s.mon /\ t.tags = s.tags
      /\ t.tagset = s.tagset /\ t.seltags = s.seltags
      /\ m \notin s.enabled => t.shown = s.shown
      /\ m \in s.enabled =>
           \A c \in Clients : c \in t.shown <=>
             IF c \in ToSet(s.clients) /\ s.mon[c] = m
             THEN Visible(s, c, m) /\ c \notin s.mapwait
             ELSE c \in s.shown
  BY ArrangeEffect
<1>2. Drawable(s) /\ Drawn(s) => Drawn(t)  BY ArrangeDraws, DrawnOnAll DEF Drawable
<1> HIDE DEF t
<1>3. t.shown \subseteq Clients /\ s.shown \subseteq Clients  BY <1>1 DEF WindowState
<1>4. t.shown \subseteq s.shown \cup ToSet(s.clients)  BY <1>1, <1>3
<1>5. /\ Attended(s) => Attended(t) /\ Passes(s, t) /\ (Foremost(s) => Foremost(t))
      /\ Back(s, t)
  BY <1>1, SameKeyboard
<1>6. ASSUME m # None, NEW c, PlacedBut(s, c)  PROVE PlacedBut(t, c)
  BY <1>1, <1>3, <1>6 DEF PlacedBut
<1>7. Grip(s, t)
  <2>1. t.session = s.session  BY <1>1 DEF SameLists
  <2> QED  BY <1>1, <2>1, GripSame
<1>8. \A M : Within(M, s) => Within(M, t)  BY <1>1 DEF Within
<1> QED  BY <1>1, <1>2, <1>4, <1>5, <1>6, <1>7, <1>8 DEF Inner, t

LEMMA ArrangeOfInner ==
  ASSUME NEW s \in WindowState, NEW c
  PROVE  LET t == ArrangeOf(s, c)
         IN  /\ Inner(s, t) /\ t.mon = s.mon
             /\ \A d : PlacedBut(s, d) => PlacedBut(t, d)
             /\ \A M : Within(M, s) => Within(M, t)
BY ArrangeInner, InnerSelf DEF ArrangeOf

(* Flags the other functions do not read. *)
LEMMA FlagsInner ==
  ASSUME NEW s \in WindowState, NEW f \in SUBSET Clients
  PROVE  LET full  == [s EXCEPT !.isfullscreen = f]
             float == [s EXCEPT !.isfloating = f]
             urgent == [s EXCEPT !.isurgent = f]
         IN  /\ Inner(s, full) /\ full.mon = s.mon /\ full.shown = s.shown
             /\ Inner(s, float) /\ float.mon = s.mon /\ float.shown = s.shown
             /\ Inner(s, urgent) /\ urgent.mon = s.mon /\ urgent.shown = s.shown
             /\ \A M : Within(M, s) =>
                  Within(M, full) /\ Within(M, float) /\ Within(M, urgent)
<1>1. ASSUME NEW t \in WindowState, SameLists(s, t), t.shown = s.shown,
             t.focus_stack = s.focus_stack, t.kbd = s.kbd,
             t.toplevel_active = s.toplevel_active,
             t.selected_monitor = s.selected_monitor,
             t.mon = s.mon, t.tags = s.tags, t.tagset = s.tagset, t.seltags = s.seltags
      PROVE  Inner(s, t)
  <2>1. Drawn(s) => Drawn(t)  BY <1>1 DEF Drawn, SameLists, Visible, Viewed
  <2>2. Grip(s, t)
    <3>1. t.session = s.session  BY <1>1 DEF SameLists
    <3> QED  BY <1>1, <3>1, GripSame
  <2> QED  BY <1>1, <2>1, <2>2, SameKeyboard DEF Inner
<1>2. LET t == [s EXCEPT !.isfullscreen = f]
      IN  /\ t \in WindowState /\ SameLists(s, t) /\ t.shown = s.shown
          /\ t.focus_stack = s.focus_stack /\ t.kbd = s.kbd
          /\ t.toplevel_active = s.toplevel_active
          /\ t.selected_monitor = s.selected_monitor
          /\ t.mon = s.mon /\ t.tags = s.tags /\ t.tagset = s.tagset /\ t.seltags = s.seltags
  BY DEF WindowState, SameLists
<1>3. LET t == [s EXCEPT !.isfloating = f]
      IN  /\ t \in WindowState /\ SameLists(s, t) /\ t.shown = s.shown
          /\ t.focus_stack = s.focus_stack /\ t.kbd = s.kbd
          /\ t.toplevel_active = s.toplevel_active
          /\ t.selected_monitor = s.selected_monitor
          /\ t.mon = s.mon /\ t.tags = s.tags /\ t.tagset = s.tagset /\ t.seltags = s.seltags
  BY DEF WindowState, SameLists
<1>4. LET t == [s EXCEPT !.isurgent = f]
      IN  /\ t \in WindowState /\ SameLists(s, t) /\ t.shown = s.shown
          /\ t.focus_stack = s.focus_stack /\ t.kbd = s.kbd
          /\ t.toplevel_active = s.toplevel_active
          /\ t.selected_monitor = s.selected_monitor
          /\ t.mon = s.mon /\ t.tags = s.tags /\ t.tagset = s.tagset /\ t.seltags = s.seltags
  BY DEF WindowState, SameLists
<1>5. Inner(s, [s EXCEPT !.isfullscreen = f])  BY <1>1, <1>2
<1>6. Inner(s, [s EXCEPT !.isfloating = f])  BY <1>1, <1>3
<1>7. Inner(s, [s EXCEPT !.isurgent = f])  BY <1>1, <1>4
<1>8. \A M : Within(M, s) => /\ Within(M, [s EXCEPT !.isfullscreen = f])
                           /\ Within(M, [s EXCEPT !.isfloating = f])
                           /\ Within(M, [s EXCEPT !.isurgent = f])
  BY <1>2, <1>3, <1>4 DEF Within
<1> QED  BY <1>2, <1>3, <1>4, <1>5, <1>6, <1>7, <1>8

LEMMA SetFlagsInner ==
  ASSUME NEW s \in WindowState, NEW c \in Clients, NEW on \in BOOLEAN
  PROVE  /\ Inner(s, client_set_fullscreen(s, c, on))
         /\ client_set_fullscreen(s, c, on).mon = s.mon
         /\ \A d : PlacedBut(s, d) => PlacedBut(client_set_fullscreen(s, c, on), d)
         /\ Inner(s, client_set_floating(s, c, on))
         /\ client_set_floating(s, c, on).mon = s.mon
         /\ \A d : PlacedBut(s, d) => PlacedBut(client_set_floating(s, c, on), d)
         /\ \A M : Within(M, s) => /\ Within(M, client_set_fullscreen(s, c, on))
                                  /\ Within(M, client_set_floating(s, c, on))
<1> DEFINE f == IF on THEN s.isfullscreen \cup {c} ELSE s.isfullscreen \ {c}
           g == IF on THEN s.isfloating \cup {c} ELSE s.isfloating \ {c}
           full  == [s EXCEPT !.isfullscreen = f]
           float == [s EXCEPT !.isfloating = g]
<1>1. f \in SUBSET Clients /\ g \in SUBSET Clients  BY DEF WindowState
<1>2. /\ client_set_fullscreen(s, c, on) = ArrangeOf(full, c)
      /\ client_set_floating(s, c, on) = ArrangeOf(float, c)
  BY DEF client_set_fullscreen, client_set_floating
<1> HIDE DEF f, g
<1>3. /\ Inner(s, full) /\ full.mon = s.mon /\ full.shown = s.shown
      /\ Inner(s, float) /\ float.mon = s.mon /\ float.shown = s.shown
      /\ \A M : Within(M, s) => Within(M, full) /\ Within(M, float)
  BY <1>1, FlagsInner
<1> HIDE DEF full, float
<1>4. full \in WindowState /\ float \in WindowState  BY <1>3 DEF Inner
<1>5. /\ Inner(full, ArrangeOf(full, c)) /\ ArrangeOf(full, c).mon = full.mon
      /\ \A d : PlacedBut(full, d) => PlacedBut(ArrangeOf(full, c), d)
      /\ Inner(float, ArrangeOf(float, c)) /\ ArrangeOf(float, c).mon = float.mon
      /\ \A d : PlacedBut(float, d) => PlacedBut(ArrangeOf(float, c), d)
      /\ \A M : Within(M, full) => Within(M, ArrangeOf(full, c))
      /\ \A M : Within(M, float) => Within(M, ArrangeOf(float, c))
  BY <1>4, ArrangeOfInner
<1>6. \A d : /\ PlacedBut(s, d) => PlacedBut(full, d)
             /\ PlacedBut(s, d) => PlacedBut(float, d)
  BY <1>3 DEF PlacedBut
<1>7. Inner(s, ArrangeOf(full, c)) /\ Inner(s, ArrangeOf(float, c))
  BY <1>3, <1>5, InnerTwice
<1> QED  BY <1>2, <1>3, <1>5, <1>6, <1>7

(* What client_focus does to the lock and to monitors. *)
LEMMA FocusHolds ==
  ASSUME NEW s \in WindowState, NEW c \in Clients \cup Unmanaged \cup {None},
         c \in Clients => c \in ToSet(s.focus_stack) /\ s.mon[c] # None
  PROVE  LET t == client_focus(s, c)
         IN  /\ s.session.lock_active \/ KeepsKeyboard(s) => t.kbd = s.kbd
             /\ t.kbd \in Clients \cup {None, c, s.kbd}
             /\ (s.session.lock_active => s.kbd \notin Clients) => Held(t)
             /\ \A M : Within(M, s) => Within(M, t)
<1> DEFINE t == client_focus(s, c)
           d == Target(s, c)
<1>1. /\ t \in WindowState /\ SameWindows(s, t)
      /\ s.session.lock_active \/ (d # None /\ d = s.kbd) => t = s
      /\ ~s.session.lock_active /\ (d = None \/ d # s.kbd) =>
         /\ t.focus_stack = IF d \in Clients THEN ToHead(s.focus_stack, d)
                            ELSE s.focus_stack
         /\ t.selected_monitor = IF d \in Clients THEN s.mon[d]
                                 ELSE s.selected_monitor
         /\ t.kbd = IF KeepsKeyboard(s) THEN s.kbd ELSE d
  BY FocusEffect
<1>2. d \in Clients => d \in ToSet(s.focus_stack) /\ s.mon[d] # None
  BY TargetIn DEF Visible
<1>3. d = None => d \notin Clients  BY DistinctAssumption
<1>8. d \in Clients \cup {None, c}  BY TargetIn
<1>4. KeepsKeyboard(s) => s.kbd \notin Clients
  BY DistinctAssumption, WindowKindsAssumption DEF KeepsKeyboard
<1> HIDE DEF t, d
<1>5. t.mon = s.mon /\ t.session = s.session  BY <1>1 DEF SameWindows
<1>9. t.kbd \in Clients \cup {None, c, s.kbd}  BY <1>1, <1>8
<1>6. CASE s.session.lock_active \/ (d # None /\ d = s.kbd)
  <2>1. t = s  BY <1>1, <1>6
  <2> QED  BY <1>2, <1>4, <1>6, <1>9, <2>1 DEF Held, t
<1>7. CASE ~(s.session.lock_active \/ (d # None /\ d = s.kbd))
  <2>1. /\ t.focus_stack = IF d \in Clients THEN ToHead(s.focus_stack, d)
                           ELSE s.focus_stack
        /\ t.selected_monitor = IF d \in Clients THEN s.mon[d]
                                ELSE s.selected_monitor
        /\ t.kbd = IF KeepsKeyboard(s) THEN s.kbd ELSE d
    BY <1>1, <1>7
  <2>2. \A M : Within(M, s) => Within(M, t)  BY <1>5, <2>1 DEF Within
  <2>3. Held(t)
    <3>1. CASE KeepsKeyboard(s)  BY <1>4, <2>1, <3>1 DEF Held
    <3>2. CASE ~KeepsKeyboard(s) /\ d \notin Clients  BY <2>1, <3>2 DEF Held
    <3>3. CASE ~KeepsKeyboard(s) /\ d \in Clients
      <4>1. s.focus_stack \in Seq(Clients)  BY DEF WindowState
      <4>2. ToSet(ToHead(s.focus_stack, d)) = ToSet(s.focus_stack) \cup {d}
        BY <3>3, <4>1, ToHeadSet
      <4> QED  BY <1>2, <1>5, <1>7, <2>1, <3>3, <4>2 DEF Held
    <3> QED  BY <3>1, <3>2, <3>3
  <2> QED  BY <1>7, <1>9, <2>1, <2>2, <2>3 DEF t
<1> QED  BY <1>6, <1>7

(* After a Refocus the keyboard is settled, even if it was not before: the
   window that had it may have lost its monitor. *)
LEMMA RefocusSettles ==
  ASSUME NEW s \in WindowState
  PROVE  LET t == Refocus(s)
         IN  /\ t \in WindowState /\ SameLists(s, t) /\ SameWindows(s, t)
             /\ Marked(s) => Attended(t) /\ Unblocked(t) /\ Foremost(t)
             /\ Modal = {} => Returned(t)
             /\ \A m : DrawnOn(s, m) => DrawnOn(t, m)
             /\ \A c : PlacedBut(s, c) => PlacedBut(t, c)
             /\ Modal = {} \/ OneMonitor => t.selected_monitor = s.selected_monitor
             /\ t.selected_monitor = None => s.selected_monitor = None
             /\ s.session.lock_active \/ KeepsKeyboard(s) => t.kbd = s.kbd
             /\ t.kbd \in Clients \cup {None, s.kbd}
             /\ (s.session.lock_active => s.kbd \notin Clients) => Held(t)
             /\ \A M : Within(M, s) => Within(M, t)
<1> DEFINE t == Refocus(s)
<1>1. /\ t \in WindowState /\ SameWindows(s, t)
      /\ ToSet(t.focus_stack) = ToSet(s.focus_stack)
      /\ IsInjective(s.focus_stack) => IsInjective(t.focus_stack)
      /\ Marked(s) => Attended(t) /\ Unblocked(t)
      /\ Modal = {} \/ OneMonitor => t.selected_monitor = s.selected_monitor
      /\ t.selected_monitor = None => s.selected_monitor = None
  BY RefocusKeeps
<1>2. /\ Marked(s) => Foremost(t)
      /\ Modal = {} => Returned(t)
  BY RefocusFront, RefocusReturns
<1>6. /\ s.session.lock_active \/ KeepsKeyboard(s) => t.kbd = s.kbd
      /\ t.kbd \in Clients \cup {None, s.kbd}
      /\ (s.session.lock_active => s.kbd \notin Clients) => Held(t)
      /\ \A M : Within(M, s) => Within(M, t)
  <2> DEFINE c == client_top(s, s.selected_monitor)
  <2>1. c \in ToSet(s.focus_stack) \cup {None} /\ c \in Clients \cup {None}
        /\ (c # None => Visible(s, c, s.selected_monitor))
    BY TopInStack, TopIn
  <2>2. t = client_focus(s, c)  BY DEF Refocus
  <2> HIDE DEF c, t
  <2>3. c \in Clients => c \in ToSet(s.focus_stack) /\ s.mon[c] # None
    BY <2>1, DistinctAssumption DEF Visible
  <2> QED  BY <2>1, <2>2, <2>3, FocusHolds
<1> HIDE DEF t
<1>3. SameLists(s, t)  BY <1>1 DEF SameLists, SameWindows
<1>4. \A m : DrawnOn(s, m) => DrawnOn(t, m)
  BY <1>1 DEF DrawnOn, SameWindows, Visible, Viewed
<1>5. \A c : PlacedBut(s, c) => PlacedBut(t, c)  BY <1>1 DEF PlacedBut, SameWindows
<1> QED  BY <1>1, <1>2, <1>3, <1>4, <1>5, <1>6 DEF t

LEMMA ArrangeOfDraws ==
  ASSUME NEW s \in WindowState, NEW c, NEW m, ToSet(s.clients) = s.mapped,
         s.mon[c] = m, \A n : n # m => DrawnOn(s, n),
         c \notin s.mapped => DrawnOn(s, m)
  PROVE  Drawn(ArrangeOf(s, c))
<1>1. CASE m # None /\ c \in s.mapped
  <2>1. ArrangeOf(s, c) = layout_arrange(s, m)  BY <1>1 DEF ArrangeOf
  <2>2. \A n : DrawnOn(layout_arrange(s, m), n)  BY ArrangeDraws
  <2> QED  BY <2>1, <2>2, DrawnOnAll
<1>2. CASE m = None
  <2>1. DrawnOn(s, m)  BY <1>2, DistinctAssumption DEF DrawnOn, WindowState
  <2>2. ArrangeOf(s, c) = s  BY <1>2 DEF ArrangeOf
  <2> QED  BY <2>1, <2>2, DrawnOnAll
<1>3. CASE c \notin s.mapped  BY <1>3, DrawnOnAll DEF ArrangeOf
<1> QED  BY <1>1, <1>2, <1>3

LEMMA SetMonitorInner ==
  ASSUME NEW s \in WindowState, NEW c \in Clients,
         NEW m \in Monitors \cup {None}, NEW newtags \in SUBSET Tags
  PROVE  LET t == client_set_monitor(s, c, m, newtags)
         IN  /\ Inner(s, t)
             /\ t.mon = [s.mon EXCEPT ![c] = m]
             /\ PlacedBut(s, c) => PlacedBut(t, c)
             /\ m # None => \A d : PlacedBut(s, d) => PlacedBut(t, d)
             /\ m = s.mon[c] => t = s
             /\ Modal = {} => t.selected_monitor = s.selected_monitor
             /\ \A M : Within(M, s) /\ m \in M => Within(M, t)
             /\ (s.session.lock_active => s.kbd \notin Clients) /\ m # s.mon[c] => Held(t)
<1> DEFINE old    == s.mon[c]
           new    == TagsOn(s, m, newtags)
           moved  == [s EXCEPT !.mon[c] = m]
           left   == IF old = None THEN moved ELSE layout_arrange(moved, old)
           tagged == [left EXCEPT !.tags[c] = new]
           placed == IF m = None THEN left ELSE ArrangeOf(tagged, c)
           t      == client_set_monitor(s, c, m, newtags)
<1>0. t = IF old = m THEN s ELSE Refocus(placed)  BY DEF client_set_monitor
<1>1. CASE old = m
  <2>1. t = s  BY <1>0, <1>1
  <2>2. [s.mon EXCEPT ![c] = m] = s.mon  BY <1>1 DEF WindowState
  <2> HIDE DEF t
  <2> QED  BY <1>1, <2>1, <2>2, InnerSelf DEF t
<1>2. CASE old # m
  <2>1. /\ moved \in WindowState /\ SameLists(s, moved)
        /\ moved.mon = [s.mon EXCEPT ![c] = m]
        /\ moved.kbd = s.kbd /\ moved.toplevel_active = s.toplevel_active
        /\ moved.shown = s.shown /\ moved.tags = s.tags /\ moved.tagset = s.tagset
        /\ moved.seltags = s.seltags /\ moved.selected_monitor = s.selected_monitor
    BY DEF WindowState, SameLists
  <2> HIDE DEF moved
  <2>2. /\ left \in WindowState /\ SameLists(s, left) /\ left.mon = moved.mon
        /\ left.kbd = s.kbd /\ left.toplevel_active = s.toplevel_active
        /\ left.tags = s.tags /\ left.tagset = s.tagset /\ left.seltags = s.seltags
        /\ left.selected_monitor = s.selected_monitor
        /\ left.shown \subseteq s.shown \cup ToSet(s.clients)
        /\ \A d : PlacedBut(moved, d) => PlacedBut(left, d)
        /\ ToSet(moved.clients) = moved.mapped =>
             \A n : DrawnOn(moved, n) => DrawnOn(left, n)
    <3>1. CASE old = None  BY <2>1, <3>1
    <3>2. CASE old # None
      <4> DEFINE u == layout_arrange(moved, old)
      <4>1. left = u  BY <3>2
      <4>2. /\ u \in WindowState /\ SameLists(moved, u) /\ u.mon = moved.mon
            /\ u.kbd = moved.kbd /\ u.toplevel_active = moved.toplevel_active
            /\ u.tags = moved.tags /\ u.tagset = moved.tagset
            /\ u.seltags = moved.seltags
            /\ u.selected_monitor = moved.selected_monitor
        BY <2>1, ArrangeEffect
      <4>3. /\ u.shown \subseteq moved.shown \cup ToSet(moved.clients)
            /\ \A d : PlacedBut(moved, d) => PlacedBut(u, d)
        <5> HIDE DEF u
        <5>1. Inner(moved, u) /\ \A d : PlacedBut(moved, d) => PlacedBut(u, d)
          BY <2>1, <3>2, ArrangeInner DEF u
        <5> QED  BY <5>1 DEF Inner
      <4>4. ToSet(moved.clients) = moved.mapped =>
              \A n : DrawnOn(moved, n) => DrawnOn(u, n)
        BY <2>1, ArrangeDraws
      <4> HIDE DEF u, left
      <4>5. SameLists(s, u)  BY <2>1, <4>2 DEF SameLists
      <4>6. moved.clients = s.clients  BY <2>1 DEF SameLists
      <4> QED  BY <2>1, <4>1, <4>2, <4>3, <4>4, <4>5, <4>6
    <3> QED  BY <3>1, <3>2
  <2> HIDE DEF left
  <2>3. s.mon \in [Clients -> Monitors \cup {None}]  BY DEF WindowState
  <2>3a. s.shown \subseteq Clients /\ moved.mon[c] = m
        /\ \A d \in Clients : d # c => moved.mon[d] = s.mon[d]
    BY <2>1, <2>3 DEF WindowState
  <2>4. PlacedBut(s, c) => PlacedBut(left, c)
    <3>1. PlacedBut(s, c) => PlacedBut(moved, c)  BY <2>1, <2>3a DEF PlacedBut
    <3> QED  BY <2>2, <3>1
  <2>5. m # None => \A d : PlacedBut(s, d) => PlacedBut(left, d)
    <3>1. m # None => \A d : PlacedBut(s, d) => PlacedBut(moved, d)
      BY <2>1, <2>3a DEF PlacedBut
    <3> QED  BY <2>2, <3>1
  <2>6. Drawable(s) /\ Drawn(s) =>
          /\ \A n : n # m => DrawnOn(left, n)
          /\ c \notin s.mapped => DrawnOn(left, m)
    <3> SUFFICES ASSUME Drawable(s), Drawn(s)
                 PROVE  /\ \A n : n # m => DrawnOn(left, n)
                        /\ c \notin s.mapped => DrawnOn(left, m)
      OBVIOUS
    <3>1. ToSet(moved.clients) = moved.mapped /\ moved.mapped = s.mapped
          /\ s.mapped \subseteq Clients
      BY <2>1 DEF Drawable, SameLists, WindowState
    <3>2. \A n : DrawnOn(s, n)  BY DrawnOnAll
    <3>3. \A n : n # m => DrawnOn(moved, n)
      BY <2>1, <2>3, <3>1, <3>2 DEF DrawnOn, SameLists, Visible, Viewed
    <3>4. c \notin s.mapped => DrawnOn(moved, m)
      BY <2>1, <2>3, <3>1, <3>2 DEF DrawnOn, SameLists, Visible, Viewed
    <3> QED  BY <2>2, <3>1, <3>3, <3>4
  <2>7. /\ placed \in WindowState /\ SameLists(s, placed) /\ placed.mon = moved.mon
        /\ placed.kbd = s.kbd /\ placed.toplevel_active = s.toplevel_active
        /\ placed.selected_monitor = s.selected_monitor
        /\ placed.shown \subseteq s.shown \cup ToSet(s.clients)
        /\ \A d : PlacedBut(left, d) => PlacedBut(placed, d)
        /\ Drawable(s) /\ Drawn(s) => Drawn(placed)
    <3>1. CASE m = None
      <4>1. placed = left  BY <3>1
      <4>2. Drawable(s) /\ Drawn(s) => Drawn(left)
        <5>1. DrawnOn(left, None)  BY <2>2, DistinctAssumption DEF DrawnOn, WindowState
        <5> QED  BY <2>6, <3>1, <5>1, DrawnOnAll
      <4> HIDE DEF placed
      <4> QED  BY <2>2, <4>1, <4>2
    <3>2. CASE m \in Monitors
      <4>1. new \in SUBSET Tags  BY <3>2, ViewedType DEF TagsOn
      <4> HIDE DEF new
      <4>2. /\ tagged \in WindowState /\ SameLists(left, tagged)
            /\ tagged.mon = left.mon /\ tagged.shown = left.shown
            /\ tagged.kbd = left.kbd /\ tagged.toplevel_active = left.toplevel_active
            /\ tagged.selected_monitor = left.selected_monitor
            /\ tagged.tags = [left.tags EXCEPT ![c] = new]
            /\ tagged.tagset = left.tagset /\ tagged.seltags = left.seltags
        BY <2>2, <4>1 DEF WindowState, SameLists
      <4> HIDE DEF tagged
      <4> DEFINE u == ArrangeOf(tagged, c)
      <4>3. placed = u  BY <3>2, DistinctAssumption
      <4>4. /\ u \in WindowState /\ SameLists(tagged, u) /\ u.mon = tagged.mon
            /\ u.kbd = tagged.kbd /\ u.toplevel_active = tagged.toplevel_active
            /\ u.selected_monitor = tagged.selected_monitor
        <5>1. SameLists(tagged, tagged)  BY DEF SameLists
        <5> QED  BY <4>2, <5>1, ArrangeEffect DEF ArrangeOf
      <4>5. /\ u.shown \subseteq tagged.shown \cup ToSet(tagged.clients)
            /\ \A d : PlacedBut(tagged, d) => PlacedBut(u, d)
        <5> HIDE DEF u
        <5>1. Inner(tagged, u) /\ \A d : PlacedBut(tagged, d) => PlacedBut(u, d)
          BY <4>2, ArrangeOfInner DEF u
        <5> QED  BY <5>1 DEF Inner
      <4>6. Drawable(s) /\ Drawn(s) => Drawn(u)
        <5> SUFFICES ASSUME Drawable(s), Drawn(s)  PROVE Drawn(u)
          OBVIOUS
        <5>1. left.mon[c] = m /\ left.tags \in [Clients -> SUBSET Tags]
          BY <2>1, <2>2, <2>3 DEF WindowState
        <5>2. tagged.mapped = s.mapped /\ ToSet(tagged.clients) = tagged.mapped
              /\ s.mapped \subseteq Clients
          BY <2>2, <4>2 DEF SameLists, Drawable, WindowState
        <5>3. \A n : n # m /\ DrawnOn(left, n) => DrawnOn(tagged, n)
          BY <4>2, <5>1, <5>2 DEF DrawnOn, SameLists, Visible, Viewed
        <5>4. c \notin s.mapped /\ DrawnOn(left, m) => DrawnOn(tagged, m)
          BY <4>2, <5>1, <5>2 DEF DrawnOn, SameLists, Visible, Viewed
        <5>5. tagged.mon[c] = m  BY <4>2, <5>1
        <5> QED  BY <2>6, <4>2, <5>2, <5>3, <5>4, <5>5, ArrangeOfDraws
      <4> HIDE DEF u, placed
      <4>7. SameLists(s, u)  BY <2>2, <4>2, <4>4 DEF SameLists
      <4>8. tagged.clients = s.clients  BY <2>2, <4>2 DEF SameLists
      <4>9. \A d : PlacedBut(left, d) => PlacedBut(u, d)
        BY <4>2, <4>5 DEF PlacedBut
      <4> QED  BY <2>2, <4>2, <4>3, <4>4, <4>5, <4>6, <4>7, <4>8, <4>9
    <3> QED  BY <3>1, <3>2
  <2> HIDE DEF placed
  <2> DEFINE r == Refocus(placed)
  <2>8. /\ r \in WindowState /\ SameLists(placed, r) /\ SameWindows(placed, r)
        /\ Marked(placed) => Attended(r) /\ Unblocked(r) /\ Foremost(r)
        /\ \A n : DrawnOn(placed, n) => DrawnOn(r, n)
        /\ \A d : PlacedBut(placed, d) => PlacedBut(r, d)
        /\ r.selected_monitor = None => placed.selected_monitor = None
        /\ Modal = {} => r.selected_monitor = placed.selected_monitor
        /\ placed.session.lock_active \/ KeepsKeyboard(placed) => r.kbd = placed.kbd
        /\ r.kbd \in Clients \cup {None, placed.kbd}
        /\ (placed.session.lock_active => placed.kbd \notin Clients) => Held(r)
        /\ \A M : Within(M, placed) => Within(M, r)
        /\ Modal = {} => Returned(r)
    BY <2>7, RefocusSettles
  <2>9. t = r  BY <1>0, <1>2
  <2> HIDE DEF r, t
  <2>10. Attended(s) => Attended(r) /\ Passes(s, r) /\ (Foremost(s) => Foremost(r))
    <3>1. Attended(s) => Marked(placed)  BY <2>7 DEF Attended, Marked, SameLists
    <3> QED  BY <2>8, <3>1 DEF Passes
  <2>11. Drawable(s) /\ Drawn(s) => Drawn(r)  BY <2>7, <2>8, DrawnOnAll
  <2>12. SameLists(s, r)  BY <2>7, <2>8 DEF SameLists
  <2>13. r.shown = placed.shown /\ r.mon = placed.mon  BY <2>8 DEF SameWindows
  <2>15. placed.session = s.session  BY <2>7 DEF SameLists
  <2>16. (s.session.lock_active => s.kbd \notin Clients) => Held(r)
    BY <2>7, <2>8, <2>15
  <2>17. Grip(s, r)
    <3>1. KeepsKeyboard(placed) <=> KeepsKeyboard(s)
      BY <2>7, <2>15 DEF KeepsKeyboard
    <3> QED  BY <2>7, <2>8, <2>15, <2>16, <3>1 DEF Grip, Held
  <2>18. \A M : Within(M, s) /\ m \in M => Within(M, r)
    <3>1. \A d \in Clients : placed.mon[d] = IF d = c THEN m ELSE s.mon[d]
      BY <2>1, <2>3, <2>7
    <3>2. \A M : Within(M, s) /\ m \in M => Within(M, placed)
      BY <2>7, <3>1 DEF Within
    <3> QED  BY <2>8, <3>2
  <2>20. Back(s, r)  BY <2>8 DEF Back
  <2>14. Inner(s, r)  BY <2>7, <2>8, <2>10, <2>11, <2>12, <2>13, <2>17, <2>20 DEF Inner
  <2>19. Modal = {} => r.selected_monitor = s.selected_monitor  BY <2>7, <2>8
  <2> QED  BY <1>2, <2>1, <2>4, <2>5, <2>7, <2>9, <2>13, <2>14, <2>16, <2>18, <2>19, <2>8 DEF t
<1> QED  BY <1>1, <1>2

-----------------------------------------------------------------------------
(* Types of the functions the handlers are built from. *)

LEMMA ApplyRulesType ==
  ASSUME NEW s \in WindowState, NEW c \in Clients, NEW rule \in Rules
  PROVE  client_apply_rules(s, c, rule) \in WindowState
<1> DEFINE m == IF rule.monitor \in DOMAIN s.monitors
                THEN s.monitors[rule.monitor] ELSE s.selected_monitor
           r == IF rule.isfloating = None THEN s
                ELSE [s EXCEPT !.isfloating =
                        IF rule.isfloating THEN @ \cup {c} ELSE @ \ {c}]
<1>1. m \in Monitors \cup {None}  BY DEF WindowState
<1>2. r \in WindowState
  <2>1. s.isfloating \cup {c} \in SUBSET Clients /\ s.isfloating \ {c} \in SUBSET Clients
    BY DEF WindowState
  <2> DEFINE f == IF rule.isfloating THEN s.isfloating \cup {c} ELSE s.isfloating \ {c}
  <2>2. f \in SUBSET Clients  BY <2>1
  <2>3. [s EXCEPT !.isfloating = f] \in WindowState
    <3> HIDE DEF f
    <3> QED  BY <2>2 DEF WindowState
  <2> QED  BY <2>3
<1>3. rule.tags \in SUBSET Tags  BY RulesAssumption DEF Rule
<1> HIDE DEF m, r
<1>4. client_set_monitor(r, c, m, rule.tags) \in WindowState
  BY <1>1, <1>2, <1>3, SetMonitorType
<1> QED  BY <1>4 DEF client_apply_rules, m, r

LEMMA InsertType ==
  ASSUME NEW s \in WindowState, NEW c \in Clients
  PROVE  Insert(s, c) \in WindowState
<1>1. Append(s.clients, c) \in Seq(Clients) /\ <<c>> \o s.focus_stack \in Seq(Clients)
  BY DEF WindowState
<1> QED  BY <1>1 DEF Insert, WindowState

LEMMA ParentType ==
  ASSUME NEW s \in WindowState, NEW c \in Clients
  PROVE  client_get_parent(s, c) \in Clients \cup {None}
BY WindowKindsAssumption DEF client_get_parent

LEMMA PlaceType ==
  ASSUME NEW s \in WindowState, NEW c \in Clients, NEW rule \in Rules
  PROVE  Place(s, c, rule) \in WindowState
<1> DEFINE parent == client_get_parent(s, c)
           floats == [s EXCEPT !.isfloating = @ \cup {c}]
<1>1. CASE parent = None  BY <1>1, ApplyRulesType DEF Place
<1>2. CASE parent # None
  <2>1. parent \in Clients  BY <1>2, ParentType
  <2>2. floats \in WindowState  BY DEF WindowState
  <2>3. s.mon[parent] \in Monitors \cup {None} /\ s.tags[parent] \in SUBSET Tags
    BY <2>1 DEF WindowState
  <2>4. client_set_monitor(floats, c, s.mon[parent], s.tags[parent]) \in WindowState
    <3> HIDE DEF floats, parent
    <3> QED  BY <2>2, <2>3, SetMonitorType
  <2> QED  BY <1>2, <2>4 DEF Place
<1> QED  BY <1>1, <1>2

LEMMA HoldBackType ==
  ASSUME NEW s \in WindowState, NEW c \in Clients, NEW late \in BOOLEAN
  PROVE  HoldBack(s, c, late) \in WindowState
BY DEF HoldBack, WindowState

LEMMA ToplevelMapType ==
  ASSUME NEW s \in WindowState, NEW c \in Clients
  PROVE  toplevel_map(s, c) \in WindowState
<1> DEFINE r == [s EXCEPT !.ftl = @ \cup {c}]
<1>1. r \in WindowState  BY DEF WindowState
<1>2. [r EXCEPT !.toplevel_active = IF c \in r.ftl THEN c ELSE None] \in WindowState
  <2>1. c \in r.ftl  BY DEF WindowState
  <2>2. [r EXCEPT !.toplevel_active = c] \in WindowState
    <3> HIDE DEF r
    <3> QED  BY <1>1 DEF WindowState
  <2> QED  BY <2>1, <2>2
<1> QED  BY <1>1, <1>2 DEF toplevel_map, toplevel_focus

LEMMA UnsetFullscreenType ==
  ASSUME NEW s \in WindowState, NEW c
  PROVE  UnsetFullscreen(s, c) \in WindowState
<1> DEFINE parent == client_get_parent(s, c)
           others == {o \in ToSet(s.clients) \ {c, parent} :
                        /\ o \in s.isfullscreen
                        /\ s.mon[o] = s.mon[c]
                        /\ s.tags[o] \cap s.tags[c] # {}}
           r      == [s EXCEPT !.isfullscreen = @ \ others]
<1>1. r \in WindowState
  <2> HIDE DEF others
  <2> QED  BY DEF WindowState
<1>2. layout_arrange(r, s.mon[c]) \in WindowState  BY <1>1, ArrangeType
<1> QED  BY <1>1, <1>2 DEF UnsetFullscreen

LEMMA ToplevelUnmapType ==
  ASSUME NEW s \in WindowState, NEW c
  PROVE  toplevel_unmap(s, c) \in WindowState
<1> DEFINE a == IF s.toplevel_active = c THEN None ELSE s.toplevel_active
<1>1. a \in Clients \cup {None}  BY DEF WindowState
<1>2. [s EXCEPT !.toplevel_active = a, !.ftl = @ \ {c}] \in WindowState
  <2> HIDE DEF a
  <2> QED  BY <1>1 DEF WindowState
<1> QED  BY <1>2 DEF toplevel_unmap

-----------------------------------------------------------------------------
(* The tag commands. *)

LEMMA RefocusArrangeType ==
  ASSUME NEW s \in WindowState
  PROVE  RefocusArrange(s) \in WindowState
BY RefocusType, ArrangeType DEF RefocusArrange

LEMMA ViewType ==
  ASSUME NEW s \in WindowState, NEW mask \in SUBSET Tags
  PROVE  layout_view(s, mask) \in WindowState
<1> DEFINE m == s.selected_monitor
           i == 1 - s.seltags[m]
           set == IF mask = {} THEN s.tagset[m][i] ELSE mask
           t == [s EXCEPT !.seltags[m] = i,
                          !.tagset[m][i] = IF mask = {} THEN @ ELSE mask]
<1>1. CASE m = None  BY <1>1 DEF layout_view
<1>2. CASE m # None
  <2>1. m \in Monitors  BY <1>2 DEF WindowState
  <2>2. i \in {0, 1}
    <3>1. s.seltags[m] \in {0, 1}  BY <2>1 DEF WindowState
    <3> QED  BY <3>1
  <2>3. set \in SUBSET Tags  BY <2>1, <2>2 DEF WindowState
  <2>4. t \in WindowState
    <3>1. [s.seltags EXCEPT ![m] = i] \in [Monitors -> {0, 1}]
      BY <2>1, <2>2 DEF WindowState
    <3>2. [s.tagset EXCEPT ![m] = [@ EXCEPT ![i] = set]]
             \in [Monitors -> [{0, 1} -> SUBSET Tags]]
      <4>1. s.tagset[m] \in [{0, 1} -> SUBSET Tags]  BY <2>1 DEF WindowState
      <4>2. [s.tagset[m] EXCEPT ![i] = set] \in [{0, 1} -> SUBSET Tags]
        <5> HIDE DEF i, set
        <5> QED  BY <2>2, <2>3, <4>1
      <4> HIDE DEF i, set
      <4> QED  BY <2>1, <4>2 DEF WindowState
    <3>3. t = [s EXCEPT !.seltags = [s.seltags EXCEPT ![m] = i],
                        !.tagset = [s.tagset EXCEPT ![m] = [@ EXCEPT ![i] = set]]]
      BY DEF WindowState
    <3> HIDE DEF t, i, set, m
    <3> QED  BY <3>1, <3>2, <3>3 DEF WindowState
  <2>5. RefocusArrange(t) \in WindowState
    <3> HIDE DEF t
    <3> QED  BY <2>4, RefocusArrangeType
  <2> QED  BY <2>5 DEF layout_view
<1> QED  BY <1>1, <1>2

LEMMA ToggleViewType ==
  ASSUME NEW s \in WindowState, NEW mask \in SUBSET Tags
  PROVE  layout_toggle_view(s, mask) \in WindowState
<1> DEFINE m == s.selected_monitor
           new == Flip(Viewed(s, m), mask)
           t == [s EXCEPT !.tagset[m][s.seltags[m]] = new]
<1>1. CASE m = None  BY <1>1 DEF layout_toggle_view
<1>2. CASE m # None
  <2>1. m \in Monitors  BY <1>2 DEF WindowState
  <2>2. new \in SUBSET Tags  BY <2>1, ViewedType DEF Flip
  <2>3. t \in WindowState
    <3>1. s.tagset[m] \in [{0, 1} -> SUBSET Tags] /\ s.seltags[m] \in {0, 1}
      BY <2>1 DEF WindowState
    <3>2. [s.tagset[m] EXCEPT ![s.seltags[m]] = new] \in [{0, 1} -> SUBSET Tags]
      <4> HIDE DEF new
      <4> QED  BY <2>2, <3>1
    <3> HIDE DEF new, m
    <3> QED  BY <2>1, <3>2 DEF WindowState
  <2>4. RefocusArrange(t) \in WindowState
    <3> HIDE DEF t
    <3> QED  BY <2>3, RefocusArrangeType
  <2> QED  BY <2>4 DEF layout_toggle_view
<1> QED  BY <1>1, <1>2

(* Giving a client other tags, the effect of tag and toggletag. *)
LEMMA RetagType ==
  ASSUME NEW s \in WindowState, NEW c \in Clients, NEW set \in SUBSET Tags
  PROVE  RefocusArrange([s EXCEPT !.tags[c] = set]) \in WindowState
<1>1. [s EXCEPT !.tags[c] = set] \in WindowState  BY DEF WindowState
<1> QED  BY <1>1, RefocusArrangeType

LEMMA TagType ==
  ASSUME NEW s \in WindowState, NEW mask \in SUBSET Tags
  PROVE  layout_tag(s, mask) \in WindowState
BY TopIn, RetagType DEF layout_tag

LEMMA ToggleTagType ==
  ASSUME NEW s \in WindowState, NEW mask \in SUBSET Tags
  PROVE  layout_toggle_tag(s, mask) \in WindowState
<1> DEFINE sel == client_top(s, s.selected_monitor)
           new == Flip(s.tags[sel], mask)
<1>1. CASE sel = None  BY <1>1 DEF layout_toggle_tag
<1>2. CASE sel # None
  <2>1. sel \in Clients  BY <1>2, TopIn
  <2>2. new \in SUBSET Tags  BY <2>1 DEF Flip, WindowState
  <2>3. RefocusArrange([s EXCEPT !.tags[sel] = new]) \in WindowState
    <3> HIDE DEF sel, new
    <3> QED  BY <2>1, <2>2, RetagType
  <2> QED  BY <2>3 DEF layout_toggle_tag
<1> QED  BY <1>1, <1>2

LEMMA TagBesideType ==
  ASSUME NEW set, NEW step
  PROVE  LET target == layout_tag_beside(set, step)
         IN  target # 0 => {target} \in SUBSET Tags
BY DEF layout_tag_beside

LEMMA ShiftViewType ==
  ASSUME NEW s \in WindowState, NEW step
  PROVE  layout_shift_view(s, step) \in WindowState
BY TagBesideType, ViewType DEF layout_shift_view

LEMMA ShiftTagType ==
  ASSUME NEW s \in WindowState, NEW step
  PROVE  layout_shift_tag(s, step) \in WindowState
BY TagBesideType, TagType, ViewType DEF layout_shift_tag

-----------------------------------------------------------------------------
(* The stack. *)

LEMMA PositionType ==
  ASSUME NEW list \in Seq(Clients), NEW c \in ToSet(list)
  PROVE  Position(list, c) \in 1 .. Len(list) /\ list[Position(list, c)] = c
BY DEF Position, ToSet

LEMMA InViewType ==
  ASSUME NEW s \in WindowState
  PROVE  /\ s.clients \in Seq(Clients)
         /\ Len(s.clients) \in Nat
         /\ InView(s) \subseteq 1 .. Len(s.clients)
         /\ InView(s) \in SUBSET Nat
         /\ InView(s) \in SUBSET (0 .. Len(s.clients))
         /\ \A i : After(s, i) \subseteq InView(s) /\ Before(s, i) \subseteq InView(s)
BY DEF WindowState, InView, After, Before

LEMMA NextInViewType ==
  ASSUME NEW s \in WindowState, NEW i, NEW step, InView(s) # {}
  PROVE  NextInView(s, i, step) \in InView(s)
<1> DEFINE up == IF After(s, i) # {} THEN After(s, i) ELSE InView(s)
           down == IF Before(s, i) # {} THEN Before(s, i) ELSE InView(s)
<1>1. Min(up) \in InView(s)
  <2>1. up \subseteq InView(s) /\ up # {} /\ up \in SUBSET Nat  BY InViewType
  <2> HIDE DEF up
  <2> QED  BY <2>1, MinIn
<1>2. Max(down) \in InView(s)
  <2>1. down \subseteq InView(s) /\ down # {} /\ down \in SUBSET (0 .. Len(s.clients))
    BY InViewType
  <2>2. Len(s.clients) \in Nat  BY InViewType
  <2> HIDE DEF down
  <2> QED  BY <2>1, <2>2, MaxIn
<1> QED  BY <1>1, <1>2 DEF NextInView

LEMMA MoveDownType ==
  ASSUME NEW s \in WindowState, NEW sel \in Clients, sel \in ToSet(s.clients)
  PROVE  MoveDown(s, sel) \in Seq(Clients)
<1> DEFINE at   == Position(s.clients, sel)
           rest == Without(s.clients, sel)
<1>1. rest \in Seq(Clients) /\ Len(rest) = Len(s.clients) - 1
  BY InViewType, WithoutType
<1>2. CASE After(s, at) = {}  BY <1>1, <1>2 DEF MoveDown
<1>3. CASE After(s, at) # {}
  <2>1. Min(After(s, at)) \in InView(s)  BY <1>3, InViewType, MinIn
  <2>2. Min(After(s, at)) \in 1 .. Len(rest) + 1  BY <1>1, <2>1, InViewType
  <2>3. InsertAt(rest, Min(After(s, at)), sel) \in Seq(Clients)
    <3> HIDE DEF rest, at
    <3> QED  BY <1>1, <2>2, InsertAtType
  <2> QED  BY <1>3, <2>3 DEF MoveDown
<1> QED  BY <1>2, <1>3

LEMMA MoveUpType ==
  ASSUME NEW s \in WindowState, NEW sel \in Clients, sel \in ToSet(s.clients)
  PROVE  MoveUp(s, sel) \in Seq(Clients)
<1> DEFINE at   == Position(s.clients, sel)
           rest == Without(s.clients, sel)
<1>1. rest \in Seq(Clients) /\ Len(rest) = Len(s.clients) - 1
  BY InViewType, WithoutType
<1>2. CASE Before(s, at) = {}  BY <1>1, <1>2 DEF MoveUp
<1>3. CASE Before(s, at) # {}
  <2>1. Max(Before(s, at)) \in InView(s)
    <3>1. Before(s, at) \in SUBSET (0 .. Len(s.clients))  BY InViewType
    <3> QED  BY <1>3, <3>1, InViewType, MaxIn
  <2>2. Max(Before(s, at)) \in 1 .. Len(rest) + 1  BY <1>1, <2>1, InViewType
  <2>3. InsertAt(rest, Max(Before(s, at)), sel) \in Seq(Clients)
    <3> HIDE DEF rest, at
    <3> QED  BY <1>1, <2>2, InsertAtType
  <2> QED  BY <1>3, <2>3 DEF MoveUp
<1> QED  BY <1>2, <1>3

-----------------------------------------------------------------------------
(* The handlers: each leaves a state of the right type. *)

LEMMA ClientEventType ==
  ASSUME TypeOK, NEW c \in Clients, ClientEvent(c)
  PROVE  TypeOK'
<1> USE DEF TypeOK
<1>1. CASE InitialCommit(c)
  <2>1. PICK rule \in Rules :
          wm' = client_set_monitor(client_apply_rules(wm, c, rule), c, None, {})
    BY <1>1 DEF InitialCommit
  <2> QED  BY <2>1, ApplyRulesType, SetMonitorType
<1>2. CASE SetParent(c)  BY <1>2 DEF SetParent, WindowState
<1>3. CASE client_handle_map(c)
  <2>1. PICK rule \in Rules, late \in BOOLEAN :
          wm' = UnsetFullscreen(toplevel_map(
                  HoldBack(Place(Insert(wm, c), c, rule), c, late), c), c)
    BY <1>3 DEF client_handle_map
  <2>2. Place(Insert(wm, c), c, rule) \in WindowState  BY InsertType, PlaceType
  <2>3. HoldBack(Place(Insert(wm, c), c, rule), c, late) \in WindowState
    BY <2>2, HoldBackType
  <2> QED  BY <2>1, <2>3, ToplevelMapType, UnsetFullscreenType
<1>4. CASE client_map_wait_done(c)
  <2> DEFINE set == IF wm.mon[c] = None THEN wm.shown
                    ELSE IF Visible(wm, c, wm.mon[c]) THEN wm.shown \cup {c}
                    ELSE wm.shown \ {c}
  <2>1. set \in SUBSET Clients  BY DEF WindowState
  <2>2. [wm EXCEPT !.mapwait = @ \ {c}, !.shown = set] \in WindowState
    <3> HIDE DEF set
    <3> QED  BY <2>1 DEF WindowState
  <2> QED  BY <1>4, <2>2 DEF client_map_wait_done
<1>5. CASE client_handle_unmap(c)
  <2> DEFINE bare == toplevel_unmap(wm, c)
             gone == [bare EXCEPT !.mapped = @ \ {c}, !.mapwait = @ \ {c},
                                  !.clients = Without(@, c)]
             apart == client_set_monitor(gone, c, None, {})
             end == [apart EXCEPT !.focus_stack = Without(@, c), !.shown = @ \ {c},
                                  !.linked = Unlinked(@, c)]
  <2>1. bare \in WindowState  BY ToplevelUnmapType
  <2>2. gone \in WindowState
    <3>1. Without(bare.clients, c) \in Seq(Clients)
      BY <2>1, WithoutType DEF WindowState
    <3> HIDE DEF bare
    <3> QED  BY <2>1, <3>1 DEF WindowState
  <2>3. apart \in WindowState
    <3> HIDE DEF gone
    <3> QED  BY <2>2, SetMonitorType
  <2>4. end \in WindowState
    <3>1. Without(apart.focus_stack, c) \in Seq(Clients)
      BY <2>3, WithoutType DEF WindowState
    <3>2. Unlinked(apart.linked, c) \in SUBSET Clients
      BY <2>3 DEF Unlinked, WindowState
    <3> HIDE DEF apart
    <3> QED  BY <2>3, <3>1, <3>2 DEF WindowState
  <2> QED  BY <1>5, <2>4 DEF client_handle_unmap, Detached
<1>6. CASE RequestFullscreen(c)
  BY <1>6, SetFullscreenType DEF RequestFullscreen
<1>7. CASE RingBell(c)  BY <1>7 DEF RingBell, WindowState
<1>8. CASE client_activate(c)
  <2> DEFINE m == wm.mon[c]
             at == [wm EXCEPT !.selected_monitor = m]
  <2>1. m \in Monitors \cup {None} /\ wm.tags[c] \in SUBSET Tags  BY DEF WindowState
  <2>2. at \in WindowState
    <3> HIDE DEF m
    <3> QED  BY <2>1 DEF WindowState
  <2>3. layout_view(at, wm.tags[c]) \in WindowState
    <3> HIDE DEF at
    <3> QED  BY <2>1, <2>2, ViewType
  <2>4. wm' = client_focus(IF Visible(at, c, m) THEN at
                           ELSE layout_view(at, wm.tags[c]), c)
    BY <1>8 DEF client_activate
  <2> HIDE DEF at, m
  <2> QED  BY <2>2, <2>3, <2>4, FocusType
<1> QED  BY <1>1, <1>2, <1>3, <1>4, <1>5, <1>6, <1>7, <1>8 DEF ClientEvent

LEMMA TagCommandType ==
  ASSUME TypeOK, TagCommand
  PROVE  TypeOK'
<1> USE TagMasksAssumption DEF TypeOK
<1>1. CASE \E mask \in TagMasks : wm' = layout_view(wm, mask)  BY <1>1, ViewType
<1>2. CASE \E mask \in TagMasks : wm' = layout_toggle_view(wm, mask)
  BY <1>2, ToggleViewType
<1>3. CASE \E mask \in TagMasks : wm' = layout_tag(wm, mask)  BY <1>3, TagType
<1>4. CASE \E mask \in TagMasks : wm' = layout_toggle_tag(wm, mask)
  BY <1>4, ToggleTagType
<1>5. CASE \E step \in {-1, 1} : wm' = layout_shift_view(wm, step)
  BY <1>5, ShiftViewType
<1>6. CASE \E step \in {-1, 1} : wm' = layout_shift_tag(wm, step)
  BY <1>6, ShiftTagType
<1> QED  BY <1>1, <1>2, <1>3, <1>4, <1>5, <1>6 DEF TagCommand

LEMMA StackCommandType ==
  ASSUME TypeOK, StackCommand
  PROVE  TypeOK'
<1> DEFINE sel == client_top(wm, wm.selected_monitor)
<1>0. wm \in WindowState /\ sel \in Clients \cup {None}  BY TopIn DEF TypeOK
<1>1. ASSUME NEW step \in {-1, 1}, layout_focus_stack(step)  PROVE TypeOK'
  <2> DEFINE at   == Position(wm.clients, sel)
             next == NextInView(wm, at, step)
  <2>1. sel # None /\ sel \in ToSet(wm.clients)  BY <1>1 DEF layout_focus_stack
  <2>2. at \in InView(wm)
    <3>1. at \in 1 .. Len(wm.clients) /\ wm.clients[at] = sel
      BY <1>0, <2>1, InViewType, PositionType
    <3>2. Visible(wm, sel, wm.selected_monitor)  BY <1>0, <2>1, TopIn
    <3> QED  BY <1>0, <3>1, <3>2, InViewType DEF InView
  <2>3. next \in InView(wm)  BY <1>0, <2>2, NextInViewType
  <2>4. wm.clients[next] \in Clients
    <3> HIDE DEF next
    <3> QED  BY <1>0, <2>3, InViewType
  <2>5. wm' = client_focus(wm, wm.clients[next])  BY <1>1 DEF layout_focus_stack
  <2> HIDE DEF next
  <2> QED  BY <1>0, <2>4, <2>5, FocusType DEF TypeOK
<1>2. ASSUME NEW step \in StackSteps, layout_move_stack(step)  PROVE TypeOK'
  <2> DEFINE list == IF step > 0 THEN MoveDown(wm, sel) ELSE MoveUp(wm, sel)
             t == [wm EXCEPT !.clients = list]
  <2>1. sel # None /\ sel \in ToSet(wm.clients)  BY <1>2 DEF layout_move_stack
  <2>2. list \in Seq(Clients)  BY <1>0, <2>1, MoveDownType, MoveUpType
  <2>3. t \in WindowState
    <3> HIDE DEF list
    <3> QED  BY <1>0, <2>2 DEF WindowState
  <2>4. wm' = layout_arrange(t, wm.selected_monitor)  BY <1>2 DEF layout_move_stack
  <2> HIDE DEF t
  <2> QED  BY <2>3, <2>4, ArrangeType DEF TypeOK
<1>3. CASE layout_zoom
  <2> DEFINE tiles == {i \in InView(wm) : wm.clients[i] \notin wm.isfloating}
             later == tiles \ {Min(tiles)}
             first == wm.clients[Min(tiles)]
             up    == IF first # sel THEN sel ELSE wm.clients[Min(later)]
             t     == [wm EXCEPT !.clients = ToHead(@, up)]
             moved == client_focus(t, up)
  <2>1. sel # None /\ (first = sel => later # {})  BY <1>3 DEF layout_zoom
  <2>2. up \in Clients
    <3>1. CASE first # sel  BY <1>0, <2>1, <3>1
    <3>2. CASE first = sel
      <4>1. later # {} /\ later \in SUBSET Nat /\ later \subseteq InView(wm)
        BY <1>0, <2>1, <3>2, InViewType
      <4>2. Min(later) \in InView(wm)
        <5> HIDE DEF later
        <5> QED  BY <4>1, MinIn
      <4>3. wm.clients[Min(later)] \in Clients
        <5> HIDE DEF later
        <5> QED  BY <1>0, <4>2, InViewType
      <4> QED  BY <3>2, <4>3
    <3> QED  BY <3>1, <3>2
  <2>3. t \in WindowState
    <3>1. ToHead(wm.clients, up) \in Seq(Clients)
      <4> HIDE DEF up
      <4> QED  BY <1>0, <2>2, InViewType, ToHeadType
    <3> HIDE DEF up
    <3> QED  BY <1>0, <3>1 DEF WindowState
  <2>4. moved \in WindowState
    <3> HIDE DEF t, up
    <3> QED  BY <2>2, <2>3, FocusType
  <2>5. wm' = layout_arrange(moved, moved.selected_monitor)  BY <1>3 DEF layout_zoom
  <2> HIDE DEF moved
  <2> QED  BY <2>4, <2>5, ArrangeType DEF TypeOK
<1>4. CASE client_toggle_floating
  BY <1>0, <1>4, SetFloatingType DEF client_toggle_floating, TypeOK
<1>5. CASE client_toggle_fullscreen
  BY <1>0, <1>5, SetFullscreenType DEF client_toggle_fullscreen, TypeOK
<1> QED  BY <1>1, <1>2, <1>3, <1>4, <1>5 DEF StackCommand

LEMMA MonitorCommandType ==
  ASSUME TypeOK, MonitorCommand
  PROVE  TypeOK'
<1>0. /\ wm \in WindowState /\ ToSet(wm.monitors) \subseteq Monitors
      /\ wm.shown \subseteq Clients /\ Lit(wm) \subseteq Monitors
      /\ wm.selected_monitor \in Monitors \cup {None}
  BY DEF TypeOK, WindowState, ToSet, Lit
<1>1. \A m \in Monitors : [wm EXCEPT !.selected_monitor = m] \in WindowState
  BY <1>0 DEF WindowState
<1>2. CASE monitor_focus
  BY <1>0, <1>1, <1>2, RefocusType DEF monitor_focus, TypeOK
<1>3. CASE monitor_send_client
  BY <1>0, <1>3, TopIn, SetMonitorType DEF monitor_send_client, TypeOK
<1>4. CASE PointerPress
  <2>1. PICK m \in Lit(wm), c \in wm.shown \cup {None} :
          LET at == [wm EXCEPT !.selected_monitor = m]
          IN  wm' = IF wm.session.lock_active \/ c = None THEN at ELSE client_focus(at, c)
    BY <1>4 DEF PointerPress
  <2> QED  BY <1>0, <1>1, <2>1, FocusType DEF TypeOK
<1>5. CASE PointerMotion
  <2>1. PICK m \in Lit(wm), c \in wm.shown \cup {None} :
          LET at == [wm EXCEPT !.selected_monitor = m]
          IN  wm' = IF c = None THEN at ELSE client_focus(at, c)
    BY <1>5 DEF PointerMotion
  <2> QED  BY <1>0, <1>1, <2>1, FocusType DEF TypeOK
<1> QED  BY <1>2, <1>3, <1>4, <1>5 DEF MonitorCommand

LEMMA InitType ==
  ASSUME WindowsInit
  PROVE  TypeOK
<1>1. PICK list \in SetToSeqs(Monitors) : wm = InitialState(list, Monitors)
  BY DEF WindowsInit
<1>2. list \in Seq(Monitors)
  <2>1. Cardinality(Monitors) \in Nat  BY FiniteAssumption, FS_CardinalityType
  <2> QED  BY <2>1 DEF SetToSeqs
<1>3. First(list) \in Monitors \cup {None}
  <2>1. list # <<>> => list[1] \in Monitors  BY <1>2
  <2> QED  BY <2>1 DEF First
<1>4. 1 \in Tags  BY TagCountAssumption DEF Tags
<1>5. InitialSession(Monitors) \in SessionState
  BY DEF InitialSession, SessionState
<1> QED
  BY <1>1, <1>2, <1>3, <1>4, <1>5 DEF InitialState, TypeOK, WindowState, Surfaces

(* Type correctness: whatever the windows do and the user asks, every list
   holds windows, every window is on a monitor or none, every tag set is one
   of the program's tags. *)
THEOREM TypeCorrect == Spec => []TypeOK
<1>1. WindowsInit => TypeOK  BY InitType
<1>2. TypeOK /\ [WindowsNext]_wm => TypeOK'
  <2> SUFFICES ASSUME TypeOK, [WindowsNext]_wm  PROVE TypeOK'
    OBVIOUS
  <2>1. CASE \E c \in Clients : ClientEvent(c)  BY <2>1, ClientEventType
  <2>2. CASE TagCommand  BY <2>2, TagCommandType
  <2>3. CASE StackCommand  BY <2>3, StackCommandType
  <2>4. CASE MonitorCommand  BY <2>4, MonitorCommandType
  <2>5. CASE UNCHANGED wm  BY <2>5 DEF TypeOK
  <2> QED  BY <2>1, <2>2, <2>3, <2>4, <2>5 DEF WindowsNext
<1> QED  BY <1>1, <1>2, PTL DEF Spec

-----------------------------------------------------------------------------
(* Nothing is left without a tag.  The property is about mapped windows;    *)
(* what the handlers preserve is stronger: a window has a tag as soon as it *)
(* is on a monitor, mapped or not, because the initial commit places it     *)
(* before it maps.                                                          *)

Tagged(s) ==
  /\ \A c \in Clients : s.mon[c] # None => s.tags[c] # {}
  /\ \A m \in Monitors, i \in {0, 1} : s.tagset[m][i] # {}

SameTags(s, t) ==
  /\ t.mon = s.mon /\ t.tags = s.tags
  /\ t.tagset = s.tagset /\ t.seltags = s.seltags

LEMMA SameTagged ==
  ASSUME NEW s, NEW t, Tagged(s), SameTags(s, t)
  PROVE  Tagged(t)
BY DEF Tagged, SameTags

LEMMA FocusKeepsTags ==
  ASSUME NEW s \in WindowState, NEW c
  PROVE  SameTags(s, client_focus(s, c))
<1> DEFINE d == Target(s, c)
           r == Raise(s, d)
           t == [r EXCEPT !.kbd = d]
           u == TakeKeyboard(r, d)
<1>1. r \in WindowState /\ SameTags(s, r)
  <2>1. r \in WindowState  BY RaiseType
  <2>2. SameTags(s, r)
    <3> HIDE DEF d
    <3> QED  BY DEF Raise, SameTags, WindowState
  <2> QED  BY <2>1, <2>2
<1>2. SameTags(r, u)
  <2> HIDE DEF r, d
  <2> QED  BY <1>1 DEF TakeKeyboard, toplevel_focus, SameTags, WindowState
<1>3. SameTags(s, s) /\ SameTags(s, u)  BY <1>1, <1>2 DEF SameTags
<1>4. client_focus(s, c) \in {s, r, u}  BY DEF client_focus, FocusOn, Offer
<1> HIDE DEF r, u
<1> QED  BY <1>1, <1>3, <1>4

LEMMA RefocusKeepsTags ==
  ASSUME NEW s \in WindowState
  PROVE  SameTags(s, Refocus(s))
BY FocusKeepsTags DEF Refocus

LEMMA ArrangeKeepsTags ==
  ASSUME NEW s \in WindowState, NEW m
  PROVE  SameTags(s, layout_arrange(s, m))
BY DEF layout_arrange, SameTags, WindowState

LEMMA ArrangeOfKeepsTags ==
  ASSUME NEW s \in WindowState, NEW c
  PROVE  SameTags(s, ArrangeOf(s, c))
<1>1. SameTags(s, s)  BY DEF SameTags
<1> QED  BY <1>1, ArrangeKeepsTags DEF ArrangeOf

LEMMA RefocusArrangeKeepsTags ==
  ASSUME NEW s \in WindowState
  PROVE  SameTags(s, RefocusArrange(s))
<1>1. SameTags(s, Refocus(s)) /\ Refocus(s) \in WindowState
  BY RefocusKeepsTags, RefocusType
<1>2. SameTags(Refocus(s), layout_arrange(Refocus(s), Refocus(s).selected_monitor))
  BY <1>1, ArrangeKeepsTags
<1> QED  BY <1>1, <1>2 DEF RefocusArrange, SameTags

LEMMA SetFullscreenKeepsTags ==
  ASSUME NEW s \in WindowState, NEW c \in Clients, NEW on \in BOOLEAN
  PROVE  SameTags(s, client_set_fullscreen(s, c, on))
<1> DEFINE t == [s EXCEPT !.isfullscreen = IF on THEN @ \cup {c} ELSE @ \ {c}]
<1>1. t \in WindowState /\ SameTags(s, t)  BY DEF WindowState, SameTags
<1>2. SameTags(t, ArrangeOf(t, c))
  <2> HIDE DEF t
  <2> QED  BY <1>1, ArrangeOfKeepsTags
<1> QED  BY <1>1, <1>2 DEF client_set_fullscreen, SameTags

LEMMA SetFloatingKeepsTags ==
  ASSUME NEW s \in WindowState, NEW c \in Clients, NEW on \in BOOLEAN
  PROVE  SameTags(s, client_set_floating(s, c, on))
<1> DEFINE t == [s EXCEPT !.isfloating = IF on THEN @ \cup {c} ELSE @ \ {c}]
<1>1. t \in WindowState /\ SameTags(s, t)  BY DEF WindowState, SameTags
<1>2. SameTags(t, ArrangeOf(t, c))
  <2> HIDE DEF t
  <2> QED  BY <1>1, ArrangeOfKeepsTags
<1> QED  BY <1>1, <1>2 DEF client_set_floating, SameTags

(* A window that changes its monitor for another one is in view there. *)
Arrives(s, t, c) == t.mon[c] \notin {None, s.mon[c]} => Visible(t, c, t.mon[c])

OthersStay(s, t, c) == \A d \in Clients \ {c} : t.mon[d] = s.mon[d]

(* A window that is put on a monitor gets the tags asked for or, for lack of
   any, those on view there, which are never none; the others stay. *)
LEMMA SetMonitorTagged ==
  ASSUME NEW s \in WindowState, NEW c \in Clients, Tagged(s),
         NEW m \in Monitors \cup {None}, NEW newtags \in SUBSET Tags
  PROVE  LET t == client_set_monitor(s, c, m, newtags)
         IN  /\ Tagged(t) /\ t.mon[c] = m /\ OthersStay(s, t, c)
             /\ (m \notin {None, s.mon[c]} /\ newtags = {}) => Visible(t, c, m)
<1> DEFINE old    == s.mon[c]
           new    == TagsOn(s, m, newtags)
           moved  == [s EXCEPT !.mon[c] = m]
           left   == IF old = None THEN moved ELSE layout_arrange(moved, old)
           tagged == [left EXCEPT !.tags[c] = new]
           placed == ArrangeOf(tagged, c)
<1>1. moved \in WindowState  BY DEF WindowState
<1>2. left \in WindowState /\ SameTags(moved, left)
  <2>1. SameTags(moved, moved)  BY DEF SameTags
  <2> HIDE DEF moved
  <2> QED  BY <1>1, <2>1, ArrangeType, ArrangeKeepsTags
<1>3. /\ left.tags = s.tags /\ left.tagset = s.tagset /\ left.seltags = s.seltags
      /\ left.mon = [s.mon EXCEPT ![c] = m]
  <2>1. moved.tags = s.tags /\ moved.tagset = s.tagset /\ moved.seltags = s.seltags
        /\ moved.mon = [s.mon EXCEPT ![c] = m]
    BY DEF WindowState
  <2> HIDE DEF moved, left
  <2> QED  BY <1>2, <2>1 DEF SameTags
<1>4. CASE m = None
  <2>1. Tagged(left)
    <3>1. \A d \in Clients : left.mon[d] # None => s.mon[d] # None
      <4> HIDE DEF left
      <4> QED  BY <1>3, <1>4 DEF WindowState
    <3> HIDE DEF left
    <3> QED  BY <1>3, <3>1 DEF Tagged
  <2>2. SameTags(left, Refocus(left)) /\ Tagged(Refocus(left))
    <3> HIDE DEF left
    <3> QED  BY <1>2, <2>1, RefocusKeepsTags, SameTagged
  <2>3. Refocus(left).mon = [s.mon EXCEPT ![c] = m]
    <3> HIDE DEF left
    <3> QED  BY <1>3, <2>2 DEF SameTags
  <2>4. client_set_monitor(s, c, m, newtags) = IF old = m THEN s ELSE Refocus(left)
    BY <1>4 DEF client_set_monitor
  <2>5. s.mon \in [Clients -> Monitors \cup {None}]  BY DEF WindowState
  <2> HIDE DEF left
  <2> QED  BY <1>4, <2>2, <2>3, <2>4, <2>5 DEF OthersStay
<1>5. CASE m \in Monitors
  <2>1. new \in SUBSET Tags /\ new # {}
    <3>1. s.seltags[m] \in {0, 1}  BY <1>5 DEF WindowState
    <3>2. Viewed(s, m) # {}  BY <1>5, <3>1 DEF Viewed, Tagged
    <3> QED  BY <1>5, <3>2, ViewedType DEF TagsOn
  <2>2. tagged = [left EXCEPT !.tags[c] = new]  OBVIOUS
  <2>3. tagged \in WindowState /\ Tagged(tagged)
    <3> HIDE DEF left, new, tagged
    <3>1. tagged \in WindowState  BY <1>2, <2>1, <2>2 DEF WindowState
    <3>2. /\ tagged.mon = left.mon /\ tagged.tagset = left.tagset
          /\ tagged.tags = [left.tags EXCEPT ![c] = new]
      BY <1>2, <2>2 DEF WindowState
    <3>3. s.tags \in [Clients -> SUBSET Tags] /\ s.mon \in [Clients -> Monitors \cup {None}]
      BY DEF WindowState
    <3>4. \A d \in Clients : tagged.mon[d] # None => tagged.tags[d] # {}
      BY <1>3, <2>1, <3>2, <3>3 DEF Tagged
    <3> QED  BY <1>3, <3>1, <3>2, <3>4 DEF Tagged
  <2>4. placed \in WindowState /\ Tagged(placed)
    <3> HIDE DEF tagged
    <3> QED  BY <2>3, ArrangeOfType, ArrangeOfKeepsTags, SameTagged
  <2>5. Tagged(Refocus(placed)) /\ SameTags(placed, Refocus(placed))
    <3> HIDE DEF placed
    <3> QED  BY <2>4, RefocusKeepsTags, SameTagged
  <2>6. client_set_monitor(s, c, m, newtags) = IF old = m THEN s ELSE Refocus(placed)
    BY <1>5, DistinctAssumption DEF client_set_monitor
  <2>7. SameTags(tagged, placed)
    <3> HIDE DEF tagged
    <3> QED  BY <2>3, ArrangeOfKeepsTags
  <2> DEFINE t == Refocus(placed)
  <2>8. /\ t.mon = [s.mon EXCEPT ![c] = m] /\ t.tags = [s.tags EXCEPT ![c] = new]
        /\ t.tagset = s.tagset /\ t.seltags = s.seltags
    <3>1. SameTags(tagged, t)
      <4> HIDE DEF tagged, placed, t
      <4> QED  BY <2>5, <2>7 DEF SameTags, t
    <3>2. /\ tagged.mon = left.mon /\ tagged.tags = [left.tags EXCEPT ![c] = new]
          /\ tagged.tagset = left.tagset /\ tagged.seltags = left.seltags
      <4> HIDE DEF left, new
      <4> QED  BY <1>2 DEF WindowState
    <3> HIDE DEF tagged, left, new, t
    <3> QED  BY <1>3, <3>1, <3>2 DEF SameTags
  <2>9. /\ s.mon \in [Clients -> Monitors \cup {None}]
        /\ s.tags \in [Clients -> SUBSET Tags]
    BY DEF WindowState
  <2>10. t.mon[c] = m /\ OthersStay(s, t, c)
    <3> HIDE DEF t, new
    <3> QED  BY <2>8, <2>9 DEF OthersStay
  <2>11. newtags = {} => Visible(t, c, m)
    <3>1. newtags = {} => new = Viewed(s, m)  BY DEF TagsOn
    <3>2. new # {}  BY <2>1
    <3>3. Viewed(t, m) = Viewed(s, m) /\ t.tags[c] = new
      <4> HIDE DEF t, new
      <4> QED  BY <2>8, <2>9 DEF Viewed
    <3>4. newtags = {} => t.tags[c] \cap Viewed(t, m) # {}
      <4> HIDE DEF t, new
      <4> QED  BY <3>1, <3>2, <3>3
    <3> HIDE DEF t
    <3> QED  BY <1>5, <2>10, <3>4, DistinctAssumption DEF Visible
  <2> HIDE DEF placed
  <2>12. Tagged(t)  BY <2>5
  <2>13. old = m => client_set_monitor(s, c, m, newtags) = s  BY <2>6
  <2>14. old # m => client_set_monitor(s, c, m, newtags) = t  BY <2>6
  <2> HIDE DEF t
  <2> QED  BY <2>10, <2>11, <2>12, <2>13, <2>14 DEF OthersStay
<1> QED  BY <1>4, <1>5

LEMMA ApplyRulesTagged ==
  ASSUME NEW s \in WindowState, NEW c \in Clients, NEW rule \in Rules, Tagged(s)
  PROVE  /\ Tagged(client_apply_rules(s, c, rule))
         /\ OthersStay(s, client_apply_rules(s, c, rule), c)
<1> DEFINE m == IF rule.monitor \in DOMAIN s.monitors
                THEN s.monitors[rule.monitor] ELSE s.selected_monitor
           f == IF rule.isfloating THEN s.isfloating \cup {c} ELSE s.isfloating \ {c}
           t == [s EXCEPT !.isfloating = f]
           r == IF rule.isfloating = None THEN s ELSE t
<1>1. m \in Monitors \cup {None} /\ rule.tags \in SUBSET Tags
  BY RulesAssumption DEF WindowState, Rule
<1>2. t \in WindowState /\ SameTags(s, t)
  <2>1. f \in SUBSET Clients  BY DEF WindowState
  <2> HIDE DEF f
  <2> QED  BY <2>1 DEF WindowState, SameTags
<1>3. r \in WindowState /\ Tagged(r) /\ r.mon = s.mon
  <2>1. t.mon = s.mon  BY <1>2 DEF SameTags
  <2> HIDE DEF t
  <2> QED  BY <1>2, <2>1, SameTagged
<1>4. client_apply_rules(s, c, rule) = client_set_monitor(r, c, m, rule.tags)
  BY DEF client_apply_rules
<1> HIDE DEF r, m
<1> QED  BY <1>1, <1>3, <1>4, SetMonitorTagged DEF OthersStay

LEMMA PlaceTagged ==
  ASSUME NEW s \in WindowState, NEW c \in Clients, NEW rule \in Rules, Tagged(s)
  PROVE  Tagged(Place(s, c, rule)) /\ OthersStay(s, Place(s, c, rule), c)
<1> DEFINE parent == client_get_parent(s, c)
           floats == [s EXCEPT !.isfloating = @ \cup {c}]
<1>1. CASE parent = None  BY <1>1, ApplyRulesTagged DEF Place
<1>2. CASE parent # None
  <2>1. parent \in Clients  BY <1>2, ParentType
  <2>2. floats \in WindowState /\ SameTags(s, floats)  BY DEF WindowState, SameTags
  <2>3. s.mon[parent] \in Monitors \cup {None} /\ s.tags[parent] \in SUBSET Tags
    BY <2>1 DEF WindowState
  <2> DEFINE t == client_set_monitor(floats, c, s.mon[parent], s.tags[parent])
  <2>4. Tagged(t) /\ OthersStay(floats, t, c)
    <3> HIDE DEF floats, parent
    <3> QED  BY <2>2, <2>3, SameTagged, SetMonitorTagged
  <2>5. Place(s, c, rule) = t  BY <1>2 DEF Place
  <2>6. floats.mon = s.mon  BY <2>2 DEF SameTags
  <2> HIDE DEF t, floats
  <2> QED  BY <2>4, <2>5, <2>6 DEF OthersStay
<1> QED  BY <1>1, <1>2

(* The rest of client_handle_map does not touch a tag. *)
LEMMA MapKeepsTags ==
  ASSUME NEW s \in WindowState, NEW c \in Clients, NEW late \in BOOLEAN
  PROVE  /\ SameTags(s, Insert(s, c))
         /\ SameTags(s, HoldBack(s, c, late))
         /\ SameTags(s, toplevel_map(s, c))
         /\ SameTags(s, UnsetFullscreen(s, c))
<1>1. SameTags(s, Insert(s, c))  BY DEF Insert, SameTags, WindowState
<1>2. SameTags(s, HoldBack(s, c, late))  BY DEF HoldBack, SameTags, WindowState
<1>3. SameTags(s, toplevel_map(s, c))
  BY DEF toplevel_map, toplevel_focus, SameTags, WindowState
<1>4. SameTags(s, UnsetFullscreen(s, c))
  <2> DEFINE parent == client_get_parent(s, c)
             others == {o \in ToSet(s.clients) \ {c, parent} :
                          /\ o \in s.isfullscreen
                          /\ s.mon[o] = s.mon[c]
                          /\ s.tags[o] \cap s.tags[c] # {}}
             r == [s EXCEPT !.isfullscreen = @ \ others]
  <2>1. r \in WindowState /\ SameTags(s, r)
    <3> HIDE DEF others
    <3> QED  BY DEF SameTags, WindowState
  <2>2. SameTags(r, layout_arrange(r, s.mon[c]))
    <3> HIDE DEF r
    <3> QED  BY <2>1, ArrangeKeepsTags
  <2>3. UnsetFullscreen(s, c) \in {r, layout_arrange(r, s.mon[c])}
    BY DEF UnsetFullscreen
  <2> HIDE DEF r
  <2> QED  BY <2>1, <2>2, <2>3 DEF SameTags
<1> QED  BY <1>1, <1>2, <1>3, <1>4

LEMMA ViewTagged ==
  ASSUME NEW s \in WindowState, NEW mask \in SUBSET Tags, Tagged(s)
  PROVE  Tagged(layout_view(s, mask)) /\ layout_view(s, mask).mon = s.mon
<1> DEFINE m == s.selected_monitor
           i == 1 - s.seltags[m]
           set == IF mask = {} THEN s.tagset[m][i] ELSE mask
           t == [s EXCEPT !.seltags[m] = i,
                          !.tagset[m][i] = IF mask = {} THEN @ ELSE mask]
<1>1. CASE layout_view(s, mask) = s  BY <1>1
<1>2. CASE layout_view(s, mask) # s
  <2>1. m \in Monitors /\ layout_view(s, mask) = RefocusArrange(t)
    BY <1>2 DEF layout_view, WindowState
  <2>2. i \in {0, 1}
    <3>1. s.seltags[m] \in {0, 1}  BY <2>1 DEF WindowState
    <3> QED  BY <3>1
  <2>3. set \in SUBSET Tags /\ set # {}
    <3>1. s.tagset[m] \in [{0, 1} -> SUBSET Tags]  BY <2>1 DEF WindowState
    <3>2. s.tagset[m][i] \in SUBSET Tags /\ s.tagset[m][i] # {}
      <4> HIDE DEF i
      <4> QED  BY <2>1, <2>2, <3>1 DEF Tagged
    <3> QED  BY <3>2
  <2>4. t = [s EXCEPT !.seltags = [s.seltags EXCEPT ![m] = i],
                      !.tagset = [s.tagset EXCEPT ![m] = [@ EXCEPT ![i] = set]]]
    BY DEF WindowState
  <2>5. t \in WindowState /\ Tagged(t) /\ t.mon = s.mon
    <3> HIDE DEF t, i, set, m
    <3>1. s.tagset \in [Monitors -> [{0, 1} -> SUBSET Tags]]
          /\ s.seltags \in [Monitors -> {0, 1}]
      BY DEF WindowState
    <3>2. [s.seltags EXCEPT ![m] = i] \in [Monitors -> {0, 1}]  BY <2>1, <2>2, <3>1
    <3> DEFINE new == [s.tagset EXCEPT ![m] = [@ EXCEPT ![i] = set]]
    <3>3. new \in [Monitors -> [{0, 1} -> SUBSET Tags]]
      BY <2>1, <2>2, <2>3, <3>1
    <3>4. \A n \in Monitors, j \in {0, 1} : new[n][j] # {}
      BY <2>1, <2>2, <2>3, <3>1 DEF Tagged
    <3> HIDE DEF new
    <3>5. t = [s EXCEPT !.seltags = [s.seltags EXCEPT ![m] = i], !.tagset = new]
      BY <2>4 DEF new
    <3>6. t \in WindowState  BY <3>2, <3>3, <3>5 DEF WindowState
    <3>7. t.mon = s.mon /\ t.tags = s.tags /\ t.tagset = new  BY <3>5 DEF WindowState
    <3> QED  BY <3>4, <3>6, <3>7 DEF Tagged
  <2> HIDE DEF t
  <2>6. SameTags(t, RefocusArrange(t))  BY <2>5, RefocusArrangeKeepsTags
  <2>7. Tagged(RefocusArrange(t))  BY <2>5, <2>6, SameTagged
  <2> QED  BY <2>1, <2>5, <2>6, <2>7 DEF SameTags
<1> QED  BY <1>1, <1>2

LEMMA ToggleViewTagged ==
  ASSUME NEW s \in WindowState, NEW mask \in SUBSET Tags, Tagged(s)
  PROVE  Tagged(layout_toggle_view(s, mask)) /\ layout_toggle_view(s, mask).mon = s.mon
<1> DEFINE m == s.selected_monitor
           i == s.seltags[m]
           set == Flip(Viewed(s, m), mask)
           t == [s EXCEPT !.tagset[m][s.seltags[m]] = set]
<1>1. CASE layout_toggle_view(s, mask) = s  BY <1>1
<1>2. CASE layout_toggle_view(s, mask) # s
  <2>1. /\ m \in Monitors /\ set # {}
        /\ layout_toggle_view(s, mask) = RefocusArrange(t)
    BY <1>2 DEF layout_toggle_view, WindowState
  <2>2. i \in {0, 1} /\ set \in SUBSET Tags
    BY <2>1, ViewedType DEF WindowState, Flip
  <2>3. t \in WindowState /\ Tagged(t) /\ t.mon = s.mon
    <3> DEFINE new == [s.tagset EXCEPT ![m] = [@ EXCEPT ![i] = set]]
    <3>1. t = [s EXCEPT !.tagset = new]  BY DEF WindowState
    <3> HIDE DEF t, i, set, m
    <3>2. s.tagset \in [Monitors -> [{0, 1} -> SUBSET Tags]]  BY DEF WindowState
    <3>3. new \in [Monitors -> [{0, 1} -> SUBSET Tags]]  BY <2>1, <2>2, <3>2
    <3>4. \A n \in Monitors, j \in {0, 1} : new[n][j] # {}
      BY <2>1, <2>2, <3>2 DEF Tagged
    <3> HIDE DEF new
    <3>5. t \in WindowState  BY <3>1, <3>3 DEF WindowState
    <3>6. t.mon = s.mon /\ t.tags = s.tags /\ t.tagset = new  BY <3>1 DEF WindowState
    <3> QED  BY <3>4, <3>5, <3>6 DEF Tagged
  <2> HIDE DEF t
  <2>4. SameTags(t, RefocusArrange(t))  BY <2>3, RefocusArrangeKeepsTags
  <2>5. Tagged(RefocusArrange(t))  BY <2>3, <2>4, SameTagged
  <2> QED  BY <2>1, <2>3, <2>4, <2>5 DEF SameTags
<1> QED  BY <1>1, <1>2

LEMMA RetagTagged ==
  ASSUME NEW s \in WindowState, NEW c \in Clients, Tagged(s),
         NEW set \in SUBSET Tags, set # {}
  PROVE  LET t == RefocusArrange([s EXCEPT !.tags[c] = set])
         IN  Tagged(t) /\ t.mon = s.mon
<1> DEFINE t == [s EXCEPT !.tags[c] = set]
<1>1. t \in WindowState /\ t.mon = s.mon  BY DEF WindowState
<1>2. Tagged(t)
  <2>1. t.mon = s.mon /\ t.tagset = s.tagset /\ t.tags = [s.tags EXCEPT ![c] = set]
    BY DEF WindowState
  <2>2. s.tags \in [Clients -> SUBSET Tags]  BY DEF WindowState
  <2> HIDE DEF t
  <2> QED  BY <2>1, <2>2 DEF Tagged
<1> HIDE DEF t
<1>3. SameTags(t, RefocusArrange(t))  BY <1>1, RefocusArrangeKeepsTags
<1>4. Tagged(RefocusArrange(t))  BY <1>2, <1>3, SameTagged
<1>5. RefocusArrange(t).mon = s.mon  BY <1>1, <1>3 DEF SameTags
<1> QED  BY <1>4, <1>5 DEF t

LEMMA TagTagged ==
  ASSUME NEW s \in WindowState, NEW mask \in SUBSET Tags, Tagged(s)
  PROVE  Tagged(layout_tag(s, mask)) /\ layout_tag(s, mask).mon = s.mon
BY TopIn, RetagTagged DEF layout_tag

LEMMA ToggleTagTagged ==
  ASSUME NEW s \in WindowState, NEW mask \in SUBSET Tags, Tagged(s)
  PROVE  Tagged(layout_toggle_tag(s, mask)) /\ layout_toggle_tag(s, mask).mon = s.mon
<1> DEFINE sel == client_top(s, s.selected_monitor)
           new == Flip(s.tags[sel], mask)
<1>1. CASE sel = None \/ new = {}  BY <1>1 DEF layout_toggle_tag
<1>2. CASE sel # None /\ new # {}
  <2>1. sel \in Clients  BY <1>2, TopIn
  <2>2. new \in SUBSET Tags  BY <2>1 DEF Flip, WindowState
  <2> DEFINE t == RefocusArrange([s EXCEPT !.tags[sel] = new])
  <2>3. Tagged(t) /\ t.mon = s.mon
    <3> HIDE DEF sel, new
    <3> QED  BY <1>2, <2>1, <2>2, RetagTagged
  <2> QED  BY <1>2, <2>3 DEF layout_toggle_tag
<1> QED  BY <1>1, <1>2

LEMMA ShiftTagged ==
  ASSUME NEW s \in WindowState, NEW step, Tagged(s)
  PROVE  /\ Tagged(layout_shift_view(s, step)) /\ layout_shift_view(s, step).mon = s.mon
         /\ Tagged(layout_shift_tag(s, step)) /\ layout_shift_tag(s, step).mon = s.mon
<1>1. Tagged(layout_shift_view(s, step)) /\ layout_shift_view(s, step).mon = s.mon
  BY TagBesideType, ViewTagged DEF layout_shift_view
<1>2. Tagged(layout_shift_tag(s, step)) /\ layout_shift_tag(s, step).mon = s.mon
  BY TagBesideType, TagType, TagTagged, ViewTagged DEF layout_shift_tag
<1> QED  BY <1>1, <1>2

(* A client's own events move no other client, and this one only while it is
   not mapped, or away when it unmaps. *)
LEMMA ClientEventTagged ==
  ASSUME TypeOK, Tagged(wm), NEW c \in Clients, ClientEvent(c)
  PROVE  /\ Tagged(wm') /\ OthersStay(wm, wm', c)
         /\ c \in wm.mapped => wm'.mon[c] \in {None, wm.mon[c]}
<1>0. wm \in WindowState  BY DEF TypeOK
<1>1. CASE InitialCommit(c)
  <2>1. PICK rule \in Rules :
          wm' = client_set_monitor(client_apply_rules(wm, c, rule), c, None, {})
    BY <1>1 DEF InitialCommit
  <2> DEFINE r == client_apply_rules(wm, c, rule)
  <2>2. r \in WindowState /\ Tagged(r) /\ OthersStay(wm, r, c)
    BY <1>0, ApplyRulesType, ApplyRulesTagged
  <2>3. Tagged(wm') /\ OthersStay(r, wm', c)
    <3> HIDE DEF r
    <3>1. wm' = client_set_monitor(r, c, None, {})  BY <2>1 DEF r
    <3> QED  BY <2>2, <3>1, SetMonitorTagged
  <2> HIDE DEF r
  <2> QED  BY <1>1, <2>2, <2>3 DEF OthersStay, InitialCommit
<1>2. CASE SetParent(c)  BY <1>0, <1>2 DEF SetParent, WindowState, Tagged, OthersStay
<1>3. CASE client_handle_map(c)
  <2>1. PICK rule \in Rules, late \in BOOLEAN :
          wm' = UnsetFullscreen(toplevel_map(
                  HoldBack(Place(Insert(wm, c), c, rule), c, late), c), c)
    BY <1>3 DEF client_handle_map
  <2> DEFINE p == Place(Insert(wm, c), c, rule)
             h == HoldBack(p, c, late)
             t == toplevel_map(h, c)
             u == UnsetFullscreen(t, c)
  <2>2. p \in WindowState /\ Tagged(p) /\ OthersStay(wm, p, c)
    <3>1. Insert(wm, c) \in WindowState /\ SameTags(wm, Insert(wm, c))
      BY <1>0, InsertType, MapKeepsTags
    <3>2. Tagged(Insert(wm, c)) /\ Insert(wm, c).mon = wm.mon
      BY <3>1, SameTagged DEF SameTags
    <3> QED  BY <3>1, <3>2, PlaceType, PlaceTagged DEF OthersStay
  <2>3. h \in WindowState /\ SameTags(p, h)
    <3> HIDE DEF p
    <3> QED  BY <2>2, HoldBackType, MapKeepsTags
  <2>4. t \in WindowState /\ SameTags(h, t)
    <3> HIDE DEF h
    <3> QED  BY <2>3, ToplevelMapType, MapKeepsTags
  <2>5. SameTags(t, u)
    <3> HIDE DEF t
    <3> QED  BY <2>4, MapKeepsTags
  <2>6. wm' = u  BY <2>1
  <2>7. SameTags(p, u)
    <3> HIDE DEF p, h, t, u
    <3> QED  BY <2>3, <2>4, <2>5 DEF SameTags
  <2>8. Tagged(u) /\ u.mon = p.mon
    <3> HIDE DEF p, u
    <3> QED  BY <2>2, <2>7, SameTagged DEF SameTags
  <2> HIDE DEF p, u
  <2> QED  BY <1>3, <2>2, <2>6, <2>8 DEF client_handle_map, OthersStay
<1>4. CASE client_map_wait_done(c)
  BY <1>0, <1>4 DEF client_map_wait_done, WindowState, Tagged, OthersStay
<1>5. CASE client_handle_unmap(c)
  <2> DEFINE bare == toplevel_unmap(wm, c)
             gone == [bare EXCEPT !.mapped = @ \ {c}, !.mapwait = @ \ {c},
                                  !.clients = Without(@, c)]
             apart == client_set_monitor(gone, c, None, {})
             end == [apart EXCEPT !.focus_stack = Without(@, c), !.shown = @ \ {c},
                                  !.linked = Unlinked(@, c)]
  <2>1. bare \in WindowState /\ SameTags(wm, bare)
    <3>1. SameTags(wm, bare)  BY <1>0 DEF toplevel_unmap, SameTags, WindowState
    <3> QED  BY <1>0, <3>1, ToplevelUnmapType
  <2>2. gone \in WindowState /\ SameTags(bare, gone)
    <3>1. Without(bare.clients, c) \in Seq(Clients)
      BY <2>1, WithoutType DEF WindowState
    <3> HIDE DEF bare
    <3> QED  BY <2>1, <3>1 DEF SameTags, WindowState
  <2>3. Tagged(gone)
    <3> HIDE DEF gone, bare
    <3> QED  BY <2>1, <2>2, SameTagged
  <2>4. apart \in WindowState /\ Tagged(apart) /\ apart.mon[c] = None
        /\ OthersStay(gone, apart, c)
    <3> HIDE DEF gone
    <3> QED  BY <2>2, <2>3, SetMonitorType, SetMonitorTagged
  <2>5. SameTags(apart, end)
    <3> HIDE DEF apart
    <3> QED  BY <2>4 DEF SameTags, WindowState
  <2>6. wm' = end  BY <1>5 DEF client_handle_unmap, Detached
  <2>7. gone.mon = wm.mon
    <3> HIDE DEF bare, gone
    <3> QED  BY <2>1, <2>2 DEF SameTags
  <2>8. Tagged(end) /\ end.mon = apart.mon
    <3> HIDE DEF apart, end
    <3> QED  BY <2>4, <2>5, SameTagged DEF SameTags
  <2> HIDE DEF gone, apart, end
  <2> QED  BY <2>4, <2>6, <2>7, <2>8 DEF OthersStay
<1>6. CASE RequestFullscreen(c)
  <2>1. PICK on \in BOOLEAN : wm' = client_set_fullscreen(wm, c, on)
    BY <1>6 DEF RequestFullscreen
  <2>2. SameTags(wm, wm')  BY <1>0, <2>1, SetFullscreenKeepsTags
  <2> QED  BY <2>2, SameTagged DEF SameTags, OthersStay
<1>7. CASE RingBell(c)  BY <1>0, <1>7 DEF RingBell, WindowState, Tagged, OthersStay
<1>8. CASE client_activate(c)
  <2> DEFINE m == wm.mon[c]
             at == [wm EXCEPT !.selected_monitor = m]
             v  == IF Visible(at, c, m) THEN at ELSE layout_view(at, wm.tags[c])
  <2>1. m \in Monitors \cup {None} /\ wm.tags[c] \in SUBSET Tags
    BY <1>0 DEF WindowState
  <2>2. at \in WindowState /\ SameTags(wm, at)
    <3> HIDE DEF m
    <3> QED  BY <1>0, <2>1 DEF WindowState, SameTags
  <2>3. v \in WindowState /\ Tagged(v) /\ v.mon = wm.mon
    <3> HIDE DEF at, m
    <3>1. Tagged(at) /\ at.mon = wm.mon  BY <2>2, SameTagged DEF SameTags
    <3> QED  BY <2>1, <2>2, <3>1, ViewType, ViewTagged
  <2>4. wm' = client_focus(v, c)  BY <1>8 DEF client_activate
  <2> HIDE DEF v
  <2>5. SameTags(v, wm')  BY <2>3, <2>4, FocusKeepsTags
  <2>6. Tagged(wm')  BY <2>3, <2>5, SameTagged
  <2>7. wm'.mon = wm.mon  BY <2>3, <2>5 DEF SameTags
  <2> QED  BY <2>6, <2>7 DEF OthersStay
<1> QED  BY <1>1, <1>2, <1>3, <1>4, <1>5, <1>6, <1>7, <1>8 DEF ClientEvent

LEMMA TagCommandTagged ==
  ASSUME TypeOK, Tagged(wm), TagCommand
  PROVE  Tagged(wm') /\ wm'.mon = wm.mon
<1>0. wm \in WindowState  BY DEF TypeOK
<1>1. ASSUME NEW mask \in TagMasks,
             \/ wm' = layout_view(wm, mask)
             \/ wm' = layout_toggle_view(wm, mask)
             \/ wm' = layout_tag(wm, mask)
             \/ wm' = layout_toggle_tag(wm, mask)
      PROVE  Tagged(wm') /\ wm'.mon = wm.mon
  BY <1>0, <1>1, TagMasksAssumption, ViewTagged, ToggleViewTagged, TagTagged, ToggleTagTagged
<1>2. ASSUME NEW step,
             \/ wm' = layout_shift_view(wm, step)
             \/ wm' = layout_shift_tag(wm, step)
      PROVE  Tagged(wm') /\ wm'.mon = wm.mon
  BY <1>0, <1>2, ShiftTagged
<1> QED  BY <1>1, <1>2 DEF TagCommand

LEMMA StackCommandKeepsTags ==
  ASSUME TypeOK, StackCommand
  PROVE  SameTags(wm, wm')
<1>0. wm \in WindowState  BY DEF TypeOK
<1>1. ASSUME NEW step \in {-1, 1}, layout_focus_stack(step)  PROVE SameTags(wm, wm')
  <2>1. PICK c : wm' = client_focus(wm, c)  BY <1>1 DEF layout_focus_stack
  <2> QED  BY <1>0, <2>1, FocusKeepsTags
<1>2. ASSUME NEW step \in StackSteps, layout_move_stack(step)  PROVE SameTags(wm, wm')
  <2> DEFINE sel  == client_top(wm, wm.selected_monitor)
             list == IF step > 0 THEN MoveDown(wm, sel) ELSE MoveUp(wm, sel)
             t    == [wm EXCEPT !.clients = list]
  <2>1. sel \in Clients /\ sel \in ToSet(wm.clients)
    BY <1>0, <1>2, TopIn DEF layout_move_stack
  <2>2. list \in Seq(Clients)
    <3> HIDE DEF sel
    <3> QED  BY <1>0, <2>1, MoveDownType, MoveUpType
  <2>3. t \in WindowState /\ SameTags(wm, t)
    <3> HIDE DEF list
    <3> QED  BY <1>0, <2>2 DEF WindowState, SameTags
  <2>4. wm' = layout_arrange(t, wm.selected_monitor)  BY <1>2 DEF layout_move_stack
  <2> HIDE DEF t
  <2>5. SameTags(t, wm')  BY <2>3, <2>4, ArrangeKeepsTags
  <2> QED  BY <2>3, <2>5 DEF SameTags
<1>3. CASE layout_zoom
  <2>1. TypeOK'  BY <1>3, StackCommandType DEF StackCommand
  <2> DEFINE sel   == client_top(wm, wm.selected_monitor)
             tiles == {i \in InView(wm) : wm.clients[i] \notin wm.isfloating}
             later == tiles \ {Min(tiles)}
             first == wm.clients[Min(tiles)]
             up    == IF first # sel THEN sel ELSE wm.clients[Min(later)]
             t     == [wm EXCEPT !.clients = ToHead(@, up)]
             moved == client_focus(t, up)
  <2>2. up \in Clients
    <3>1. CASE first # sel  BY <1>0, <1>3, <3>1, TopIn DEF layout_zoom
    <3>2. CASE first = sel
      <4>1. later # {} /\ later \in SUBSET Nat /\ later \subseteq InView(wm)
        BY <1>0, <1>3, <3>2, InViewType DEF layout_zoom
      <4> HIDE DEF later
      <4>2. Min(later) \in InView(wm)  BY <4>1, MinIn
      <4>3. wm.clients[Min(later)] \in Clients  BY <1>0, <4>2, InViewType
      <4> QED  BY <3>2, <4>3
    <3> QED  BY <3>1, <3>2
  <2>3. t \in WindowState /\ SameTags(wm, t)
    <3>1. ToHead(wm.clients, up) \in Seq(Clients)
      <4> HIDE DEF up
      <4> QED  BY <1>0, <2>2, InViewType, ToHeadType
    <3> HIDE DEF up
    <3> QED  BY <1>0, <3>1 DEF WindowState, SameTags
  <2>4. moved \in WindowState /\ SameTags(t, moved)
    <3> HIDE DEF t, up
    <3> QED  BY <2>2, <2>3, FocusType, FocusKeepsTags
  <2>5. wm' = layout_arrange(moved, moved.selected_monitor)  BY <1>3 DEF layout_zoom
  <2> HIDE DEF t, moved
  <2>6. SameTags(moved, wm')  BY <2>4, <2>5, ArrangeKeepsTags
  <2> QED  BY <2>3, <2>4, <2>6 DEF SameTags
<1>4. CASE client_toggle_floating
  BY <1>0, <1>4, TopIn, SetFloatingKeepsTags DEF client_toggle_floating
<1>5. CASE client_toggle_fullscreen
  BY <1>0, <1>5, TopIn, SetFullscreenKeepsTags DEF client_toggle_fullscreen
<1> QED  BY <1>1, <1>2, <1>3, <1>4, <1>5 DEF StackCommand

(* The only window a command moves arrives in view. *)
LEMMA MonitorCommandTagged ==
  ASSUME TypeOK, Tagged(wm), MonitorCommand
  PROVE  /\ Tagged(wm')
         /\ \/ wm'.mon = wm.mon
            \/ \E c \in Clients : /\ OthersStay(wm, wm', c)
                                  /\ Arrives(wm, wm', c)
<1>0. /\ wm \in WindowState /\ ToSet(wm.monitors) \subseteq Monitors
      /\ Lit(wm) \subseteq Monitors /\ wm.shown \subseteq Clients
      /\ wm.selected_monitor \in Monitors \cup {None}
  BY DEF TypeOK, WindowState, ToSet, Lit
<1>1. \A m \in Monitors : LET at == [wm EXCEPT !.selected_monitor = m]
                         IN  at \in WindowState /\ SameTags(wm, at)
  BY <1>0 DEF WindowState, SameTags
<1>2. ASSUME NEW m \in Monitors, NEW c,
             LET at == [wm EXCEPT !.selected_monitor = m]
             IN  wm' \in {at, client_focus(at, c), Refocus(at)}
      PROVE  Tagged(wm') /\ wm'.mon = wm.mon
  <2> DEFINE at == [wm EXCEPT !.selected_monitor = m]
  <2>1. at \in WindowState /\ SameTags(wm, at)  BY <1>1
  <2>2. wm' \in {at, client_focus(at, c), Refocus(at)}  BY <1>2
  <2> HIDE DEF at
  <2>3. SameTags(at, at)  BY DEF SameTags
  <2>4. SameTags(at, wm')  BY <2>1, <2>2, <2>3, FocusKeepsTags, RefocusKeepsTags
  <2>5. SameTags(wm, wm')  BY <2>1, <2>4 DEF SameTags
  <2> QED  BY <2>5, SameTagged DEF SameTags
<1>3. CASE monitor_focus
  BY <1>0, <1>2, <1>3 DEF monitor_focus
<1>4. CASE monitor_send_client
  <2> DEFINE c == client_top(wm, wm.selected_monitor)
  <2>1. c \in Clients  BY <1>0, <1>4, TopIn DEF monitor_send_client
  <2>2. PICK m \in Monitors : wm' = client_set_monitor(wm, c, m, {})
    BY <1>0, <1>4 DEF monitor_send_client
  <2> HIDE DEF c
  <2>3. /\ Tagged(wm') /\ wm'.mon[c] = m /\ OthersStay(wm, wm', c)
        /\ m # wm.mon[c] => Visible(wm', c, m)
    BY <1>0, <2>1, <2>2, SetMonitorTagged, DistinctAssumption
  <2>4. Arrives(wm, wm', c)  BY <2>3 DEF Arrives
  <2> QED  BY <2>1, <2>3, <2>4
<1>5. CASE PointerPress
  BY <1>0, <1>2, <1>5 DEF PointerPress
<1>6. CASE PointerMotion
  BY <1>0, <1>2, <1>6 DEF PointerMotion
<1> QED  BY <1>3, <1>4, <1>5, <1>6 DEF MonitorCommand

LEMMA TaggedStart == WindowsInit => TypeOK /\ Tagged(wm)
<1> SUFFICES ASSUME WindowsInit  PROVE TypeOK /\ Tagged(wm)
  OBVIOUS
<1>1. PICK list \in SetToSeqs(Monitors) : wm = InitialState(list, Monitors)
  BY DEF WindowsInit
<1>2. Tagged(wm)  BY <1>1 DEF InitialState, Tagged
<1> QED  BY <1>2, InitType

LEMMA TaggedStep ==
  ASSUME TypeOK, Tagged(wm), [WindowsNext]_wm
  PROVE  TypeOK' /\ Tagged(wm')
<1>1. CASE \E c \in Clients : ClientEvent(c)
  BY <1>1, ClientEventType, ClientEventTagged
<1>2. CASE TagCommand  BY <1>2, TagCommandType, TagCommandTagged
<1>3. CASE StackCommand  BY <1>3, StackCommandType, StackCommandKeepsTags, SameTagged
<1>4. CASE MonitorCommand  BY <1>4, MonitorCommandType, MonitorCommandTagged
<1>5. CASE UNCHANGED wm  BY <1>5 DEF TypeOK
<1> QED  BY <1>1, <1>2, <1>3, <1>4, <1>5 DEF WindowsNext

(* Whoever moves a window that stays mapped brings it into view. *)
AllArrive == \A c \in wm.mapped \cap wm'.mapped : Arrives(wm, wm', c)

LEMMA ArrivalStep ==
  ASSUME TypeOK, Tagged(wm), WindowsNext
  PROVE  AllArrive
<1>0. wm.mapped \subseteq Clients  BY DEF TypeOK, WindowState
<1>1. ASSUME NEW c \in Clients, ClientEvent(c)  PROVE AllArrive
  <2>1. /\ OthersStay(wm, wm', c)
        /\ c \in wm.mapped => wm'.mon[c] \in {None, wm.mon[c]}
    BY <1>1, ClientEventTagged
  <2> QED  BY <1>0, <2>1 DEF AllArrive, Arrives, OthersStay
<1>2. ASSUME wm'.mon = wm.mon  PROVE AllArrive
  BY <1>2 DEF AllArrive, Arrives
<1>3. ASSUME NEW c \in Clients, OthersStay(wm, wm', c), Arrives(wm, wm', c)
      PROVE  AllArrive
  BY <1>0, <1>3 DEF AllArrive, Arrives, OthersStay
<1>4. CASE TagCommand  BY <1>2, <1>4, TagCommandTagged
<1>5. CASE StackCommand  BY <1>2, <1>5, StackCommandKeepsTags DEF SameTags
<1>6. CASE MonitorCommand  BY <1>2, <1>3, <1>6, MonitorCommandTagged
<1> QED  BY <1>1, <1>4, <1>5, <1>6 DEF WindowsNext

(* Nothing is left without a tag, for any number of tags, windows and        *)
(* monitors: the guards against an empty set in layout_view, layout_tag and  *)
(* the two toggles, and the default of client_set_monitor, are enough.       *)
THEOREM EverythingStaysTagged == Spec => []EverythingHasATag
<1> DEFINE Inv == TypeOK /\ Tagged(wm)
<1>1. WindowsInit => Inv  BY TaggedStart
<1>2. Inv /\ [WindowsNext]_wm => Inv'  BY TaggedStep DEF Tagged
<1>3. Inv => EverythingHasATag
  BY DEF Tagged, EverythingHasATag, TypeOK, WindowState
<1> QED  BY <1>1, <1>2, <1>3, PTL DEF Spec

(* A window that is sent to another monitor, by whatever handler, is in view  *)
(* there when the handler is done: it takes over the tags on view, which are  *)
(* never none, and no handler that runs after it takes them away again.       *)
THEOREM MovedWindowsArrive == Spec => MovedArrivesInView
<1> DEFINE Inv == TypeOK /\ Tagged(wm)
<1>1. WindowsInit => Inv  BY TaggedStart
<1>2. Inv /\ [WindowsNext]_wm => Inv'  BY TaggedStep DEF Tagged
<1>3. Inv /\ [WindowsNext]_wm => [AllArrive]_wm  BY ArrivalStep
<1> QED  BY <1>1, <1>2, <1>3, PTL DEF Spec, MovedArrivesInView, AllArrive, Arrives

-----------------------------------------------------------------------------
(* What the tag commands keep. *)

(* A handler that changes a tag or a view, refocuses, and draws the selected
   monitor: u is what it makes of s before that. *)
LEMMA RefocusArrangeInner ==
  ASSUME NEW s \in WindowState, NEW u \in WindowState, SameLists(s, u),
         u.mon = s.mon, u.shown = s.shown, u.kbd = s.kbd,
         u.toplevel_active = s.toplevel_active,
         u.selected_monitor = s.selected_monitor,
         \A n : n # s.selected_monitor /\ DrawnOn(s, n) => DrawnOn(u, n)
  PROVE  LET t == RefocusArrange(u)
         IN  /\ Inner(s, t) /\ t.mon = s.mon
             /\ \A d : PlacedBut(s, d) => PlacedBut(t, d)
             /\ t.tags = u.tags /\ t.tagset = u.tagset /\ t.seltags = u.seltags
             /\ \A M : Within(M, s) => Within(M, t)
             /\ Modal = {} => Returned(t)
<1> DEFINE r == Refocus(u)
           m == r.selected_monitor
           a == layout_arrange(r, m)
           t == RefocusArrange(u)
<1>0. t = IF m = None THEN r ELSE a  BY DEF RefocusArrange
<1>1. /\ r \in WindowState /\ SameLists(u, r) /\ SameWindows(u, r)
      /\ Marked(u) => Attended(r) /\ Unblocked(r) /\ Foremost(r)
      /\ \A n : DrawnOn(u, n) => DrawnOn(r, n)
      /\ \A c : PlacedBut(u, c) => PlacedBut(r, c)
      /\ Modal = {} \/ OneMonitor => m = u.selected_monitor
      /\ m = None => u.selected_monitor = None
      /\ u.session.lock_active \/ KeepsKeyboard(u) => r.kbd = u.kbd
      /\ r.kbd \in Clients \cup {None, u.kbd}
      /\ (u.session.lock_active => u.kbd \notin Clients) => Held(r)
      /\ \A M : Within(M, u) => Within(M, r)
      /\ Modal = {} => Returned(r)
  BY RefocusSettles
<1> HIDE DEF r
<1>9. Grip(s, r) /\ \A M : Within(M, s) => Within(M, r)
  <2>1. u.session = s.session  BY DEF SameLists
  <2>2. KeepsKeyboard(u) <=> KeepsKeyboard(s)  BY <2>1 DEF KeepsKeyboard
  <2>3. \A M : Within(M, s) => Within(M, u)  BY DEF Within
  <2> QED  BY <1>1, <2>1, <2>2, <2>3 DEF Grip, Held
<1>2. Attended(s) => Marked(u)  BY DEF Attended, Marked, SameLists
<1>3. SameLists(s, r) /\ r.mon = s.mon /\ r.shown = s.shown
      /\ r.tags = u.tags /\ r.tagset = u.tagset /\ r.seltags = u.seltags
  BY <1>1 DEF SameLists, SameWindows
<1>4. Attended(s) => Attended(r) /\ Passes(s, r) /\ (Foremost(s) => Foremost(r))
  BY <1>1, <1>2 DEF Passes
<1>5. \A d : PlacedBut(s, d) => PlacedBut(r, d)  BY <1>3 DEF PlacedBut
<1>6. Drawable(s) /\ Drawn(s) => m = s.selected_monitor /\ \A n : n # m => DrawnOn(r, n)
  BY <1>1, DrawnOnAll DEF Drawable
<1>7. CASE m = None
  <2>1. t = r  BY <1>0, <1>7
  <2>2. Drawable(s) /\ Drawn(s) => Drawn(r)
    <3>1. DrawnOn(r, None)  BY <1>1, DistinctAssumption DEF DrawnOn, WindowState
    <3> QED  BY <1>6, <1>7, <3>1, DrawnOnAll
  <2>3. Inner(s, r)  BY <1>1, <1>3, <1>4, <1>7, <1>9, <2>2 DEF Inner, Back
  <2> HIDE DEF t
  <2> QED  BY <1>1, <1>3, <1>5, <1>9, <2>1, <2>3 DEF t
<1>8. CASE m # None
  <2>1. t = a  BY <1>0, <1>8
  <2>2. /\ Inner(r, a) /\ a.mon = r.mon /\ \A c : PlacedBut(r, c) => PlacedBut(a, c)
        /\ \A M : Within(M, r) => Within(M, a)
    BY <1>1, <1>8, ArrangeInner
  <2>3. a.tags = r.tags /\ a.tagset = r.tagset /\ a.seltags = r.seltags
        /\ a.kbd = r.kbd /\ a.selected_monitor = m
    BY <1>1, ArrangeEffect
  <2>4. Drawable(s) /\ Drawn(s) => Drawn(a)
    <3>1. r.clients = s.clients /\ r.mapped = s.mapped  BY <1>3 DEF SameLists
    <3>2. Drawable(s) => ToSet(r.clients) = r.mapped  BY <3>1 DEF Drawable
    <3>3. ToSet(r.clients) = r.mapped =>
            DrawnOn(a, m) /\ \A n : n # m /\ DrawnOn(r, n) => DrawnOn(a, n)
      <4> HIDE DEF m
      <4> QED  BY <1>1, ArrangeDraws
    <3> HIDE DEF a, m
    <3> QED  BY <1>6, <3>2, <3>3, DrawnOnAll
  <2> HIDE DEF a, t
  <2>5. Attended(s) => Attended(a) /\ Passes(s, a) /\ (Foremost(s) => Foremost(a))
    <3>1. Passes(s, r) /\ Passes(r, a) => Passes(s, a)  BY DEF Passes
    <3> QED  BY <1>1, <1>2, <1>4, <2>2, <3>1 DEF Inner
  <2>6. SameLists(s, a)  BY <1>3, <2>2 DEF Inner, SameLists
  <2>7. a.shown \subseteq s.shown \cup ToSet(s.clients)
    BY <1>3, <2>2 DEF Inner, SameLists
  <2>9. Grip(s, a)
    <3>1. r.session = s.session  BY <1>3 DEF SameLists
    <3> QED  BY <1>9, <2>2, <3>1, GripTwice DEF Inner
  <2>10. Back(s, a)  BY <1>1, <2>2 DEF Inner, Back
  <2>8. Inner(s, a)
    BY <1>1, <1>8, <2>2, <2>3, <2>4, <2>5, <2>6, <2>7, <2>9, <2>10 DEF Inner
  <2>11. Modal = {} => Returned(a)  BY <1>1, <2>2 DEF Inner, Back
  <2> QED  BY <1>3, <1>5, <1>9, <2>1, <2>2, <2>3, <2>8, <2>11 DEF t
<1> QED  BY <1>7, <1>8

(* Handlers inside which no window changes its monitor. *)
Kept(s, t) ==
  /\ Inner(s, t) /\ t.mon = s.mon
  /\ \A d : PlacedBut(s, d) => PlacedBut(t, d)
  /\ \A M : Within(M, s) => Within(M, t)

LEMMA KeptTwice ==
  ASSUME NEW s, NEW t, NEW u, Kept(s, t), Kept(t, u)
  PROVE  Kept(s, u)
BY InnerTwice DEF Kept

LEMMA KeptSelf == ASSUME NEW s \in WindowState PROVE Kept(s, s)
BY InnerSelf DEF Kept

LEMMA ViewKept ==
  ASSUME NEW s \in WindowState, NEW mask \in SUBSET Tags
  PROVE  LET t == layout_view(s, mask)
             m == s.selected_monitor
         IN  /\ Kept(s, t)
             /\ m \in Monitors /\ mask # Viewed(s, m) =>
                  /\ t.tags = s.tags /\ (mask # {} => Viewed(t, m) = mask)
                  /\ Modal = {} => Returned(t)
<1> DEFINE m == s.selected_monitor
           i == 1 - s.seltags[m]
           set == IF mask = {} THEN s.tagset[m][i] ELSE mask
           u == [s EXCEPT !.seltags[m] = i,
                          !.tagset[m][i] = IF mask = {} THEN @ ELSE mask]
<1>1. CASE m = None \/ mask = Viewed(s, m)
  BY <1>1, KeptSelf, DistinctAssumption DEF layout_view
<1>2. CASE ~(m = None \/ mask = Viewed(s, m))
  <2>1. m \in Monitors  BY <1>2 DEF WindowState
  <2>2. i \in {0, 1} /\ s.seltags \in [Monitors -> {0, 1}]
        /\ s.tagset \in [Monitors -> [{0, 1} -> SUBSET Tags]]
    <3>1. s.seltags[m] \in {0, 1}  BY <2>1 DEF WindowState
    <3> QED  BY <3>1 DEF WindowState
  <2>3. set \in SUBSET Tags  BY <2>1, <2>2 DEF WindowState
  <2>4. u = [s EXCEPT !.seltags = [s.seltags EXCEPT ![m] = i],
                      !.tagset = [s.tagset EXCEPT ![m] = [@ EXCEPT ![i] = set]]]
    BY DEF WindowState
  <2>5. /\ [s.seltags EXCEPT ![m] = i] \in [Monitors -> {0, 1}]
        /\ [s.tagset EXCEPT ![m] = [@ EXCEPT ![i] = set]]
              \in [Monitors -> [{0, 1} -> SUBSET Tags]]
    <3>1. s.tagset[m] \in [{0, 1} -> SUBSET Tags]  BY <2>1, <2>2
    <3>2. [s.tagset[m] EXCEPT ![i] = set] \in [{0, 1} -> SUBSET Tags]
      <4> HIDE DEF i, set
      <4> QED  BY <2>2, <2>3, <3>1
    <3> HIDE DEF i, set
    <3> QED  BY <2>1, <2>2, <3>2
  <2>6. /\ u \in WindowState /\ SameLists(s, u) /\ u.mon = s.mon /\ u.shown = s.shown
        /\ u.kbd = s.kbd /\ u.toplevel_active = s.toplevel_active
        /\ u.selected_monitor = s.selected_monitor /\ u.tags = s.tags
        /\ u.seltags = [s.seltags EXCEPT ![m] = i]
        /\ u.tagset = [s.tagset EXCEPT ![m] = [@ EXCEPT ![i] = set]]
    <3> HIDE DEF u, i, set, m
    <3> QED  BY <2>4, <2>5 DEF WindowState, SameLists
  <2>7. u.seltags[m] = i /\ u.tagset[m][i] = set
        /\ \A n \in Monitors : n # m => /\ u.seltags[n] = s.seltags[n]
                                        /\ u.tagset[n] = s.tagset[n]
    <3>1. s.tagset[m] \in [{0, 1} -> SUBSET Tags]  BY <2>1, <2>2
    <3> HIDE DEF u, i, set, m
    <3> QED  BY <2>1, <2>2, <2>6, <3>1
  <2>8. \A n : n # m /\ DrawnOn(s, n) => DrawnOn(u, n)
    <3>1. s.enabled \subseteq Monitors /\ u.mapped = s.mapped /\ u.mapwait = s.mapwait
          /\ u.enabled = s.enabled
      BY <2>6 DEF WindowState, SameLists
    <3>2. \A c : \A n \in Monitors : n # m => (Visible(u, c, n) <=> Visible(s, c, n))
      <4> HIDE DEF u, i, m
      <4> QED  BY <2>6, <2>7 DEF Visible, Viewed
    <3> HIDE DEF u, m
    <3> QED  BY <2>6, <3>1, <3>2 DEF DrawnOn
  <2> DEFINE t == RefocusArrange(u)
  <2>9. /\ Inner(s, t) /\ t.mon = s.mon
        /\ \A d : PlacedBut(s, d) => PlacedBut(t, d)
        /\ t.tags = u.tags /\ t.tagset = u.tagset /\ t.seltags = u.seltags
        /\ \A M : Within(M, s) => Within(M, t)
        /\ Modal = {} => Returned(t)
    <3> HIDE DEF u
    <3> QED  BY <2>6, <2>8, RefocusArrangeInner
  <2>10. layout_view(s, mask) = t  BY <1>2 DEF layout_view
  <2>11. Viewed(t, m) = set  BY <2>7, <2>9 DEF Viewed
  <2> HIDE DEF t, u, i
  <2> QED  BY <2>6, <2>9, <2>10, <2>11 DEF Kept
<1> QED  BY <1>1, <1>2

LEMMA ToggleViewKept ==
  ASSUME NEW s \in WindowState, NEW mask \in SUBSET Tags
  PROVE  Kept(s, layout_toggle_view(s, mask))
<1> DEFINE m == s.selected_monitor
           new == Flip(Viewed(s, m), mask)
           u == [s EXCEPT !.tagset[m][s.seltags[m]] = new]
<1>1. CASE m = None \/ new = {}  BY <1>1, KeptSelf DEF layout_toggle_view
<1>2. CASE ~(m = None \/ new = {})
  <2>1. m \in Monitors  BY <1>2 DEF WindowState
  <2>2. new \in SUBSET Tags  BY <2>1, ViewedType DEF Flip
  <2>3. s.tagset[m] \in [{0, 1} -> SUBSET Tags] /\ s.seltags[m] \in {0, 1}
        /\ s.tagset \in [Monitors -> [{0, 1} -> SUBSET Tags]]
    BY <2>1 DEF WindowState
  <2> HIDE DEF new, m
  <2>4. [s.tagset[m] EXCEPT ![s.seltags[m]] = new] \in [{0, 1} -> SUBSET Tags]
    BY <2>2, <2>3
  <2>5. /\ u \in WindowState /\ SameLists(s, u) /\ u.mon = s.mon /\ u.shown = s.shown
        /\ u.kbd = s.kbd /\ u.toplevel_active = s.toplevel_active
        /\ u.selected_monitor = s.selected_monitor /\ u.tags = s.tags
        /\ u.seltags = s.seltags
        /\ u.tagset = [s.tagset EXCEPT ![m] = [@ EXCEPT ![s.seltags[m]] = new]]
    BY <2>1, <2>3, <2>4 DEF WindowState, SameLists
  <2>6. \A n : n # m /\ DrawnOn(s, n) => DrawnOn(u, n)
    <3>1. s.enabled \subseteq Monitors /\ u.mapped = s.mapped /\ u.mapwait = s.mapwait
          /\ u.enabled = s.enabled
      BY <2>5 DEF WindowState, SameLists
    <3>2. \A c : \A n \in Monitors : n # m => (Visible(u, c, n) <=> Visible(s, c, n))
      <4> HIDE DEF u
      <4> QED  BY <2>1, <2>3, <2>5 DEF Visible, Viewed
    <3> HIDE DEF u
    <3> QED  BY <2>5, <3>1, <3>2 DEF DrawnOn
  <2>7. layout_toggle_view(s, mask) = RefocusArrange(u)
    BY <1>2 DEF layout_toggle_view, new, m
  <2>8. Kept(s, RefocusArrange(u))
    <3>1. \A n : n # s.selected_monitor /\ DrawnOn(s, n) => DrawnOn(u, n)
      BY <2>6 DEF m
    <3> HIDE DEF u
    <3> QED  BY <2>5, <3>1, RefocusArrangeInner DEF Kept
  <2> QED  BY <2>7, <2>8
<1> QED  BY <1>1, <1>2

LEMMA RetagKept ==
  ASSUME NEW s \in WindowState, NEW c \in Clients, NEW set \in SUBSET Tags,
         s.mon[c] = s.selected_monitor
  PROVE  Kept(s, RefocusArrange([s EXCEPT !.tags[c] = set]))
<1> DEFINE u == [s EXCEPT !.tags[c] = set]
<1>1. /\ u \in WindowState /\ SameLists(s, u) /\ u.mon = s.mon /\ u.shown = s.shown
      /\ u.kbd = s.kbd /\ u.toplevel_active = s.toplevel_active
      /\ u.selected_monitor = s.selected_monitor
      /\ u.tagset = s.tagset /\ u.seltags = s.seltags
      /\ \A d \in Clients : d # c => u.tags[d] = s.tags[d]
      /\ s.mapped \subseteq Clients
  BY DEF WindowState, SameLists
<1> HIDE DEF u
<1>2. \A n : n # s.selected_monitor /\ DrawnOn(s, n) => DrawnOn(u, n)
  <2>1. u.mapped = s.mapped /\ u.mapwait = s.mapwait /\ u.enabled = s.enabled
    BY <1>1 DEF SameLists
  <2>2. \A n : \A d \in Clients : n # s.selected_monitor => (Visible(u, d, n) <=> Visible(s, d, n))
    BY <1>1 DEF Visible, Viewed
  <2> QED  BY <1>1, <2>1, <2>2 DEF DrawnOn
<1>3. Kept(s, RefocusArrange(u))  BY <1>1, <1>2, RefocusArrangeInner DEF Kept
<1> QED  BY <1>3 DEF u

LEMMA TagKept ==
  ASSUME NEW s \in WindowState, NEW mask \in SUBSET Tags
  PROVE  Kept(s, layout_tag(s, mask)) /\ Kept(s, layout_toggle_tag(s, mask))
<1> DEFINE sel == client_top(s, s.selected_monitor)
           new == Flip(s.tags[sel], mask)
<1>1. sel \in Clients \cup {None} /\ (sel # None => s.mon[sel] = s.selected_monitor)
  BY TopIn DEF Visible
<1>2. CASE sel = None  BY <1>2, KeptSelf DEF layout_tag, layout_toggle_tag
<1>3. CASE sel # None
  <2>1. sel \in Clients /\ new \in SUBSET Tags  BY <1>1, <1>3 DEF Flip, WindowState
  <2>2. /\ layout_tag(s, mask) = IF mask = {} THEN s
                                 ELSE RefocusArrange([s EXCEPT !.tags[sel] = mask])
        /\ layout_toggle_tag(s, mask) = IF new = {} THEN s
                                 ELSE RefocusArrange([s EXCEPT !.tags[sel] = new])
    BY <1>3 DEF layout_tag, layout_toggle_tag
  <2> HIDE DEF sel, new
  <2>3. /\ Kept(s, RefocusArrange([s EXCEPT !.tags[sel] = mask]))
        /\ Kept(s, RefocusArrange([s EXCEPT !.tags[sel] = new]))
    BY <1>1, <1>3, <2>1, RetagKept
  <2> QED  BY <2>2, <2>3, KeptSelf
<1> QED  BY <1>2, <1>3

LEMMA ShiftKept ==
  ASSUME NEW s \in WindowState, NEW step
  PROVE  Kept(s, layout_shift_view(s, step)) /\ Kept(s, layout_shift_tag(s, step))
<1>1. Kept(s, layout_shift_view(s, step))
  BY TagBesideType, ViewKept, KeptSelf DEF layout_shift_view
<1>2. Kept(s, layout_shift_tag(s, step))
  <2> DEFINE target == layout_tag_beside(s.tags[client_top(s, s.selected_monitor)], step)
             u == layout_tag(s, {target})
  <2>1. CASE client_top(s, s.selected_monitor) = None \/ target = 0
    BY <2>1, KeptSelf DEF layout_shift_tag
  <2>2. CASE ~(client_top(s, s.selected_monitor) = None \/ target = 0)
    <3>1. {target} \in SUBSET Tags  BY <2>2, TagBesideType
    <3>2. layout_shift_tag(s, step) = layout_view(u, {target})
      BY <2>2 DEF layout_shift_tag
    <3> HIDE DEF target
    <3>3. Kept(s, u) /\ u \in WindowState  BY <3>1, TagKept, TagType
    <3> HIDE DEF u
    <3>4. Kept(u, layout_view(u, {target}))  BY <3>1, <3>3, ViewKept
    <3> QED  BY <3>2, <3>3, <3>4, KeptTwice
  <2> QED  BY <2>1, <2>2
<1> QED  BY <1>1, <1>2

-----------------------------------------------------------------------------
(* The inductive invariant. *)

(* Between two handlers the keyboard is on a mapped window of some monitor,
   or on none; the handles are those of the mapped windows; both lists and
   the set of windows drawn or held back contain no other, and the focus
   stack contains them all. *)
Steady(s) ==
  /\ s \in WindowState
  /\ Attended(s)
  /\ s.enabled = Monitors
  /\ s.ftl = s.mapped
  /\ ToSet(s.focus_stack) = s.mapped /\ IsInjective(s.focus_stack)
  /\ ToSet(s.clients) \subseteq s.mapped /\ IsInjective(s.clients)
  /\ s.shown \subseteq s.mapped /\ s.mapwait \subseteq s.mapped
  /\ PlacedBut(s, None)
  /\ \A c \in Clients \ s.mapped : s.mon[c] = None
  /\ s.selected_monitor = None => Monitors = {}

(* Without movestack -1 the tiling order is complete too; what is drawn and
   who is in front depend on that. *)
Settled(s) ==
  -1 \notin StackSteps =>
    /\ ToSet(s.clients) = s.mapped
    /\ Modal = {} \/ OneMonitor => Drawn(s)
    /\ Foremost(s)

LEMMA InnerSteady ==
  ASSUME NEW s, Steady(s), Settled(s), NEW t, Inner(s, t), PlacedBut(t, None),
         \A c \in Clients \ s.mapped : t.mon[c] = None
  PROVE  Steady(t) /\ Settled(t) /\ Passes(s, t)
<1>1. /\ t.clients = s.clients /\ t.mapped = s.mapped /\ t.ftl = s.ftl
      /\ t.mapwait = s.mapwait /\ t.enabled = s.enabled
      /\ ToSet(t.focus_stack) = ToSet(s.focus_stack)
      /\ IsInjective(s.focus_stack) => IsInjective(t.focus_stack)
  BY DEF Inner, SameLists
<1>2. t.shown \subseteq t.mapped  BY <1>1 DEF Inner, Steady
<1>3. Attended(t) /\ Passes(s, t) /\ (Foremost(s) => Foremost(t))  BY DEF Inner, Steady
<1>4. Steady(t)  BY <1>1, <1>2, <1>3 DEF Steady, Inner
<1>5. Settled(t)  BY <1>1, <1>3 DEF Settled, Inner, Drawable
<1> QED  BY <1>3, <1>4, <1>5

LEMMA KeptSteady ==
  ASSUME NEW s, Steady(s), Settled(s), NEW t, Kept(s, t)
  PROVE  Steady(t) /\ Settled(t) /\ Passes(s, t)
<1>1. PlacedBut(t, None) /\ \A c \in Clients \ s.mapped : t.mon[c] = None
  BY DEF Kept, Steady
<1> QED  BY <1>1, InnerSteady DEF Kept

(* Selecting a monitor. *)
LEMMA SelectSteady ==
  ASSUME NEW s, Steady(s), Settled(s), NEW m \in Monitors
  PROVE  LET at == [s EXCEPT !.selected_monitor = m]
         IN  /\ Steady(at) /\ Settled(at) /\ at.kbd = s.kbd /\ at.mapped = s.mapped
             /\ at.mon = s.mon /\ at.tags = s.tags /\ at.session = s.session
             /\ at.shown = s.shown /\ at.selected_monitor = m
             /\ Tagged(s) => Tagged(at)
<1> DEFINE at == [s EXCEPT !.selected_monitor = m]
<1>0. s \in WindowState  BY DEF Steady
<1>1. /\ at \in WindowState /\ SameLists(s, at) /\ SameTags(s, at)
      /\ at.focus_stack = s.focus_stack /\ at.kbd = s.kbd
      /\ at.toplevel_active = s.toplevel_active /\ at.selected_monitor = m
      /\ at.mon = s.mon /\ at.tags = s.tags /\ at.tagset = s.tagset
      /\ at.seltags = s.seltags /\ at.shown = s.shown
  BY <1>0 DEF WindowState, SameLists, SameTags
<1> HIDE DEF at
<1>2. /\ at.clients = s.clients /\ at.mapped = s.mapped /\ at.ftl = s.ftl
      /\ at.mapwait = s.mapwait /\ at.enabled = s.enabled /\ at.session = s.session
  BY <1>1 DEF SameLists
<1>3. Attended(at)  BY <1>1, <1>2 DEF Attended, Marked, Steady
<1>4. m # None  BY DistinctAssumption
<1>5. Steady(at)  BY <1>1, <1>2, <1>3, <1>4 DEF Steady, PlacedBut
<1>6. Drawn(s) => Drawn(at)  BY <1>1, <1>2 DEF Drawn, Visible, Viewed
<1>7. Foremost(s) => Foremost(at)
  <2>1. \A n : client_top(at, n) = client_top(s, n)  BY <1>0, <1>1, TopSame
  <2>2. OneMonitor => s.selected_monitor = m
    BY <1>0 DEF OneMonitor, Steady, WindowState
  <2> QED  BY <1>1, <2>1, <2>2 DEF Foremost, OnTop, InFront
<1>8. Settled(at)  BY <1>2, <1>6, <1>7 DEF Settled
<1>9. Tagged(s) => Tagged(at)  BY <1>1, SameTagged
<1> QED  BY <1>1, <1>2, <1>5, <1>8, <1>9 DEF at

(* Focusing a mapped window that its monitor shows. *)
LEMMA FocusSteady ==
  ASSUME NEW s, Steady(s), Settled(s), NEW c \in s.mapped, s.mon[c] # None,
         -1 \notin StackSteps /\ Modal = {} => Visible(s, c, s.mon[c])
  PROVE  LET t == client_focus(s, c)
         IN  Steady(t) /\ Settled(t) /\ Unblocked(t) /\ SameWindows(s, t)
<1> DEFINE t == client_focus(s, c)
<1>0. s \in WindowState /\ c \in ToSet(s.focus_stack) /\ c \in Clients /\ c # None
  BY DistinctAssumption DEF Steady, WindowState
<1>1. /\ t \in WindowState /\ SameWindows(s, t)
      /\ ToSet(t.focus_stack) = ToSet(s.focus_stack)
      /\ IsInjective(s.focus_stack) => IsInjective(t.focus_stack)
      /\ Marked(s) /\ (c # None => s.mon[c] # None) => Attended(t) /\ Unblocked(t)
      /\ t.selected_monitor = None =>
           s.selected_monitor = None \/ (c # None /\ s.mon[c] = None)
  BY <1>0, FocusKeeps
<1>2. -1 \notin StackSteps => Foremost(t)
  <2> SUFFICES ASSUME -1 \notin StackSteps, Modal = {}
               PROVE  OnTop(t) /\ (OneMonitor => InFront(t))
    BY DEF Foremost
  <2>1. Marked(s) /\ Foremost(s)  BY DEF Steady, Settled, Attended
  <2>2. /\ c # None /\ c # s.kbd => OnTop(t) /\ InFront(t)
        /\ c # None /\ c = s.kbd => t = s
    BY <1>0, <2>1, FocusFront
  <2> QED  BY <1>0, <2>1, <2>2 DEF Foremost
<1> HIDE DEF t
<1>3. Attended(t) /\ Unblocked(t)  BY <1>0, <1>1 DEF Steady, Attended
<1>4. PlacedBut(t, None)  BY <1>1 DEF Steady, SameWindows, PlacedBut
<1>5. Steady(t)  BY <1>0, <1>1, <1>3, <1>4 DEF Steady, SameWindows
<1>6. Drawn(s) => Drawn(t)  BY <1>1 DEF SameWindows, Drawn, Visible, Viewed
<1>7. Settled(t)  BY <1>1, <1>2, <1>6 DEF Settled, SameWindows
<1> QED  BY <1>1, <1>3, <1>5, <1>7 DEF t

(* A window without a monitor changes nothing in the focus stack. *)
LEMMA TopUnderHead ==
  ASSUME NEW s \in WindowState, NEW t \in WindowState, NEW c \in Clients, NEW m,
         t.focus_stack = <<c>> \o s.focus_stack, t.mon[c] = None,
         t.mon = s.mon, t.tags = s.tags, t.tagset = s.tagset, t.seltags = s.seltags
  PROVE  client_top(t, m) = client_top(s, m)
<1>0. s.focus_stack \in Seq(Clients) /\ t.focus_stack \in Seq(Clients)
  BY DEF WindowState
<1> DEFINE n == Len(s.focus_stack)
<1>1. /\ n \in Nat /\ DOMAIN s.focus_stack = 1 .. n /\ DOMAIN t.focus_stack = 1 .. n + 1
      /\ t.focus_stack[1] = c
      /\ \A j \in 1 .. n : t.focus_stack[j + 1] = s.focus_stack[j]
  <2>1. /\ Len(<<c>> \o s.focus_stack) = Len(s.focus_stack) + 1
        /\ (<<c>> \o s.focus_stack)[1] = c
        /\ \A j \in 1 .. Len(s.focus_stack) : (<<c>> \o s.focus_stack)[j + 1] = s.focus_stack[j]
    BY <1>0, HeadSet
  <2> QED  BY <1>0, <2>1
<1>2. \A x : Visible(t, x, m) <=> Visible(s, x, m)  BY DEF Visible, Viewed
<1>3. ~Visible(t, c, m)  BY DEF Visible
<1> HIDE DEF n
<1>4. \A j \in 1 .. n + 1 : j = 1 \/ (j - 1 \in 1 .. n /\ (j - 1) + 1 = j)  BY <1>1
<1>5. \A j \in 1 .. n + 1 : j # 1 => t.focus_stack[j] = s.focus_stack[j - 1]
  BY <1>1, <1>4
<1>6. CASE client_top(s, m) = None
  <2>1. \A j \in 1 .. n : ~Visible(s, s.focus_stack[j], m)  BY <1>1, <1>6, TopIs
  <2>2. \A j \in DOMAIN t.focus_stack : ~Visible(t, t.focus_stack[j], m)
    BY <1>1, <1>2, <1>3, <1>4, <1>5, <2>1
  <2> QED  BY <1>6, <2>2, TopFrom
<1>7. CASE client_top(s, m) # None
  <2>1. PICK i \in 1 .. n :
          /\ s.focus_stack[i] = client_top(s, m)
          /\ Visible(s, s.focus_stack[i], m)
          /\ \A j \in 1 .. n : j < i => ~Visible(s, s.focus_stack[j], m)
    BY <1>1, <1>7, TopIs
  <2>2. i + 1 \in 1 .. n + 1 /\ t.focus_stack[i + 1] = s.focus_stack[i]  BY <1>1
  <2>3. ASSUME NEW j \in 1 .. n + 1, j < i + 1
        PROVE  ~Visible(t, t.focus_stack[j], m)
    <3>1. CASE j = 1  BY <1>1, <1>3, <3>1
    <3>2. CASE j # 1
      <4>1. j - 1 \in 1 .. n /\ j - 1 < i  BY <1>1, <2>3, <3>2
      <4> QED  BY <1>2, <1>5, <2>1, <3>2, <4>1
    <3> QED  BY <3>1, <3>2
  <2>4. client_top(t, m) = t.focus_stack[i + 1]
    <3>1. Visible(t, t.focus_stack[i + 1], m)  BY <1>2, <2>1, <2>2
    <3>2. i + 1 \in DOMAIN t.focus_stack /\ \A j \in DOMAIN t.focus_stack :
                   j < i + 1 => ~Visible(t, t.focus_stack[j], m)
      BY <1>1, <2>2, <2>3
    <3> QED  BY <3>1, <3>2, TopFrom
  <2> QED  BY <2>1, <2>2, <2>4
<1> QED  BY <1>6, <1>7

LEMMA TopWithout ==
  ASSUME NEW s \in WindowState, NEW t \in WindowState, NEW c \in Clients, NEW m,
         t.focus_stack = Without(s.focus_stack, c), t.mon[c] = None,
         t.mon = s.mon, t.tags = s.tags, t.tagset = s.tagset, t.seltags = s.seltags
  PROVE  client_top(t, m) = client_top(s, m)
<1>0. s.focus_stack \in Seq(Clients) /\ t.focus_stack \in Seq(Clients)
  BY DEF WindowState
<1>1. CASE c \notin ToSet(s.focus_stack)
  BY <1>1, TopSame DEF Without
<1>2. CASE c \in ToSet(s.focus_stack)
  <2> DEFINE n == Len(s.focus_stack)
  <2>1. n \in Nat /\ DOMAIN s.focus_stack = 1 .. n /\ DOMAIN t.focus_stack = 1 .. n - 1
    <3>1. Len(t.focus_stack) = n - 1  BY <1>0, <1>2, WithoutType
    <3> QED  BY <1>0, <3>1
  <2>2. PICK p \in 1 .. n :
          /\ s.focus_stack[p] = c
          /\ \A j \in 1 .. n - 1 :
               t.focus_stack[j] = IF j < p THEN s.focus_stack[j] ELSE s.focus_stack[j + 1]
    <3>1. \E p \in 1 .. Len(s.focus_stack) :
            /\ s.focus_stack[p] = c
            /\ \A j \in 1 .. Len(s.focus_stack) - 1 :
                 Without(s.focus_stack, c)[j] =
                   IF j < p THEN s.focus_stack[j] ELSE s.focus_stack[j + 1]
      BY <1>0, <1>2, WithoutAt
    <3> QED  BY <3>1
  <2> HIDE DEF n
  <2>3. \A x : Visible(t, x, m) <=> Visible(s, x, m)  BY DEF Visible, Viewed
  <2>4. ~Visible(s, c, m)  BY DEF Visible
  <2> DEFINE at(j) == IF j < p THEN j ELSE j + 1
  <2>5. \A j \in 1 .. n - 1 : at(j) \in 1 .. n /\ t.focus_stack[j] = s.focus_stack[at(j)]
    BY <2>1, <2>2
  <2>6. CASE client_top(s, m) = None
    <3>1. \A j \in 1 .. n : ~Visible(s, s.focus_stack[j], m)  BY <2>1, <2>6, TopIs
    <3>2. \A j \in DOMAIN t.focus_stack : ~Visible(t, t.focus_stack[j], m)
      <4> HIDE DEF at
      <4> QED  BY <2>1, <2>3, <2>5, <3>1
    <3> QED  BY <2>6, <3>2, TopFrom
  <2>7. CASE client_top(s, m) # None
    <3>1. PICK i \in 1 .. n :
            /\ s.focus_stack[i] = client_top(s, m)
            /\ Visible(s, s.focus_stack[i], m)
            /\ \A j \in 1 .. n : j < i => ~Visible(s, s.focus_stack[j], m)
      BY <2>1, <2>7, TopIs
    <3>2. i # p  BY <2>2, <2>4, <3>1
    <3> DEFINE k == IF i < p THEN i ELSE i - 1
    <3>3. k \in 1 .. n - 1 /\ at(k) = i /\ \A j \in 1 .. n - 1 : j < k => at(j) < i
      BY <2>1, <3>2
    <3> HIDE DEF k, at
    <3>4. Visible(t, t.focus_stack[k], m) /\ t.focus_stack[k] = s.focus_stack[i]
      BY <2>3, <2>5, <3>1, <3>3
    <3>5. \A j \in DOMAIN t.focus_stack : j < k => ~Visible(t, t.focus_stack[j], m)
      BY <2>1, <2>3, <2>5, <3>1, <3>3
    <3>6. client_top(t, m) = t.focus_stack[k]  BY <2>1, <3>3, <3>4, <3>5, TopFrom
    <3> QED  BY <3>1, <3>4, <3>6
  <2> QED  BY <2>6, <2>7
<1> QED  BY <1>1, <1>2

LEMMA ApplyRulesInner ==
  ASSUME NEW s \in WindowState, NEW c \in Clients, NEW rule \in Rules
  PROVE  LET t == client_apply_rules(s, c, rule)
         IN  /\ Inner(s, t)
             /\ \E m \in Monitors \cup {None} : t.mon = [s.mon EXCEPT ![c] = m]
             /\ PlacedBut(s, c) => PlacedBut(t, c)
             /\ s.mon[c] = None /\ PlacedBut(s, None) => PlacedBut(t, None)
             /\ \A M : Within(M, s) /\ ToSet(s.monitors) \subseteq M => Within(M, t)
<1> DEFINE m == IF rule.monitor \in DOMAIN s.monitors
                THEN s.monitors[rule.monitor] ELSE s.selected_monitor
           f == IF rule.isfloating THEN s.isfloating \cup {c} ELSE s.isfloating \ {c}
           float == [s EXCEPT !.isfloating = f]
           r == IF rule.isfloating = None THEN s ELSE float
           t == client_set_monitor(r, c, m, rule.tags)
<1>1. m \in Monitors \cup {None} /\ rule.tags \in SUBSET Tags
  BY RulesAssumption DEF WindowState, Rule
<1>2. /\ Inner(s, float) /\ float.mon = s.mon /\ float.shown = s.shown
      /\ \A M : Within(M, s) => Within(M, float)
  <2>1. f \in SUBSET Clients  BY DEF WindowState
  <2> HIDE DEF f
  <2> QED  BY <2>1, FlagsInner
<1>10. \A M : Within(M, s) /\ ToSet(s.monitors) \subseteq M => m \in M
  <2>1. rule.monitor \in DOMAIN s.monitors => m \in ToSet(s.monitors)  BY DEF ToSet
  <2> QED  BY <2>1 DEF Within
<1> HIDE DEF float
<1>3. /\ Inner(s, r) /\ r.mon = s.mon /\ r.shown = s.shown
      /\ \A M : Within(M, s) => Within(M, r)
  BY <1>2, InnerSelf
<1>4. client_apply_rules(s, c, rule) = t  BY DEF client_apply_rules, float
<1> HIDE DEF r, m
<1>5. r \in WindowState  BY <1>3 DEF Inner
<1>6. /\ Inner(r, t) /\ t.mon = [r.mon EXCEPT ![c] = m]
      /\ PlacedBut(r, c) => PlacedBut(t, c)
      /\ m # None => (PlacedBut(r, None) => PlacedBut(t, None))
      /\ m = r.mon[c] => t = r
      /\ \A M : Within(M, r) /\ m \in M => Within(M, t)
  BY <1>1, <1>5, SetMonitorInner
<1> HIDE DEF t
<1>7. Inner(s, t)  BY <1>3, <1>6, InnerTwice
<1>8. \A d : PlacedBut(s, d) => PlacedBut(r, d)  BY <1>3 DEF PlacedBut
<1>9. t.mon = [s.mon EXCEPT ![c] = m]  BY <1>3, <1>6
<1> QED  BY <1>1, <1>3, <1>4, <1>6, <1>7, <1>8, <1>9, <1>10

LEMMA PlaceInner ==
  ASSUME NEW s \in WindowState, NEW c \in Clients, NEW rule \in Rules
  PROVE  LET t == Place(s, c, rule)
         IN  /\ Inner(s, t)
             /\ \E m \in Monitors \cup {None} : t.mon = [s.mon EXCEPT ![c] = m]
             /\ PlacedBut(s, c) => PlacedBut(t, c)
             /\ s.mon[c] = None /\ PlacedBut(s, None) => PlacedBut(t, None)
             /\ \A M : Within(M, s) /\ ToSet(s.monitors) \subseteq M => Within(M, t)
<1> DEFINE parent == client_get_parent(s, c)
           f == s.isfloating \cup {c}
           float == [s EXCEPT !.isfloating = f]
           m == s.mon[parent]
           t == client_set_monitor(float, c, m, s.tags[parent])
<1>1. CASE parent = None  BY <1>1, ApplyRulesInner DEF Place
<1>2. CASE parent # None
  <2>1. parent \in Clients  BY <1>2, ParentType
  <2>2. /\ Inner(s, float) /\ float.mon = s.mon /\ float.shown = s.shown
        /\ \A M : Within(M, s) => Within(M, float)
    <3>1. f \in SUBSET Clients  BY DEF WindowState
    <3> HIDE DEF f
    <3> QED  BY <3>1, FlagsInner
  <2>3. m \in Monitors \cup {None} /\ s.tags[parent] \in SUBSET Tags
    BY <2>1 DEF WindowState
  <2>4. Place(s, c, rule) = t  BY <1>2 DEF Place
  <2>10. \A M : Within(M, s) => m \in M  BY <2>1 DEF Within
  <2> HIDE DEF float, m, parent
  <2>5. float \in WindowState  BY <2>2 DEF Inner
  <2>6. /\ Inner(float, t) /\ t.mon = [float.mon EXCEPT ![c] = m]
        /\ PlacedBut(float, c) => PlacedBut(t, c)
        /\ m # None => (PlacedBut(float, None) => PlacedBut(t, None))
        /\ m = float.mon[c] => t = float
        /\ \A M : Within(M, float) /\ m \in M => Within(M, t)
    BY <2>3, <2>5, SetMonitorInner
  <2> HIDE DEF t
  <2>7. Inner(s, t)  BY <2>2, <2>6, InnerTwice
  <2>8. \A d : PlacedBut(s, d) => PlacedBut(float, d)  BY <2>2 DEF PlacedBut
  <2>9. t.mon = [s.mon EXCEPT ![c] = m]  BY <2>2, <2>6
  <2> QED  BY <2>2, <2>3, <2>4, <2>6, <2>7, <2>8, <2>9, <2>10
<1> QED  BY <1>1, <1>2

Good(s, t) == Steady(t) /\ Settled(t) /\ (t.kbd = s.kbd \/ Unblocked(t))

LEMMA InitialCommitGood ==
  ASSUME Steady(wm), Settled(wm), NEW c \in Clients, InitialCommit(c)
  PROVE  Good(wm, wm')
<1>0. wm \in WindowState /\ c \notin wm.mapped  BY DEF Steady, InitialCommit
<1>1. PICK rule \in Rules :
        wm' = client_set_monitor(client_apply_rules(wm, c, rule), c, None, {})
  BY DEF InitialCommit
<1> DEFINE r == client_apply_rules(wm, c, rule)
           t == client_set_monitor(r, c, None, {})
<1>2. /\ Inner(wm, r)
      /\ \E m \in Monitors \cup {None} : r.mon = [wm.mon EXCEPT ![c] = m]
      /\ PlacedBut(wm, c) => PlacedBut(r, c)
  BY <1>0, ApplyRulesInner
<1> HIDE DEF r
<1>3. r \in WindowState  BY <1>2 DEF Inner
<1>4. /\ Inner(r, t) /\ t.mon = [r.mon EXCEPT ![c] = None]
      /\ PlacedBut(r, c) => PlacedBut(t, c)
  BY <1>3, SetMonitorInner
<1>5. wm' = t  BY <1>1 DEF r
<1> HIDE DEF t
<1>6. Inner(wm, t)  BY <1>2, <1>4, InnerTwice
<1>7. t.shown \subseteq wm.mapped  BY <1>6 DEF Inner, Steady
<1>8. PlacedBut(wm, c)  BY PlacedAll DEF Steady
<1>9. PlacedBut(t, None)  BY <1>0, <1>2, <1>4, <1>7, <1>8 DEF PlacedBut
<1>10. \A d \in Clients \ wm.mapped : t.mon[d] = None
  BY <1>0, <1>2, <1>4 DEF Steady, WindowState
<1>11. Steady(t) /\ Settled(t) /\ Passes(wm, t)  BY <1>6, <1>9, <1>10, InnerSteady
<1> QED  BY <1>5, <1>11 DEF Good, Passes

LEMMA SetParentGood ==
  ASSUME Steady(wm), Settled(wm), NEW c \in Clients, SetParent(c)
  PROVE  Good(wm, wm')
<1> DEFINE t == [wm EXCEPT !.linked = @ \cup {c}]
<1>0. wm \in WindowState /\ wm' = t  BY DEF Steady, SetParent
<1>1. /\ t \in WindowState /\ t.clients = wm.clients /\ t.mapped = wm.mapped
      /\ t.ftl = wm.ftl /\ t.mapwait = wm.mapwait /\ t.enabled = wm.enabled
      /\ t.session = wm.session /\ t.focus_stack = wm.focus_stack /\ t.kbd = wm.kbd
      /\ t.toplevel_active = wm.toplevel_active /\ t.mon = wm.mon
      /\ t.tags = wm.tags /\ t.tagset = wm.tagset /\ t.seltags = wm.seltags
      /\ t.selected_monitor = wm.selected_monitor /\ t.shown = wm.shown
  BY <1>0 DEF WindowState
<1> HIDE DEF t
<1>2. \A m : client_top(t, m) = client_top(wm, m)  BY <1>0, <1>1, TopSame
<1>3. Foremost(wm) => Foremost(t)  BY <1>1, <1>2 DEF Foremost, OnTop, InFront
<1>4. Drawn(wm) => Drawn(t)  BY <1>1 DEF Drawn, Visible, Viewed
<1>5. Steady(t)  BY <1>1 DEF Steady, Attended, Marked, PlacedBut
<1>6. Settled(t)  BY <1>1, <1>3, <1>4 DEF Settled
<1> QED  BY <1>0, <1>1, <1>5, <1>6 DEF Good

LEMMA InsertSteady ==
  ASSUME Steady(wm), Settled(wm), NEW c \in Clients, c \notin wm.mapped
  PROVE  LET t == Insert(wm, c)
         IN  /\ t \in WindowState /\ t.mapped = wm.mapped \cup {c}
             /\ t.kbd = wm.kbd /\ t.ftl = wm.ftl /\ t.mapwait = wm.mapwait
             /\ t.mon = wm.mon /\ t.enabled = wm.enabled
             /\ t.selected_monitor = wm.selected_monitor
             /\ Attended(t) /\ Passes(wm, t)
             /\ ToSet(t.focus_stack) = t.mapped /\ IsInjective(t.focus_stack)
             /\ ToSet(t.clients) \subseteq t.mapped /\ IsInjective(t.clients)
             /\ t.shown \subseteq wm.mapped /\ PlacedBut(t, None)
             /\ -1 \notin StackSteps =>
                  /\ ToSet(t.clients) = t.mapped
                  /\ Modal = {} \/ OneMonitor => Drawn(t)
                  /\ Foremost(t)
<1> DEFINE t == Insert(wm, c)
<1>0. /\ wm \in WindowState /\ wm.clients \in Seq(Clients)
      /\ wm.focus_stack \in Seq(Clients) /\ wm.mapped \subseteq Clients
      /\ wm.mon[c] = None /\ c \notin ToSet(wm.clients) /\ c \notin ToSet(wm.focus_stack)
  BY DEF Steady, WindowState
<1>1. /\ t \in WindowState /\ t.mapped = wm.mapped \cup {c}
      /\ t.clients = Append(wm.clients, c) /\ t.focus_stack = <<c>> \o wm.focus_stack
      /\ t.kbd = wm.kbd /\ t.ftl = wm.ftl /\ t.mapwait = wm.mapwait
      /\ t.mon = wm.mon /\ t.enabled = wm.enabled /\ t.shown = wm.shown \ {c}
      /\ t.selected_monitor = wm.selected_monitor /\ t.session = wm.session
      /\ t.toplevel_active = wm.toplevel_active /\ t.linked = wm.linked
      /\ t.tags = wm.tags /\ t.tagset = wm.tagset /\ t.seltags = wm.seltags
  <2>1. t \in WindowState  BY <1>0, InsertType
  <2> QED  BY <1>0, <2>1 DEF Insert, WindowState
<1> HIDE DEF t
<1>2. /\ ToSet(t.focus_stack) = wm.mapped \cup {c} /\ IsInjective(t.focus_stack)
      /\ ToSet(t.clients) = ToSet(wm.clients) \cup {c} /\ IsInjective(t.clients)
  BY <1>0, <1>1, HeadSet, AppendSet DEF Steady
<1>3. Attended(t)  BY <1>1, <1>2 DEF Steady, Attended, Marked
<1>4. PlacedBut(t, None) /\ t.shown \subseteq wm.mapped  BY <1>1 DEF Steady, PlacedBut
<1>5. Passes(wm, t)
  <2> SUFFICES ASSUME Unblocked(wm), wm.kbd \in Clients  PROVE ModalChild(t, wm.kbd) = wm.kbd
    BY <1>1 DEF Passes, Unblocked
  <2>1. \A d \in wm.mapped : ~Blocks(wm, d, wm.kbd)
    BY <1>0, StaysIff DEF Unblocked, Steady
  <2>2. \A d : Blocks(t, d, wm.kbd) <=> Blocks(wm, d, wm.kbd)
    BY <1>1 DEF Blocks, Visible, Viewed, client_get_parent
  <2>3. ~Blocks(t, c, wm.kbd)  BY <1>0, <1>1 DEF Blocks
  <2> QED  BY <1>1, <1>2, <2>1, <2>2, <2>3, StaysIff
<1>6. Drawn(wm) => Drawn(t)
  <2>1. None \notin t.enabled  BY <1>1, DistinctAssumption DEF WindowState
  <2>2. \A d, m : Visible(t, d, m) <=> Visible(wm, d, m)  BY <1>1 DEF Visible, Viewed
  <2> QED  BY <1>0, <1>1, <2>1, <2>2 DEF Drawn
<1>7. Foremost(wm) => Foremost(t)
  <2>1. \A m : client_top(t, m) = client_top(wm, m)  BY <1>0, <1>1, TopUnderHead
  <2> QED  BY <1>1, <2>1 DEF Foremost, OnTop, InFront
<1>8. -1 \notin StackSteps =>
        /\ ToSet(t.clients) = t.mapped
        /\ Modal = {} \/ OneMonitor => Drawn(t)
        /\ Foremost(t)
  BY <1>1, <1>2, <1>6, <1>7 DEF Settled
<1>9. ToSet(t.clients) \subseteq t.mapped  BY <1>1, <1>2 DEF Steady
<1> QED  BY <1>1, <1>2, <1>3, <1>4, <1>5, <1>8, <1>9 DEF t

LEMMA ToplevelMapEffect ==
  ASSUME NEW h \in WindowState, NEW c \in Clients
  PROVE  LET t == toplevel_map(h, c)
         IN  /\ t \in WindowState /\ t.ftl = h.ftl \cup {c} /\ t.kbd = h.kbd
             /\ t.clients = h.clients /\ t.mapped = h.mapped /\ t.enabled = h.enabled
             /\ t.session = h.session /\ t.focus_stack = h.focus_stack
             /\ t.toplevel_active = (IF h.kbd = c THEN c ELSE h.toplevel_active)
             /\ t.mon = h.mon /\ t.tags = h.tags /\ t.tagset = h.tagset
             /\ t.seltags = h.seltags /\ t.selected_monitor = h.selected_monitor
             /\ t.linked = h.linked /\ t.mapwait = h.mapwait /\ t.shown = h.shown
<1> DEFINE r == [h EXCEPT !.ftl = @ \cup {c}]
           a == [r EXCEPT !.toplevel_active = c]
           t == toplevel_map(h, c)
<1>1. t \in WindowState  BY ToplevelMapType
<1>2. /\ r \in WindowState /\ r.ftl = h.ftl \cup {c} /\ r.kbd = h.kbd
      /\ r.clients = h.clients /\ r.mapped = h.mapped /\ r.enabled = h.enabled
      /\ r.session = h.session /\ r.focus_stack = h.focus_stack
      /\ r.toplevel_active = h.toplevel_active
      /\ r.mon = h.mon /\ r.tags = h.tags /\ r.tagset = h.tagset
      /\ r.seltags = h.seltags /\ r.selected_monitor = h.selected_monitor
      /\ r.linked = h.linked /\ r.mapwait = h.mapwait /\ r.shown = h.shown
  BY DEF WindowState
<1>3. c \notin Unmanaged  BY DistinctAssumption
<1> HIDE DEF r
<1>4. t = IF r.kbd = c THEN a ELSE r
  BY <1>2, <1>3 DEF toplevel_map, toplevel_focus, r
<1>5. /\ a.ftl = r.ftl /\ a.kbd = r.kbd
      /\ a.clients = r.clients /\ a.mapped = r.mapped /\ a.enabled = r.enabled
      /\ a.session = r.session /\ a.focus_stack = r.focus_stack
      /\ a.toplevel_active = c /\ a.mon = r.mon
      /\ a.tags = r.tags /\ a.tagset = r.tagset /\ a.seltags = r.seltags
      /\ a.selected_monitor = r.selected_monitor /\ a.linked = r.linked
      /\ a.mapwait = r.mapwait /\ a.shown = r.shown
  BY <1>2 DEF WindowState
<1> HIDE DEF t, a
<1> QED  BY <1>1, <1>2, <1>4, <1>5 DEF t

(* Held back or not, and its handle made. *)
LEMMA HoldBackSteady ==
  ASSUME NEW s \in WindowState, NEW c \in Clients, NEW late \in BOOLEAN,
         s.ftl = s.mapped \ {c}, c \in s.mapped, Attended(s), s.enabled = Monitors,
         ToSet(s.focus_stack) = s.mapped, IsInjective(s.focus_stack),
         ToSet(s.clients) \subseteq s.mapped, IsInjective(s.clients),
         s.shown \subseteq s.mapped, s.mapwait \subseteq s.mapped, PlacedBut(s, None),
         \A d \in Clients \ s.mapped : s.mon[d] = None,
         s.selected_monitor = None => Monitors = {},
         Settled(s)
  PROVE  LET t == toplevel_map(HoldBack(s, c, late), c)
         IN  Steady(t) /\ Settled(t) /\ Passes(s, t)
<1> DEFINE h == HoldBack(s, c, late)
           t == toplevel_map(h, c)
<1>1. /\ h \in WindowState /\ h.ftl = s.ftl /\ h.kbd = s.kbd
      /\ h.clients = s.clients /\ h.mapped = s.mapped /\ h.enabled = s.enabled
      /\ h.session = s.session /\ h.focus_stack = s.focus_stack
      /\ h.toplevel_active = s.toplevel_active /\ h.mon = s.mon
      /\ h.tags = s.tags /\ h.tagset = s.tagset /\ h.seltags = s.seltags
      /\ h.selected_monitor = s.selected_monitor /\ h.linked = s.linked
      /\ h.mapwait = s.mapwait \cup (IF late THEN {c} ELSE {})
      /\ h.shown = s.shown \ (IF late THEN {c} ELSE {})
  <2>1. h \in WindowState  BY HoldBackType
  <2> QED  BY <2>1 DEF HoldBack, WindowState
<1> HIDE DEF h
<1>2. /\ t \in WindowState /\ t.ftl = s.mapped /\ t.kbd = s.kbd
      /\ t.clients = s.clients /\ t.mapped = s.mapped /\ t.enabled = s.enabled
      /\ t.session = s.session /\ t.focus_stack = s.focus_stack
      /\ t.toplevel_active = (IF s.kbd = c THEN c ELSE s.toplevel_active) /\ t.mon = s.mon
      /\ t.tags = s.tags /\ t.tagset = s.tagset /\ t.seltags = s.seltags
      /\ t.selected_monitor = s.selected_monitor /\ t.linked = s.linked
      /\ t.mapwait = h.mapwait /\ t.shown = h.shown
  <2> HIDE DEF t
  <2>1. /\ t \in WindowState /\ t.ftl = h.ftl \cup {c} /\ t.kbd = h.kbd
        /\ t.clients = h.clients /\ t.mapped = h.mapped /\ t.enabled = h.enabled
        /\ t.session = h.session /\ t.focus_stack = h.focus_stack
        /\ t.toplevel_active = (IF h.kbd = c THEN c ELSE h.toplevel_active)
        /\ t.mon = h.mon /\ t.tags = h.tags /\ t.tagset = h.tagset
        /\ t.seltags = h.seltags /\ t.selected_monitor = h.selected_monitor
        /\ t.linked = h.linked /\ t.mapwait = h.mapwait /\ t.shown = h.shown
    BY <1>1, ToplevelMapEffect DEF t
  <2>2. h.ftl \cup {c} = s.mapped  BY <1>1
  <2> QED  BY <1>1, <2>1, <2>2
<1> HIDE DEF t
<1>3. Attended(t)
  <2>1. s.kbd # c => (s.kbd \in s.ftl <=> s.kbd \in s.mapped)  OBVIOUS
  <2> QED  BY <1>2, <2>1 DEF Attended, Marked
<1>4. PlacedBut(t, None)  BY <1>1, <1>2 DEF PlacedBut
<1>5. Steady(t)  BY <1>1, <1>2, <1>3, <1>4 DEF Steady
<1>6. Drawn(s) => Drawn(t)  BY <1>1, <1>2 DEF Drawn, Visible, Viewed
<1>7. Foremost(s) => Foremost(t)
  <2>1. \A m : client_top(t, m) = client_top(s, m)  BY <1>2, TopSame
  <2> QED  BY <1>2, <2>1 DEF Foremost, OnTop, InFront
<1>8. Passes(s, t)  BY <1>2, SameUnblocked
<1>9. Settled(t)  BY <1>2, <1>6, <1>7 DEF Settled
<1> QED  BY <1>5, <1>8, <1>9 DEF t, h

LEMMA UnsetFullscreenKept ==
  ASSUME NEW s \in WindowState, NEW c \in Clients
  PROVE  Kept(s, UnsetFullscreen(s, c))
<1> DEFINE parent == client_get_parent(s, c)
           others == {o \in ToSet(s.clients) \ {c, parent} :
                        /\ o \in s.isfullscreen
                        /\ s.mon[o] = s.mon[c]
                        /\ s.tags[o] \cap s.tags[c] # {}}
           f == s.isfullscreen \ others
           r == [s EXCEPT !.isfullscreen = f]
<1>1. /\ Inner(s, r) /\ r.mon = s.mon /\ r.shown = s.shown
      /\ \A M : Within(M, s) => Within(M, r)
  <2>1. f \in SUBSET Clients  BY DEF WindowState
  <2> HIDE DEF f
  <2> QED  BY <2>1, FlagsInner
<1>2. UnsetFullscreen(s, c) = IF others = {} \/ s.mon[c] = None THEN r
                              ELSE layout_arrange(r, s.mon[c])
  BY DEF UnsetFullscreen
<1> HIDE DEF r, others
<1>3. r \in WindowState  BY <1>1 DEF Inner
<1>4. Kept(s, r)  BY <1>1 DEF Kept, PlacedBut
<1>5. s.mon[c] # None => Kept(r, layout_arrange(r, s.mon[c]))
  BY <1>3, ArrangeInner DEF Kept
<1>6. s.mon[c] # None => Kept(s, layout_arrange(r, s.mon[c]))
  BY <1>4, <1>5, KeptTwice
<1> QED  BY <1>2, <1>4, <1>6

LEMMA MapGood ==
  ASSUME Steady(wm), Settled(wm), NEW c \in Clients, client_handle_map(c)
  PROVE  Good(wm, wm')
<1>1. PICK rule \in Rules, late \in BOOLEAN :
        wm' = UnsetFullscreen(toplevel_map(
                HoldBack(Place(Insert(wm, c), c, rule), c, late), c), c)
  BY DEF client_handle_map
<1> DEFINE i == Insert(wm, c)
           p == Place(i, c, rule)
           h == toplevel_map(HoldBack(p, c, late), c)
           u == UnsetFullscreen(h, c)
<1>2. /\ i \in WindowState /\ i.mapped = wm.mapped \cup {c}
      /\ i.kbd = wm.kbd /\ i.ftl = wm.ftl /\ i.mapwait = wm.mapwait
      /\ i.mon = wm.mon /\ i.enabled = wm.enabled
      /\ i.selected_monitor = wm.selected_monitor
      /\ Attended(i) /\ Passes(wm, i)
      /\ ToSet(i.focus_stack) = i.mapped /\ IsInjective(i.focus_stack)
      /\ ToSet(i.clients) \subseteq i.mapped /\ IsInjective(i.clients)
      /\ i.shown \subseteq wm.mapped /\ PlacedBut(i, None)
      /\ -1 \notin StackSteps =>
           /\ ToSet(i.clients) = i.mapped
           /\ Modal = {} \/ OneMonitor => Drawn(i)
           /\ Foremost(i)
  BY InsertSteady DEF client_handle_map
<1>0. c \notin wm.mapped  BY DEF client_handle_map
<1> HIDE DEF i
<1>3. /\ Inner(i, p)
      /\ \E m \in Monitors \cup {None} : p.mon = [i.mon EXCEPT ![c] = m]
      /\ i.mon[c] = None /\ PlacedBut(i, None) => PlacedBut(p, None)
  BY <1>2, PlaceInner
<1> HIDE DEF p
<1>4. /\ p.mapped = i.mapped /\ p.ftl = wm.ftl /\ p.mapwait = wm.mapwait
      /\ p.enabled = wm.enabled /\ p.clients = i.clients
      /\ ToSet(p.focus_stack) = i.mapped /\ IsInjective(p.focus_stack)
  BY <1>2, <1>3 DEF Inner, SameLists
<1>5. p.shown \subseteq p.mapped  BY <1>2, <1>3, <1>4 DEF Inner
<1>6. Attended(p) /\ Passes(i, p) /\ (Foremost(i) => Foremost(p))  BY <1>2, <1>3 DEF Inner
<1>7. PlacedBut(p, None)  BY <1>0, <1>2, <1>3 DEF Steady
<1>8. Settled(p)
  BY <1>2, <1>3, <1>4, <1>6 DEF Settled, Inner, Drawable
<1>9. \A d \in Clients \ p.mapped : p.mon[d] = None
  BY <1>2, <1>3, <1>4 DEF Steady, WindowState
<1>10. p \in WindowState /\ (p.selected_monitor = None => Monitors = {})
  BY <1>2, <1>3 DEF Inner, Steady
<1>11. Steady(h) /\ Settled(h) /\ Passes(p, h)
  <2>1. /\ p.ftl = p.mapped \ {c} /\ c \in p.mapped /\ p.enabled = Monitors
        /\ ToSet(p.focus_stack) = p.mapped
        /\ ToSet(p.clients) \subseteq p.mapped /\ IsInjective(p.clients)
        /\ p.mapwait \subseteq p.mapped
    BY <1>0, <1>2, <1>4 DEF Steady
  <2> QED  BY <1>4, <1>5, <1>6, <1>7, <1>8, <1>9, <1>10, <2>1, HoldBackSteady
<1> HIDE DEF h
<1>12. h \in WindowState  BY <1>11 DEF Steady
<1>13. Steady(u) /\ Settled(u) /\ Passes(h, u)
  BY <1>11, <1>12, UnsetFullscreenKept, KeptSteady
<1>14. wm' = u  BY <1>1 DEF i, p, h
<1> HIDE DEF u
<1>15. Passes(wm, u)  BY <1>2, <1>6, <1>11, <1>13 DEF Passes
<1> QED  BY <1>13, <1>14, <1>15 DEF Good, Passes

LEMMA MapWaitGood ==
  ASSUME Steady(wm), Settled(wm), NEW c \in Clients, client_map_wait_done(c)
  PROVE  Good(wm, wm')
<1> DEFINE set == IF wm.mon[c] = None THEN wm.shown
                  ELSE IF Visible(wm, c, wm.mon[c]) THEN wm.shown \cup {c}
                  ELSE wm.shown \ {c}
           t == [wm EXCEPT !.mapwait = @ \ {c}, !.shown = set]
<1>0. wm \in WindowState /\ wm' = t /\ c \in wm.mapwait /\ c \in wm.mapped
  BY DEF Steady, client_map_wait_done
<1>1. set \subseteq Clients  BY <1>0 DEF WindowState
<1>2. /\ t \in WindowState /\ t.clients = wm.clients /\ t.mapped = wm.mapped
      /\ t.ftl = wm.ftl /\ t.mapwait = wm.mapwait \ {c} /\ t.enabled = wm.enabled
      /\ t.session = wm.session /\ t.focus_stack = wm.focus_stack /\ t.kbd = wm.kbd
      /\ t.toplevel_active = wm.toplevel_active /\ t.mon = wm.mon
      /\ t.tags = wm.tags /\ t.tagset = wm.tagset /\ t.seltags = wm.seltags
      /\ t.selected_monitor = wm.selected_monitor /\ t.shown = set
  <2> HIDE DEF set
  <2> QED  BY <1>0, <1>1 DEF WindowState
<1> HIDE DEF t
<1>3. \A m : client_top(t, m) = client_top(wm, m)  BY <1>0, <1>2, TopSame
<1>4. Foremost(wm) => Foremost(t)  BY <1>2, <1>3 DEF Foremost, OnTop, InFront
<1>5. Drawn(wm) => Drawn(t)
  <2>1. None \notin wm.enabled  BY <1>0, DistinctAssumption DEF WindowState
  <2> QED  BY <1>2, <2>1 DEF Drawn, Visible, Viewed
<1>6. PlacedBut(t, None)  BY <1>2 DEF Steady, PlacedBut
<1>7. Steady(t)  BY <1>0, <1>2, <1>6 DEF Steady, Attended, Marked
<1>8. Settled(t)  BY <1>2, <1>4, <1>5 DEF Settled
<1> QED  BY <1>0, <1>2, <1>7, <1>8 DEF Good

(* What is detached first: nothing the keyboard depends on. *)
LEMMA DetachedSteady ==
  ASSUME NEW s, Steady(s), Settled(s), NEW c \in s.mapped
  PROVE  LET d == Detached(s, c)
         IN  /\ d \in WindowState /\ d.mapped = s.mapped \ {c} /\ d.ftl = d.mapped
             /\ d.mon = s.mon /\ d.enabled = s.enabled /\ d.kbd = s.kbd
             /\ d.shown = s.shown /\ d.mapwait \subseteq d.mapped
             /\ d.focus_stack = s.focus_stack
             /\ d.selected_monitor = s.selected_monitor
             /\ ToSet(d.clients) \subseteq d.mapped /\ IsInjective(d.clients)
             /\ Attended(d) /\ Passes(s, d)
             /\ -1 \notin StackSteps =>
                  /\ ToSet(d.clients) = d.mapped
                  /\ Modal = {} \/ OneMonitor => Drawn(d)
                  /\ Foremost(d)
<1> DEFINE u == toplevel_unmap(s, c)
           l == Without(s.clients, c)
           d == Detached(s, c)
           a == IF s.toplevel_active = c THEN None ELSE s.toplevel_active
<1>0. s \in WindowState /\ c \in Clients /\ c # None /\ s.clients \in Seq(Clients)
  BY DistinctAssumption DEF Steady, WindowState
<1>1. /\ u \in WindowState /\ u.ftl = s.ftl \ {c} /\ u.toplevel_active = a
      /\ u.clients = s.clients /\ u.mapped = s.mapped /\ u.mapwait = s.mapwait
      /\ u.enabled = s.enabled /\ u.session = s.session
      /\ u.focus_stack = s.focus_stack /\ u.kbd = s.kbd /\ u.mon = s.mon
      /\ u.tags = s.tags /\ u.tagset = s.tagset /\ u.seltags = s.seltags
      /\ u.linked = s.linked /\ u.shown = s.shown
      /\ u.selected_monitor = s.selected_monitor
  <2>1. u \in WindowState  BY <1>0, ToplevelUnmapType
  <2> QED  BY <1>0, <2>1 DEF toplevel_unmap, WindowState
<1>2. l \in Seq(Clients) /\ ToSet(l) = ToSet(s.clients) \ {c} /\ IsInjective(l)
  BY <1>0, WithoutType, WithoutSet DEF Steady
<1>3. d = [u EXCEPT !.mapped = u.mapped \ {c}, !.mapwait = u.mapwait \ {c}, !.clients = l]
  <2> HIDE DEF u
  <2>1. d = [u EXCEPT !.mapped = @ \ {c}, !.mapwait = @ \ {c}, !.clients = Without(@, c)]
    BY DEF Detached, u
  <2> QED  BY <1>1, <2>1 DEF WindowState
<1> HIDE DEF u, l, d
<1>4. /\ d \in WindowState /\ d.ftl = s.ftl \ {c} /\ d.toplevel_active = a
      /\ d.clients = l /\ d.mapped = s.mapped \ {c} /\ d.mapwait = s.mapwait \ {c}
      /\ d.enabled = s.enabled /\ d.session = s.session
      /\ d.focus_stack = s.focus_stack /\ d.kbd = s.kbd /\ d.mon = s.mon
      /\ d.tags = s.tags /\ d.tagset = s.tagset /\ d.seltags = s.seltags
      /\ d.linked = s.linked /\ d.shown = s.shown
      /\ d.selected_monitor = s.selected_monitor
  BY <1>1, <1>2, <1>3 DEF WindowState
<1>5. /\ ~s.session.lock_active /\ s.kbd \in Clients \cup {None}
      /\ s.toplevel_active = s.kbd
      /\ s.kbd # None => s.kbd \in ToSet(s.focus_stack) /\ s.mon[s.kbd] # None
      /\ s.ftl = s.mapped /\ ToSet(s.focus_stack) = s.mapped
  BY DEF Steady, Attended, Marked
<1>6. Attended(d)
  <2>1. d.toplevel_active = IF d.kbd \in d.ftl THEN d.kbd ELSE None
    BY <1>0, <1>4, <1>5
  <2> QED  BY <1>4, <1>5, <2>1 DEF Attended, Marked
<1>7. Passes(s, d)  BY <1>4, SameUnblocked
<1>8. \A m : client_top(d, m) = client_top(s, m)  BY <1>0, <1>4, TopSame
<1>9. Foremost(s) => Foremost(d)  BY <1>4, <1>8 DEF Foremost, OnTop, InFront
<1>10. Drawn(s) => Drawn(d)  BY <1>4 DEF Drawn, Visible, Viewed
<1>11. ToSet(d.clients) \subseteq d.mapped /\ IsInjective(d.clients)
       /\ d.mapwait \subseteq d.mapped /\ d.ftl = d.mapped
  BY <1>2, <1>4, <1>5 DEF Steady
<1>12. -1 \notin StackSteps =>
         /\ ToSet(d.clients) = d.mapped
         /\ Modal = {} \/ OneMonitor => Drawn(d)
         /\ Foremost(d)
  BY <1>2, <1>4, <1>9, <1>10 DEF Settled
<1> QED  BY <1>4, <1>6, <1>7, <1>11, <1>12 DEF d

(* Taking c from the focus stack and from the screen. *)
Drop(s, c) ==
  [s EXCEPT !.focus_stack = Without(@, c), !.shown = @ \ {c},
            !.linked = Unlinked(@, c)]

LEMMA DropEffect ==
  ASSUME NEW s \in WindowState, NEW c
  PROVE  LET t == Drop(s, c)
         IN  /\ t \in WindowState /\ t.clients = s.clients /\ t.mapped = s.mapped
             /\ t.ftl = s.ftl /\ t.mapwait = s.mapwait /\ t.enabled = s.enabled
             /\ t.session = s.session /\ t.focus_stack = Without(s.focus_stack, c)
             /\ t.kbd = s.kbd /\ t.toplevel_active = s.toplevel_active /\ t.mon = s.mon
             /\ t.tags = s.tags /\ t.tagset = s.tagset /\ t.seltags = s.seltags
             /\ t.selected_monitor = s.selected_monitor /\ t.shown = s.shown \ {c}
             /\ t.linked = Unlinked(s.linked, c)
<1> DEFINE l == Without(s.focus_stack, c)
           n == Unlinked(s.linked, c)
           t == [s EXCEPT !.focus_stack = l, !.shown = @ \ {c}, !.linked = n]
<1>1. s.focus_stack \in Seq(Clients) /\ n \subseteq Clients  BY DEF WindowState, Unlinked
<1>2. l \in Seq(Clients)  BY <1>1, WithoutType
<1>3. Drop(s, c) = t  BY DEF Drop
<1> HIDE DEF l, n
<1>4. /\ t \in WindowState /\ t.clients = s.clients /\ t.mapped = s.mapped
      /\ t.ftl = s.ftl /\ t.mapwait = s.mapwait /\ t.enabled = s.enabled
      /\ t.session = s.session /\ t.focus_stack = l
      /\ t.kbd = s.kbd /\ t.toplevel_active = s.toplevel_active /\ t.mon = s.mon
      /\ t.tags = s.tags /\ t.tagset = s.tagset /\ t.seltags = s.seltags
      /\ t.selected_monitor = s.selected_monitor /\ t.shown = s.shown \ {c}
      /\ t.linked = n
  BY <1>1, <1>2 DEF WindowState
<1> HIDE DEF t
<1> QED  BY <1>3, <1>4 DEF l, n

(* Nothing knows c any more but the focus stack and its scene. *)
Leaving(s, c) ==
  /\ s \in WindowState
  /\ s.mon[c] = None /\ c \notin s.mapped
  /\ Attended(s)
  /\ s.enabled = Monitors
  /\ s.ftl = s.mapped
  /\ ToSet(s.focus_stack) = s.mapped \cup {c} /\ IsInjective(s.focus_stack)
  /\ ToSet(s.clients) \subseteq s.mapped /\ IsInjective(s.clients)
  /\ s.shown \subseteq s.mapped \cup {c} /\ s.mapwait \subseteq s.mapped
  /\ PlacedBut(s, c)
  /\ \A d \in Clients \ s.mapped : s.mon[d] = None
  /\ s.selected_monitor = None => Monitors = {}

LEMMA DropSteady ==
  ASSUME NEW s, NEW c \in Clients, Leaving(s, c), Settled(s)
  PROVE  LET t == Drop(s, c)
         IN  Steady(t) /\ Settled(t) /\ t.kbd = s.kbd /\ (Unblocked(s) => Unblocked(t))
<1> DEFINE l == Without(s.focus_stack, c)
           t == Drop(s, c)
<1>0. s \in WindowState /\ s.focus_stack \in Seq(Clients) /\ s.kbd \in Clients \cup {None} /\ None \notin Clients
  BY DistinctAssumption DEF Leaving, WindowState, Attended, Marked
<1>1. /\ l \in Seq(Clients) /\ ToSet(l) = ToSet(s.focus_stack) \ {c} /\ IsInjective(l)
  BY <1>0, WithoutType, WithoutSet DEF Leaving
<1>2. t.linked \subseteq s.linked  BY <1>0, DropEffect DEF Unlinked
<1>3. /\ t \in WindowState /\ t.clients = s.clients /\ t.mapped = s.mapped
      /\ t.ftl = s.ftl /\ t.mapwait = s.mapwait /\ t.enabled = s.enabled
      /\ t.session = s.session /\ t.focus_stack = l /\ t.kbd = s.kbd
      /\ t.toplevel_active = s.toplevel_active /\ t.mon = s.mon
      /\ t.tags = s.tags /\ t.tagset = s.tagset /\ t.seltags = s.seltags
      /\ t.selected_monitor = s.selected_monitor /\ t.shown = s.shown \ {c}
  BY <1>0, DropEffect
<1> HIDE DEF l, t
<1>5. s.kbd # c
  <2>1. s.mon[c] = None /\ (s.kbd # None => s.mon[s.kbd] # None)  BY DEF Attended, Leaving
  <2> QED  BY <1>0, <2>1
<1>6. ToSet(t.focus_stack) = s.mapped  BY <1>1, <1>3 DEF Leaving
<1>7. Attended(t)  BY <1>0, <1>3, <1>5, <1>6 DEF Leaving, Attended, Marked
<1>8. PlacedBut(t, None)  BY <1>3 DEF Leaving, PlacedBut
<1>9. t.shown \subseteq t.mapped  BY <1>3 DEF Leaving
<1>10. Steady(t)  BY <1>1, <1>3, <1>6, <1>7, <1>8, <1>9 DEF Steady, Leaving
<1>11. \A m : client_top(t, m) = client_top(s, m)  BY <1>0, <1>3, TopWithout DEF l, Leaving
<1>12. Foremost(s) => Foremost(t)  BY <1>3, <1>11 DEF Foremost, OnTop, InFront
<1>13. Drawn(s) => Drawn(t)  BY <1>3 DEF Leaving, Drawn, Visible, Viewed
<1>14. Settled(t)  BY <1>3, <1>12, <1>13 DEF Settled
<1>15. ASSUME Unblocked(s), t.kbd \in Clients  PROVE ModalChild(t, t.kbd) = t.kbd
  <2>1. \A x \in ToSet(s.focus_stack) : ~Blocks(s, x, s.kbd)
    BY <1>0, <1>3, <1>15, StaysIff DEF Unblocked
  <2>2. \A x : Blocks(t, x, s.kbd) => Blocks(s, x, s.kbd)
    BY <1>0, <1>2, <1>3, <1>15 DEF Blocks, Visible, Viewed, client_get_parent
  <2>3. ToSet(t.focus_stack) \subseteq ToSet(s.focus_stack)  BY <1>1, <1>3
  <2> QED  BY <1>3, <1>15, <2>1, <2>2, <2>3, StaysIff
<1> QED  BY <1>3, <1>10, <1>14, <1>15 DEF Unblocked, t

LEMMA UnmapGood ==
  ASSUME Steady(wm), Settled(wm), NEW c \in Clients, client_handle_unmap(c)
  PROVE  Good(wm, wm')
<1> DEFINE d == Detached(wm, c)
           a == client_set_monitor(d, c, None, {})
           t == Drop(a, c)
<1>0. wm' = t /\ c \in wm.mapped  BY DEF client_handle_unmap, Drop
<1>1. /\ d \in WindowState /\ d.mapped = wm.mapped \ {c} /\ d.ftl = d.mapped
      /\ d.mon = wm.mon /\ d.enabled = wm.enabled /\ d.kbd = wm.kbd
      /\ d.shown = wm.shown /\ d.mapwait \subseteq d.mapped
      /\ d.focus_stack = wm.focus_stack
      /\ d.selected_monitor = wm.selected_monitor
      /\ ToSet(d.clients) \subseteq d.mapped /\ IsInjective(d.clients)
      /\ Attended(d) /\ Passes(wm, d)
      /\ -1 \notin StackSteps =>
           /\ ToSet(d.clients) = d.mapped
           /\ Modal = {} \/ OneMonitor => Drawn(d)
           /\ Foremost(d)
  BY <1>0, DetachedSteady
<1> HIDE DEF d
<1>2. /\ Inner(d, a) /\ a.mon = [d.mon EXCEPT ![c] = None]
      /\ PlacedBut(d, c) => PlacedBut(a, c)
  BY <1>1, SetMonitorInner
<1> HIDE DEF a
<1>3. /\ a.clients = d.clients /\ a.mapped = d.mapped /\ a.ftl = d.ftl
      /\ a.mapwait = d.mapwait /\ a.enabled = d.enabled
      /\ ToSet(a.focus_stack) = ToSet(d.focus_stack)
      /\ IsInjective(d.focus_stack) => IsInjective(a.focus_stack)
  BY <1>2 DEF Inner, SameLists
<1>4. Attended(a) /\ Passes(d, a) /\ (Foremost(d) => Foremost(a))  BY <1>1, <1>2 DEF Inner
<1>5. a \in WindowState /\ a.mon[c] = None
  BY <1>1, <1>2 DEF Inner, WindowState
<1>6. PlacedBut(a, c)
  <2>1. PlacedBut(wm, c)  BY PlacedAll DEF Steady
  <2>2. PlacedBut(d, c)  BY <1>1, <2>1 DEF PlacedBut
  <2> QED  BY <1>2, <2>2
<1>7. Settled(a)  BY <1>1, <1>2, <1>3, <1>4 DEF Settled, Inner, Drawable
<1>8. a.shown \subseteq a.mapped \cup {c}
  BY <1>1, <1>2, <1>3 DEF Inner, Steady
<1>9. \A x \in Clients \ a.mapped : a.mon[x] = None
  BY <1>1, <1>2, <1>3 DEF Steady, WindowState
<1>10. a.selected_monitor = None => Monitors = {}
  BY <1>1, <1>2 DEF Steady, Inner
<1>11. /\ a.enabled = Monitors /\ ToSet(a.focus_stack) = a.mapped \cup {c}
       /\ IsInjective(a.focus_stack) /\ c \notin a.mapped
  BY <1>0, <1>1, <1>3 DEF Steady
<1>12. Leaving(a, c)
  BY <1>1, <1>3, <1>4, <1>5, <1>6, <1>8, <1>9, <1>10, <1>11 DEF Leaving
<1>13. Steady(t) /\ Settled(t) /\ t.kbd = a.kbd /\ (Unblocked(a) => Unblocked(t))
  BY <1>7, <1>12, DropSteady
<1> HIDE DEF t
<1> QED  BY <1>0, <1>1, <1>4, <1>13 DEF Good, Passes

LEMMA ArrangeKept ==
  ASSUME NEW s \in WindowState, NEW m
  PROVE  Kept(s, layout_arrange(s, m))
<1>1. CASE m = None
  <2>1. m \notin s.enabled  BY <1>1, DistinctAssumption DEF WindowState
  <2> QED  BY <2>1, KeptSelf DEF layout_arrange
<1>2. CASE m # None  BY <1>2, ArrangeInner DEF Kept
<1> QED  BY <1>1, <1>2

LEMMA KeptGood ==
  ASSUME NEW s, Steady(s), Settled(s), NEW t, Kept(s, t)
  PROVE  Good(s, t)
BY KeptSteady DEF Good, Passes

LEMMA SetFlagsKept ==
  ASSUME NEW s \in WindowState, NEW c \in Clients, NEW on \in BOOLEAN
  PROVE  Kept(s, client_set_fullscreen(s, c, on)) /\ Kept(s, client_set_floating(s, c, on))
BY SetFlagsInner DEF Kept

LEMMA RingBellKept ==
  ASSUME wm \in WindowState, NEW c \in Clients, RingBell(c)
  PROVE  Kept(wm, wm')
<1> DEFINE f == wm.isurgent \cup {c}
           t == [wm EXCEPT !.isurgent = f]
<1>1. wm \in WindowState /\ f \in SUBSET Clients /\ wm' = t
  BY DEF WindowState, RingBell
<1> HIDE DEF f
<1>2. /\ Inner(wm, t) /\ t.mon = wm.mon /\ t.shown = wm.shown
      /\ \A M : Within(M, wm) => Within(M, t)
  BY <1>1, FlagsInner
<1> HIDE DEF t
<1>3. Kept(wm, t)  BY <1>2 DEF Kept, PlacedBut
<1> QED  BY <1>1, <1>3

LEMMA TagCommandKept ==
  ASSUME wm \in WindowState, TagCommand
  PROVE  Kept(wm, wm')
<1>1. wm \in WindowState  OBVIOUS
<1>2. ASSUME NEW mask \in TagMasks,
             wm' \in {layout_view(wm, mask), layout_toggle_view(wm, mask),
                      layout_tag(wm, mask), layout_toggle_tag(wm, mask)}
      PROVE  Kept(wm, wm')
  <2>1. mask \in SUBSET Tags  BY TagMasksAssumption
  <2> QED  BY <1>1, <1>2, <2>1, ViewKept, ToggleViewKept, TagKept
<1>3. ASSUME NEW step \in {-1, 1},
             wm' \in {layout_shift_view(wm, step), layout_shift_tag(wm, step)}
      PROVE  Kept(wm, wm')
  BY <1>1, <1>3, ShiftKept
<1> QED  BY <1>2, <1>3 DEF TagCommand

-----------------------------------------------------------------------------
(* client_activate. *)

(* The view it makes before it focuses the window. *)
Activated(c) ==
  LET at == [wm EXCEPT !.selected_monitor = wm.mon[c]]
  IN  IF Visible(at, c, wm.mon[c]) THEN at ELSE layout_view(at, wm.tags[c])

LEMMA ActivatedInView ==
  ASSUME wm \in WindowState, Tagged(wm), NEW c \in Clients, wm.mon[c] # None
  PROVE  LET at == [wm EXCEPT !.selected_monitor = wm.mon[c]]
         IN  /\ at \in WindowState /\ Kept(at, Activated(c))
             /\ Visible(Activated(c), c, wm.mon[c])
             /\ Activated(c) = at \/ (Modal = {} => Returned(Activated(c)))
<1> DEFINE m  == wm.mon[c]
           at == [wm EXCEPT !.selected_monitor = m]
           v  == layout_view(at, wm.tags[c])
<1>1. m \in Monitors /\ wm.tags[c] \in SUBSET Tags /\ wm.tags[c] # {}
  BY DEF WindowState, Tagged
<1>2. /\ at \in WindowState /\ at.selected_monitor = m /\ at.mon = wm.mon
      /\ at.tags = wm.tags /\ at.tagset = wm.tagset /\ at.seltags = wm.seltags
  <2> HIDE DEF m
  <2> QED  BY <1>1 DEF WindowState
<1>3. Activated(c) = IF Visible(at, c, m) THEN at ELSE v  BY DEF Activated
<1> HIDE DEF at
<1>4. CASE Visible(at, c, m)
  <2>1. Kept(at, at)  BY <1>2, KeptSelf
  <2> QED  BY <1>2, <1>3, <1>4, <2>1 DEF at
<1>5. CASE ~Visible(at, c, m)
  <2>1. /\ Kept(at, v)
        /\ m \in Monitors /\ wm.tags[c] # Viewed(at, m) =>
             /\ v.tags = at.tags /\ (wm.tags[c] # {} => Viewed(v, m) = wm.tags[c])
             /\ Modal = {} => Returned(v)
    BY <1>1, <1>2, ViewKept
  <2>2. m # None /\ at.mon[c] = m /\ at.tags[c] = wm.tags[c]  BY <1>2
  <2>3. wm.tags[c] # Viewed(at, m)  BY <1>1, <1>5, <2>2 DEF Visible
  <2> HIDE DEF v
  <2>4. Visible(v, c, m)  BY <1>1, <2>1, <2>2, <2>3 DEF Kept, Visible
  <2>5. Modal = {} => Returned(v)  BY <1>1, <2>1, <2>3
  <2> QED  BY <1>2, <1>3, <1>5, <2>1, <2>4, <2>5 DEF at
<1> QED  BY <1>4, <1>5

LEMMA ActivateFocuses ==
  ASSUME NEW c, client_activate(c)
  PROVE  wm' = client_focus(Activated(c), c) /\ c \in wm.mapped /\ wm.mon[c] # None
BY DEF client_activate, Activated

LEMMA ActivateGood ==
  ASSUME Steady(wm), Settled(wm), Tagged(wm), NEW c \in Clients, client_activate(c)
  PROVE  Good(wm, wm')
<1> DEFINE m == wm.mon[c]
           at == [wm EXCEPT !.selected_monitor = m]
           v == Activated(c)
           t == client_focus(v, c)
<1>0. wm \in WindowState /\ wm.mapped \subseteq Clients  BY DEF Steady, WindowState
<1>1. wm' = t /\ c \in wm.mapped /\ m # None  BY ActivateFocuses
<1>2. Kept(at, v) /\ Visible(v, c, m)  BY <1>0, <1>1, ActivatedInView
<1>3. m \in Monitors  BY <1>0, <1>1 DEF WindowState
<1>4. Steady(at) /\ Settled(at) /\ at.mapped = wm.mapped /\ at.mon = wm.mon
  BY <1>3, SelectSteady
<1> HIDE DEF at, v
<1>5. Steady(v) /\ Settled(v)  BY <1>2, <1>4, KeptSteady
<1>6. c \in v.mapped /\ v.mon[c] = m
  BY <1>1, <1>2, <1>4 DEF Kept, Inner, SameLists
<1>7. Steady(t) /\ Settled(t) /\ Unblocked(t)
  BY <1>1, <1>2, <1>5, <1>6, FocusSteady
<1> QED  BY <1>1, <1>7 DEF Good

LEMMA ActivateShows ==
  ASSUME TypeOK, Tagged(wm), NEW c \in Clients, client_activate(c)
  PROVE  Visible(wm', c, wm.mon[c])
<1> DEFINE v == Activated(c)
           t == client_focus(v, c)
<1>1. wm' = t /\ wm.mon[c] # None  BY ActivateFocuses
<1>2. v \in WindowState /\ Visible(v, c, wm.mon[c])
  BY <1>1, ActivatedInView DEF TypeOK, Kept, Inner
<1> HIDE DEF v
<1>3. SameTags(v, t)  BY <1>2, FocusKeepsTags
<1> HIDE DEF t
<1> QED  BY <1>1, <1>2, <1>3 DEF SameTags, Visible, Viewed

LEMMA ClientEventGood ==
  ASSUME Steady(wm), Settled(wm), Tagged(wm), NEW c \in Clients, ClientEvent(c)
  PROVE  Good(wm, wm')
<1>1. CASE InitialCommit(c)  BY <1>1, InitialCommitGood
<1>2. CASE SetParent(c)  BY <1>2, SetParentGood
<1>3. CASE client_handle_map(c)  BY <1>3, MapGood
<1>4. CASE client_map_wait_done(c)  BY <1>4, MapWaitGood
<1>5. CASE client_handle_unmap(c)  BY <1>5, UnmapGood
<1>6. CASE RequestFullscreen(c)
  <2>1. wm \in WindowState  BY DEF Steady
  <2>2. Kept(wm, wm')  BY <1>6, <2>1, SetFlagsKept DEF RequestFullscreen
  <2> QED  BY <2>2, KeptGood
<1>7. CASE RingBell(c)  BY <1>7, RingBellKept, KeptGood DEF Steady
<1>8. CASE client_activate(c)  BY <1>8, ActivateGood
<1> QED  BY <1>1, <1>2, <1>3, <1>4, <1>5, <1>6, <1>7, <1>8 DEF ClientEvent

-----------------------------------------------------------------------------
(* The stack. *)

(* A window in view can be focused. *)
LEMMA InViewFocus ==
  ASSUME NEW s, Steady(s), Settled(s), NEW c \in s.mapped,
         Visible(s, c, s.selected_monitor)
  PROVE  LET t == client_focus(s, c)
         IN  Steady(t) /\ Settled(t) /\ Unblocked(t) /\ SameWindows(s, t)
BY FocusSteady DEF Visible

LEMMA FocusStackGood ==
  ASSUME Steady(wm), Settled(wm), NEW step \in {-1, 1}, layout_focus_stack(step)
  PROVE  Good(wm, wm')
<1> DEFINE sel  == client_top(wm, wm.selected_monitor)
           at   == Position(wm.clients, sel)
           next == NextInView(wm, at, step)
<1>0. wm \in WindowState /\ sel \in Clients \cup {None}  BY TopIn DEF Steady
<1>1. sel # None /\ sel \in ToSet(wm.clients)  BY DEF layout_focus_stack
<1>2. at \in InView(wm)
  <2>1. at \in 1 .. Len(wm.clients) /\ wm.clients[at] = sel
    BY <1>0, <1>1, InViewType, PositionType
  <2>2. Visible(wm, sel, wm.selected_monitor)  BY <1>0, <1>1, TopIn
  <2> QED  BY <1>0, <2>1, <2>2, InViewType DEF InView
<1>3. next \in InView(wm)  BY <1>0, <1>2, NextInViewType
<1>4. wm' = client_focus(wm, wm.clients[next])  BY DEF layout_focus_stack
<1> HIDE DEF next
<1>5. next \in DOMAIN wm.clients /\ Visible(wm, wm.clients[next], wm.selected_monitor)
  BY <1>3 DEF InView
<1>6. wm.clients[next] \in wm.mapped  BY <1>5 DEF ToSet, Steady
<1> QED  BY <1>4, <1>5, <1>6, InViewFocus DEF Good

(* Another order of the tiles. *)
LEMMA ReorderSteady ==
  ASSUME NEW s, Steady(s), Settled(s), NEW l \in Seq(Clients), IsInjective(l),
         ToSet(l) \subseteq s.mapped, -1 \notin StackSteps => ToSet(l) = s.mapped
  PROVE  LET t == [s EXCEPT !.clients = l]
         IN  /\ Steady(t) /\ Settled(t) /\ t.kbd = s.kbd /\ Passes(s, t)
             /\ t.selected_monitor = s.selected_monitor /\ t.mapped = s.mapped
             /\ \A c, m : Visible(t, c, m) <=> Visible(s, c, m)
<1> DEFINE t == [s EXCEPT !.clients = l]
<1>0. s \in WindowState  BY DEF Steady
<1>1. /\ t \in WindowState /\ t.clients = l /\ t.mapped = s.mapped
      /\ t.ftl = s.ftl /\ t.mapwait = s.mapwait /\ t.enabled = s.enabled
      /\ t.session = s.session /\ t.focus_stack = s.focus_stack /\ t.kbd = s.kbd
      /\ t.toplevel_active = s.toplevel_active /\ t.mon = s.mon
      /\ t.tags = s.tags /\ t.tagset = s.tagset /\ t.seltags = s.seltags
      /\ t.selected_monitor = s.selected_monitor /\ t.shown = s.shown
      /\ t.linked = s.linked
  BY <1>0 DEF WindowState
<1> HIDE DEF t
<1>2. \A m : client_top(t, m) = client_top(s, m)  BY <1>0, <1>1, TopSame
<1>3. Foremost(s) => Foremost(t)  BY <1>1, <1>2 DEF Foremost, OnTop, InFront
<1>4. Drawn(s) => Drawn(t)  BY <1>1 DEF Drawn, Visible, Viewed
<1>5. Steady(t)  BY <1>1 DEF Steady, Attended, Marked, PlacedBut
<1>6. Settled(t)  BY <1>1, <1>3, <1>4 DEF Settled
<1>7. Passes(s, t)  BY <1>1, SameUnblocked
<1>8. \A c, m : Visible(t, c, m) <=> Visible(s, c, m)  BY <1>1 DEF Visible, Viewed
<1> QED  BY <1>1, <1>5, <1>6, <1>7, <1>8 DEF t

LEMMA MoveDownSet ==
  ASSUME NEW s \in WindowState, NEW sel \in Clients, sel \in ToSet(s.clients),
         IsInjective(s.clients)
  PROVE  ToSet(MoveDown(s, sel)) = ToSet(s.clients) /\ IsInjective(MoveDown(s, sel))
<1> DEFINE at   == Position(s.clients, sel)
           rest == Without(s.clients, sel)
<1>1. rest \in Seq(Clients) /\ Len(rest) = Len(s.clients) - 1
  BY InViewType, WithoutType
<1>2. ToSet(rest) = ToSet(s.clients) \ {sel} /\ IsInjective(rest)
  BY InViewType, WithoutSet
<1>3. sel \notin ToSet(rest) /\ ToSet(rest) \cup {sel} = ToSet(s.clients)  BY <1>2
<1>4. CASE After(s, at) = {}
  <2>1. MoveDown(s, sel) = <<sel>> \o rest  BY <1>4 DEF MoveDown
  <2> HIDE DEF rest
  <2>2. ToSet(<<sel>> \o rest) = ToSet(rest) \cup {sel} /\ IsInjective(<<sel>> \o rest)
    BY <1>1, <1>2, <1>3, HeadSet
  <2> QED  BY <1>3, <2>1, <2>2, Zenon
<1>5. CASE After(s, at) # {}
  <2> DEFINE i == Min(After(s, at))
  <2>1. i \in InView(s)  BY <1>5, InViewType, MinIn
  <2>2. i \in 1 .. Len(rest) + 1  BY <1>1, <2>1, InViewType
  <2>3. MoveDown(s, sel) = InsertAt(rest, i, sel)  BY <1>5 DEF MoveDown
  <2> HIDE DEF rest, i
  <2>4. ToSet(InsertAt(rest, i, sel)) = ToSet(rest) \cup {sel}
        /\ IsInjective(InsertAt(rest, i, sel))
    BY <1>1, <1>2, <1>3, <2>2, InsertAtSet
  <2> QED  BY <1>3, <2>3, <2>4, Zenon
<1> QED  BY <1>4, <1>5

(* Upwards, the window may be lost. *)
LEMMA MoveUpSet ==
  ASSUME NEW s \in WindowState, NEW sel \in Clients, sel \in ToSet(s.clients),
         IsInjective(s.clients)
  PROVE  ToSet(MoveUp(s, sel)) \subseteq ToSet(s.clients) /\ IsInjective(MoveUp(s, sel))
<1> DEFINE at   == Position(s.clients, sel)
           rest == Without(s.clients, sel)
<1>1. rest \in Seq(Clients) /\ Len(rest) = Len(s.clients) - 1
  BY InViewType, WithoutType
<1>2. ToSet(rest) = ToSet(s.clients) \ {sel} /\ IsInjective(rest)
  BY InViewType, WithoutSet
<1>3. sel \notin ToSet(rest) /\ ToSet(rest) \cup {sel} = ToSet(s.clients)  BY <1>2
<1>4. CASE Before(s, at) = {}
  <2>1. MoveUp(s, sel) = rest \/ MoveUp(s, sel) = Append(rest, sel)
    BY <1>4 DEF MoveUp
  <2> HIDE DEF rest
  <2>2. ToSet(Append(rest, sel)) = ToSet(rest) \cup {sel} /\ IsInjective(Append(rest, sel))
    BY <1>1, <1>2, <1>3, AppendSet
  <2>3. CASE MoveUp(s, sel) = rest  BY <1>2, <2>3
  <2>4. CASE MoveUp(s, sel) = Append(rest, sel)
    <3>1. ToSet(MoveUp(s, sel)) = ToSet(s.clients) /\ IsInjective(MoveUp(s, sel))
      BY <1>3, <2>2, <2>4, Zenon
    <3> QED  BY <3>1
  <2> QED  BY <2>1, <2>3, <2>4
<1>5. CASE Before(s, at) # {}
  <2> DEFINE i == Max(Before(s, at))
  <2>1. i \in InView(s)
    <3>1. Before(s, at) \in SUBSET (0 .. Len(s.clients))  BY InViewType
    <3> QED  BY <1>5, <3>1, InViewType, MaxIn
  <2>2. i \in 1 .. Len(rest) + 1  BY <1>1, <2>1, InViewType
  <2>3. MoveUp(s, sel) = InsertAt(rest, i, sel)  BY <1>5 DEF MoveUp
  <2> HIDE DEF rest, i
  <2>4. ToSet(InsertAt(rest, i, sel)) = ToSet(rest) \cup {sel}
        /\ IsInjective(InsertAt(rest, i, sel))
    BY <1>1, <1>2, <1>3, <2>2, InsertAtSet
  <2>5. ToSet(MoveUp(s, sel)) = ToSet(s.clients) /\ IsInjective(MoveUp(s, sel))
    BY <1>3, <2>3, <2>4, Zenon
  <2> QED  BY <2>5
<1> QED  BY <1>4, <1>5

LEMMA MoveStackGood ==
  ASSUME Steady(wm), Settled(wm), NEW step \in StackSteps, layout_move_stack(step)
  PROVE  Good(wm, wm')
<1> DEFINE sel == client_top(wm, wm.selected_monitor)
           l   == IF step > 0 THEN MoveDown(wm, sel) ELSE MoveUp(wm, sel)
           t   == [wm EXCEPT !.clients = l]
           a   == layout_arrange(t, wm.selected_monitor)
<1>0. wm \in WindowState /\ sel \in Clients \cup {None}  BY TopIn DEF Steady
<1>1. sel # None /\ sel \in ToSet(wm.clients) /\ wm' = a
  BY DEF layout_move_stack
<1>2. sel \in Clients /\ IsInjective(wm.clients) /\ ToSet(wm.clients) \subseteq wm.mapped
  BY <1>0, <1>1 DEF Steady
<1>3. step = 1 \/ (step = -1 /\ -1 \in StackSteps)  BY StackStepsAssumption
<1>4. -1 \notin StackSteps => l = MoveDown(wm, sel) /\ ToSet(wm.clients) = wm.mapped
  BY <1>3 DEF Settled
<1> HIDE DEF sel
<1>5. l \in Seq(Clients)  BY <1>0, <1>1, <1>2, MoveDownType, MoveUpType
<1>6. IsInjective(l) /\ ToSet(l) \subseteq wm.mapped
  BY <1>0, <1>1, <1>2, MoveDownSet, MoveUpSet
<1>7. -1 \notin StackSteps => ToSet(l) = wm.mapped
  BY <1>0, <1>1, <1>2, <1>4, MoveDownSet
<1> HIDE DEF l
<1>8. Steady(t) /\ Settled(t) /\ t.kbd = wm.kbd  BY <1>5, <1>6, <1>7, ReorderSteady
<1> HIDE DEF t
<1>9. Kept(t, a)  BY <1>8, ArrangeKept DEF Steady
<1>10. Good(t, a)  BY <1>8, <1>9, KeptGood
<1> QED  BY <1>1, <1>8, <1>10 DEF Good

LEMMA ZoomGood ==
  ASSUME Steady(wm), Settled(wm), layout_zoom
  PROVE  Good(wm, wm')
<1> DEFINE sel   == client_top(wm, wm.selected_monitor)
           tiles == {i \in InView(wm) : wm.clients[i] \notin wm.isfloating}
           later == tiles \ {Min(tiles)}
           first == wm.clients[Min(tiles)]
           up    == IF first # sel THEN sel ELSE wm.clients[Min(later)]
           l     == ToHead(wm.clients, up)
           t     == [wm EXCEPT !.clients = l]
           moved == client_focus(t, up)
           a     == layout_arrange(moved, moved.selected_monitor)
<1>0. wm \in WindowState /\ sel \in ToSet(wm.focus_stack) \cup {None}
      /\ (sel # None => Visible(wm, sel, wm.selected_monitor))
  BY TopIn, TopInStack DEF Steady
<1>1. sel # None /\ (first = sel => later # {}) /\ wm' = a
  BY DEF layout_zoom
<1>2. up \in wm.mapped /\ Visible(wm, up, wm.selected_monitor)
  <2>1. CASE first # sel  BY <1>0, <1>1, <2>1 DEF Steady
  <2>2. CASE first = sel
    <3>1. later # {} /\ later \in SUBSET Nat /\ later \subseteq InView(wm)
      BY <1>0, <1>1, <2>2, InViewType
    <3>2. Min(later) \in InView(wm)
      <4> HIDE DEF later
      <4> QED  BY <3>1, MinIn
    <3>3. PICK i \in InView(wm) : i = Min(later)  BY <3>2
    <3>4. up = wm.clients[i]  BY <2>2, <3>3
    <3>5. i \in DOMAIN wm.clients /\ Visible(wm, wm.clients[i], wm.selected_monitor)
      BY DEF InView
    <3>6. wm.clients[i] \in wm.mapped  BY <3>5 DEF ToSet, Steady
    <3> QED  BY <3>4, <3>5, <3>6
  <2> QED  BY <2>1, <2>2
<1> HIDE DEF up
<1>3. wm.clients \in Seq(Clients) /\ wm.mapped \subseteq Clients  BY <1>0 DEF WindowState
<1>4. l \in Seq(Clients) /\ ToSet(l) = ToSet(wm.clients) \cup {up} /\ IsInjective(l)
  BY <1>2, <1>3, ToHeadType, ToHeadSet DEF Steady
<1>5. ToSet(l) \subseteq wm.mapped /\ (-1 \notin StackSteps => ToSet(l) = wm.mapped)
  BY <1>2, <1>4 DEF Steady, Settled
<1> HIDE DEF l
<1>6. /\ Steady(t) /\ Settled(t) /\ t.mapped = wm.mapped
      /\ t.selected_monitor = wm.selected_monitor
      /\ \A c, m : Visible(t, c, m) <=> Visible(wm, c, m)
  BY <1>4, <1>5, ReorderSteady
<1> HIDE DEF t
<1>7. Steady(moved) /\ Settled(moved) /\ Unblocked(moved)
  BY <1>2, <1>6, InViewFocus
<1> HIDE DEF moved
<1>8. Kept(moved, a)  BY <1>7, ArrangeKept DEF Steady
<1>9. Steady(a) /\ Settled(a) /\ Passes(moved, a)  BY <1>7, <1>8, KeptSteady
<1> QED  BY <1>1, <1>7, <1>9 DEF Good, Passes

LEMMA StackCommandGood ==
  ASSUME Steady(wm), Settled(wm), StackCommand
  PROVE  Good(wm, wm')
<1> DEFINE sel == client_top(wm, wm.selected_monitor)
<1>0. wm \in WindowState /\ sel \in Clients \cup {None}  BY TopIn DEF Steady
<1>1. CASE \E step \in {-1, 1} : layout_focus_stack(step)  BY <1>1, FocusStackGood
<1>2. CASE \E step \in StackSteps : layout_move_stack(step)  BY <1>2, MoveStackGood
<1>3. CASE layout_zoom  BY <1>3, ZoomGood
<1>4. CASE client_toggle_floating
  <2>1. sel \in Clients /\ wm' = client_set_floating(wm, sel, sel \notin wm.isfloating)
    BY <1>0, <1>4 DEF client_toggle_floating
  <2> HIDE DEF sel
  <2>2. Kept(wm, wm')  BY <1>0, <2>1, SetFlagsKept
  <2> QED  BY <2>2, KeptGood
<1>5. CASE client_toggle_fullscreen
  <2>1. sel \in Clients /\ wm' = client_set_fullscreen(wm, sel, sel \notin wm.isfullscreen)
    BY <1>0, <1>5 DEF client_toggle_fullscreen
  <2> HIDE DEF sel
  <2>2. Kept(wm, wm')  BY <1>0, <2>1, SetFlagsKept
  <2> QED  BY <2>2, KeptGood
<1> QED  BY <1>1, <1>2, <1>3, <1>4, <1>5 DEF StackCommand

-----------------------------------------------------------------------------
(* Monitors and the pointer. *)

LEMMA RefocusKept ==
  ASSUME NEW s \in WindowState
  PROVE  Kept(s, Refocus(s)) /\ (Marked(s) => Unblocked(Refocus(s)))
<1> DEFINE t == Refocus(s)
<1>1. /\ t \in WindowState /\ SameLists(s, t) /\ SameWindows(s, t)
      /\ Marked(s) => Attended(t) /\ Unblocked(t) /\ Foremost(t)
      /\ \A m : DrawnOn(s, m) => DrawnOn(t, m)
      /\ \A c : PlacedBut(s, c) => PlacedBut(t, c)
      /\ t.selected_monitor = None => s.selected_monitor = None
      /\ s.session.lock_active \/ KeepsKeyboard(s) => t.kbd = s.kbd
      /\ t.kbd \in Clients \cup {None, s.kbd}
      /\ (s.session.lock_active => s.kbd \notin Clients) => Held(t)
      /\ \A M : Within(M, s) => Within(M, t)
      /\ Modal = {} => Returned(t)
  BY RefocusSettles
<1> HIDE DEF t
<1>2. Attended(s) => Marked(s)  BY DEF Attended
<1>3. Drawn(s) => Drawn(t)  BY <1>1, DrawnOnAll
<1>4. t.shown = s.shown /\ t.mon = s.mon  BY <1>1 DEF SameWindows
<1>6. Grip(s, t)  BY <1>1 DEF Grip, Held
<1>7. Back(s, t)  BY <1>1 DEF Back
<1>5. Inner(s, t)  BY <1>1, <1>2, <1>3, <1>4, <1>6, <1>7 DEF Inner, Passes
<1> QED  BY <1>1, <1>4, <1>5 DEF Kept, t

LEMMA SendGood ==
  ASSUME Steady(wm), Settled(wm), monitor_send_client
  PROVE  Good(wm, wm')
<1> DEFINE c == client_top(wm, wm.selected_monitor)
<1>0. /\ wm \in WindowState /\ c \in ToSet(wm.focus_stack) \cup {None}
      /\ ToSet(wm.monitors) \subseteq Monitors /\ None \notin Monitors
  <2>1. wm \in WindowState  BY DEF Steady
  <2>2. ToSet(wm.monitors) \subseteq Monitors  BY <2>1 DEF WindowState, ToSet
  <2> QED  BY <2>1, <2>2, TopInStack, DistinctAssumption
<1>1. c # None /\ \E m \in Monitors : wm' = client_set_monitor(wm, c, m, {})
  BY <1>0 DEF monitor_send_client
<1>2. PICK m \in Monitors : wm' = client_set_monitor(wm, c, m, {})  BY <1>1
<1>3. c \in wm.mapped /\ c \in Clients  BY <1>0, <1>1 DEF Steady, WindowState
<1> HIDE DEF c
<1>4. /\ Inner(wm, wm') /\ wm'.mon = [wm.mon EXCEPT ![c] = m]
      /\ m # None => \A d : PlacedBut(wm, d) => PlacedBut(wm', d)
  BY <1>0, <1>2, <1>3, SetMonitorInner
<1>5. PlacedBut(wm', None)  BY <1>0, <1>4 DEF Steady
<1>6. \A d \in Clients \ wm.mapped : wm'.mon[d] = None
  BY <1>0, <1>3, <1>4 DEF Steady, WindowState
<1>7. Steady(wm') /\ Settled(wm') /\ Passes(wm, wm')  BY <1>4, <1>5, <1>6, InnerSteady
<1> QED  BY <1>7 DEF Good, Passes

LEMMA ClickGood ==
  ASSUME Steady(wm), Settled(wm), NEW m \in Monitors, NEW c \in wm.shown \cup {None},
         LET at == [wm EXCEPT !.selected_monitor = m]
         IN  wm' = at \/ (c # None /\ wm' = client_focus(at, c))
  PROVE  Good(wm, wm')
<1> DEFINE at == [wm EXCEPT !.selected_monitor = m]
           t  == client_focus(at, c)
<1>1. /\ Steady(at) /\ Settled(at) /\ at.kbd = wm.kbd /\ at.mapped = wm.mapped
      /\ at.mon = wm.mon /\ at.shown = wm.shown
  BY SelectSteady
<1> HIDE DEF at
<1>2. CASE wm' = at  BY <1>1, <1>2 DEF Good
<1>3. CASE c # None /\ wm' = t
  <2>1. c \in at.shown /\ c \in at.mapped  BY <1>1, <1>3 DEF Steady
  <2>2. at.mon[c] # None  BY <1>3, <2>1, <1>1 DEF Steady, PlacedBut
  <2>3. -1 \notin StackSteps /\ Modal = {} => Visible(at, c, at.mon[c])
    <3>1. at.mon[c] \in at.enabled
      BY <1>1, <2>1, <2>2 DEF Steady, WindowState
    <3> QED  BY <1>1, <2>1, <3>1 DEF Settled, Drawn
  <2>4. Steady(t) /\ Settled(t) /\ Unblocked(t)  BY <1>1, <2>1, <2>2, <2>3, FocusSteady
  <2> QED  BY <1>3, <2>4 DEF Good
<1> QED  BY <1>2, <1>3 DEF at

LEMMA MonitorCommandGood ==
  ASSUME Steady(wm), Settled(wm), MonitorCommand
  PROVE  Good(wm, wm')
<1>0. /\ wm \in WindowState /\ Lit(wm) \subseteq Monitors
      /\ wm.selected_monitor \in Monitors \cup {None}
  BY DEF Steady, WindowState, Lit
<1>1. CASE monitor_focus
  <2>1. PICK m \in Monitors : wm' = Refocus([wm EXCEPT !.selected_monitor = m])
    BY <1>0, <1>1 DEF monitor_focus
  <2> DEFINE at == [wm EXCEPT !.selected_monitor = m]
  <2>2. Steady(at) /\ Settled(at) /\ at.kbd = wm.kbd  BY SelectSteady
  <2>3. wm' = Refocus(at)  BY <2>1
  <2> HIDE DEF at
  <2>4. Kept(at, Refocus(at))  BY <2>2, RefocusKept DEF Steady
  <2>5. Good(at, Refocus(at))  BY <2>2, <2>4, KeptGood
  <2> QED  BY <2>2, <2>3, <2>5 DEF Good
<1>2. CASE monitor_send_client  BY <1>2, SendGood
<1>3. CASE PointerPress
  <2>1. PICK m \in Monitors, c \in wm.shown \cup {None} :
          LET at == [wm EXCEPT !.selected_monitor = m]
          IN  wm' = at \/ (c # None /\ wm' = client_focus(at, c))
    BY <1>0, <1>3 DEF PointerPress
  <2> QED  BY <2>1, ClickGood
<1>4. CASE PointerMotion
  <2>1. PICK m \in Monitors, c \in wm.shown \cup {None} :
          LET at == [wm EXCEPT !.selected_monitor = m]
          IN  wm' = at \/ (c # None /\ wm' = client_focus(at, c))
    BY <1>0, <1>4 DEF PointerMotion
  <2> QED  BY <2>1, ClickGood
<1> QED  BY <1>1, <1>2, <1>3, <1>4 DEF MonitorCommand

-----------------------------------------------------------------------------
(* The invariant holds always, and what follows from it. *)

LEMMA SteadyStart == WindowsInit => Steady(wm) /\ Settled(wm)
<1> SUFFICES ASSUME WindowsInit  PROVE Steady(wm) /\ Settled(wm)
  OBVIOUS
<1>1. PICK list \in SetToSeqs(Monitors) : wm = InitialState(list, Monitors)
  BY DEF WindowsInit
<1>2. wm \in WindowState  BY InitType DEF TypeOK
<1>3. /\ wm.clients = <<>> /\ wm.focus_stack = <<>> /\ wm.mapped = {}
      /\ wm.ftl = {} /\ wm.toplevel_active = None /\ wm.mapwait = {} /\ wm.shown = {}
      /\ wm.enabled = Monitors /\ wm.selected_monitor = First(list)
      /\ wm.kbd = None /\ wm.session.lock_active = FALSE
      /\ \A c \in Clients : wm.mon[c] = None
  BY <1>1 DEF InitialState, InitialSession
<1>4. ToSet(<<>>) = {} /\ IsInjective(<<>>)  BY DEF ToSet, IsInjective
<1>5. First(list) = None => Monitors = {}
  <2>1. /\ Cardinality(Monitors) \in Nat
        /\ Cardinality(Monitors) = 0 => Monitors = {}
    BY FiniteAssumption, FS_CardinalityType, FS_EmptySet
  <2>2. list \in Seq(Monitors) /\ Len(list) = Cardinality(Monitors)
    BY <2>1 DEF SetToSeqs
  <2>3. list # <<>> => list[1] \in Monitors  BY <2>2
  <2>4. list = <<>> => Len(list) = 0  OBVIOUS
  <2> QED  BY <2>1, <2>2, <2>3, <2>4, DistinctAssumption DEF First
<1>6. Attended(wm)  BY <1>3 DEF Attended, Marked
<1>7. Steady(wm)  BY <1>2, <1>3, <1>4, <1>5, <1>6 DEF Steady, PlacedBut
<1>8. \A m : client_top(wm, m) = None  BY <1>3 DEF client_top, FirstFocused
<1>9. Foremost(wm)  BY <1>3, <1>8, DistinctAssumption DEF Foremost, OnTop, InFront
<1>10. Drawn(wm)  BY <1>3 DEF Drawn
<1> QED  BY <1>3, <1>4, <1>7, <1>9, <1>10 DEF Settled

(* All of it. *)
Windowed == TypeOK /\ Tagged(wm) /\ Steady(wm) /\ Settled(wm)

LEMMA WindowedStep ==
  ASSUME Windowed, [WindowsNext]_wm
  PROVE  Windowed' /\ (wm' = wm \/ Good(wm, wm'))
<1>1. TypeOK' /\ Tagged(wm')  BY TaggedStep DEF Windowed
<1>2. wm' = wm \/ Good(wm, wm')
  <2> USE DEF Windowed
  <2>1. CASE \E c \in Clients : ClientEvent(c)  BY <2>1, ClientEventGood
  <2>2. CASE TagCommand  BY <2>2, TagCommandKept, KeptGood DEF Steady
  <2>3. CASE StackCommand  BY <2>3, StackCommandGood
  <2>4. CASE MonitorCommand  BY <2>4, MonitorCommandGood
  <2> QED  BY <2>1, <2>2, <2>3, <2>4 DEF WindowsNext
<1>3. Steady(wm') /\ Settled(wm')
  <2>1. CASE wm' = wm  BY <2>1 DEF Windowed
  <2>2. CASE Good(wm, wm')  BY <2>2 DEF Good
  <2> QED  BY <1>2, <2>1, <2>2
<1>4. Tagged(wm)' /\ Steady(wm)' /\ Settled(wm)'
  BY <1>1, <1>3 DEF Tagged, Steady, Settled
<1> QED  BY <1>1, <1>2, <1>4 DEF Windowed

LEMMA WindowedAlways == Spec => []Windowed
<1>1. WindowsInit => Windowed  BY TaggedStart, SteadyStart DEF Windowed
<1>2. Windowed /\ [WindowsNext]_wm => Windowed'  BY WindowedStep
<1> QED  BY <1>1, <1>2, PTL DEF Spec

(* The taskbars are told the truth, with any rules, tags, outputs, dialogs and
   bindings: a mapped window has a handle and no other has, and the one marked
   active is the one that has the keyboard.  toplevel_focus, toplevel_map and
   toplevel_unmap are all that changes either. *)
THEOREM TaskbarsAreTold == Spec => []TaskbarFollowsKeyboard
<1>1. Windowed => TaskbarFollowsKeyboard
  BY DEF Windowed, Steady, Attended, Marked, TaskbarFollowsKeyboard
<1> QED  BY <1>1, WindowedAlways, PTL

(* Both lists hold the mapped windows, each once, if no binding moves a window
   up the stack: a movestack -1 of the last tile drops it from the tiling
   order. *)
THEOREM ListsAgree ==
  ASSUME -1 \notin StackSteps
  PROVE  Spec => []BothListsHoldTheMapped
<1>1. Windowed => BothListsHoldTheMapped
  BY DEF Windowed, Steady, Settled, BothListsHoldTheMapped
<1> QED  BY <1>1, WindowedAlways, PTL

(* What is drawn is what the tags say, for any number of windows, tags and
   outputs.  A window that movestack -1 dropped is not arranged any more; and
   where a modal dialog can take the focus to another output, the handlers
   arrange that one instead of the one they changed. *)
THEOREM ScreenShowsTheTags ==
  ASSUME -1 \notin StackSteps, Modal = {} \/ OneMonitor
  PROVE  Spec => []ShownIffVisible
<1>1. Windowed => ShownIffVisible
  BY DEF Windowed, Settled, Drawn, ShownIffVisible
<1> QED  BY <1>1, WindowedAlways, PTL

(* The keyboard types into the top window of its monitor.  Modal dialogs are
   excluded: focusing a window whose dialog has the keyboard already raises
   neither, although the window may be in front by then, because it mapped or
   was sent there while it was out of view. *)
THEOREM KeyboardStaysOnTop ==
  ASSUME -1 \notin StackSteps, Modal = {}
  PROVE  Spec => []KeyboardIsOnTop
<1>1. Windowed => KeyboardIsOnTop
  BY DEF Windowed, Settled, Foremost, OnTop, KeyboardIsOnTop
<1> QED  BY <1>1, WindowedAlways, PTL

(* With one monitor the keyboard is always on the top of the view. *)
THEOREM KeyboardIsInView ==
  ASSUME -1 \notin StackSteps, Modal = {}, OneMonitor
  PROVE  Spec => []KeyboardFollowsView
<1>1. Windowed => KeyboardFollowsView
  BY DEF Windowed, Settled, Foremost, InFront, KeyboardFollowsView
<1> QED  BY <1>1, WindowedAlways, PTL

(* The innermost dialog is its own top. *)
LEMMA TopOfUnblocked ==
  ASSUME NEW s, NEW c \in Clients, ModalChild(s, c) = c
  PROVE  client_modal_top(s, c) = c
<1>1. c \in Dialogs(s, c)  BY DEF Dialogs
<1>2. \A d \in Dialogs(s, c) : d = c
  <2> SUFFICES ASSUME NEW d \in Dialogs(s, c)  PROVE d \in {c}
    OBVIOUS
  <2>1. {c} \in SUBSET Clients /\ c \in {c} /\ \A x \in {c} : ModalChild(s, x) \in {c}
    OBVIOUS
  <2> HIDE DEF Dialogs
  <2>2. \A D \in SUBSET Clients :
          (c \in D /\ \A x \in D : ModalChild(s, x) \in D) => d \in D
    BY DEF Dialogs
  <2> QED  BY <2>1, <2>2
<1> QED  BY <1>1, <1>2 DEF client_modal_top

(* What KeyboardGoesToTheDialog says of a step. *)
DialogHasIt ==
  wm'.kbd # wm.kbd /\ wm'.kbd \in Clients => client_modal_top(wm', wm'.kbd) = wm'.kbd

(* Wherever the keyboard goes, it goes to the innermost modal dialog in view:
   for dialogs of dialogs, on any monitors, and whichever handler moves it. *)
THEOREM DialogsGetTheKeyboard == Spec => KeyboardGoesToTheDialog
<1>1. Windowed /\ [WindowsNext]_wm => [DialogHasIt]_wm
  <2> SUFFICES ASSUME Windowed, [WindowsNext]_wm, wm'.kbd # wm.kbd, wm'.kbd \in Clients
               PROVE  client_modal_top(wm', wm'.kbd) = wm'.kbd
    BY DEF DialogHasIt
  <2>1. Unblocked(wm')  BY WindowedStep DEF Good
  <2> QED  BY <2>1, TopOfUnblocked DEF Unblocked
<1> QED  BY <1>1, WindowedAlways, PTL DEF Spec, KeyboardGoesToTheDialog, DialogHasIt

(* What ActivateBringsIntoView says of a step. *)
AllActivated == \A c \in Clients : client_activate(c) => Visible(wm', c, wm.mon[c])

(* client_activate brings the window into view, whichever monitor and tags are
   selected: a window that is on a monitor has a tag, so the view it asks for
   is never the empty one that layout_view takes for the previous view. *)
THEOREM ActivationShows == Spec => ActivateBringsIntoView
<1> DEFINE Inv == TypeOK /\ Tagged(wm)
<1>1. WindowsInit => Inv  BY TaggedStart
<1>2. Inv /\ [WindowsNext]_wm => Inv'  BY TaggedStep DEF Tagged
<1>3. Inv /\ [WindowsNext]_wm => [AllActivated]_wm  BY ActivateShows DEF AllActivated
<1> QED  BY <1>1, <1>2, <1>3, PTL DEF Spec, ActivateBringsIntoView, AllActivated
=============================================================================
