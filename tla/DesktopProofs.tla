---------------------------- MODULE DesktopProofs ----------------------------
(***************************************************************************)
(* What is proved of the desktop: no picture shows a private window unless *)
(* masking it failed, the trays of the bars are painted as they are, every *)
(* menu asked for is answered once, with the row that was clicked, every   *)
(* place that the prompt keeps is inside what it is a place of, and the    *)
(* reader of standard input implements StatusLine.                         *)
(***************************************************************************)
EXTENDS Privacy, Tray, TrayMenu, Prompt, StatusInput, ListProofs, FiniteSetTheorems, TLAPS

-----------------------------------------------------------------------------
(* What pictures show of private windows, for any windows, outputs, sources and
   any number of frames, whether or not the masks fit their list. *)

Bar == [up : BOOLEAN, names : PWindows \cup {NoWindow}, shared : BOOLEAN, whole : BOOLEAN]

(* A bar that shows the title of a private window has a second title for
   others, unless it lacked a buffer: every change of what is private draws the
   bars, and the masks of the bars rest on it. *)
IsCurrent(b, priv) == b.up /\ b.whole /\ b.names \in priv => b.shared

PrivacyInv ==
  /\ isprivate \subseteq PWindows
  /\ bar \in [POutputs -> Bar]
  /\ focused \in [POutputs -> PWindows \cup {NoWindow}]
  /\ drawn \in [POutputs -> SUBSET PWindows]
  /\ \A o \in POutputs : IsCurrent(bar[o], isprivate)

LEMMA PrivacyStart == PrivacyInit => PrivacyInv
<1> SUFFICES ASSUME PrivacyInit PROVE PrivacyInv
  OBVIOUS
<1>1. bar = [o \in POutputs |-> [up |-> TRUE, names |-> NoWindow, shared |-> FALSE, whole |-> TRUE]]
  BY DEF PrivacyInit
<1>2. [up |-> TRUE, names |-> NoWindow, shared |-> FALSE, whole |-> TRUE] \in Bar
  BY DEF Bar
<1>3. \A o \in POutputs : bar[o].names \notin isprivate
  BY <1>1, PrivacyAssumption DEF PrivacyInit
<1> QED
  BY <1>1, <1>2, <1>3 DEF PrivacyInit, PrivacyInv, IsCurrent

-----------------------------------------------------------------------------
(* One bar, however its drawing goes. *)
LEMMA DrawnBarIsCurrent ==
  ASSUME NEW b \in Bar, NEW w \in PWindows \cup {NoWindow}, NEW priv,
         NEW c \in bar_draw(b, w, priv)
  PROVE  c \in Bar /\ IsCurrent(c, priv)
<1>0. b = [up |-> b.up, names |-> b.names, shared |-> b.shared, whole |-> b.whole]
      /\ b.up \in BOOLEAN /\ b.names \in PWindows \cup {NoWindow} /\ b.whole \in BOOLEAN
  BY DEF Bar
<1> DEFINE isp == w \in priv
<1>1. CASE c = [b EXCEPT !.shared = FALSE] /\ ~b.up
  <2>1. c = [up |-> b.up, names |-> b.names, shared |-> FALSE, whole |-> b.whole]
    BY <1>0, <1>1
  <2>2. c.up = b.up
    BY <2>1
  <2> QED
    BY <1>0, <1>1, <2>1, <2>2 DEF Bar, IsCurrent
<1>2. CASE c = [b EXCEPT !.names = w, !.shared = isp, !.whole = TRUE]
  <2> HIDE DEF isp
  <2>1. c = [up |-> b.up, names |-> w, shared |-> isp, whole |-> TRUE]
    BY <1>0, <1>2
  <2>2. c.names = w /\ c.shared = isp
    BY <2>1, Zenon
  <2>3. isp \in BOOLEAN
    BY DEF isp
  <2>4. c \in Bar
    BY <1>0, <2>1, <2>3 DEF Bar
  <2>5. IsCurrent(c, priv)
    BY <2>2 DEF IsCurrent, isp
  <2> QED
    BY <2>4, <2>5
<1>3. CASE c = [b EXCEPT !.names = w, !.shared = FALSE, !.whole = ~isp]
  <2> DEFINE all == ~isp
  <2> HIDE DEF isp, all
  <2>1. c = [up |-> b.up, names |-> w, shared |-> FALSE, whole |-> all]
    BY <1>0, <1>3 DEF all
  <2>2. c.names = w /\ c.whole = all
    BY <2>1, Zenon
  <2>3. all \in BOOLEAN
    BY DEF all
  <2>4. c \in Bar
    BY <1>0, <2>1, <2>3 DEF Bar
  <2>5. IsCurrent(c, priv)
    BY <2>2 DEF IsCurrent, isp, all
  <2> QED
    BY <2>4, <2>5
<1>4. CASE c = [b EXCEPT !.shared = FALSE, !.whole = FALSE]
  <2>1. c = [up |-> b.up, names |-> b.names, shared |-> FALSE, whole |-> FALSE]
    BY <1>0, <1>4
  <2> QED
    BY <1>0, <2>1 DEF Bar, IsCurrent
<1> QED
  BY <1>1, <1>2, <1>3, <1>4 DEF bar_draw

(* All of them, after windows or what is private have changed. *)
LEMMA DrawnBarsAreCurrent ==
  ASSUME NEW bs \in [POutputs -> Bar], bar_draw_all(bs, focused', isprivate'),
         focused' \in [POutputs -> PWindows \cup {NoWindow}]
  PROVE  /\ bar' \in [POutputs -> Bar]
         /\ \A o \in POutputs : IsCurrent(bar'[o], isprivate')
<1>1. \A o \in POutputs : bar'[o] \in bar_draw(bs[o], focused'[o], isprivate')
  BY DEF bar_draw_all
<1>2. \A o \in POutputs : bar'[o] \in Bar /\ IsCurrent(bar'[o], isprivate')
  BY <1>1, DrawnBarIsCurrent
<1>3. bar' = [o \in POutputs |-> bar'[o]]
  BY DEF bar_draw_all
<1> QED
  BY <1>2, <1>3

LEMMA PrivacyStep == PrivacyInv /\ [PrivacyNext]_privacy_vars => PrivacyInv'
<1> SUFFICES ASSUME PrivacyInv, [PrivacyNext]_privacy_vars
             PROVE  PrivacyInv'
  OBVIOUS
<1>0. ASSUME UNCHANGED <<isprivate, drawn, focused, bar>> PROVE PrivacyInv'
  BY <1>0 DEF PrivacyInv
<1>1. ASSUME NEW o \in POutputs, WindowsChange(o) PROVE PrivacyInv'
  <2>1. PICK ws \in SUBSET PWindows : drawn' = [drawn EXCEPT ![o] = ws]
    BY <1>1 DEF WindowsChange
  <2>2. drawn' \in [POutputs -> SUBSET PWindows] /\ drawn'[o] = ws
    BY <2>1 DEF PrivacyInv
  <2>3. PICK w \in drawn'[o] \cup {NoWindow} : focused' = [focused EXCEPT ![o] = w]
    BY <1>1 DEF WindowsChange
  <2>4. focused' \in [POutputs -> PWindows \cup {NoWindow}]
    BY <2>2, <2>3 DEF PrivacyInv
  <2>5. isprivate' = isprivate /\ bar_draw_all(bar, focused', isprivate')
    BY <1>1 DEF WindowsChange
  <2> QED
    BY <2>2, <2>4, <2>5, DrawnBarsAreCurrent DEF PrivacyInv
<1>2. ASSUME NEW bs \in [POutputs -> Bar], bar_draw_all(bs, focused', isprivate'),
             UNCHANGED <<focused, drawn>>, isprivate' \subseteq PWindows
      PROVE  PrivacyInv'
  BY <1>2, DrawnBarsAreCurrent DEF PrivacyInv
<1>3. ASSUME NEW o \in POutputs, privacy_toggle(o) PROVE PrivacyInv'
  <2>1. isprivate' \subseteq PWindows /\ bar_draw_all(bar, focused', isprivate')
    BY <1>3 DEF privacy_toggle, PrivacyInv
  <2>2. UNCHANGED <<focused, drawn>>
    BY <1>3 DEF privacy_toggle
  <2> QED
    BY <1>2, <2>1, <2>2 DEF PrivacyInv
<1>4. ASSUME NEW o \in POutputs, bar_toggle(o) PROVE PrivacyInv'
  <2> DEFINE bs == [bar EXCEPT ![o].up = ~@]
  <2>1. bar[o] = [up |-> bar[o].up, names |-> bar[o].names,
                  shared |-> bar[o].shared, whole |-> bar[o].whole]
        /\ bar[o] \in Bar
    BY DEF PrivacyInv, Bar
  <2>2. [bar[o] EXCEPT !.up = ~@] \in Bar
    BY <2>1 DEF Bar
  <2>3. bs \in [POutputs -> Bar]
    BY <2>2 DEF PrivacyInv
  <2>4. bar_draw_all(bs, focused', isprivate') /\ UNCHANGED <<focused, drawn, isprivate>>
    BY <1>4 DEF bar_toggle
  <2> HIDE DEF bs
  <2> QED
    BY <1>2, <2>3, <2>4 DEF PrivacyInv
<1>5. CASE AlwaysPrivateChanges
  <2>1. isprivate' \subseteq PWindows /\ bar_draw_all(bar, focused', isprivate')
        /\ UNCHANGED <<focused, drawn>>
    BY <1>5 DEF AlwaysPrivateChanges
  <2> QED
    BY <1>2, <2>1 DEF PrivacyInv
<1>6. ASSUME NEW s \in Sources,
             privacy_shield(s) \/ privacy_handle_shield_destroy(s) \/ privacy_copy_frame(s)
      PROVE  PrivacyInv'
  BY <1>0, <1>6 DEF privacy_shield, privacy_handle_shield_destroy, privacy_copy_frame
<1>7. ASSUME NEW o \in POutputs, Commit(o) \/ \E f \in Frames : FrameRequested(f, o)
      PROVE  PrivacyInv'
  BY <1>0, <1>7 DEF Commit, FrameRequested
<1>8. CASE UNCHANGED privacy_vars
  BY <1>0, <1>8 DEF privacy_vars
<1> QED
  BY <1>1, <1>3, <1>4, <1>5, <1>6, <1>7, <1>8 DEF PrivacyNext

-----------------------------------------------------------------------------
(* A part of a private window that a masked picture may show. *)
Uncovered(part) ==
  /\ part[2] = "bar"
  /\ \E o \in POutputs : part[1] \in TitleShown(o) /\ ~bar[o].whole

(* What a copy of an output is left with once it is masked. *)
LEMMA MaskedCopy ==
  ASSUME PrivacyInv, NEW o \in POutputs,
         NEW p \in Shown(o) \ privacy_private_boxes(o), p[1] \in isprivate
  PROVE  Uncovered(p)
<1> DEFINE boxes == PartsOf(drawn[o] \cap isprivate)
                      \cup (IF bar[o].shared THEN {<<bar[o].names, "bar">>} ELSE {})
<1>1. privacy_private_boxes(o) = IF Cardinality(boxes) > MAXBOXES THEN Shown(o) ELSE boxes
  BY DEF privacy_private_boxes
<1>2. p \in Shown(o) /\ p \notin boxes
  BY <1>1
<1>3. CASE p \in drawn[o] \X {"surface"}
  BY <1>2, <1>3 DEF PartsOf
<1>4. CASE p \in (drawn[o] \cap Titled) \X {"title"}
  BY <1>2, <1>4 DEF PartsOf
<1>5. CASE p \in TitleShown(o) \X {"bar"}
  <2>1. p = <<bar[o].names, "bar">> /\ bar[o].up /\ p[1] \in TitleShown(o)
    BY <1>5 DEF TitleShown
  <2>2. ~bar[o].shared
    BY <1>2, <2>1
  <2>3. ~bar[o].whole
    BY <2>1, <2>2 DEF PrivacyInv, IsCurrent
  <2> QED
    BY <2>1, <2>3 DEF Uncovered
<1> QED
  BY <1>2, <1>3, <1>4, <1>5 DEF Shown, PartsOf

Masked ==
  picture' # picture =>
    \A part \in picture'.parts : part[1] \in isprivate =>
      \/ picture'.bare
      \/ /\ part[2] = "bar"
         /\ \E o \in POutputs : part[1] \in TitleShown(o) /\ ~bar[o].whole

LEMMA MaskedStep == PrivacyInv /\ [PrivacyNext]_privacy_vars => Masked
<1> SUFFICES ASSUME PrivacyInv, [PrivacyNext]_privacy_vars, picture' # picture,
                    NEW part \in picture'.parts, part[1] \in isprivate, ~picture'.bare
             PROVE  Uncovered(part)
  BY DEF Masked, Uncovered
<1>1. ASSUME NEW o \in POutputs, Commit(o)
      PROVE  Uncovered(part)
  <2>1. \/ picture' = [parts |-> Shown(o) \ privacy_private_boxes(o), bare |-> FALSE]
        \/ picture' = [parts |-> {}, bare |-> FALSE]
        \/ picture' = [parts |-> Shown(o), bare |-> TRUE]
    BY <1>1 DEF Commit, privacy_wipe
  <2>2. picture' # [parts |-> Shown(o), bare |-> TRUE]
    OBVIOUS
  <2>3. part \in Shown(o) \ privacy_private_boxes(o)
    BY <2>1, <2>2
  <2> QED
    BY <2>3, MaskedCopy
<1>2. ASSUME NEW s \in Sources \cap PWindows, privacy_copy_frame(s)
      PROVE  Uncovered(part)
  <2>1. picture' = [bare |-> FALSE, parts |-> {<<w, "surface">> : w \in {s} \ isprivate}]
    BY <1>2 DEF privacy_copy_frame
  <2>2. part \in {<<w, "surface">> : w \in {s} \ isprivate}
    BY <2>1
  <2> QED
    BY <2>2
<1>3. ASSUME NEW s \in Sources \ PWindows, privacy_copy_frame(s)
      PROVE  Uncovered(part)
  <2>1. picture' = [bare |-> FALSE, parts |-> Shown(s) \ privacy_private_boxes(s)]
    BY <1>3 DEF privacy_copy_frame
  <2>2. part \in Shown(s) \ privacy_private_boxes(s)
    BY <2>1
  <2>3. s \in POutputs
    BY PrivacyAssumption
  <2> QED
    BY <2>2, <2>3, MaskedCopy
<1> QED
  BY <1>1, <1>2, <1>3
     DEF PrivacyNext, privacy_vars, WindowsChange, privacy_toggle, AlwaysPrivateChanges,
         bar_toggle, privacy_shield, privacy_handle_shield_destroy, FrameRequested

(* Whatever fails, a picture shows a part of a window that is private at that
   moment only if the copy could be neither masked nor wiped, or the part is
   its title in a bar that lacked a buffer when it was last drawn. *)
THEOREM PicturesAreMasked == PrivacySpec => SharedIsMasked
<1>1. PrivacyInv /\ [PrivacyNext]_privacy_vars => [Masked]_privacy_vars
  BY MaskedStep
<1> QED
  BY <1>1, PrivacyStart, PrivacyStep, PTL DEF PrivacySpec, SharedIsMasked, Masked

-----------------------------------------------------------------------------
(* The trays of the bars. *)

(* What a tray shows of the item at an address is right. *)
IsRight(p, a) ==
  /\ p.of = busname[a]
  /\ \/ p.look = Look(a)
     \/ icon[a] = NoIcon /\ p.look \in Icons

TrayTypes ==
  /\ items \in Seq(Addresses) /\ trays \in Seq(Screens)
  /\ icon \in [Addresses -> Icons \cup {NoIcon}] /\ appid \in [Addresses -> BOOLEAN]

TrayInv ==
  /\ TrayTypes
  /\ painted = [s \in Screens |-> painted[s]]
  /\ PaintedTraysAreCurrent

(* Painting all of them makes them right, those where it fails aside. *)
LEMMA PaintedAnew ==
  ASSUME watcher_update_trays, TrayTypes'
  PROVE  TrayInv'
<1>1. PICK failed :
        painted' = [s \in Screens |->
                      IF Contains(trays', s) /\ s \notin failed THEN Looks' ELSE <<>>]
  BY DEF watcher_update_trays
<1>2. /\ painted' = [s \in Screens |-> painted'[s]]
      /\ \A s \in Screens : painted'[s] \in {Looks', <<>>}
  BY <1>1
<1>3. /\ DOMAIN Looks' = DOMAIN items'
      /\ \A i \in DOMAIN items' :
           Looks'[i].of = busname'[items'[i]] /\ Looks'[i].look = Look(items[i])'
  BY DEF Looks
<1>4. \A s \in ToSet(trays') : s \in Screens
  BY DEF TrayTypes, ToSet
<1>5. PaintedTraysAreCurrent'
  BY <1>2, <1>3, <1>4 DEF PaintedTraysAreCurrent
<1> QED
  BY <1>2, <1>5 DEF TrayInv

(* Where nothing is painted, what was right stays right. *)
LEMMA NotPaintedAnew ==
  ASSUME TrayInv, NotPainted, UNCHANGED <<items, trays>>, TrayTypes',
         \A p : \A a \in Addresses : IsRight(p, a) => IsRight(p, a)'
  PROVE  TrayInv'
<1>1. \A i \in DOMAIN items : items[i] \in Addresses
  BY DEF TrayInv, TrayTypes
<1>2. \A s \in ToSet(trays) : painted[s] # <<>> =>
        /\ DOMAIN painted[s] = DOMAIN items
        /\ \A i \in DOMAIN items : IsRight(painted[s][i], items[i])
  BY DEF TrayInv, PaintedTraysAreCurrent, IsRight
<1>3. \A s \in ToSet(trays) : painted[s] # <<>> =>
        \A i \in DOMAIN items : IsRight(painted[s][i], items[i])'
  BY <1>1, <1>2 DEF NotPainted, IsRight, Look
<1>4. PaintedTraysAreCurrent'
  BY <1>2, <1>3 DEF PaintedTraysAreCurrent, IsRight, NotPainted
<1> QED
  BY <1>4 DEF TrayInv, NotPainted

(* Nothing that is known of the items changes. *)
LEMMA NothingLearnt ==
  ASSUME TrayInv, UNCHANGED <<items, known, trays>>, watcher_update_trays \/ NotPainted
  PROVE  TrayInv'
<1>1. TrayTypes'
  BY DEF TrayInv, TrayTypes, known
<1>2. \A p : \A a \in Addresses : IsRight(p, a) => IsRight(p, a)'
  BY DEF IsRight, Look, known
<1> QED
  BY <1>1, <1>2, PaintedAnew, NotPaintedAnew

(* The memory at an address gets or loses an item. *)
LEMMA HoldsItemType ==
  ASSUME TrayInv, NEW a \in Addresses, NEW n, HoldsItem(a, n), items' \in Seq(Addresses),
         trays' = trays
  PROVE  TrayTypes'
BY DEF TrayInv, TrayTypes, HoldsItem

LEMMA TrayStep == TrayInv /\ [TrayNext]_tray_vars => TrayInv'
<1> SUFFICES ASSUME TrayInv, [TrayNext]_tray_vars
             PROVE  TrayInv'
  OBVIOUS
<1>0. TrayTypes
  BY DEF TrayInv
<1>1. ASSUME NEW n \in Names, watcher_respond_register_item(n)
      PROVE  TrayInv'
  <2>1. PICK a \in Addresses :
          /\ items' = <<a>> \o items /\ HoldsItem(a, n) /\ trays' = trays
          /\ watcher_update_trays
    BY <1>1 DEF watcher_respond_register_item
  <2>2. items' \in Seq(Addresses)
    BY <1>0, <2>1 DEF TrayTypes
  <2> QED
    BY <2>1, <2>2, HoldsItemType, PaintedAnew
<1>2. ASSUME NEW n \in Names, watcher_handle_name_owner_changed(n)
      PROVE  TrayInv'
  <2>1. PICK a \in watcher_find_item(n) :
          /\ items' = Without(items, a) /\ HoldsItem(a, NoName) /\ trays' = trays
          /\ watcher_update_trays
    BY <1>2 DEF watcher_handle_name_owner_changed
  <2>2. a \in Addresses
    BY <1>0 DEF TrayTypes, watcher_find_item, ToSet
  <2>3. items' \in Seq(Addresses)
    BY <1>0, <2>1, WithoutType DEF TrayTypes
  <2> QED
    BY <2>1, <2>2, <2>3, HoldsItemType, PaintedAnew
<1>3. ASSUME NEW n \in Names, item_handle_new_icon(n)
      PROVE  TrayInv'
  BY <1>3, NothingLearnt DEF item_handle_new_icon
<1>4. ASSUME NEW a \in Addresses, NEW request, NEW followups, FindsFreed(a, request, followups)
      PROVE  TrayInv'
  BY <1>4, NothingLearnt DEF FindsFreed, Answered, known
<1>5. ASSUME NEW a \in Addresses, item_handle_pixmap_ready(a)
      PROVE  TrayInv'
  <2>1. ASSUME NEW p \in Pixmaps, UNCHANGED <<items, busname, trays, appid>>,
               icon' = [icon EXCEPT ![a] = p],
               IF icon[a] = p THEN NotPainted ELSE watcher_update_trays
        PROVE  TrayInv'
    <3>1. TrayTypes'
      BY <1>0, <2>1 DEF TrayTypes, Icons
    <3>2. CASE icon[a] = p
      <4>1. icon' = icon
        BY <1>0, <2>1, <3>2 DEF TrayTypes
      <4> QED
        BY <2>1, <3>2, <4>1, NothingLearnt DEF known
    <3>3. CASE icon[a] # p
      BY <2>1, <3>1, <3>3, PaintedAnew
    <3> QED
      BY <3>2, <3>3
  <2>2. ASSUME UNCHANGED <<items, busname, trays, appid>>, NotPainted,
               icon' \in {icon, [icon EXCEPT ![a] = NoIcon]}
        PROVE  TrayInv'
    <3>1. TrayTypes'
      BY <1>0, <2>2 DEF TrayTypes
    <3>2. ASSUME NEW p, NEW b \in Addresses, IsRight(p, b)
          PROVE  IsRight(p, b)'
      <4>1. CASE icon'[b] = icon[b]
        BY <2>2, <3>2, <4>1 DEF IsRight, Look
      <4>2. CASE icon'[b] # icon[b]
        <5>1. icon'[b] = NoIcon /\ icon[b] # NoIcon
          BY <1>0, <2>2, <4>2 DEF TrayTypes
        <5>2. p.look = icon[b] /\ icon[b] \in Icons
          BY <1>0, <3>2, <5>1 DEF IsRight, Look, TrayTypes
        <5> QED
          BY <2>2, <3>2, <5>1, <5>2 DEF IsRight
      <4> QED
        BY <4>1, <4>2
    <3> QED
      BY <2>2, <3>1, <3>2, NotPaintedAnew
  <2> QED
    BY <1>4, <1>5, <2>1, <2>2 DEF item_handle_pixmap_ready, Finds, Answered
<1>6. ASSUME NEW a \in Addresses, item_handle_theme_path_ready(a)
      PROVE  TrayInv'
  BY <1>4, <1>6, NothingLearnt DEF item_handle_theme_path_ready, Finds, Answered, known
<1>7. ASSUME NEW a \in Addresses, item_handle_icon_name_ready(a)
      PROVE  TrayInv'
  <2>1. ASSUME UNCHANGED <<items, trays, appid>>, icon' = [icon EXCEPT ![a] = "themed"],
               watcher_update_trays
        PROVE  TrayInv'
    <3>1. TrayTypes'
      BY <1>0, <2>1 DEF TrayTypes, Icons
    <3> QED
      BY <2>1, <3>1, PaintedAnew
  <2> QED
    BY <1>4, <1>7, <2>1, NothingLearnt
       DEF item_handle_icon_name_ready, Finds, Answered, known
<1>8. ASSUME NEW a \in Addresses, item_handle_id_ready(a)
      PROVE  TrayInv'
  <2>1. ASSUME UNCHANGED <<items, busname, trays, icon>>,
               appid' = [appid EXCEPT ![a] = TRUE],
               IF icon[a] = NoIcon THEN watcher_update_trays ELSE NotPainted
        PROVE  TrayInv'
    <3>1. TrayTypes'
      BY <1>0, <2>1 DEF TrayTypes
    <3>2. CASE icon[a] = NoIcon
      BY <2>1, <3>1, <3>2, PaintedAnew
    <3>3. CASE icon[a] # NoIcon
      <4>1. ASSUME NEW b \in Addresses PROVE Look(b)' = Look(b)
        <5>1. CASE b = a
          BY <2>1, <3>3, <5>1 DEF Look
        <5>2. CASE b # a
          <6>1. appid'[b] = appid[b]
            BY <1>0, <2>1, <5>2 DEF TrayTypes
          <6> QED
            BY <2>1, <6>1 DEF Look
        <5> QED
          BY <5>1, <5>2
      <4>2. \A p : \A b \in Addresses : IsRight(p, b) => IsRight(p, b)'
        BY <2>1, <4>1 DEF IsRight
      <4> QED
        BY <2>1, <3>1, <3>3, <4>2, NotPaintedAnew
    <3> QED
      BY <3>2, <3>3
  <2> QED
    BY <1>4, <1>8, <2>1, NothingLearnt DEF item_handle_id_ready, Finds, Answered, known
<1>9. ASSUME NEW s \in Screens, BarUpdate(s) \/ TrayDestroy(s)
      PROVE  TrayInv'
  <2>1. /\ painted' = [painted EXCEPT ![s] = <<>>] /\ UNCHANGED <<items, known>>
        /\ trays' = ToHead(trays, s) \/ trays' = Without(trays, s)
    BY <1>9 DEF BarUpdate, TrayDestroy
  <2>2. /\ trays' \in Seq(Screens)
        /\ ToSet(trays') \subseteq ToSet(trays) \cup {s}
    BY <1>0, <2>1, ToHeadType, ToHeadSet, WithoutType, WithoutSet DEF TrayTypes
  <2>3. /\ painted' = [t \in Screens |-> painted'[t]]
        /\ painted'[s] = <<>>
        /\ \A t \in Screens \ {s} : painted'[t] = painted[t]
    BY <2>1 DEF TrayInv
  <2>4. \A t \in ToSet(trays') : t \in Screens
    BY <2>2 DEF ToSet
  <2>5. PaintedTraysAreCurrent'
    <3>1. ASSUME NEW t \in ToSet(trays'), painted'[t] # <<>>
          PROVE  t \in ToSet(trays) /\ painted'[t] = painted[t]
      BY <2>2, <2>3, <2>4, <3>1
    <3> QED
      BY <2>1, <3>1 DEF TrayInv, PaintedTraysAreCurrent, known, Look
  <2> QED
    BY <1>0, <2>1, <2>2, <2>3, <2>5 DEF TrayInv, TrayTypes, known
<1>10. CASE UNCHANGED tray_vars
  BY <1>10, NothingLearnt DEF tray_vars, NotPainted
<1> QED
  BY <1>1, <1>2, <1>3, <1>5, <1>6, <1>7, <1>8, <1>9, <1>10 DEF TrayNext

(* Whatever programs register, send, answer and leave in whatever order, and
   whatever finds the memory of an item that is gone or of another one, what
   the last update of a tray painted are the items there are, as they look now,
   but for an item whose next icon could not be made. *)
THEOREM TraysStayCurrent == TraySpec => []PaintedTraysAreCurrent
<1>1. TrayInit => TrayInv
  BY DEF TrayInit, TrayInv, TrayTypes, PaintedTraysAreCurrent, ToSet
<1>2. TrayInv => PaintedTraysAreCurrent
  BY DEF TrayInv
<1> QED
  BY <1>1, <1>2, TrayStep, PTL DEF TraySpec

-----------------------------------------------------------------------------
(* The menus of the tray. *)

Menu == [phase : {"freed", "about", "layout", "shown"}, of : Items \cup {NoItem},
         level : Levels \cup {<<>>}]

(* The popup has the rows of the level its menu is at, and the cursor is on
   one of them or on none. *)
MenuInv ==
  /\ popup_menu \in MenuIds \cup {NoMenu}
  /\ menus \in [MenuIds -> Menu]
  /\ over \in 0 .. Len(labels) /\ Len(labels) \in Nat
  /\ popup_menu # NoMenu => /\ menus[popup_menu].level \in Levels
                            /\ labels = Rows(menus[popup_menu].level)
  /\ MenusAreAnsweredOnce

(* How many rows a level has. *)
LEMMA RowsOf ==
  ASSUME NEW level \in Levels
  PROVE  /\ Len(Rows(level)) \in Nat /\ Len(Rows(level)) <= Len(level)
         /\ \A i \in 1 .. Len(Rows(level)) : Rows(level)[i] = level[i].id
<1> DEFINE n == IF Len(level) < ITEMS_MAX THEN Len(level) ELSE ITEMS_MAX
<1>1. n \in Nat /\ n <= Len(level)  BY TrayMenuAssumption, LevelsAssumption
<1>2. Rows(level) = [i \in 1 .. n |-> level[i].id]  BY DEF Rows
<1> HIDE DEF n
<1>3. Len(Rows(level)) = n  BY <1>1, <1>2
<1> QED  BY <1>1, <1>2, <1>3

LEMMA FreedMenu == Freed \in Menu /\ Freed.phase = "freed"
BY DEF Freed, Menu

(* What remains of the menus when the popup's is freed, and one more. *)
LEMMA DismissAnswers ==
  ASSUME MenuInv, traypopup_dismiss
  PROVE  MenuInv'
<1>1. /\ popup_menu' = NoMenu /\ labels' = <<>> /\ over' = 0
      /\ popup_menu = NoMenu => menus' = menus
      /\ popup_menu # NoMenu => menus' = [menus EXCEPT ![popup_menu] = Freed]
  BY DEF traypopup_dismiss, traypopup_hide, menu_destroy
<1>2. /\ menus' \in [MenuIds -> Menu]
      /\ \A m \in MenuIds : menus'[m] = IF m = popup_menu THEN Freed ELSE menus[m]
  <2>1. NoMenu \notin MenuIds  BY TrayMenuAssumption
  <2> QED  BY <1>1, <2>1, FreedMenu DEF MenuInv
<1>4. MenusAreAnsweredOnce'
  <2> SUFFICES ASSUME NEW m \in MenuIds
               PROVE  menus'[m].phase = "shown" <=> popup_menu' = m
    BY DEF MenusAreAnsweredOnce
  <2>1. NoMenu \notin MenuIds  BY TrayMenuAssumption
  <2>2. Freed.phase = "freed"  BY DEF Freed
  <2> QED  BY <1>1, <1>2, <2>1, <2>2 DEF MenuInv, MenusAreAnsweredOnce
<1> QED  BY <1>1, <1>2, <1>4 DEF MenuInv

(* A level is shown by the popup, for the one menu it then answers. *)
LEMMA PresentAnswers ==
  ASSUME MenuInv, NEW m \in MenuIds, NEW level \in Levels, traypopup_present(menus, m, level),
         menus[m].phase # "shown" \/ popup_menu = m
  PROVE  MenuInv'
<1> DEFINE rest == IF popup_menu \in {NoMenu, m} THEN menus ELSE menu_destroy(menus, popup_menu)
<1>0. NoMenu \notin MenuIds /\ Freed.phase = "freed"  BY TrayMenuAssumption, FreedMenu
<1>1. /\ rest \in [MenuIds -> Menu]
      /\ rest[m] = menus[m]
      /\ \A k \in MenuIds : rest[k] = IF k = popup_menu /\ k # m THEN Freed ELSE menus[k]
  BY <1>0, FreedMenu DEF MenuInv, menu_destroy
<1>2. \A k \in MenuIds \ {m} : rest[k].phase # "shown"
  BY <1>0, <1>1 DEF MenuInv, MenusAreAnsweredOnce
<1>4. \/ /\ menus' = Showing(rest, m, level) /\ popup_menu' = m /\ labels' = Rows(level)
         /\ over' \in 0 .. Len(Rows(level))
      \/ menus' = menu_destroy(rest, m) /\ traypopup_hide
  BY DEF traypopup_present
<1> HIDE DEF rest
<1>5. CASE /\ menus' = Showing(rest, m, level) /\ popup_menu' = m /\ labels' = Rows(level)
           /\ over' \in 0 .. Len(Rows(level))
  <2> DEFINE up == [rest[m] EXCEPT !.phase = "shown", !.level = level]
  <2>1. up \in Menu /\ up.phase = "shown" /\ up.level = level
    <3>1. rest[m] \in Menu  BY <1>1
    <3> QED  BY <3>1 DEF Menu
  <2>2. menus' = [rest EXCEPT ![m] = up]  BY <1>5 DEF Showing
  <2> HIDE DEF up
  <2>3. /\ menus' \in [MenuIds -> Menu] /\ menus'[m] = up
        /\ \A k \in MenuIds \ {m} : menus'[k] = rest[k]
    BY <1>1, <2>1, <2>2
  <2>4. menus'[m].phase = "shown" /\ menus'[m].level = level  BY <2>1, <2>3
  <2>5. MenusAreAnsweredOnce'
    <3> SUFFICES ASSUME NEW k \in MenuIds
                 PROVE  menus'[k].phase = "shown" <=> popup_menu' = k
      BY DEF MenusAreAnsweredOnce
    <3> QED  BY <1>2, <1>5, <2>3, <2>4
  <2>7. Len(Rows(level)) \in Nat  BY RowsOf
  <2> QED  BY <1>5, <2>3, <2>4, <2>5, <2>7 DEF MenuInv
<1>6. CASE menus' = menu_destroy(rest, m) /\ traypopup_hide
  <2>1. /\ popup_menu' = NoMenu /\ labels' = <<>> /\ over' = 0
        /\ menus' = [rest EXCEPT ![m] = Freed]
    BY <1>6 DEF traypopup_hide, menu_destroy
  <2>2. /\ menus' \in [MenuIds -> Menu] /\ menus'[m] = Freed
        /\ \A k \in MenuIds \ {m} : menus'[k] = rest[k]
    BY <1>1, <2>1, FreedMenu
  <2>4. MenusAreAnsweredOnce'
    <3> SUFFICES ASSUME NEW k \in MenuIds
                 PROVE  menus'[k].phase = "shown" <=> popup_menu' = k
      BY DEF MenusAreAnsweredOnce
    <3> QED  BY <1>0, <1>2, <2>1, <2>2
  <2> QED  BY <2>1, <2>2, <2>4 DEF MenuInv
<1> QED  BY <1>4, <1>5, <1>6

(* A menu that the popup does not show may change phase or go. *)
LEMMA OtherMenus ==
  ASSUME MenuInv, NEW m \in MenuIds, NEW up \in Menu, menus' = [menus EXCEPT ![m] = up],
         menus[m].phase # "shown", up.phase # "shown",
         UNCHANGED menupopupvars
  PROVE  MenuInv'
<1>1. UNCHANGED <<popup_menu, labels, over>>  BY DEF menupopupvars
<1>2. /\ menus' \in [MenuIds -> Menu] /\ menus'[m] = up
      /\ \A k \in MenuIds \ {m} : menus'[k] = menus[k]
  BY DEF MenuInv
<1>3. popup_menu # m  BY DEF MenuInv, MenusAreAnsweredOnce
<1>4. MenusAreAnsweredOnce'
  <2> SUFFICES ASSUME NEW k \in MenuIds
               PROVE  menus'[k].phase = "shown" <=> popup_menu' = k
    BY DEF MenusAreAnsweredOnce
  <2> QED  BY <1>1, <1>2, <1>3 DEF MenuInv, MenusAreAnsweredOnce
<1> QED  BY <1>1, <1>2, <1>3, <1>4 DEF MenuInv

LEMMA MenuStep == MenuInv /\ [TrayMenuNext]_traymenu_vars => MenuInv'
<1> SUFFICES ASSUME MenuInv, [TrayMenuNext]_traymenu_vars
             PROVE  MenuInv'
  OBVIOUS
<1>0. Freed \in Menu /\ Freed.phase = "freed"  BY FreedMenu
<1>1. ASSUME UNCHANGED <<menus, popup_menu, labels>>, over' \in 0 .. Len(labels)
      PROVE  MenuInv'
  BY <1>1 DEF MenuInv, MenusAreAnsweredOnce
<1>2. ASSUME UNCHANGED <<menus, menupopupvars>>
      PROVE  MenuInv'
  <2>1. over \in 0 .. Len(labels)  BY DEF MenuInv
  <2> QED  BY <1>1, <1>2, <2>1 DEF menupopupvars
<1>3. ASSUME NEW i \in Items, item_handle_menu_path_ready(i) \/ ItemUnregistered(i)
      PROVE  MenuInv'
  BY <1>2, <1>3 DEF item_handle_menu_path_ready, ItemUnregistered
<1>4. ASSUME NEW i \in Items, menu_show(i)
      PROVE  MenuInv'
  <2> DEFINE up == [Freed EXCEPT !.phase = "about", !.of = i]
  <2>1. PICK m \in MenuIds : menus[m].phase = "freed" /\ menus' = [menus EXCEPT ![m] = up]
    BY <1>4 DEF menu_show
  <2>2. UNCHANGED menupopupvars  BY <1>4 DEF menu_show
  <2>3. up \in Menu /\ up.phase = "about"  BY DEF Freed, Menu
  <2> HIDE DEF up
  <2> QED  BY <2>1, <2>2, <2>3, OtherMenus
<1>5. ASSUME NEW m \in MenuIds, menu_handle_about_to_show(m)
      PROVE  MenuInv'
  <2> DEFINE up == [menus[m] EXCEPT !.phase = "layout"]
  <2>1. /\ menus[m].phase = "about" /\ menus' = [menus EXCEPT ![m] = up]
        /\ UNCHANGED menupopupvars
    BY <1>5 DEF menu_handle_about_to_show
  <2>2. menus[m] \in Menu  BY DEF MenuInv
  <2>4. up \in Menu /\ up.phase = "layout"  BY <2>2 DEF Menu
  <2> HIDE DEF up
  <2> QED  BY <2>1, <2>4, OtherMenus
<1>6. ASSUME NEW m \in MenuIds, NEW level \in Levels, menu_present(menus, m, level),
             menus[m].phase # "shown" \/ popup_menu = m
      PROVE  MenuInv'
  <2>1. CASE level # <<>>
    BY <1>6, <2>1, PresentAnswers DEF menu_present
  <2>2. CASE level = <<>> /\ popup_menu = m
    <3>1. popup_menu # NoMenu  BY <2>2, TrayMenuAssumption
    <3> QED  BY <1>6, <2>2, <3>1, DismissAnswers DEF menu_present, traypopup_dismiss
  <2>3. CASE level = <<>> /\ popup_menu # m
    BY <1>0, <1>6, <2>3, OtherMenus DEF menu_present, menu_destroy
  <2> QED  BY <2>1, <2>2, <2>3
<1>7. ASSUME NEW m \in MenuIds, menu_handle_layout_ready(m)
      PROVE  MenuInv'
  <2>1. menus[m].phase = "layout"  BY <1>7 DEF menu_handle_layout_ready
  <2>2. CASE menus' = menu_destroy(menus, m) /\ UNCHANGED menupopupvars
    BY <1>0, <2>1, <2>2, OtherMenus DEF menu_destroy
  <2>3. CASE ~(menus' = menu_destroy(menus, m) /\ UNCHANGED menupopupvars)
    <3>1. PICK raw \in Layouts : Extract(raw).ok /\ menu_present(menus, m, Extract(raw).level)
      BY <1>7, <2>3 DEF menu_handle_layout_ready
    <3>2. Extract(raw).level \in Levels  BY <3>1, LevelsAssumption
    <3> QED  BY <1>6, <2>1, <3>1, <3>2
  <2> QED  BY <2>2, <2>3
<1>8. CASE traypopup_click
  <2> DEFINE level == menus[popup_menu].level
  <2>1. popup_menu # NoMenu /\ menu_pick(over)  BY <1>8 DEF traypopup_click
  <2>2. popup_menu \in MenuIds /\ level \in Levels  BY <2>1 DEF MenuInv
  <2>3. CASE traypopup_dismiss  BY <2>3, DismissAnswers
  <2>4. CASE ~traypopup_dismiss
    <3>1. /\ ~(over = 0 \/ over > Len(level)) /\ level[over].kind = "sub"
          /\ menu_present(menus, popup_menu, level[over].sub)
      BY <2>1, <2>4 DEF menu_pick
    <3>2. over \in 1 .. Len(level)
      <4>1. over \in Nat /\ Len(level) \in Nat  BY <2>2, LevelsAssumption DEF MenuInv
      <4> HIDE DEF level
      <4> QED  BY <3>1, <4>1
    <3>3. level[over].sub \in Levels  BY <2>2, <3>1, <3>2, LevelsAssumption
    <3> QED  BY <1>6, <2>2, <3>1, <3>3
  <2> QED  BY <2>3, <2>4
<1>9. CASE traypopup_motion
  BY <1>1, <1>9 DEF traypopup_motion
<1>10. CASE KeyDismisses
  BY <1>10, DismissAnswers DEF KeyDismisses
<1>11. CASE MenuLockChanges
  BY <1>2, <1>11, DismissAnswers DEF MenuLockChanges
<1>12. CASE UNCHANGED traymenu_vars
  BY <1>2, <1>12 DEF traymenu_vars
<1> QED
  BY <1>3, <1>4, <1>5, <1>7, <1>8, <1>9, <1>10, <1>11, <1>12 DEF TrayMenuNext

LEMMA MenuStart == TrayMenuInit => MenuInv
<1> SUFFICES ASSUME TrayMenuInit  PROVE MenuInv
  OBVIOUS
<1>1. /\ menus = [m \in MenuIds |-> Freed] /\ popup_menu = NoMenu /\ labels = <<>> /\ over = 0
  BY DEF TrayMenuInit
<1>2. MenusAreAnsweredOnce
  BY <1>1, TrayMenuAssumption DEF MenusAreAnsweredOnce, Freed
<1> QED  BY <1>1, <1>2, FreedMenu DEF MenuInv

(* Any number of menus may be under way while the popup, the lock and the
   items change: the popup's menu is alive, and every menu that was presented
   is the popup's until it is freed, so that each gets its one menu_pick. *)
THEOREM EveryMenuIsAnswered == TrayMenuSpec => []MenusAreAnsweredOnce
<1>1. MenuInv => MenusAreAnsweredOnce  BY DEF MenuInv
<1> QED  BY <1>1, MenuStart, MenuStep, PTL DEF TrayMenuSpec

(* The "clicked" event that menu_pick sends names the row the cursor was on,
   whatever levels and menus have replaced each other in the popup. *)
THEOREM ClicksAreExact == TrayMenuSpec => ClickSendsTheRowClicked
<1> DEFINE Exact == clicked' # clicked => over \in 1 .. Len(labels) /\ clicked' = labels[over]
<1>1. MenuInv /\ [TrayMenuNext]_traymenu_vars => [Exact]_traymenu_vars
  <2> SUFFICES ASSUME MenuInv, TrayMenuNext, clicked' # clicked
               PROVE  over \in 1 .. Len(labels) /\ clicked' = labels[over]
    BY DEF traymenu_vars
  <2>1. traypopup_click
    BY DEF TrayMenuNext, item_handle_menu_path_ready, ItemUnregistered, menu_show,
           menu_handle_about_to_show, menu_handle_layout_ready, traypopup_motion,
           KeyDismisses, MenuLockChanges
  <2> DEFINE level == menus[popup_menu].level
  <2>2. popup_menu # NoMenu /\ menu_pick(over)  BY <2>1 DEF traypopup_click
  <2>3. ~(over = 0 \/ over > Len(level)) /\ clicked' = level[over].id
    BY <2>2 DEF menu_pick
  <2>4. level \in Levels /\ labels = Rows(level) /\ over \in 0 .. Len(labels)
    BY <2>2 DEF MenuInv
  <2> HIDE DEF level
  <2>5. /\ Len(labels) \in Nat
        /\ \A i \in 1 .. Len(labels) : labels[i] = level[i].id
    BY <2>4, RowsOf
  <2>6. over \in 1 .. Len(labels)  BY <2>3, <2>4, <2>5
  <2> QED  BY <2>3, <2>5, <2>6
<1> QED  BY <1>1, MenuStart, MenuStep, PTL DEF TrayMenuSpec, ClickSendsTheRowClicked

-----------------------------------------------------------------------------
(* The prompt. *)

(* A cursor that rests on the start of a character, or at the end. *)
RestsOn(b, i) == i \in 0 .. Len(b) /\ (i < Len(b) => b[i + 1] # Cont)

(* Lines stay lines; the places are inside, and while the prompt is open those
   in the list and the history too. *)
PromptInv ==
  /\ buffer \in Line /\ RestsOn(buffer, cursor)
  /\ matches \in Seq(Line) /\ history \in Seq(Line)
  /\ selection \in Nat \ {0} /\ history_pos \in Nat /\ history_size \in Nat
  /\ prompt => /\ history_pos <= Len(history)
               /\ selection <= Len(matches) \/ matches = <<>>

LEMMA LineIs ==
  ASSUME NEW b \in Line
  PROVE  /\ b \in Seq(Bytes) /\ Len(b) \in Nat /\ DOMAIN b = 1 .. Len(b)
         /\ b # <<>> => b[1] # Cont
  BY DEF Line

(* The beginning of a line is one. *)
LEMMA Beginning ==
  ASSUME NEW b \in Line, NEW n \in 0 .. Len(b)
  PROVE  LET h == SubSeq(b, 1, n)
         IN  /\ h \in Line /\ Len(h) = n
             /\ \A i \in 1 .. n : h[i] = b[i]
<1> DEFINE h == SubSeq(b, 1, n)
<1>1. b \in Seq(Bytes) /\ Len(b) \in Nat /\ (b # <<>> => b[1] # Cont)  BY LineIs
<1>2. \A i \in 1 .. n : b[i] \in Bytes
  <2>1. \A i \in 1 .. n : i \in 1 .. Len(b)  BY <1>1
  <2> QED  BY <1>1, <2>1
<1>3. h \in Seq(Bytes) /\ Len(h) = n /\ \A i \in 1 .. n : h[i] = b[i]
  <2>1. n \in Int /\ 1 \in Int /\ n - 1 + 1 = n  BY <1>1
  <2>2. /\ h \in Seq(Bytes)
        /\ Len(h) = IF 1 <= n THEN n - 1 + 1 ELSE 0
        /\ \A i \in 1 .. n - 1 + 1 : h[i] = b[1 + i - 1]
    BY <1>2, <2>1, SubSeqProperties
  <2>3. \A i \in 1 .. n : 1 + i - 1 = i  OBVIOUS
  <2>4. n >= 0  BY <1>1
  <2> HIDE DEF h
  <2> QED  BY <1>1, <2>1, <2>2, <2>3, <2>4
<1>4. h # <<>> => h[1] # Cont
  <2> HIDE DEF h
  <2>1. h # <<>> => Len(h) # 0  BY <1>3
  <2>2. n # 0 => 1 \in 1 .. n /\ Len(b) # 0  BY <1>1
  <2>3. n # 0 => b # <<>>  BY <2>2
  <2> QED  BY <1>1, <1>3, <2>1, <2>2, <2>3
<1> HIDE DEF h
<1>5. h \in Line  BY <1>3, <1>4 DEF Line
<1> QED  BY <1>3, <1>5 DEF h

(* A line in front of bytes, and bytes that start no character behind none,
   make a line. *)
LEMMA Joining ==
  ASSUME NEW h \in Line, NEW r \in Seq(Bytes), h = <<>> => r \in Line
  PROVE  /\ h \o r \in Line /\ Len(h \o r) = Len(h) + Len(r)
         /\ \A i \in 1 .. Len(h) + Len(r) :
              (h \o r)[i] = IF i <= Len(h) THEN h[i] ELSE r[i - Len(h)]
<1> DEFINE t == h \o r
<1>1. h \in Seq(Bytes) /\ Len(h) \in Nat /\ (h # <<>> => h[1] # Cont)  BY LineIs
<1>2. /\ t \in Seq(Bytes) /\ Len(t) = Len(h) + Len(r)
      /\ \A i \in 1 .. Len(h) + Len(r) :
           t[i] = IF i <= Len(h) THEN h[i] ELSE r[i - Len(h)]
  BY <1>1, ConcatProperties
<1>3. t \in Line
  <2>1. CASE h = <<>>
    <3>1. t = r  BY <2>1
    <3> QED  BY <2>1, <3>1
  <2>2. CASE h # <<>>
    <3>1. Len(h) # 0 /\ Len(r) \in Nat  BY <1>1, <2>2
    <3>2. 1 \in 1 .. Len(h) + Len(r) /\ 1 <= Len(h)
      <4>1. \A a \in Nat \ {0} : \A b \in Nat : 1 \in 1 .. a + b /\ 1 <= a  OBVIOUS
      <4>2. Len(h) \in Nat \ {0}  BY <1>1, <3>1
      <4> QED  BY <3>1, <4>1, <4>2
    <3> HIDE DEF t
    <3>3. t[1] = h[1]  BY <1>2, <3>2
    <3> QED  BY <1>1, <1>2, <2>2, <3>3 DEF Line
  <2> QED  BY <2>1, <2>2
<1> QED  BY <1>2, <1>3

Rest(b, k) == SubSeq(b, k + 1, Len(b))

LEMMA EndOf ==
  ASSUME NEW S, NEW list \in Seq(S), NEW k \in 0 .. Len(list)
  PROVE  LET r == SubSeq(list, k + 1, Len(list))
         IN  /\ r \in Seq(S) /\ Len(r) = Len(list) - k
             /\ \A i \in 1 .. Len(list) - k : r[i] = list[k + i]
<1> DEFINE r == SubSeq(list, k + 1, Len(list))
<1>1. k \in 0 .. Len(list) /\ Len(list) \in Nat  OBVIOUS
<1>2. k + 1 \in Int /\ \A j \in k + 1 .. Len(list) : list[j] \in S  BY <1>1
<1>3. /\ r \in Seq(S)
      /\ Len(r) = IF k + 1 <= Len(list) THEN Len(list) - (k + 1) + 1 ELSE 0
      /\ \A i \in 1 .. Len(list) - (k + 1) + 1 : r[i] = list[k + 1 + i - 1]
  BY <1>1, <1>2, SubSeqProperties
<1> HIDE DEF r
<1>4. Len(r) = Len(list) - k  BY <1>1, <1>3
<1>5. ASSUME NEW i \in 1 .. Len(list) - k  PROVE r[i] = list[k + i]
  <2>1. i \in 1 .. Len(list) - (k + 1) + 1 /\ k + 1 + i - 1 = k + i  BY <1>1
  <2>2. r[i] = list[k + 1 + i - 1]  BY <1>3, <2>1
  <2> QED  BY <2>1, <2>2
<1> QED  BY <1>3, <1>4, <1>5 DEF r

LEMMA RestIs ==
  ASSUME NEW b \in Line, NEW k \in 0 .. Len(b)
  PROVE  LET r == Rest(b, k)
         IN  /\ r \in Seq(Bytes) /\ Len(r) = Len(b) - k
             /\ \A i \in 1 .. Len(b) - k : r[i] = b[k + i]
             /\ RestsOn(b, k) => r \in Line
<1> DEFINE r == Rest(b, k)
<1>1. /\ b \in Seq(Bytes) /\ Len(b) \in Nat /\ DOMAIN b = 1 .. Len(b)
      /\ k \in 0 .. Len(b)
  BY LineIs
<1>2. /\ r \in Seq(Bytes) /\ Len(r) = Len(b) - k
      /\ \A i \in 1 .. Len(b) - k : r[i] = b[k + i]
  BY <1>1, EndOf DEF Rest
<1> HIDE DEF r
<1>3. RestsOn(b, k) => r \in Line
  <2> SUFFICES ASSUME RestsOn(b, k), r # <<>>  PROVE r[1] # Cont
    BY <1>2 DEF Line
  <2>1. Len(r) # 0
    <3>1. \A q \in Seq(Bytes) : q # <<>> => Len(q) # 0  OBVIOUS
    <3> QED  BY <1>2, <3>1
  <2>2. k < Len(b) /\ 1 \in 1 .. Len(b) - k
    <3>1. Len(b) - k # 0  BY <1>2, <2>1
    <3>2. \A n \in Nat : \A j \in 0 .. n : n - j # 0 => j < n /\ 1 \in 1 .. n - j
      OBVIOUS
    <3> QED  BY <1>1, <3>1, <3>2
  <2> QED  BY <1>2, <2>2 DEF RestsOn
<1> QED  BY <1>2, <1>3 DEF r

(* What is put in front of the rest of a line, from where a cursor may rest,
   makes a line, and the cursor may rest in between. *)
LEMMA Splices ==
  ASSUME NEW b \in Line, NEW k, RestsOn(b, k), NEW h \in Line
  PROVE  LET t == h \o Rest(b, k)
         IN  t \in Line /\ RestsOn(t, Len(h))
<1> DEFINE r == Rest(b, k)
           t == h \o r
<1>1. k \in 0 .. Len(b)  BY DEF RestsOn
<1>2. r \in Line /\ r \in Seq(Bytes)  BY <1>1, RestIs
<1> HIDE DEF r
<1>3. /\ t \in Line /\ Len(t) = Len(h) + Len(r)
      /\ \A i \in 1 .. Len(h) + Len(r) : t[i] = IF i <= Len(h) THEN h[i] ELSE r[i - Len(h)]
  BY <1>2, Joining
<1> HIDE DEF t
<1>4. Len(h) \in Nat /\ Len(r) \in Nat /\ (r # <<>> => r[1] # Cont)  BY <1>2, LineIs
<1>5. ASSUME Len(h) < Len(t)  PROVE t[Len(h) + 1] # Cont
  <2>1. \A x, y \in Nat : x < x + y => /\ x + 1 \in 1 .. x + y /\ ~(x + 1 <= x)
                                       /\ x + 1 - x = 1 /\ y # 0
    OBVIOUS
  <2>2. /\ Len(h) + 1 \in 1 .. Len(h) + Len(r) /\ ~(Len(h) + 1 <= Len(h))
        /\ Len(h) + 1 - Len(h) = 1 /\ Len(r) # 0
    BY <1>3, <1>4, <1>5, <2>1
  <2>3. r # <<>>  BY <2>2
  <2>4. t[Len(h) + 1] = r[1]  BY <1>3, <2>2
  <2> QED  BY <1>4, <2>3, <2>4
<1>6. Len(h) \in 0 .. Len(t)
  <2>1. \A x, y \in Nat : x \in 0 .. x + y  OBVIOUS
  <2> QED  BY <1>3, <1>4, <2>1
<1> QED  BY <1>3, <1>5, <1>6 DEF RestsOn, t, r

(* Where runner_mode ends the prefix. *)
LEMMA QueryIn ==
  ASSUME NEW b \in Line
  PROVE  runner_query(b) \in 0 .. Len(b)
<1>1. Len(b) \in Nat  BY LineIs
<1>2. CASE b = <<>> \/ b[1] # Mark  BY <1>1, <1>2 DEF runner_query
<1>3. CASE ~(b = <<>> \/ b[1] # Mark)
  <2> DEFINE P(n) == \A i \in 2 .. n : b[i] = Blank
             S    == {n \in 1 .. Len(b) : P(n)}
             m    == Max(S)
  <2>1. 1 \in S
    <3>1. Len(b) # 0 /\ 2 .. 1 = {}
      <4>1. b \in Seq(Bytes)  BY LineIs
      <4>2. Len(b) # 0  BY <1>3, <4>1
      <4> QED  BY <4>2
    <3> QED  BY <1>1, <3>1
  <2>2. m \in S /\ \A y \in S : y <= m
    <3>1. S \in SUBSET (0 .. Len(b)) /\ S # {}  BY <1>1, <2>1
    <3> HIDE DEF S
    <3> QED  BY <1>1, <3>1, MaxIn
  <2> HIDE DEF m
  <2>3. m = Len(b) \/ b[m + 1] # Blank
    <3> SUFFICES ASSUME m # Len(b), b[m + 1] = Blank  PROVE FALSE  OBVIOUS
    <3>1. m \in 1 .. Len(b) /\ P(m)  BY <2>2
    <3>2. m + 1 \in 1 .. Len(b) /\ ~(m + 1 <= m)  BY <1>1, <3>1
    <3>3. \A i \in 2 .. m + 1 : i = m + 1 \/ i \in 2 .. m  BY <3>1
    <3>4. P(m + 1)  BY <3>1, <3>3
    <3>5. m + 1 \in S  BY <3>2, <3>4
    <3> QED  BY <2>2, <3>2, <3>5
  <2>4. \E n \in 1 .. Len(b) : P(n) /\ (n = Len(b) \/ b[n + 1] # Blank)
    BY <2>2, <2>3
  <2>5. runner_query(b) = CHOOSE n \in 1 .. Len(b) :
                            P(n) /\ (n = Len(b) \/ b[n + 1] # Blank)
    BY <1>3 DEF runner_query
  <2>6. runner_query(b) \in 1 .. Len(b)
    <3> HIDE DEF P
    <3> QED  BY <2>4, <2>5
  <2> QED  BY <1>1, <2>6
<1> QED  BY <1>2, <1>3

(* The beginning and end of the word behind the cursor. *)
LEMMA Backwards ==
  ASSUME NEW T, NEW i \in Nat
  PROVE  \E s \in 0 .. i : /\ \A k \in s + 1 .. i : k \in T
                           /\ s = 0 \/ s \notin T
<1> DEFINE S == {s \in 0 .. i : \A k \in s + 1 .. i : k \in T}
<1>1. i \in S
  <2>1. i + 1 .. i = {}  OBVIOUS
  <2> QED  BY <2>1
<1>2. PICK s \in S : \A y \in S : s <= y
  <2>1. S # {}  BY <1>1
  <2>2. \A s \in 0 .. i : s \in Nat  OBVIOUS
  <2>3. S \in SUBSET Nat  BY <2>2
  <2> HIDE DEF S
  <2> QED  BY <2>1, <2>3, MinExists
<1>3. s = 0 \/ s \notin T
  <2> SUFFICES ASSUME s # 0, s \in T  PROVE FALSE  OBVIOUS
  <2>1. s \in 0 .. i /\ \A k \in s + 1 .. i : k \in T  BY <1>2
  <2>2. s - 1 \in 0 .. i /\ ~(s <= s - 1) /\ s - 1 + 1 = s  BY <2>1
  <2>3. \A k \in s .. i : k = s \/ k \in s + 1 .. i  BY <2>1
  <2>4. \A k \in s - 1 + 1 .. i : k \in T  BY <2>1, <2>2, <2>3
  <2>5. s - 1 \in S  BY <2>2, <2>4
  <2> QED  BY <1>2, <2>2, <2>5
<1> QED  BY <1>2, <1>3

LEMMA WordStartIn ==
  ASSUME NEW b \in Line, NEW i \in 0 .. Len(b)
  PROVE  WordStart(b, i) \in 0 .. i
<1> DEFINE Blanks(s) == /\ \A k \in s + 1 .. i : b[k] = Blank
                        /\ s = 0 \/ b[s] # Blank
           blanks == CHOOSE s \in 0 .. i : Blanks(s)
           Word(s) == /\ \A k \in s + 1 .. blanks : b[k] # Blank
                      /\ s = 0 \/ b[s] = Blank
           T == {k \in Nat : b[k] = Blank}
           U == {k \in Nat : b[k] # Blank}
<1>1. i \in Nat  OBVIOUS
<1>2. blanks \in 0 .. i
  <2>1. PICK s \in 0 .. i : (\A k \in s + 1 .. i : k \in T) /\ (s = 0 \/ s \notin T)
    <3> HIDE DEF T
    <3> QED  BY <1>1, Backwards
  <2>2. Blanks(s)
    <3>1. s \in Nat  OBVIOUS
    <3> QED  BY <2>1, <3>1
  <2> HIDE DEF Blanks
  <2> QED  BY <2>2
<1>3. WordStart(b, i) = CHOOSE s \in 0 .. blanks : Word(s)  BY DEF WordStart
<1> HIDE DEF blanks
<1>4. blanks \in Nat  BY <1>2
<1>5. PICK s \in 0 .. blanks :
        (\A k \in s + 1 .. blanks : k \in U) /\ (s = 0 \/ s \notin U)
  <2> HIDE DEF U
  <2> QED  BY <1>4, Backwards
<1>6. Word(s)
  <2>1. s \in Nat  BY <1>4
  <2> QED  BY <1>5, <2>1
<1>7. WordStart(b, i) \in 0 .. blanks
  <2> HIDE DEF Word
  <2> QED  BY <1>3, <1>6
<1> QED  BY <1>1, <1>2, <1>7

(* The places before and after the cursor. *)
LEMMA NeighboursIn ==
  ASSUME NEW b \in Line, NEW i, RestsOn(b, i)
  PROVE  RestsOn(b, runner_prev(b, i)) /\ RestsOn(b, runner_next(b, i))
<1> DEFINE before == {p \in Rests(b) : p < i}
           after  == {p \in Rests(b) : p > i}
<1>1. Len(b) \in Nat /\ i \in 0 .. Len(b)  BY LineIs DEF RestsOn
<1>2. \A p \in Rests(b) : RestsOn(b, p)
  <2> SUFFICES ASSUME NEW p \in 0 .. Len(b), p = Len(b) \/ p = 0 \/ b[p + 1] # Cont
               PROVE  RestsOn(b, p)
    BY DEF Rests
  <2>1. CASE p = 0
    <3>1. 0 < Len(b) => b # <<>>
      <4>1. b = <<>> => Len(b) = 0  OBVIOUS
      <4> QED  BY <4>1
    <3>2. 0 + 1 = 1  OBVIOUS
    <3> QED  BY <2>1, <3>1, <3>2, LineIs DEF RestsOn
  <2> QED  BY <1>1, <2>1 DEF RestsOn
<1>3. 0 \in Rests(b) /\ Len(b) \in Rests(b) /\ Rests(b) \subseteq 0 .. Len(b)
  BY <1>1 DEF Rests
<1>4. RestsOn(b, runner_prev(b, i))
  <2>1. CASE i = 0  BY <2>1 DEF runner_prev
  <2>2. CASE i # 0
    <3>1. before \in SUBSET (0 .. Len(b)) /\ 0 \in before /\ before \subseteq Rests(b)
      BY <1>1, <1>3, <2>2
    <3> HIDE DEF before
    <3>2. Max(before) \in before  BY <1>1, <3>1, MaxIn
    <3> QED  BY <1>2, <2>2, <3>1, <3>2 DEF runner_prev, before
  <2> QED  BY <2>1, <2>2
<1>5. RestsOn(b, runner_next(b, i))
  <2>1. CASE i = Len(b)  BY <2>1 DEF runner_next
  <2>2. CASE i # Len(b)
    <3>1. after \in SUBSET Nat /\ Len(b) \in after /\ after \subseteq Rests(b)
      BY <1>1, <1>3, <2>2
    <3> HIDE DEF after
    <3>2. Min(after) \in after  BY <3>1, MinIn
    <3> QED  BY <1>2, <2>2, <3>1, <3>2 DEF runner_next, after
  <2> QED  BY <2>1, <2>2
<1> QED  BY <1>4, <1>5

-----------------------------------------------------------------------------
(* Lists of lines. *)

FilterTurn(a, found, c) == IF IsPrefix(Query(a), c) THEN Append(found, c) ELSE found
FilterInv(a, i, found) == found \in Seq(Line)
Filter == INSTANCE Loops WITH Turn <- FilterTurn, Inv <- FilterInv

LEMMA FilterKeepsLines ==
  ASSUME NEW b
  PROVE  runner_filter(b) \in Seq(Line)
<1> DEFINE found == Filter!Fold(b, <<>>, Source(b))
<1>1. Source(b) \in Seq(Line)  BY NamesAssumption DEF Source
<1>2. found = FoldLeft(LAMBDA f, c : IF IsPrefix(Query(b), c) THEN Append(f, c) ELSE f,
                       <<>>, Source(b))
  BY DEF Filter!Fold, Filter!Greatest, FoldLeft, MapThenFoldSet, FilterTurn, Max
<1>3. runner_filter(b) = IF Query(b) = <<>> THEN <<>> ELSE found
  BY <1>2 DEF runner_filter
<1>4. FilterInv(b, 0, <<>>)  BY DEF FilterInv
<1>5. ASSUME NEW i \in 1 .. Len(Source(b)), NEW f, FilterInv(b, i - 1, f)
      PROVE  FilterInv(b, i, FilterTurn(b, f, Source(b)[i]))
  <2>1. Source(b)[i] \in Line  BY <1>1
  <2>2. f \in Seq(Line)  BY <1>5 DEF FilterInv
  <2>3. Append(f, Source(b)[i]) \in Seq(Line)
    <3> HIDE DEF Line
    <3> QED  BY <2>1, <2>2, AppendProperties
  <2> QED  BY <2>2, <2>3 DEF FilterInv, FilterTurn
<1>6. FilterInv(b, Len(Source(b)), found)  BY <1>1, <1>4, <1>5, LeastMembers, Filter!LoopKeeps
<1> QED  BY <1>3, <1>6 DEF FilterInv

LEMMA TrimKeepsLines ==
  ASSUME NEW h \in Seq(Line), history_size \in Nat
  PROVE  runner_trim_history(h) \in Seq(Line)
<1> DEFINE k == IF Len(h) > history_size THEN Len(h) - history_size ELSE 0
<1>1. k \in 0 .. Len(h)
  <2>1. \A n, m \in Nat : n > m => n - m \in 0 .. n  OBVIOUS
  <2> QED  BY <2>1
<1>2. runner_trim_history(h) = SubSeq(h, k + 1, Len(h))  BY DEF runner_trim_history
<1> HIDE DEF k
<1> QED  BY <1>1, <1>2, EndOf

(* A key that edits the line. *)
LEMMA EditKeepsInv ==
  ASSUME PromptInv, Edited, buffer' \in Line, RestsOn(buffer', cursor'),
         history_pos' \in Nat, prompt => history_pos' <= Len(history)
  PROVE  PromptInv'
<1>1. /\ matches' \in Seq(Line) /\ selection' \in Nat \ {0}
      /\ prompt => selection' <= Len(matches') \/ matches' = <<>>
  <2>1. CASE buffer' # buffer
    <3>1. matches' = runner_filter(buffer') /\ selection' = 1
      BY <2>1 DEF Edited, Refilter
    <3>2. matches' \in Seq(Line)  BY <3>1, FilterKeepsLines
    <3>3. \A q \in Seq(Line) : 1 <= Len(q) \/ q = <<>>  OBVIOUS
    <3> QED  BY <3>1, <3>2, <3>3
  <2>2. CASE buffer' = buffer  BY <2>2 DEF Edited, PromptInv
  <2> QED  BY <2>1, <2>2
<1>2. UNCHANGED <<prompt, history, history_size>>  BY DEF Edited
<1> QED  BY <1>1, <1>2 DEF PromptInv

LEMMA TypingKeepsInv ==
  ASSUME PromptInv, NEW c \in Line, TypesText(c)
  PROVE  PromptInv'
<1> DEFINE h == SubSeq(buffer, 1, cursor)
<1>1. buffer \in Line /\ RestsOn(buffer, cursor) /\ cursor \in 0 .. Len(buffer)
  BY DEF PromptInv, RestsOn
<1>2. h \in Line /\ Len(h) = cursor  BY <1>1, Beginning
<1> HIDE DEF h
<1>3. h \o c \in Line /\ Len(h \o c) = cursor + Len(c)
  <2>1. c \in Seq(Bytes)  BY LineIs
  <2> QED  BY <1>2, <2>1, Joining
<1>4. buffer' = (h \o c) \o Rest(buffer, cursor) /\ cursor' = Len(h \o c)
  <2>1. buffer' = h \o c \o Rest(buffer, cursor)  BY DEF TypesText, Rest, h
  <2> QED  BY <1>3, <2>1 DEF TypesText
<1>5. buffer' \in Line /\ RestsOn(buffer', cursor')  BY <1>1, <1>3, <1>4, Splices
<1> QED  BY <1>5, EditKeepsInv DEF TypesText, PromptInv

LEMMA CutKeepsInv ==
  ASSUME PromptInv, Edited, UNCHANGED history_pos, NEW from \in 0 .. Len(buffer),
         NEW to, RestsOn(buffer, to), Cut(from, to)
  PROVE  PromptInv'
<1> DEFINE h == SubSeq(buffer, 1, from)
<1>1. buffer \in Line  BY DEF PromptInv
<1>2. h \in Line /\ Len(h) = from  BY <1>1, Beginning
<1>3. buffer' = h \o Rest(buffer, to) /\ cursor' = from  BY DEF Cut, Rest
<1> HIDE DEF h
<1>4. buffer' \in Line /\ RestsOn(buffer', cursor')  BY <1>1, <1>2, <1>3, Splices
<1> QED  BY <1>4, EditKeepsInv DEF PromptInv

LEMMA RunnerCutKeepsInv ==
  ASSUME PromptInv, runner_cut
  PROVE  PromptInv'
<1>1. /\ buffer \in Line /\ RestsOn(buffer, cursor) /\ cursor \in 0 .. Len(buffer)
      /\ Edited /\ UNCHANGED history_pos
  BY DEF PromptInv, RestsOn, runner_cut
<1>2. RestsOn(buffer, runner_prev(buffer, cursor)) /\ RestsOn(buffer, runner_next(buffer, cursor))
  BY <1>1, NeighboursIn
<1>3. WordStart(buffer, cursor) \in 0 .. Len(buffer)
  <2>1. WordStart(buffer, cursor) \in 0 .. cursor  BY <1>1, WordStartIn
  <2>2. Len(buffer) \in Nat  BY <1>1, LineIs
  <2> QED  BY <1>1, <2>1, <2>2
<1>4. 0 \in 0 .. Len(buffer) /\ RestsOn(buffer, Len(buffer))
  <2>1. Len(buffer) \in Nat  BY <1>1, LineIs
  <2> QED  BY <2>1 DEF RestsOn
<1>5. CASE Cut(runner_prev(buffer, cursor), cursor)
  BY <1>1, <1>2, <1>5, CutKeepsInv DEF RestsOn
<1>6. CASE Cut(cursor, runner_next(buffer, cursor))
  BY <1>1, <1>2, <1>6, CutKeepsInv
<1>7. CASE Cut(WordStart(buffer, cursor), cursor)
  BY <1>1, <1>3, <1>7, CutKeepsInv
<1>8. CASE Cut(0, Len(buffer))
  BY <1>1, <1>4, <1>8, CutKeepsInv
<1> QED  BY <1>5, <1>6, <1>7, <1>8 DEF runner_cut

(* Where Up and Down stop: at an entry, or before or after all of them. *)
LEMMA SkippedIn ==
  ASSUME history \in Seq(Line), NEW pos \in 1 .. Len(history) + 1, NEW up \in BOOLEAN,
         up \/ pos <= Len(history)
  PROVE  Skipped(pos, up) \in 0 .. Len(history) + 1
<1> DEFINE shown == IF history_pos = 0 THEN <<>> ELSE history[history_pos]
           n     == Len(history) + 1
           stops == {0, n} \cup {i \in 1 .. Len(history) : history[i] # shown}
           above == {s \in stops : s < pos}
           below == {s \in stops : s > pos}
<1>1. Len(history) \in Nat  OBVIOUS
<1>2. n \in Nat /\ stops \in SUBSET (0 .. n) /\ 0 \in stops /\ n \in stops
  <2>1. \A m \in Nat : m + 1 \in Nat /\ 0 \in 0 .. m + 1 /\ m + 1 \in 0 .. m + 1
                       /\ \A i \in 1 .. m : i \in 0 .. m + 1
    OBVIOUS
  <2> QED  BY <1>1, <2>1
<1>3. Skipped(pos, up) = IF up THEN Max(above) ELSE Min(below)  BY DEF Skipped
<1> HIDE DEF stops
<1>4. CASE up
  <2>0. 0 < pos  BY <1>1
  <2> HIDE DEF n
  <2>1. above \in SUBSET (0 .. n) /\ 0 \in above  BY <1>2, <2>0
  <2> HIDE DEF above
  <2>2. Max(above) \in above  BY <1>2, <2>1, MaxIn
  <2> QED  BY <1>3, <1>4, <2>1, <2>2 DEF n
<1>5. CASE ~up
  <2>0. n > pos  BY <1>1, <1>5
  <2> HIDE DEF n
  <2>1. below \in SUBSET (0 .. n) /\ n \in below  BY <1>2, <2>0
  <2> HIDE DEF below
  <2>2. below \in SUBSET Nat  BY <2>1
  <2>3. Min(below) \in below  BY <2>1, <2>2, MinIn
  <2> QED  BY <1>3, <1>5, <2>1, <2>3 DEF n
<1> QED  BY <1>4, <1>5

LEMMA EndRests == ASSUME NEW b \in Line PROVE RestsOn(b, Len(b))
BY LineIs DEF RestsOn

LEMMA RecallKeepsInv ==
  ASSUME PromptInv, NEW up \in BOOLEAN, runner_recall(up)
  PROVE  PromptInv'
<1> DEFINE pos == IF history_pos = 0 THEN Len(history) + 1 ELSE history_pos
           to  == Skipped(pos, up)
<1>1. /\ history \in Seq(Line) /\ history_pos \in Nat /\ prompt
      /\ history_pos <= Len(history) /\ Len(history) \in Nat
  BY DEF PromptInv, runner_recall
<1>2. Edited  BY DEF runner_recall
<1>3. CASE (history_pos = 0 /\ ~up) \/ to = 0
  <2>1. UNCHANGED <<buffer, cursor, history_pos>>  BY <1>3 DEF runner_recall
  <2> QED  BY <1>2, <2>1, EditKeepsInv DEF PromptInv
<1>4. CASE ~((history_pos = 0 /\ ~up) \/ to = 0)
  <2>1. /\ history_pos' = IF to > Len(history) THEN 0 ELSE to
        /\ buffer' = IF to > Len(history) THEN <<>> ELSE history[to]
        /\ cursor' = Len(buffer')
    BY <1>4 DEF runner_recall
  <2>2. pos \in 1 .. Len(history) + 1 /\ (up \/ pos <= Len(history))  BY <1>1, <1>4
  <2> HIDE DEF pos
  <2>3. to \in 0 .. Len(history) + 1  BY <1>1, <2>2, SkippedIn
  <2>4. to # 0  BY <1>4
  <2> HIDE DEF to
  <2>5. to > Len(history) \/ to \in 1 .. Len(history)  BY <1>1, <2>3, <2>4
  <2>6. history_pos' \in Nat /\ history_pos' <= Len(history)  BY <1>1, <2>1, <2>3, <2>5
  <2>7. <<>> \in Line  BY DEF Line
  <2>8. to \in 1 .. Len(history) => history[to] \in Line
    <3> HIDE DEF Line
    <3> QED  BY <1>1
  <2>9. buffer' \in Line  BY <2>1, <2>5, <2>7, <2>8
  <2> QED  BY <1>2, <2>1, <2>6, <2>9, EndRests, EditKeepsInv
<1> QED  BY <1>3, <1>4

LEMMA MoveKeepsInv ==
  ASSUME PromptInv, MovesCursor
  PROVE  PromptInv'
<1>1. buffer \in Line /\ RestsOn(buffer, cursor)  BY DEF PromptInv
<1>2. RestsOn(buffer, runner_prev(buffer, cursor)) /\ RestsOn(buffer, runner_next(buffer, cursor))
  BY <1>1, NeighboursIn
<1>3. RestsOn(buffer, Len(buffer))  BY <1>1, EndRests
<1>4. RestsOn(buffer, 0)
  <2>1. Len(buffer) \in Nat /\ (buffer # <<>> => buffer[1] # Cont)  BY <1>1, LineIs
  <2>2. 0 < Len(buffer) => buffer # <<>>
    <3>1. buffer = <<>> => Len(buffer) = 0  OBVIOUS
    <3> QED  BY <3>1
  <2>3. 0 + 1 = 1 /\ 0 \in 0 .. Len(buffer)  BY <2>1
  <2> QED  BY <2>1, <2>2, <2>3 DEF RestsOn
<1>5. RestsOn(buffer', cursor')  BY <1>2, <1>3, <1>4 DEF MovesCursor
<1> QED  BY <1>5 DEF PromptInv, MovesCursor

(* The prefix of the line with a name after it. *)
LEMMA Completes ==
  ASSUME NEW b \in Line, NEW name \in Line
  PROVE  SubSeq(b, 1, runner_query(b)) \o name \in Line
<1> DEFINE h == SubSeq(b, 1, runner_query(b))
<1>1. h \in Line  BY QueryIn, Beginning
<1>2. name \in Seq(Bytes)  BY LineIs
<1> HIDE DEF h
<1>3. h \o name \in Line  BY <1>1, <1>2, Joining
<1> QED  BY <1>3 DEF h

LEMMA TabKeepsInv ==
  ASSUME PromptInv, NEW back \in BOOLEAN, TakesCandidate(back)
  PROVE  PromptInv'
<1> DEFINE n == Len(matches)
           taken == IF n > 0 /\ (cycling \/ back)
                    THEN IF back THEN IF selection = 1 THEN n ELSE selection - 1
                         ELSE IF selection = n THEN 1 ELSE selection + 1
                    ELSE selection
           line == IF n = 0 THEN <<>> ELSE SubSeq(buffer, 1, runner_query(buffer)) \o matches[taken]
<1>1. /\ buffer \in Line /\ matches \in Seq(Line) /\ n \in Nat /\ n > 0
      /\ selection \in Nat \ {0} /\ (selection <= n \/ matches = <<>>)
  BY DEF PromptInv, TakesCandidate
<1>2. selection \in 1 .. n
  <2>1. matches = <<>> => n = 0  OBVIOUS
  <2> QED  BY <1>1, <2>1
<1>3. /\ selection' = taken
      /\ IF Len(line) < BufferSize THEN buffer' = line /\ cursor' = Len(line)
         ELSE UNCHANGED <<buffer, cursor>>
      /\ UNCHANGED <<prompt, matches, history, history_pos, history_size>>
  BY DEF TakesCandidate
<1>4. taken \in 1 .. n
  <2> HIDE DEF n
  <2> QED  BY <1>1, <1>2
<1> HIDE DEF taken
<1>5. matches[taken] \in Line
  <2> HIDE DEF Line
  <2> QED  BY <1>1, <1>4
<1>6. line \in Line  BY <1>1, <1>5, Completes
<1> HIDE DEF line
<1>7. buffer' \in Line /\ RestsOn(buffer', cursor')
  BY <1>3, <1>6, EndRests DEF PromptInv
<1>8. selection' \in Nat \ {0} /\ selection' <= Len(matches)  BY <1>1, <1>3, <1>4
<1> QED  BY <1>3, <1>7, <1>8 DEF PromptInv

LEMMA ToggleKeepsInv ==
  ASSUME PromptInv, runner_toggle
  PROVE  PromptInv'
<1>1. CASE prompt  BY <1>1 DEF PromptInv, runner_toggle
<1>2. CASE ~prompt
  <2>1. /\ history' = runner_trim_history(history) /\ history_pos' = 0
        /\ buffer' = <<>> /\ cursor' = 0 /\ matches' = runner_filter(<<>>)
        /\ selection' = 1 /\ history_size' = history_size
    BY <1>2 DEF runner_toggle, Refilter
  <2>2. history' \in Seq(Line)  BY <2>1, TrimKeepsLines DEF PromptInv
  <2>3. matches' \in Seq(Line)  BY <2>1, FilterKeepsLines
  <2>4. <<>> \in Line /\ Len(<<>>) = 0  BY DEF Line
  <2>5. RestsOn(<<>>, 0)  BY <2>4, EndRests
  <2>6. /\ \A q \in Seq(Line) : 1 <= Len(q) \/ q = <<>>
        /\ \A q \in Seq(Line) : 0 <= Len(q)
    OBVIOUS
  <2> QED  BY <2>1, <2>2, <2>3, <2>4, <2>5, <2>6 DEF PromptInv
<1> QED  BY <1>1, <1>2

(* What is recorded is the prefix with what ran after it, cut to the buffer. *)
LEMMA EnterKeepsInv ==
  ASSUME PromptInv, runner_enter
  PROVE  PromptInv'
<1> DEFINE q      == runner_query(buffer)
           sug    == IF matches = <<>> THEN Query(buffer) ELSE matches[selection]
           line   == SubSeq(buffer, 1, q) \o sug
           k      == IF Len(line) < BufferSize THEN Len(line) ELSE BufferSize - 1
           record == SubSeq(line, 1, k)
<1>1. /\ buffer \in Line /\ matches \in Seq(Line) /\ history \in Seq(Line)
      /\ selection \in Nat \ {0} /\ (selection <= Len(matches) \/ matches = <<>>)
      /\ history_size \in Nat
  BY DEF PromptInv, runner_enter
<1>2. /\ prompt' = FALSE
      /\ history' \in {runner_trim_history(Append(history, record)), history}
      /\ UNCHANGED <<buffer, cursor, matches, selection, cycling, history_pos, history_size>>
  BY DEF runner_enter
<1>3. line \in Line
  <2>1. CASE matches = <<>>
    <3>1. q \in 0 .. Len(buffer)  BY <1>1, QueryIn
    <3> DEFINE h == SubSeq(buffer, 1, q)
    <3>2. h \in Line /\ Len(h) = q  BY <1>1, <3>1, Beginning
    <3>3. sug = Rest(buffer, q)  BY <2>1 DEF Query, Rest
    <3>4. sug \in Seq(Bytes) /\ (RestsOn(buffer, q) => sug \in Line)
      BY <1>1, <3>1, <3>3, RestIs
    <3> HIDE DEF h, sug
    <3>5. h = <<>> => RestsOn(buffer, q)
      <4> SUFFICES ASSUME h = <<>>  PROVE RestsOn(buffer, q)  OBVIOUS
      <4>1. q = 0
        <5>1. Len(<<>>) = 0  OBVIOUS
        <5> QED  BY <3>2, <5>1
      <4>2. buffer # <<>> => buffer[1] # Cont  BY <1>1, LineIs
      <4>3. 0 < Len(buffer) => buffer # <<>>
        <5>1. buffer = <<>> => Len(buffer) = 0  OBVIOUS
        <5> QED  BY <5>1
      <4>4. 0 + 1 = 1  OBVIOUS
      <4> HIDE DEF q
      <4> QED  BY <3>1, <4>1, <4>2, <4>3, <4>4 DEF RestsOn
    <3>6. h \o sug \in Line  BY <3>2, <3>4, <3>5, Joining
    <3> QED  BY <3>6 DEF h
  <2>2. CASE matches # <<>>
    <3>1. sug = matches[selection] /\ selection \in 1 .. Len(matches)  BY <1>1, <2>2
    <3>2. sug \in Line
      <4> HIDE DEF Line, sug
      <4> QED  BY <1>1, <3>1
    <3> HIDE DEF sug
    <3> QED  BY <1>1, <3>2, Completes
  <2> QED  BY <2>1, <2>2
<1> HIDE DEF line
<1>4. record \in Line
  <2>1. k \in 0 .. Len(line)
    <3>1. Len(line) \in Nat  BY <1>3, LineIs
    <3>2. BufferSize \in Nat \ {0}  BY PromptAssumption
    <3> QED  BY <3>1, <3>2
  <2> HIDE DEF k
  <2> QED  BY <1>3, <2>1, Beginning
<1> HIDE DEF record
<1>5. history' \in Seq(Line)
  <2>1. Append(history, record) \in Seq(Line)
    <3> HIDE DEF Line
    <3> QED  BY <1>1, <1>4, AppendProperties
  <2>2. runner_trim_history(Append(history, record)) \in Seq(Line)
    BY <1>1, <2>1, TrimKeepsLines
  <2> QED  BY <1>1, <1>2, <2>2
<1> QED  BY <1>2, <1>5 DEF PromptInv

LEMMA PromptStart == PromptInit => PromptInv
<1> SUFFICES ASSUME PromptInit  PROVE PromptInv  OBVIOUS
<1>1. <<>> \in Line /\ <<>> \in Seq(Line) /\ Len(<<>>) = 0  BY DEF Line
<1>2. RestsOn(<<>>, 0)  BY <1>1, EndRests
<1>3. history_size \in Nat  BY PromptAssumption DEF PromptInit
<1> QED  BY <1>1, <1>2, <1>3 DEF PromptInit, PromptInv

LEMMA PromptStep == PromptInv /\ [PromptNext]_prompt_vars => PromptInv'
<1> SUFFICES ASSUME PromptInv, [PromptNext]_prompt_vars  PROVE PromptInv'  OBVIOUS
<1>1. ASSUME NEW c \in {Blank, Mark} \cup Letters, TypesText(<<c>>)  PROVE PromptInv'
  <2>1. c \in Bytes /\ c # Cont  BY PromptAssumption DEF Bytes
  <2>2. <<c>> \in Seq(Bytes) /\ <<c>>[1] = c  BY <2>1
  <2>3. <<c>> \in Line  BY <2>1, <2>2 DEF Line
  <2> QED  BY <1>1, <2>3, TypingKeepsInv
<1>2. ASSUME TypesText(<<Lead, Cont>>)  PROVE PromptInv'
  <2>1. Lead \in Bytes /\ Cont \in Bytes /\ Lead # Cont  BY PromptAssumption DEF Bytes
  <2>2. <<Lead, Cont>> \in Seq(Bytes) /\ <<Lead, Cont>>[1] = Lead  BY <2>1
  <2>3. <<Lead, Cont>> \in Line  BY <2>1, <2>2 DEF Line
  <2> QED  BY <1>2, <2>3, TypingKeepsInv
<1>3. CASE MovesCursor  BY <1>3, MoveKeepsInv
<1>4. CASE runner_cut  BY <1>4, RunnerCutKeepsInv
<1>5. ASSUME NEW up \in BOOLEAN, runner_recall(up)  PROVE PromptInv'
  BY <1>5, RecallKeepsInv
<1>6. ASSUME NEW back \in BOOLEAN, TakesCandidate(back)  PROVE PromptInv'
  BY <1>6, TabKeepsInv
<1>7. CASE runner_toggle  BY <1>7, ToggleKeepsInv
<1>8. CASE runner_enter  BY <1>8, EnterKeepsInv
<1>9. CASE Escapes  BY <1>9 DEF Escapes, PromptInv
<1>10. CASE HistorySizeChanges
  BY <1>10, PromptAssumption DEF HistorySizeChanges, PromptInv
<1>11. CASE UNCHANGED prompt_vars  BY <1>11 DEF prompt_vars, PromptInv
<1> QED
  BY <1>1, <1>2, <1>3, <1>4, <1>5, <1>6, <1>7, <1>8, <1>9, <1>10, <1>11 DEF PromptNext

(* However a line was typed, cut, recalled or completed, the cursor is on the
   start of a character, and the places in the list and the history are inside,
   for any names, any size of the buffer and a history whose size changes. *)
THEOREM PlacesStayInside == PromptSpec => []EveryPlaceIsInside
<1>1. PromptInv => EveryPlaceIsInside
  BY DEF PromptInv, EveryPlaceIsInside, RestsOn
<1> QED  BY <1>1, PromptStart, PromptStep, PTL DEF PromptSpec

-----------------------------------------------------------------------------
(* The reader of standard input implements StatusLine. *)

(* Where the last line of a buffer ends. *)
LastEnd(q) == Max({0} \cup Ends(q))

LEMMA LastEndIs ==
  ASSUME NEW q \in Seq(AllBytes)
  PROVE  /\ Ends(q) \in SUBSET (1 .. Len(q)) /\ LastEnd(q) \in 0 .. Len(q)
         /\ LastEnd(q) \in {0} \cup Ends(q) /\ \A i \in Ends(q) : i <= LastEnd(q)
<1> DEFINE S == {0} \cup Ends(q)
<1>1. Len(q) \in Nat /\ Ends(q) \in SUBSET (1 .. Len(q))  BY DEF Ends
<1>2. S \in SUBSET (0 .. Len(q)) /\ S # {} /\ Ends(q) \subseteq S  BY <1>1
<1>3. Max(S) \in S /\ \A y \in S : y <= Max(S)
  <2> HIDE DEF S
  <2> QED  BY <1>1, <1>2, MaxIn
<1> QED  BY <1>1, <1>2, <1>3 DEF LastEnd

LEMMA PartialLineIs ==
  ASSUME NEW q \in Seq(AllBytes)
  PROVE  LET r == PartialLine(q)
             n == Len(q) - LastEnd(q)
         IN  /\ r \in Seq(AllBytes) /\ n \in Nat /\ Len(r) = n /\ n <= Len(q)
             /\ \A j \in 1 .. n : r[j] = q[LastEnd(q) + j]
             /\ r = [j \in 1 .. n |-> q[LastEnd(q) + j]]
             /\ Ends(r) = {}
<1> DEFINE e == LastEnd(q)
           r == PartialLine(q)
           n == Len(q) - e
<1>1. /\ Len(q) \in Nat /\ e \in 0 .. Len(q) /\ \A i \in Ends(q) : i <= e
  BY LastEndIs
<1>2. r = SubSeq(q, e + 1, Len(q))  BY DEF PartialLine, LastEnd
<1> HIDE DEF e, r
<1>3. /\ n \in Nat /\ n <= Len(q)
      /\ \A j \in 1 .. n : e + j \in 1 .. Len(q) /\ ~(e + j <= e)
  BY <1>1
<1>4. r \in Seq(AllBytes) /\ Len(r) = n /\ \A j \in 1 .. n : r[j] = q[e + j]
  BY <1>1, <1>2
<1>5. r = [j \in 1 .. n |-> q[e + j]]  BY <1>3, <1>4
<1>6. \A j \in 1 .. n : r[j] # EOL  BY <1>1, <1>3, <1>4 DEF Ends
<1>7. Ends(r) = {}  BY <1>4, <1>6 DEF Ends
<1> QED  BY <1>3, <1>4, <1>5, <1>7 DEF e, r

(* Without the end of a line, all of it is the start of one. *)
LEMMA NoEndYet ==
  ASSUME NEW q \in Seq(AllBytes), Ends(q) = {}
  PROVE  PartialLine(q) = q
<1>1. LastEnd(q) = 0 /\ Len(q) \in Nat  BY LastEndIs
<1>2. PartialLine(q) = [j \in 1 .. Len(q) |-> q[j]]
  <2>1. Len(q) - LastEnd(q) = Len(q) /\ \A j \in 1 .. Len(q) : LastEnd(q) + j = j
    BY <1>1
  <2> QED  BY <2>1, PartialLineIs
<1> QED  BY <1>2

LEMMA SamePart ==
  ASSUME NEW S, NEW p \in Seq(S), NEW q \in Seq(S), NEW i \in Nat \ {0}, NEW j \in Nat,
         j <= Len(p), j <= Len(q), \A k \in i .. j : p[k] = q[k]
  PROVE  SubSeq(p, i, j) = SubSeq(q, i, j)
<1> DEFINE n == IF i <= j THEN j - i + 1 ELSE 0
<1>1. n \in Nat /\ \A k \in 1 .. n : i + k - 1 \in i .. j  OBVIOUS
<1>2. ASSUME NEW r \in Seq(S), j <= Len(r)
      PROVE  SubSeq(r, i, j) = [k \in 1 .. n |-> r[i + k - 1]]
  <2>1. /\ SubSeq(r, i, j) \in Seq(S) /\ Len(SubSeq(r, i, j)) = n
        /\ \A k \in 1 .. n : SubSeq(r, i, j)[k] = r[i + k - 1]
    BY <1>2
  <2> QED  BY <2>1
<1>3. \A k \in 1 .. n : p[i + k - 1] = q[i + k - 1]  BY <1>1
<1> HIDE DEF n
<1> QED  BY <1>2, <1>3

LEMMA AppendIs ==
  ASSUME NEW S
  PROVE  \A r \in Seq(S), b \in S :
           Append(r, b) = [j \in 1 .. Len(r) + 1 |-> IF j = Len(r) + 1 THEN b ELSE r[j]]
<1> TAKE r \in Seq(S), b \in S
<1>1. /\ Append(r, b) \in Seq(S) /\ Len(Append(r, b)) = Len(r) + 1
      /\ \A j \in 1 .. Len(r) + 1 : Append(r, b)[j] = IF j = Len(r) + 1 THEN b ELSE r[j]
  OBVIOUS
<1>2. \A t \in Seq(S) : t = [j \in 1 .. Len(t) |-> t[j]]  OBVIOUS
<1>3. Append(r, b) = [j \in 1 .. Len(r) + 1 |-> Append(r, b)[j]]  BY <1>1, <1>2
<1> QED  BY <1>1, <1>3

(* A byte of a line adds to the line that has not ended. *)
LEMMA ByteOfALine ==
  ASSUME NEW q \in Seq(AllBytes), NEW b \in AllBytes, b # EOL
  PROVE  LET p == Append(q, b) IN
         /\ Ends(p) = Ends(q) /\ PartialLine(p) = Append(PartialLine(q), b)
         /\ Ends(q) # {} => LatestLine(p) = LatestLine(q)
<1> DEFINE p == Append(q, b)
           r == PartialLine(q)
           e == LastEnd(q)
           n == Len(q) - e
<1>1. /\ Len(q) \in Nat /\ p \in Seq(AllBytes) /\ Len(p) = Len(q) + 1
      /\ p[Len(q) + 1] = b /\ \A i \in 1 .. Len(q) : p[i] = q[i]
  OBVIOUS
<1> HIDE DEF p
<1>2. Ends(p) = Ends(q)  BY <1>1 DEF Ends
<1>3. PartialLine(p) = Append(r, b)
  <2>1. LastEnd(p) = e  BY <1>2 DEF LastEnd
  <2>2. e \in 0 .. Len(q)  BY LastEndIs
  <2>3. /\ r \in Seq(AllBytes) /\ n \in Nat /\ Len(r) = n
        /\ \A j \in 1 .. n : r[j] = q[e + j]
    BY PartialLineIs
  <2> HIDE DEF e, r
  <2>4. Len(p) - e = n + 1 /\ n + 1 \in Nat /\ e + (n + 1) = Len(q) + 1
    BY <1>1, <2>2
  <2>5. PartialLine(p) = [j \in 1 .. n + 1 |-> p[e + j]]
    BY <1>1, <2>1, <2>4, PartialLineIs
  <2>6. \A j \in 1 .. n + 1 : p[e + j] = IF j = n + 1 THEN b ELSE r[j]
    <3> TAKE j \in 1 .. n + 1
    <3>1. j # n + 1 => j \in 1 .. n /\ e + j \in 1 .. Len(q)  BY <1>1, <2>2
    <3> QED  BY <1>1, <2>3, <2>4, <3>1
  <2>7. Append(r, b) = [j \in 1 .. n + 1 |-> IF j = n + 1 THEN b ELSE r[j]]
    <3> HIDE DEF n
    <3>1. Append(r, b) = [j \in 1 .. Len(r) + 1 |-> IF j = Len(r) + 1 THEN b ELSE r[j]]
      <4>1. r \in Seq(AllBytes) /\ b \in AllBytes  BY <2>3
      <4>2. \A t \in Seq(AllBytes), x \in AllBytes :
              Append(t, x) = [j \in 1 .. Len(t) + 1 |-> IF j = Len(t) + 1 THEN x ELSE t[j]]
        BY AppendIs
      <4> QED  BY <4>1, <4>2
    <3> QED  BY <2>3, <3>1
  <2> HIDE DEF n
  <2> QED  BY <2>5, <2>6, <2>7
<1>4. ASSUME Ends(q) # {}  PROVE LatestLine(p) = LatestLine(q)
  <2> DEFINE m == Max(Ends(q))
             k == Max({0} \cup (Ends(q) \ {m}))
  <2>1. Ends(q) \in SUBSET (1 .. Len(q))  BY LastEndIs
  <2>2. Ends(q) \in SUBSET (0 .. Len(q))  BY <2>1
  <2>3. m \in 1 .. Len(q)  BY <1>1, <1>4, <2>1, <2>2, MaxIn
  <2> DEFINE T == {0} \cup (Ends(q) \ {m})
  <2>4. T \in SUBSET (0 .. Len(q)) /\ T # {}  BY <1>1, <2>1
  <2>5. k \in 0 .. Len(q)
    <3>1. Max(T) \in T
      <4> HIDE DEF T
      <4> QED  BY <1>1, <2>4, MaxIn
    <3> QED  BY <2>4, <3>1
  <2>6. LatestLine(q) = SubSeq(q, k + 1, m - 1)  BY DEF LatestLine
  <2>7. LatestLine(p) = SubSeq(p, k + 1, m - 1)  BY <1>2 DEF LatestLine
  <2> HIDE DEF k, m
  <2>8. \A i \in k + 1 .. m - 1 : i \in 1 .. Len(q)  BY <1>1, <2>3, <2>5
  <2>9. SubSeq(p, k + 1, m - 1) = SubSeq(q, k + 1, m - 1)
    <3>1. k + 1 \in Nat \ {0} /\ m - 1 \in 0 .. Len(q) /\ m - 1 \in 0 .. Len(p)
      BY <1>1, <2>3, <2>5
    <3> QED  BY <1>1, <2>8, <3>1, SamePart
  <2> QED  BY <2>6, <2>7, <2>9
<1> QED  BY <1>2, <1>3, <1>4 DEF p
(* The end of a line makes what came before it the latest line. *)
LEMMA EndOfALine ==
  ASSUME NEW q \in Seq(AllBytes), EOL \in AllBytes
  PROVE  LET p == Append(q, EOL) IN
         /\ Ends(p) = Ends(q) \cup {Len(q) + 1} /\ PartialLine(p) = <<>>
         /\ LatestLine(p) = PartialLine(q)
<1> DEFINE p == Append(q, EOL)
           l == Len(q) + 1
<1>1. /\ Len(q) \in Nat /\ p \in Seq(AllBytes) /\ Len(p) = l /\ l \in Nat
      /\ p[l] = EOL /\ 1 .. l = 1 .. Len(q) \cup {l}
      /\ \A i \in 1 .. Len(q) : p[i] = q[i]
  OBVIOUS
<1>2. Ends(q) \in SUBSET (1 .. Len(q)) /\ LastEnd(q) \in 0 .. Len(q)  BY LastEndIs
<1>3. l \notin 1 .. Len(q) /\ l - 1 = Len(q) /\ 1 .. Len(q) \subseteq 0 .. l  BY <1>1
<1> HIDE DEF p, l
<1>4. Ends(p) = Ends(q) \cup {l}
  <2>1. Ends(p) = {i \in 1 .. Len(q) \cup {l} : p[i] = EOL}  BY <1>1 DEF Ends
  <2>2. Ends(q) = {i \in 1 .. Len(q) : p[i] = EOL}  BY <1>1 DEF Ends
  <2> QED  BY <1>1, <2>1, <2>2
<1>5. Max(Ends(p)) = l /\ LastEnd(p) = l
  <2> DEFINE S == {0} \cup Ends(p)
  <2>1. S \in SUBSET (0 .. l) /\ Ends(p) \in SUBSET (0 .. l) /\ Ends(p) # {} /\ S # {}
        /\ l \in S /\ l \in Ends(p)
    BY <1>1, <1>2, <1>3, <1>4
  <2>2. \A x \in 0 .. l : l <= x => x = l  BY <1>1
  <2> HIDE DEF S
  <2>3. Max(S) \in S /\ l <= Max(S)  BY <1>1, <2>1, MaxIn
  <2>4. Max(Ends(p)) \in Ends(p) /\ l <= Max(Ends(p))  BY <1>1, <2>1, MaxIn
  <2> QED  BY <2>1, <2>2, <2>3, <2>4 DEF S, LastEnd
<1>6. PartialLine(p) = <<>>
  <2>1. PartialLine(p) \in Seq(AllBytes) /\ Len(PartialLine(p)) = 0
    BY <1>1, <1>5, PartialLineIs
  <2> QED  BY <2>1
<1>7. LatestLine(p) = PartialLine(q)
  <2>1. Ends(p) \ {l} = Ends(q)  BY <1>2, <1>3, <1>4
  <2>2. LatestLine(p) = SubSeq(p, LastEnd(q) + 1, l - 1)
    BY <1>5, <2>1 DEF LatestLine, LastEnd
  <2>3. PartialLine(q) = SubSeq(q, LastEnd(q) + 1, Len(q))  BY DEF PartialLine, LastEnd
  <2>4. /\ LastEnd(q) + 1 \in Nat \ {0} /\ Len(q) <= Len(p)
        /\ \A k \in LastEnd(q) + 1 .. Len(q) : p[k] = q[k]
    BY <1>1, <1>2, <1>3
  <2>5. SubSeq(p, LastEnd(q) + 1, Len(q)) = SubSeq(q, LastEnd(q) + 1, Len(q))
    BY <1>1, <2>4, SamePart
  <2> QED  BY <1>3, <2>2, <2>3, <2>5
<1> QED  BY <1>4, <1>6, <1>7 DEF p, l

-----------------------------------------------------------------------------
(* What StatusLine makes of the bytes of a buffer, the first line of which may
   be the end of one that was too long. *)
LineOf(q, skip) ==
  IF (skip /\ Ends(q) = {}) \/ Len(PartialLine(q)) = Cap THEN TooLong ELSE PartialLine(q)
TextOf(q, skip, text) ==
  IF Ends(q) = {} \/ (skip /\ \E e \in Ends(q) : Ends(q) = {e}) THEN text ELSE LatestLine(q)
StateOf(q, skip, text) == [line |-> LineOf(q, skip), text |-> TextOf(q, skip, text)]

(* A byte that the buffer has room for. *)
LEMMA ByteIsRead ==
  ASSUME NEW q \in Seq(AllBytes), Len(q) < Cap, NEW b \in AllBytes,
         NEW skip \in BOOLEAN, NEW text
  PROVE  Stream!Byte(StateOf(q, skip, text), b) = StateOf(Append(q, b), skip, text)
<1> DEFINE p == Append(q, b)
           r == PartialLine(q)
           st == StateOf(q, skip, text)
<1>1. Cap \in Nat \ {0} /\ TooLong \notin Seq(AllBytes)  BY StatusInputAssumption
<1>2. r \in Seq(AllBytes) /\ Len(r) \in Nat /\ Len(r) < Cap
  <2>1. r \in Seq(AllBytes) /\ Len(r) <= Len(q)  BY PartialLineIs
  <2> QED  BY <1>1, <2>1
<1>3. /\ st.text = TextOf(q, skip, text)
      /\ st.line = IF skip /\ Ends(q) = {} THEN TooLong ELSE r
  BY <1>2 DEF StateOf, LineOf
<1>4. (st.line = TooLong) <=> (skip /\ Ends(q) = {})  BY <1>1, <1>2, <1>3
<1>5. CASE b = EOL
  <2>1. Ends(p) = Ends(q) \cup {Len(q) + 1} /\ PartialLine(p) = <<>> /\ LatestLine(p) = r
    BY <1>5, EndOfALine
  <2>2. LineOf(p, skip) = <<>>  BY <1>1, <2>1 DEF LineOf
  <2>3. (\E e \in Ends(p) : Ends(p) = {e}) <=> Ends(q) = {}
    <3>1. Len(q) + 1 \notin Ends(q)  BY DEF Ends
    <3> QED  BY <2>1, <3>1
  <2>4. TextOf(p, skip, text) = IF st.line = TooLong THEN st.text ELSE st.line
    <3>1. Ends(p) # {}  BY <2>1
    <3>2. CASE skip /\ Ends(q) = {}  BY <1>3, <1>4, <2>3, <3>1, <3>2 DEF TextOf
    <3>3. CASE ~(skip /\ Ends(q) = {})  BY <1>3, <1>4, <2>1, <2>3, <3>1, <3>3 DEF TextOf
    <3> QED  BY <3>2, <3>3
  <2> HIDE DEF st, p
  <2>5. Stream!Byte(st, b) = [line |-> <<>>, text |-> IF st.line = TooLong THEN st.text ELSE st.line]
    BY <1>5 DEF Stream!Byte
  <2> QED  BY <2>2, <2>4, <2>5 DEF StateOf, st, p
<1>6. CASE b # EOL
  <2>1. /\ Ends(p) = Ends(q) /\ PartialLine(p) = Append(r, b)
        /\ Ends(q) # {} => LatestLine(p) = LatestLine(q)
    BY <1>6, ByteOfALine
  <2>2. TextOf(p, skip, text) = TextOf(q, skip, text)  BY <2>1 DEF TextOf
  <2>3. Len(Append(r, b)) = Len(r) + 1  BY <1>2
  <2>4. LineOf(p, skip) = IF st.line = TooLong \/ Len(r) + 1 = Cap THEN TooLong ELSE Append(r, b)
    BY <1>4, <2>1, <2>3 DEF LineOf
  <2>5. \A z : [st EXCEPT !.line = z] = [line |-> z, text |-> st.text]
    <3>1. \A x, y, z : [[line |-> x, text |-> y] EXCEPT !.line = z] = [line |-> z, text |-> y]
      OBVIOUS
    <3>2. \A x, y : [line |-> x, text |-> y].text = y  OBVIOUS
    <3> QED  BY <3>1, <3>2 DEF StateOf
  <2> HIDE DEF st, p
  <2> DEFINE next == [line |-> LineOf(p, skip), text |-> TextOf(p, skip, text)]
  <2>6. ASSUME st.line = TooLong  PROVE Stream!Byte(st, b) = next
    <3>1. Stream!Byte(st, b) = [st EXCEPT !.line = TooLong]
      BY <1>6, <2>6 DEF Stream!Byte
    <3>2. [st EXCEPT !.line = TooLong] = [line |-> TooLong, text |-> st.text]
      BY <2>5
    <3> QED  BY <1>3, <2>2, <2>4, <2>6, <3>1, <3>2
  <2>7. ASSUME st.line # TooLong, Len(r) + 1 = Cap  PROVE Stream!Byte(st, b) = next
    <3>1. st.line = r  BY <1>3, <1>4, <2>7
    <3>2. Stream!Byte(st, b) = [st EXCEPT !.line = TooLong]
      BY <1>6, <2>7, <3>1 DEF Stream!Byte
    <3>3. [st EXCEPT !.line = TooLong] = [line |-> TooLong, text |-> st.text]
      BY <2>5
    <3> QED  BY <1>3, <2>2, <2>4, <2>7, <3>2, <3>3
  <2>8. ASSUME st.line # TooLong, Len(r) + 1 # Cap  PROVE Stream!Byte(st, b) = next
    <3>1. st.line = r  BY <1>3, <1>4, <2>8
    <3>2. Stream!Byte(st, b) = [st EXCEPT !.line = Append(r, b)]
      BY <1>6, <2>8, <3>1 DEF Stream!Byte
    <3>3. [st EXCEPT !.line = Append(r, b)] = [line |-> Append(r, b), text |-> st.text]
      BY <2>5
    <3> QED  BY <1>3, <2>2, <2>4, <2>8, <3>2, <3>3
  <2> QED  BY <2>6, <2>7, <2>8 DEF StateOf, st, p
<1> QED  BY <1>5, <1>6

-----------------------------------------------------------------------------
(* The bytes of a read, one after another: run says what was kept, what was
   read after it, and the state that StatusLine is in. *)
ByteTurn(run, s, b) == Stream!Byte(s, b)
ByteInv(run, i, s) ==
  s = StateOf(run.kept \o SubSeq(run.chunk, 1, i), run.skip, run.text)

Bytewise == INSTANCE Loops WITH Turn <- ByteTurn, Inv <- ByteInv

LEMMA JoinedIs ==
  ASSUME NEW S
  PROVE  \A p \in Seq(S), c \in Seq(S) :
           /\ p \o c \in Seq(S) /\ Len(p \o c) = Len(p) + Len(c)
           /\ p \o c = [j \in 1 .. Len(p) + Len(c) |->
                          IF j <= Len(p) THEN p[j] ELSE c[j - Len(p)]]
<1> TAKE p \in Seq(S), c \in Seq(S)
<1> DEFINE x == p \o c
<1>1. /\ x \in Seq(S) /\ Len(x) = Len(p) + Len(c)
      /\ \A j \in 1 .. Len(p) + Len(c) : x[j] = IF j <= Len(p) THEN p[j] ELSE c[j - Len(p)]
  OBVIOUS
<1>2. \A t \in Seq(S) : t = [j \in 1 .. Len(t) |-> t[j]]  OBVIOUS
<1> HIDE DEF x
<1>3. x = [j \in 1 .. Len(p) + Len(c) |-> x[j]]  BY <1>1, <1>2
<1>4. x = [j \in 1 .. Len(p) + Len(c) |-> IF j <= Len(p) THEN p[j] ELSE c[j - Len(p)]]
  BY <1>1, <1>3
<1> QED  BY <1>1, <1>4 DEF x

(* One byte more of a chunk. *)
LEMMA NextByte ==
  ASSUME NEW S, NEW kept \in Seq(S), NEW chunk \in Seq(S), NEW i \in 1 .. Len(chunk)
  PROVE  /\ kept \o SubSeq(chunk, 1, i - 1) \in Seq(S)
         /\ Len(kept \o SubSeq(chunk, 1, i - 1)) = Len(kept) + i - 1
         /\ kept \o SubSeq(chunk, 1, i)
              = Append(kept \o SubSeq(chunk, 1, i - 1), chunk[i])
<1> DEFINE c == SubSeq(chunk, 1, i - 1)
           d == SubSeq(chunk, 1, i)
<1>1. /\ c \in Seq(S) /\ Len(c) = i - 1 /\ \A j \in 1 .. i - 1 : c[j] = chunk[j]
      /\ d \in Seq(S) /\ Len(d) = i /\ \A j \in 1 .. i : d[j] = chunk[j]
  OBVIOUS
<1>2. chunk[i] \in S  OBVIOUS
<1>3. i \in Nat /\ i >= 1 /\ Len(kept) \in Nat  OBVIOUS
<1> HIDE DEF c, d
<1> DEFINE l == Len(kept)
           k == kept \o c
           x == kept \o d
           y == Append(k, chunk[i])
<1>4. /\ x = [j \in 1 .. l + i |-> IF j <= l THEN kept[j] ELSE d[j - l]]
      /\ k = [j \in 1 .. l + (i - 1) |-> IF j <= l THEN kept[j] ELSE c[j - l]]
      /\ k \in Seq(S) /\ Len(k) = l + (i - 1)
  <2>1. \A p \in Seq(S), q \in Seq(S) :
          /\ p \o q \in Seq(S) /\ Len(p \o q) = Len(p) + Len(q)
          /\ p \o q = [j \in 1 .. Len(p) + Len(q) |->
                         IF j <= Len(p) THEN p[j] ELSE q[j - Len(p)]]
    BY JoinedIs
  <2>2. /\ kept \o c \in Seq(S) /\ Len(kept \o c) = Len(kept) + Len(c)
        /\ kept \o c = [j \in 1 .. Len(kept) + Len(c) |->
                          IF j <= Len(kept) THEN kept[j] ELSE c[j - Len(kept)]]
    BY <1>1, <2>1
  <2>3. kept \o d = [j \in 1 .. Len(kept) + Len(d) |->
                       IF j <= Len(kept) THEN kept[j] ELSE d[j - Len(kept)]]
    BY <1>1, <2>1
  <2>4. Len(c) = i - 1 /\ Len(d) = i  BY <1>1
  <2> QED  BY <2>2, <2>3, <2>4
<1>5. /\ Len(k) = l + (i - 1) /\ l + (i - 1) + 1 = l + i /\ l + (i - 1) = l + i - 1
      /\ (l + i) - l = i /\ ~(l + i <= l)
      /\ \A j \in 1 .. l + i : j # l + i => j \in 1 .. l + (i - 1)
      /\ \A j \in 1 .. l + i : j # l + i /\ ~(j <= l) => j - l \in 1 .. i - 1 /\ j - l \in 1 .. i
      /\ i \in 1 .. i
  <2>1. \A m \in Nat : m + (i - 1) \in Nat /\ m + (i - 1) + 1 = m + i /\ m + (i - 1) = m + i - 1
        /\ (m + i) - m = i /\ ~(m + i <= m)
    BY <1>3
  <2>2. \A m \in Nat : \A j \in 1 .. m + i : j # m + i => j \in 1 .. m + (i - 1)
    BY <1>3
  <2>3. \A m \in Nat : \A j \in 1 .. m + i : j # m + i /\ ~(j <= m) =>
                         j - m \in 1 .. i - 1 /\ j - m \in 1 .. i
    BY <1>3
  <2>4. Len(k) = l + (i - 1)  BY <1>4
  <2> HIDE DEF l, k
  <2> QED  BY <1>3, <2>1, <2>2, <2>3, <2>4 DEF l
<1>6. y = [j \in 1 .. l + i |-> IF j = l + i THEN chunk[i] ELSE k[j]]
  <2>1. \A t \in Seq(S), z \in S :
          Append(t, z) = [j \in 1 .. Len(t) + 1 |-> IF j = Len(t) + 1 THEN z ELSE t[j]]
    BY AppendIs
  <2> HIDE DEF k, l
  <2>2. y = [j \in 1 .. Len(k) + 1 |-> IF j = Len(k) + 1 THEN chunk[i] ELSE k[j]]
    BY <1>2, <1>4, <2>1
  <2>3. Len(k) + 1 = l + i  BY <1>5
  <2> QED  BY <2>2, <2>3
<1>7. \A j \in 1 .. l + i : (IF j = l + i THEN chunk[i] ELSE k[j])
                             = IF j <= l THEN kept[j] ELSE d[j - l]
  <2> HIDE DEF k, l
  <2> TAKE j \in 1 .. l + i
  <2>1. CASE j = l + i  BY <1>1, <1>5, <2>1
  <2>2. CASE j # l + i /\ j <= l  BY <1>4, <1>5, <2>2
  <2>3. CASE j # l + i /\ ~(j <= l)
    <3>1. k[j] = c[j - l]  BY <1>4, <1>5, <2>3
    <3>2. j - l \in 1 .. i - 1 /\ j - l \in 1 .. i  BY <1>5, <2>3
    <3>3. c[j - l] = chunk[j - l] /\ d[j - l] = chunk[j - l]  BY <1>1, <3>2
    <3> QED  BY <2>3, <3>1, <3>3
  <2> QED  BY <2>1, <2>2, <2>3
<1>8. x = y
  <2> HIDE DEF k, l, x, y
  <2> QED  BY <1>4, <1>6, <1>7
<1> QED  BY <1>4, <1>5, <1>8 DEF c, d

BytesRead(st, chunk) == FoldLeft(Stream!Byte, st, chunk)

LEMMA StreamReads ==
  ASSUME NEW st, NEW chunk
  PROVE  Stream!FoldLeft(Stream!Byte, st, chunk) = BytesRead(st, chunk)
BY DEF BytesRead, Stream!FoldLeft, Stream!MapThenFoldSet, Stream!Max,
       FoldLeft, MapThenFoldSet, Max

(* StatusLine reads a chunk that there is room for, byte by byte. *)
LEMMA ChunkIsRead ==
  ASSUME NEW kept \in Seq(AllBytes), NEW chunk \in Seq(AllBytes),
         Len(kept) + Len(chunk) <= Cap, NEW skip \in BOOLEAN, NEW text
  PROVE  BytesRead(StateOf(kept, skip, text), chunk) = StateOf(kept \o chunk, skip, text)
<1> DEFINE run == [kept |-> kept, chunk |-> chunk, skip |-> skip, text |-> text]
           base == StateOf(kept, skip, text)
<1>1. /\ run.kept = kept /\ run.chunk = chunk /\ run.skip = skip /\ run.text = text
  OBVIOUS
<1> HIDE DEF run
<1>2. kept \o SubSeq(chunk, 1, 0) = kept /\ SubSeq(chunk, 1, Len(chunk)) = chunk
  OBVIOUS
<1>3. ByteInv(run, 0, base)  BY <1>1, <1>2 DEF ByteInv
<1>4. ASSUME NEW i \in 1 .. Len(chunk), NEW s, ByteInv(run, i - 1, s)
      PROVE  ByteInv(run, i, ByteTurn(run, s, chunk[i]))
  <2> DEFINE q == kept \o SubSeq(chunk, 1, i - 1)
  <2>1. /\ q \in Seq(AllBytes) /\ Len(q) = Len(kept) + i - 1
        /\ kept \o SubSeq(chunk, 1, i) = Append(q, chunk[i])
    BY NextByte
  <2>2. s = StateOf(q, skip, text)  BY <1>1, <1>4 DEF ByteInv
  <2> HIDE DEF q
  <2>3. Len(q) < Cap
    <3>1. Cap \in Nat  BY StatusInputAssumption
    <3>2. Len(kept) \in Nat /\ Len(chunk) \in Nat  OBVIOUS
    <3> QED  BY <2>1, <3>1, <3>2
  <2>4. chunk[i] \in AllBytes  OBVIOUS
  <2>5. Stream!Byte(s, chunk[i]) = StateOf(Append(q, chunk[i]), skip, text)
    BY <2>1, <2>2, <2>3, <2>4, ByteIsRead
  <2> QED  BY <1>1, <2>1, <2>5 DEF ByteInv, ByteTurn
<1> HIDE DEF base
<1>5. ByteInv(run, Len(chunk), Bytewise!Fold(run, base, chunk))
  BY <1>3, <1>4, LeastMembers, Bytewise!LoopKeeps
<1>6. Bytewise!Fold(run, base, chunk) = BytesRead(base, chunk)
  BY DEF BytesRead, Bytewise!Fold, Bytewise!Greatest,
         FoldLeft, MapThenFoldSet, ByteTurn, Max
<1> QED  BY <1>1, <1>2, <1>5, <1>6 DEF ByteInv, base

-----------------------------------------------------------------------------
(* What is kept is the start of a line, shorter than the buffer. *)
ReaderInv ==
  /\ pipe \in Seq(AllBytes) /\ skipping \in BOOLEAN
  /\ input_buffer \in Seq(AllBytes) /\ Len(input_buffer) < Cap /\ Ends(input_buffer) = {}

LEMMA ReaderStarts == StatusInit => ReaderInv
<1> SUFFICES ASSUME StatusInit PROVE ReaderInv  OBVIOUS
<1>1. Cap \in Nat \ {0}  BY StatusInputAssumption
<1>2. <<>> \in Seq(AllBytes) /\ Len(<<>>) = 0 /\ Ends(<<>>) = {}  BY DEF Ends
<1>3. Len(<<>>) < Cap  BY <1>1, <1>2
<1> QED  BY <1>2, <1>3 DEF StatusInit, ReaderInv

(* How many lines a buffer has, in terms of where they end. *)
LEMMA NoLineRead ==
  ASSUME NEW q \in Seq(AllBytes), skipping \in BOOLEAN
  PROVE  LinesRead(q) = 0
           <=> (Ends(q) = {} \/ (skipping /\ \E e \in Ends(q) : Ends(q) = {e}))
<1> DEFINE S == Ends(q)
<1>1. IsFiniteSet(S)
  <2>1. S \in SUBSET (1 .. Len(q)) /\ Len(q) \in Nat  BY LastEndIs
  <2>2. IsFiniteSet(1 .. Len(q))  BY <2>1, FS_Interval
  <2> QED  BY <2>1, <2>2, FS_Subset
<1> HIDE DEF S
<1>2. Cardinality(S) \in Nat /\ (Cardinality(S) = 0 <=> S = {})
  BY <1>1, FS_CardinalityType, FS_EmptySet
<1>3. Cardinality(S) = 1 <=> \E e : S = {e}  BY <1>1, FS_Singleton
<1>4. (\E e : S = {e}) <=> (\E e \in S : S = {e})  OBVIOUS
<1>5. LinesRead(q) = IF skipping /\ S # {} THEN Cardinality(S) - 1 ELSE Cardinality(S)
  BY DEF LinesRead, S
<1>6. CASE skipping /\ S # {}
  <2>1. LinesRead(q) = 0 <=> Cardinality(S) = 1  BY <1>2, <1>5, <1>6
  <2> QED  BY <1>3, <1>4, <1>6, <2>1 DEF S
<1>7. CASE ~(skipping /\ S # {})
  <2>1. LinesRead(q) = 0 <=> S = {}  BY <1>2, <1>5, <1>7
  <2> QED  BY <1>7, <2>1 DEF S
<1> QED  BY <1>6, <1>7

(* A read keeps the invariant, and is one of StatusLine. *)
LEMMA ReadFollows ==
  ASSUME ReaderInv, NEW n \in 1 .. Len(pipe), bar_handle_status_input(n)
  PROVE  ReaderInv' /\ Stream!Reads(n)
<1> DEFINE chunk == SubSeq(pipe, 1, n)
           q == input_buffer \o chunk
           r == PartialLine(q)
<1>1. Cap \in Nat \ {0}  BY StatusInputAssumption
<1>2. /\ pipe \in Seq(AllBytes) /\ skipping \in BOOLEAN
      /\ input_buffer \in Seq(AllBytes) /\ Len(input_buffer) \in Nat
      /\ Len(input_buffer) < Cap /\ Ends(input_buffer) = {}
  BY DEF ReaderInv
<1>3. chunk \in Seq(AllBytes) /\ Len(chunk) = n /\ n \in Nat  BY <1>2
<1>4. /\ n <= Cap - Len(input_buffer)
      /\ pipe' = SubSeq(pipe, n + 1, Len(pipe))
      /\ status_text' = IF LinesRead(q) = 0 THEN status_text ELSE LatestLine(q)
      /\ IF Len(r) = Cap
         THEN input_buffer' = <<>> /\ skipping' = TRUE
         ELSE input_buffer' = r /\ skipping' = (skipping /\ Ends(q) = {})
  BY DEF bar_handle_status_input
<1>5. q \in Seq(AllBytes) /\ Len(q) <= Cap  BY <1>1, <1>2, <1>3, <1>4
<1> HIDE DEF chunk, q
<1>6. r \in Seq(AllBytes) /\ Len(r) \in Nat /\ Len(r) <= Cap /\ Ends(r) = {}
  <2>1. r \in Seq(AllBytes) /\ Len(r) <= Len(q) /\ Ends(r) = {}  BY <1>5, PartialLineIs
  <2>2. Len(q) \in Nat  BY <1>5
  <2> QED  BY <1>1, <1>5, <2>1, <2>2
<1> HIDE DEF r
<1>7. ReaderInv'
  <2>1. pipe' \in Seq(AllBytes)  BY <1>2, <1>3, <1>4
  <2>2. CASE Len(r) = Cap
    <3>1. input_buffer' = <<>> /\ skipping' = TRUE  BY <1>4, <2>2
    <3>2. <<>> \in Seq(AllBytes) /\ Len(<<>>) = 0 /\ Ends(<<>>) = {}  BY DEF Ends
    <3>3. Ends(input_buffer)' = {}  BY <3>1 DEF Ends
    <3> QED  BY <1>1, <2>1, <3>1, <3>2, <3>3 DEF ReaderInv
  <2>3. CASE Len(r) # Cap
    <3>1. input_buffer' = r /\ skipping' = (skipping /\ Ends(q) = {})  BY <1>4, <2>3
    <3>2. Len(r) < Cap  BY <1>1, <1>6, <2>3
    <3>3. Ends(input_buffer)' = {}  BY <1>6, <3>1 DEF Ends
    <3> QED  BY <1>6, <2>1, <3>1, <3>2, <3>3 DEF ReaderInv
  <2> QED  BY <2>2, <2>3
<1>8. StateOf(input_buffer, skipping, status_text)
        = [line |-> IF skipping THEN TooLong ELSE input_buffer, text |-> status_text]
  <2>1. PartialLine(input_buffer) = input_buffer  BY <1>2, NoEndYet
  <2>2. Len(input_buffer) # Cap  BY <1>1, <1>2
  <2> QED  BY <1>2, <2>1, <2>2 DEF StateOf, LineOf, TextOf
<1>9. StateOf(q, skipping, status_text)
        = [line |-> (IF skipping THEN TooLong ELSE input_buffer)', text |-> status_text']
  <2>1. LineOf(q, skipping) = (IF skipping THEN TooLong ELSE input_buffer)'
    BY <1>4 DEF LineOf, r
  <2>2. TextOf(q, skipping, status_text) = status_text'
    BY <1>2, <1>4, <1>5, NoLineRead DEF TextOf
  <2> QED  BY <2>1, <2>2 DEF StateOf
<1>10. BytesRead(StateOf(input_buffer, skipping, status_text), chunk)
         = StateOf(q, skipping, status_text)
  <2>1. Len(input_buffer) + Len(chunk) <= Cap  BY <1>1, <1>2, <1>3, <1>4
  <2> QED  BY <1>2, <1>3, <2>1, ChunkIsRead DEF q
<1>11. Stream!Reads(n)
  <2> DEFINE now == [line |-> IF skipping THEN TooLong ELSE input_buffer, text |-> status_text]
  <2>1. BytesRead(now, chunk)
          = [line |-> (IF skipping THEN TooLong ELSE input_buffer)', text |-> status_text']
    BY <1>8, <1>9, <1>10
  <2>2. Stream!FoldLeft(Stream!Byte, now, chunk) = BytesRead(now, chunk)
    <3> HIDE DEF now
    <3> QED  BY StreamReads
  <2>3. Stream!FoldLeft(Stream!Byte, now, chunk)
          = [line |-> (IF skipping THEN TooLong ELSE input_buffer)', text |-> status_text']
    BY <2>1, <2>2
  <2> QED  BY <1>4, <2>3 DEF Stream!Reads, chunk
<1> QED  BY <1>7, <1>11

(* What the writer writes are bytes. *)
LEMMA WriteFollows ==
  ASSUME ReaderInv, NEW w \in Lines, WriterWrites(w)
  PROVE  ReaderInv' /\ Stream!Writes(w)
<1>1. w \in Seq(AllBytes)  BY StatusInputAssumption
<1>2. pipe' \in Seq(AllBytes)  BY <1>1 DEF WriterWrites, ReaderInv
<1>3. UNCHANGED <<input_buffer, skipping, status_text>>  BY DEF WriterWrites
<1>4. ReaderInv'  BY <1>2, <1>3 DEF ReaderInv, Ends
<1> QED  BY <1>3, <1>4 DEF WriterWrites, Stream!Writes

(* Every step of the reader is one of StatusLine, or none. *)
LEMMA StepFollows ==
  ASSUME ReaderInv, [StatusNext]_status_vars
  PROVE  ReaderInv' /\ [Stream!LineNext]_(Stream!line_vars)
<1>1. ASSUME NEW w \in Lines, WriterWrites(w)
      PROVE  ReaderInv' /\ [Stream!LineNext]_(Stream!line_vars)
  BY <1>1, WriteFollows DEF Stream!LineNext
<1>2. ASSUME NEW n \in 1 .. Len(pipe), bar_handle_status_input(n)
      PROVE  ReaderInv' /\ [Stream!LineNext]_(Stream!line_vars)
  BY <1>2, ReadFollows DEF Stream!LineNext
<1>3. CASE WriterExits \/ bar_status_stop
  BY <1>3 DEF WriterExits, bar_status_stop, ReaderInv, Ends, Stream!line_vars
<1>4. CASE LayoutNamesTheProgram
  BY <1>4 DEF LayoutNamesTheProgram, ReaderInv, Ends, Stream!LineNext, Stream!ShowsVersion
<1>5. CASE UNCHANGED status_vars
  BY <1>5 DEF status_vars, ReaderInv, Ends, Stream!line_vars
<1> QED  BY <1>1, <1>2, <1>3, <1>4, <1>5 DEF StatusNext

(* However standard input is cut into chunks, and whatever the lines and the
   size of the buffer, the status text is what StatusLine makes of it byte by
   byte (bar_handle_status_input, src/desktop/bar/status.c). *)
THEOREM ChunksMakeNoDifference == StatusSpec => ReadsLineByLine
<1>1. StatusInit => Stream!LineInit  BY DEF StatusInit, Stream!LineInit
<1>2. ReaderInv /\ [StatusNext]_status_vars => ReaderInv'  BY StepFollows
<1>3. ReaderInv /\ [StatusNext]_status_vars => [Stream!LineNext]_(Stream!line_vars)
  BY StepFollows
<1> QED  BY <1>1, <1>2, <1>3, ReaderStarts, PTL DEF StatusSpec, ReadsLineByLine, Stream!LineSpec
=============================================================================
