------------------------------- MODULE Notify -------------------------------
(***************************************************************************)
(* The notification service of src/desktop/notify: one notification in the *)
(* box of the bar, a queue behind it, a short history, and the picker of   *)
(* src/desktop/bar/notification.c that holds the box while the user picks  *)
(* an action.                                                              *)
(*                                                                         *)
(* As in WindowCore, the functions the handlers nest are operators from a  *)
(* state record to a state record.  Texts, icons and progress are left     *)
(* out, and times: what is left of a held notification is kept only as     *)
(* nothing or something.  A notification that expires has a timeout, and   *)
(* by notify_handle_notify only critical ones have none.                   *)
(***************************************************************************)
EXTENDS Integers, Sequences, FiniteSets, SequencesExt

CONSTANTS
  IdCount,      (* 2^32 - 1: the counter of ids wraps past it                 *)
  QueueMax,     (* NOTIFY_QUEUEMAX                                            *)
  HistMax,      (* NOTIFY_HISTMAX                                             *)
  Kinds,        (* what programs send                                         *)
  Picking,      (* the bound actions that run with the picker open: those of
                   a button or a gesture                                      *)
  TimerMayFail, (* whether wl_event_loop_add_timer can return nullptr         *)
  NoTag         (* no stack tag                                               *)

Tagset == {k.tag : k \in Kinds} \cup {NoTag}

(* What a message says: its application and stack tag, and its hints.       *)
Kind == [tag : Tagset, critical : BOOLEAN, transient : BOOLEAN,
         resident : BOOLEAN, acts : BOOLEAN, hasdefault : BOOLEAN]

ASSUME LimitsAssumption ==
  /\ IdCount \in Nat \ {0} /\ QueueMax \in Nat \ {0} /\ HistMax \in Nat \ {0}
  /\ TimerMayFail \in BOOLEAN
ASSUME KindsAssumption == Kinds \subseteq Kind

Ids == 1 .. IdCount

(* A notification is a record [id, kind, seen]; what the history keeps of one,
   [id, tag].  The fields of NotifyState, and those of the picker:
     running, active  the service runs; cur is in the box
     cur              one element, valid when active
     queue, hist      sequences of notifications, and of what is kept of them
     held, heldleft   held, and some time was left when it was
     timer            "none" until one is created, then "off" or "on"
     seq              the counter of ids
     pick             whom the picker belongs to, 0 if closed
     able             a timer can be created
     closed           NotificationClosed sent by the last step               *)
VARIABLE ns

notify_start == [
  running |-> TRUE, active |-> FALSE, cur |-> <<>>, queue |-> <<>>,
  hist |-> <<>>, held |-> FALSE, heldleft |-> FALSE, timer |-> "none",
  seq |-> 0, pick |-> 0, able |-> TRUE, closed |-> {} ]

-----------------------------------------------------------------------------
(* The queue and the history. *)

Cur(s) == s.cur[1]

notify_same_slot(first, second) ==
  first.id = second.id \/ (first.tag # NoTag /\ first.tag = second.tag)

Entry(n) == [id |-> n.id, tag |-> n.kind.tag]

(* The first entry of the same slot makes room, or the oldest of a full
   history does. *)
notify_history_push(s, n) ==
  LET same == {i \in DOMAIN s.hist : notify_same_slot(s.hist[i], Entry(n))}
      rest == IF same # {} THEN RemoveAt(s.hist, Min(same))
              ELSE IF Len(s.hist) = HistMax THEN Front(s.hist) ELSE s.hist
  IN  IF n.kind.transient THEN s ELSE [s EXCEPT !.hist = <<Entry(n)>> \o rest]

notify_closed(s, id) == [s EXCEPT !.closed = @ \cup {id}]

(* notify_closed, then notify_history_push: how a notification goes when no
   program asked for it *)
Retire(s, n) == notify_history_push(notify_closed(s, n.id), n)

Expiring(s) == {i \in DOMAIN s.queue : ~s.queue[i].kind.critical}
Unseen(s)   == {i \in DOMAIN s.queue : s.queue[i].kind.critical /\ ~s.queue[i].seen}

notify_unqueue(s, i) == [s EXCEPT !.queue = RemoveAt(@, i)]

(* mutant: what a full queue drops is not reported *)
notify_enqueue_Silent(s, n, front) ==
  LET room == IF Len(s.queue) < QueueMax THEN s ELSE notify_unqueue(s, 1)
  IN  [room EXCEPT !.queue = IF front THEN <<n>> \o @ ELSE Append(@, n)]

(* a full queue sends its oldest expiring entry, or its first, to the history *)
notify_enqueue(s, n, front) ==
  LET i    == IF Expiring(s) # {} THEN Min(Expiring(s)) ELSE 1
      room == IF Len(s.queue) < QueueMax THEN s
              ELSE Retire(notify_unqueue(s, i), s.queue[i])
  IN  [room EXCEPT !.queue = IF front THEN <<n>> \o @ ELSE Append(@, n)]

-----------------------------------------------------------------------------
(* The box. *)

(* arms or disarms; the timer is created the first time it is needed *)
notify_arm(s, on) ==
  [s EXCEPT !.timer = IF @ = "none" /\ ~(on /\ s.able) THEN "none"
                      ELSE IF on THEN "on" ELSE "off"]

Armed(s, on) == on => s.timer = "on"

(* mutant: a sticky one leaves the timer of the one before running *)
notify_show_Armed(s, n) ==
  LET up == [s EXCEPT !.cur = <<[n EXCEPT !.seen = TRUE]>>, !.active = TRUE]
  IN  IF s.held THEN [up EXCEPT !.heldleft = ~n.kind.critical]
      ELSE IF n.kind.critical THEN up
      ELSE LET a == notify_arm(up, TRUE) IN [a EXCEPT !.active = Armed(a, TRUE)]

(* notify_show of a new cur; without a timer it does not become active *)
notify_show(s, n) ==
  LET on == ~n.kind.critical
      up == [s EXCEPT !.cur = <<[n EXCEPT !.seen = TRUE]>>, !.active = TRUE]
      a  == notify_arm(up, on)
  IN  IF s.held THEN [up EXCEPT !.heldleft = on]
      ELSE [a EXCEPT !.active = Armed(a, on)]

(* The next one to show: an unseen critical, else the first that expires. *)
NextShown(s) ==
  IF Unseen(s) # {} THEN Min(Unseen(s))
  ELSE IF Expiring(s) # {} THEN Min(Expiring(s)) ELSE 1

(* One turn of the loop of notify_show_next. *)
ShowNext(s, turn) ==
  LET n     == s.queue[NextShown(s)]
      shown == notify_show(notify_unqueue(s, NextShown(s)), n)
  IN  IF s.active \/ s.queue = <<>> THEN s
      ELSE IF shown.active THEN shown ELSE Retire(shown, n)

notify_show_next(s) == FoldLeft(ShowNext, s, [i \in 1 .. Len(s.queue) |-> i])

(* notify_show and what every caller does when it fails *)
ShowOrDrop(s, n) ==
  LET shown == notify_show(s, n)
  IN  IF shown.active THEN shown ELSE notify_show_next(Retire(shown, n))

notify_clear(s, bycall) ==
  LET down == notify_arm([s EXCEPT !.active = FALSE, !.held = FALSE], FALSE)
      gone == IF bycall THEN notify_closed(down, Cur(s).id) ELSE Retire(down, Cur(s))
  IN  IF ~s.active THEN s ELSE notify_show_next(gone)

(* hold(1): the timer stops *)
Hold(s) ==
  IF ~s.active \/ s.held THEN s
  ELSE notify_arm([s EXCEPT !.held = TRUE, !.heldleft = ~Cur(s).kind.critical], FALSE)

(* mutant: a critical that arrived meanwhile is not shown *)
Release_Waiting(s) ==
  IF ~s.active \/ ~s.held THEN s
  ELSE LET r == [s EXCEPT !.held = FALSE]
       IN  IF Cur(s).kind.critical THEN r ELSE notify_arm(r, s.heldleft)
(* hold(0): an unseen critical takes the box, or the timer goes on *)
Release(s) ==
  LET r        == [s EXCEPT !.held = FALSE]
      i        == Min(Unseen(s))
      promoted == notify_enqueue([notify_unqueue(r, i) EXCEPT !.active = FALSE],
                                 Cur(s), TRUE)
  IN  IF ~s.active \/ ~s.held THEN s
      ELSE IF Cur(s).kind.critical THEN r
      ELSE IF Unseen(s) # {} THEN ShowOrDrop(promoted, s.queue[i])
      ELSE notify_arm(r, s.heldleft)

(* notify_invoke_action *)
Invoke(s) == IF Cur(s).kind.resident THEN Release(s) ELSE notify_clear(s, FALSE)

notify_invoke(s) ==
  IF ~s.active THEN s
  ELSE IF Cur(s).kind.hasdefault THEN Invoke(s) ELSE notify_clear(s, FALSE)

(* notify_dismiss_all; the hold is not released *)
notify_dismiss_all(s) ==
  LET down == notify_arm([s EXCEPT !.active = FALSE, !.queue = <<>>], FALSE)
  IN  IF ~s.active THEN s ELSE FoldLeft(Retire, down, s.cur \o s.queue)

-----------------------------------------------------------------------------
(* The messages of programs.  A step starts with no signal sent. *)

Fresh == [ns EXCEPT !.closed = {}]

Live(s) == (IF s.active THEN {Cur(s)} ELSE {}) \cup ToSet(s.queue)

LiveIds(s) == {n.id : n \in Live(s)}

(* the next id of the counter, which skips 0 *)
NextId(s) == (s.seq % IdCount) + 1

(* mutant: what is queued is not looked up by id *)
Deliver_Again(s, n) ==
  IF s.active /\ Cur(s).id = n.id THEN ShowOrDrop(s, n)
  ELSE IF s.held THEN notify_enqueue(s, n, n.kind.critical)
  ELSE IF ~s.active THEN ShowOrDrop(s, n)
  ELSE notify_enqueue(s, n, FALSE)

(* mutant: the one that takes the box does not ask whether it is held *)
Deliver_Unheld(s, n) ==
  LET at == {i \in DOMAIN s.queue : s.queue[i].id = n.id}
  IN  IF s.active /\ Cur(s).id = n.id THEN ShowOrDrop(s, n)
      ELSE IF at # {} THEN [s EXCEPT !.queue[Min(at)] = n]
      ELSE IF ~s.active THEN ShowOrDrop(s, n)
      ELSE IF Cur(s).kind.critical \/ n.kind.critical
      THEN ShowOrDrop(notify_enqueue([notify_arm(s, FALSE) EXCEPT !.active = FALSE],
                                     Cur(s), TRUE), n)
      ELSE notify_enqueue(s, n, FALSE)

(* The end of notify_handle_notify: an update keeps its place; while the
   picker is open the rest queues up; otherwise it is shown now if the box is
   free or sticky or it is critical itself, and what it covers goes back to
   the front of the queue. *)
Deliver(s, n) ==
  LET at == {i \in DOMAIN s.queue : s.queue[i].id = n.id}
  IN  IF s.active /\ Cur(s).id = n.id THEN ShowOrDrop(s, n)
      ELSE IF at # {} THEN [s EXCEPT !.queue[Min(at)] = n]
      ELSE IF s.held THEN notify_enqueue(s, n, n.kind.critical)
      ELSE IF ~s.active THEN ShowOrDrop(s, n)
      ELSE IF Cur(s).kind.critical \/ n.kind.critical
      THEN ShowOrDrop(notify_enqueue([notify_arm(s, FALSE) EXCEPT !.active = FALSE],
                                     Cur(s), TRUE), n)
      ELSE notify_enqueue(s, n, FALSE)

(* The id of the live one that shares a stack tag: the one in the box, else the
   first of the queue; 0 if there is none. *)
SameTag(s, tag) ==
  LET at == {i \in DOMAIN s.queue : s.queue[i].kind.tag = tag}
  IN  IF tag = NoTag THEN 0
      ELSE IF s.active /\ Cur(s).kind.tag = tag THEN Cur(s).id
      ELSE IF at # {} THEN s.queue[Min(at)].id ELSE 0

(* notify_handle_notify, with the id the program replaces, or 0 *)
notify_handle_notify ==
  \E kind \in Kinds, replaces_id \in 0 .. IdCount :
    LET known == IF replaces_id # 0 THEN replaces_id ELSE SameTag(ns, kind.tag)
        id    == IF known # 0 THEN known ELSE NextId(ns)
        s     == IF known # 0 THEN Fresh ELSE [Fresh EXCEPT !.seq = id]
    IN  ns' = Deliver(s, [id |-> id, kind |-> kind, seen |-> FALSE])

(* notify_handle_close *)
notify_handle_close(id) ==
  LET at == {i \in DOMAIN ns.queue : ns.queue[i].id = id}
  IN  IF ns.active /\ Cur(ns).id = id THEN ns' = notify_clear(Fresh, TRUE)
      ELSE /\ at # {}
           /\ ns' = notify_closed(notify_unqueue(Fresh, Min(at)), id)

(* the timer fires once *)
notify_expire ==
  /\ ns.timer = "on"
  /\ ns' = notify_clear([Fresh EXCEPT !.timer = "off"], FALSE)

-----------------------------------------------------------------------------
(* The user. *)

PickClosed(s) == Release([s EXCEPT !.pick = 0])

(* bar_notification_picking, which also closes the picker once its
   notification is gone or has no actions *)
Picked(s) ==
  IF s.pick = 0 \/ (s.active /\ Cur(s).id = s.pick /\ Cur(s).kind.acts) THEN s
  ELSE PickClosed(s)

(* bar_draw_notification and a key ask whether the picker is open; a hidden
   bar is not drawn, so this may come long after the notification went *)
CheckPicker == ns.pick # 0 /\ ns' = Picked(Fresh)

(* The picker has the keyboard: an action may run with it open only if it is
   bound to a button or a gesture. *)
Reached(name) == Picked(Fresh).pick # 0 => name \in Picking

(* bar_notification_actions *)
TogglePicker ==
  LET s == Picked(Fresh)
  IN  /\ Reached("actions")
      /\ ns' = IF s.pick # 0 THEN PickClosed(s)
               ELSE IF s.active /\ Cur(s).kind.acts
               THEN Hold([s EXCEPT !.pick = Cur(s).id]) ELSE s

(* bar_notification_pick_key: Return or a digit, then Escape *)
PickKey ==
  LET s == Picked(Fresh)
  IN  /\ s.pick # 0
      /\ \/ ns' = Invoke([s EXCEPT !.pick = 0])
         \/ ns' = PickClosed(s)

(* bar_notification_dismiss, and bar_notification_next with nothing browsed *)
Dismiss ==
  LET s == Picked(Fresh)
  IN  /\ Reached("dismiss")
      /\ ns' = IF s.pick # 0 THEN PickClosed(s) ELSE notify_clear(s, FALSE)

(* bar_notification_dismiss of an entry of the history, with no picker open *)
Forget ==
  LET s == Picked(Fresh)
  IN  /\ s.pick = 0
      /\ \E i \in DOMAIN s.hist : ns' = [s EXCEPT !.hist = RemoveAt(@, i)]

DismissAll ==
  /\ Reached("dismissall")
  /\ ns' = notify_dismiss_all(Fresh)

(* bar_notification_open, when no label of the picker is under the pointer *)
Open ==
  /\ Reached("open")
  /\ ns' = notify_invoke(Fresh)

(* notify_stop, on the way out *)
notify_stop ==
  ns' = [notify_clear([Fresh EXCEPT !.queue = <<>>,
                                    !.closed = {n.id : n \in ToSet(ns.queue)}], FALSE)
           EXCEPT !.hist = <<>>, !.timer = "none", !.running = FALSE]

(* memory comes and goes; it matters until the timer exists *)
Starve ==
  /\ TimerMayFail /\ ns.timer = "none"
  /\ ns' = [Fresh EXCEPT !.able = ~@]

NotifyNext ==
  /\ ns.running
  /\ \/ notify_handle_notify
     \/ \E id \in Ids : notify_handle_close(id)
     \/ notify_expire
     \/ CheckPicker \/ TogglePicker \/ PickKey
     \/ Dismiss \/ Forget \/ DismissAll \/ Open
     \/ notify_stop \/ Starve

NotifySpec == ns = notify_start /\ [][NotifyNext]_ns

-----------------------------------------------------------------------------
(* An id names one notification: none is at once in the box and in the queue,
   or twice in the queue, whatever ids programs make up and however often the
   counter has wrapped. *)
LiveIdsAreDistinct ==
  /\ ns.active => Cur(ns).id \notin {n.id : n \in ToSet(ns.queue)}
  /\ IsInjective([i \in DOMAIN ns.queue |-> ns.queue[i].id])

(* Every program hears when its notification goes away, in the step in which
   it goes, and not before: NotificationClosed is sent for what was in the
   box or in the queue and is no more, and for nothing that is still there. *)
EveryLossIsReported ==
  [][/\ LiveIds(ns) \ LiveIds(ns') \subseteq ns'.closed
     /\ ns'.closed \cap LiveIds(ns') = {}]_ns

(* The timer runs exactly for an expiring notification in the box that nobody
   holds: it never takes another one down, and none sits there forever, short
   of a timer that cannot be created. *)
TimerFollowsTheBox ==
  /\ ns.timer = "on" => ns.active /\ ~ns.held /\ ~Cur(ns).kind.critical
  /\ ns.active /\ ~ns.held /\ ~Cur(ns).kind.critical => ns.timer # "off"

(* While the user picks an action (the same picker stays open, the box stays
   held) nothing takes the box, not even a critical notification. *)
NothingTakesTheHeldBox ==
  [][ns.held /\ ns'.held /\ ns.pick = ns'.pick /\ ns.active /\ ns'.active =>
       Cur(ns').id = Cur(ns).id]_ns

(* What was held back takes the box when it is let go: no critical one that
   was never shown waits behind one that is not critical. *)
CriticalGoesFirst ==
  [][ns.held /\ ~ns'.held /\ ns'.active =>
       Cur(ns').kind.critical \/ Unseen(ns') = {}]_ns

(* Nothing waits for an empty box: it is held only while something is in it,
   and then released. *)
HeldBoxIsNotEmpty == ns.held => ns.active
=============================================================================
