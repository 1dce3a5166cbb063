---------------------------- MODULE NotifyProofs ----------------------------
(***************************************************************************)
(* What is proved of the notification service, for any number of ids, any  *)
(* lengths of the queue and the history, and whatever programs send: an id *)
(* names one notification, each that goes is reported in the step in which *)
(* it goes, the timer runs for the one in the box, nothing takes the box   *)
(* from the picker, and a critical one goes first when it is let go.       *)
(***************************************************************************)
EXTENDS Notify, ListProofs, TLAPS

-----------------------------------------------------------------------------
(* Types. *)

Note == [id : Ids, kind : Kinds, seen : BOOLEAN]

State == [
  running : BOOLEAN, active : BOOLEAN, cur : Seq(Note), queue : Seq(Note),
  hist : Seq([id : Ids, tag : Tagset]), held : BOOLEAN, heldleft : BOOLEAN,
  timer : {"none", "off", "on"}, seq : 0 .. IdCount, pick : 0 .. IdCount,
  able : BOOLEAN, closed : SUBSET Ids ]

(* The ids in a queue, and each of them there once. *)
IdsOf(q) == {q[i].id : i \in DOMAIN q}
Once(q)  == \A i, j \in DOMAIN q : q[i].id = q[j].id => i = j

LEMMA NoteFields ==
  ASSUME NEW n \in Note
  PROVE  /\ n.id \in Ids /\ n.kind \in Kinds /\ n.seen \in BOOLEAN
         /\ n.kind.critical \in BOOLEAN /\ n.kind.resident \in BOOLEAN
         /\ n.kind.transient \in BOOLEAN /\ n.kind.tag \in Tagset
         /\ n.kind.acts \in BOOLEAN /\ n.kind.hasdefault \in BOOLEAN
  BY KindsAssumption DEF Note, Kind

-----------------------------------------------------------------------------
(* Queues. *)

LEMMA TakeOut ==
  ASSUME NEW q \in Seq(Note), Once(q), NEW i \in DOMAIN q
  PROVE  LET r == RemoveAt(q, i)
         IN  /\ r \in Seq(Note) /\ Once(r) /\ Len(r) = Len(q) - 1
             /\ IdsOf(r) = IdsOf(q) \ {q[i].id}
             /\ ToSet(r) \subseteq ToSet(q)
<1> DEFINE r == RemoveAt(q, i)
           at(j) == IF j < i THEN j ELSE j + 1
<1>0. Len(q) \in Nat /\ DOMAIN q = 1 .. Len(q) /\ i \in 1 .. Len(q)  OBVIOUS
<1>1. /\ r \in Seq(Note) /\ Len(r) = Len(q) - 1
      /\ \A j \in 1 .. Len(q) - 1 : r[j] = IF j < i THEN q[j] ELSE q[j + 1]
  BY <1>0, RemoveAtProperties
<1> HIDE DEF r
<1>2. DOMAIN r = 1 .. Len(q) - 1  BY <1>0, <1>1
<1>3. \A j \in DOMAIN r : at(j) \in DOMAIN q \ {i} /\ r[j] = q[at(j)]
  BY <1>0, <1>1, <1>2
<1>4. ASSUME NEW k \in DOMAIN q, k # i  PROVE \E j \in DOMAIN r : at(j) = k
  <2>1. CASE k < i
    <3>1. k \in DOMAIN r /\ at(k) = k  BY <1>0, <1>2, <1>4, <2>1
    <3> QED  BY <3>1
  <2>2. CASE k > i
    <3>1. k - 1 \in DOMAIN r /\ at(k - 1) = k  BY <1>0, <1>2, <1>4, <2>2
    <3> QED  BY <3>1
  <2> QED  BY <1>0, <1>4, <2>1, <2>2
<1>5. \A j, k \in DOMAIN r : at(j) = at(k) => j = k  BY <1>0, <1>2
<1> HIDE DEF at
<1>6. Once(r)  BY <1>3, <1>5 DEF Once
<1>7. IdsOf(r) \subseteq IdsOf(q) \ {q[i].id}  BY <1>3 DEF IdsOf, Once
<1>8. IdsOf(q) \ {q[i].id} \subseteq IdsOf(r)
  <2> SUFFICES ASSUME NEW k \in DOMAIN q, q[k].id # q[i].id
               PROVE  q[k].id \in IdsOf(r)
    BY DEF IdsOf
  <2>1. PICK j \in DOMAIN r : at(j) = k  BY <1>4
  <2> QED  BY <1>3, <2>1 DEF IdsOf
<1>9. ToSet(r) \subseteq ToSet(q)  BY <1>3 DEF ToSet
<1> QED  BY <1>1, <1>6, <1>7, <1>8, <1>9 DEF r

LEMMA PutFirst ==
  ASSUME NEW q \in Seq(Note), Once(q), NEW n \in Note, n.id \notin IdsOf(q)
  PROVE  LET r == <<n>> \o q
         IN  /\ r \in Seq(Note) /\ Once(r)
             /\ IdsOf(r) = IdsOf(q) \cup {n.id}
             /\ ToSet(r) = ToSet(q) \cup {n}
<1> DEFINE r == <<n>> \o q
<1>0. Len(q) \in Nat /\ DOMAIN q = 1 .. Len(q)  OBVIOUS
<1>1. /\ Len(r) = Len(q) + 1 /\ r[1] = n /\ ToSet(r) = ToSet(q) \cup {n}
      /\ \A j \in 1 .. Len(q) : r[j + 1] = q[j]
  BY HeadSet
<1>2. r \in Seq(Note)
  <2>1. <<n>> \in Seq(Note)  OBVIOUS
  <2> QED  BY <2>1, ConcatProperties
<1> HIDE DEF r
<1>3. DOMAIN r = 1 .. Len(q) + 1  BY <1>0, <1>1, <1>2
<1>4. \A j \in DOMAIN r : j # 1 => j - 1 \in DOMAIN q /\ r[j] = q[j - 1]
  <2> TAKE j \in DOMAIN r
  <2>1. j # 1 => j - 1 \in 1 .. Len(q) /\ (j - 1) + 1 = j  BY <1>0, <1>3
  <2> QED  BY <1>0, <1>1, <2>1
<1>5. \A j \in DOMAIN q : j + 1 \in DOMAIN r /\ r[j + 1] = q[j]  BY <1>0, <1>1, <1>3
<1>6. 1 \in DOMAIN r  BY <1>0, <1>3
<1>7. IdsOf(r) = IdsOf(q) \cup {n.id}
  <2>1. \A j \in DOMAIN r : r[j].id \in IdsOf(q) \cup {n.id}  BY <1>1, <1>4 DEF IdsOf
  <2>2. \A j \in DOMAIN q : q[j].id \in IdsOf(r)  BY <1>5 DEF IdsOf
  <2>3. n.id \in IdsOf(r)  BY <1>1, <1>6 DEF IdsOf
  <2> QED  BY <2>1, <2>2, <2>3 DEF IdsOf
<1>8. Once(r)
  <2> SUFFICES ASSUME NEW j \in DOMAIN r, NEW k \in DOMAIN r, r[j].id = r[k].id
               PROVE  j = k
    BY DEF Once
  <2>1. \A i \in DOMAIN q : q[i].id # n.id  BY DEF IdsOf
  <2>2. j = 1 /\ k # 1 => FALSE  BY <1>1, <1>4, <2>1
  <2>3. k = 1 /\ j # 1 => FALSE  BY <1>1, <1>4, <2>1
  <2>4. ASSUME j # 1, k # 1  PROVE j = k
    <3>1. j - 1 \in DOMAIN q /\ k - 1 \in DOMAIN q /\ q[j - 1].id = q[k - 1].id
      BY <1>4, <2>4
    <3>2. j - 1 = k - 1  BY <3>1 DEF Once
    <3> QED  BY <1>3, <3>2
  <2> QED  BY <2>2, <2>3, <2>4
<1> QED  BY <1>1, <1>2, <1>7, <1>8 DEF r

LEMMA PutLast ==
  ASSUME NEW q \in Seq(Note), Once(q), NEW n \in Note, n.id \notin IdsOf(q)
  PROVE  LET r == Append(q, n)
         IN  /\ r \in Seq(Note) /\ Once(r)
             /\ IdsOf(r) = IdsOf(q) \cup {n.id}
             /\ ToSet(r) = ToSet(q) \cup {n}
<1> DEFINE r == Append(q, n)
<1>0. Len(q) \in Nat /\ DOMAIN q = 1 .. Len(q)  OBVIOUS
<1>1. /\ r \in Seq(Note) /\ Len(r) = Len(q) + 1 /\ r[Len(q) + 1] = n
      /\ \A j \in 1 .. Len(q) : r[j] = q[j]
  BY AppendProperties
<1>2. ToSet(r) = ToSet(q) \cup {n}  BY AppendSet
<1> HIDE DEF r
<1>3. DOMAIN r = 1 .. Len(q) + 1  BY <1>0, <1>1
<1>4. \A j \in DOMAIN r : j = Len(q) + 1 \/ j \in DOMAIN q  BY <1>0, <1>3
<1>5. \A j \in DOMAIN q : j \in DOMAIN r /\ r[j] = q[j]  BY <1>0, <1>1, <1>3
<1>6. Len(q) + 1 \in DOMAIN r  BY <1>0, <1>3
<1>7. IdsOf(r) = IdsOf(q) \cup {n.id}
  <2>1. \A j \in DOMAIN r : r[j].id \in IdsOf(q) \cup {n.id}
    BY <1>1, <1>4, <1>5 DEF IdsOf
  <2>2. \A j \in DOMAIN q : q[j].id \in IdsOf(r)  BY <1>5 DEF IdsOf
  <2>3. n.id \in IdsOf(r)  BY <1>1, <1>6 DEF IdsOf
  <2> QED  BY <2>1, <2>2, <2>3 DEF IdsOf
<1>8. Once(r)
  <2> SUFFICES ASSUME NEW j \in DOMAIN r, NEW k \in DOMAIN r, r[j].id = r[k].id
               PROVE  j = k
    BY DEF Once
  <2>1. \A i \in DOMAIN q : r[i].id # n.id  BY <1>5 DEF IdsOf
  <2>2. \A i \in DOMAIN r : r[i].id = n.id => i = Len(q) + 1  BY <1>4, <2>1
  <2>3. CASE j = Len(q) + 1  BY <1>1, <2>2, <2>3
  <2>4. CASE k = Len(q) + 1  BY <1>1, <2>2, <2>4
  <2>5. CASE j \in DOMAIN q /\ k \in DOMAIN q  BY <1>5, <2>5 DEF Once
  <2> QED  BY <1>4, <2>3, <2>4, <2>5
<1> QED  BY <1>1, <1>2, <1>7, <1>8 DEF r

(* An update in its place. *)
LEMMA PutAt ==
  ASSUME NEW q \in Seq(Note), Once(q), NEW n \in Note, NEW k \in DOMAIN q,
         q[k].id = n.id
  PROVE  LET r == [q EXCEPT ![k] = n]
         IN  r \in Seq(Note) /\ Once(r) /\ IdsOf(r) = IdsOf(q)
<1> DEFINE r == [q EXCEPT ![k] = n]
<1>1. r \in Seq(Note) /\ DOMAIN r = DOMAIN q /\ \A j \in DOMAIN q : r[j].id = q[j].id
  OBVIOUS
<1> HIDE DEF r
<1> QED  BY <1>1 DEF Once, IdsOf, r

-----------------------------------------------------------------------------
(* States.  A sound one has each live id once and has reported none of them. *)

Sound(s) ==
  /\ s \in State
  /\ Once(s.queue)
  /\ s.active => s.cur # <<>> /\ s.cur[1].id \notin IdsOf(s.queue) \cup s.closed
  /\ s.closed \cap IdsOf(s.queue) = {}

(* There is room for n: it is not live and has not been reported. *)
HasRoom(s, n) ==
  /\ s \in State /\ n \in Note
  /\ Once(s.queue)
  /\ s.closed \cap IdsOf(s.queue) = {}
  /\ n.id \notin IdsOf(s.queue) \cup s.closed

(* From s to t nothing was lost and nothing reported was forgotten. *)
Lossless(s, t) ==
  s.closed \subseteq t.closed /\ LiveIds(s) \subseteq LiveIds(t) \cup t.closed

TimerFits(s) ==
  /\ s.timer = "on" => s.active /\ ~s.held /\ ~Cur(s).kind.critical
  /\ s.active /\ ~s.held /\ ~Cur(s).kind.critical => s.timer # "off"
  /\ s.active /\ s.held /\ ~Cur(s).kind.critical => s.heldleft

CriticalFirst(s) == s.active => Cur(s).kind.critical \/ Unseen(s) = {}

(* What the picker holds is its own. *)
Owned(s) == s.held /\ s.active => s.pick = Cur(s).id

(* The box and what goes with it. *)
SameBox(s, t) ==
  /\ t.active = s.active /\ t.cur = s.cur /\ t.held = s.held
  /\ t.timer = s.timer /\ t.pick = s.pick /\ t.heldleft = s.heldleft

LEMMA LiveIdsAre ==
  ASSUME NEW s \in State
  PROVE  LiveIds(s) = (IF s.active THEN {s.cur[1].id} ELSE {}) \cup IdsOf(s.queue)
<1>1. {n.id : n \in ToSet(s.queue)} = IdsOf(s.queue)  BY DEF ToSet, IdsOf
<1> QED  BY <1>1 DEF LiveIds, Live, Cur

LEMMA CurIsANote ==
  ASSUME NEW s, Sound(s), s.active
  PROVE  Cur(s) \in Note
<1>1. s.cur \in Seq(Note) /\ s.cur # <<>>  BY DEF Sound, State
<1>2. 1 \in DOMAIN s.cur  BY <1>1
<1> QED  BY <1>1, <1>2 DEF Cur

LEMMA HistoryKeeps ==
  ASSUME NEW s \in State, NEW n \in Note
  PROVE  LET t == notify_history_push(s, n)
         IN  t \in State /\ t.queue = s.queue /\ t.closed = s.closed /\ SameBox(s, t)
<1> DEFINE H    == [id : Ids, tag : Tagset]
           same == {i \in DOMAIN s.hist : notify_same_slot(s.hist[i], Entry(n))}
           rest == IF same # {} THEN RemoveAt(s.hist, Min(same))
                   ELSE IF Len(s.hist) = HistMax THEN Front(s.hist) ELSE s.hist
           h    == <<Entry(n)>> \o rest
<1>1. s.hist \in Seq(H) /\ Len(s.hist) \in Nat  BY DEF State
<1>2. Entry(n) \in H  BY NoteFields DEF Entry
<1>3. same \in SUBSET (1 .. Len(s.hist))  BY <1>1
<1>4. same # {} => RemoveAt(s.hist, Min(same)) \in Seq(H)
  <2> HIDE DEF same, H
  <2>1. same \in SUBSET Nat  BY <1>1, <1>3
  <2>2. same # {} => Min(same) \in same  BY <2>1, MinIn
  <2>3. same # {} => Min(same) \in 1 .. Len(s.hist)  BY <1>3, <2>2
  <2> QED  BY <1>1, <2>3, RemoveAtProperties
<1>5. Len(s.hist) = HistMax => Front(s.hist) \in Seq(H)
  <2> HIDE DEF H
  <2>1. Len(s.hist) = HistMax =>
          /\ 1 \in Int /\ Len(s.hist) - 1 \in Int
          /\ \A j \in 1 .. Len(s.hist) - 1 : s.hist[j] \in H
    BY <1>1
  <2> QED  BY <1>1, <2>1, SubSeqProperties DEF Front
<1>6. rest \in Seq(H)
  <2> HIDE DEF same, H
  <2> QED  BY <1>1, <1>4, <1>5
<1>7. h \in Seq(H)
  <2> HIDE DEF rest, H
  <2>1. <<Entry(n)>> \in Seq(H)  BY <1>2
  <2> QED  BY <1>6, <2>1, ConcatProperties
<1>8. notify_history_push(s, n) = IF n.kind.transient THEN s ELSE [s EXCEPT !.hist = h]
  BY DEF notify_history_push
<1> HIDE DEF h
<1>9. n.kind.transient \in BOOLEAN  BY NoteFields
<1> QED  BY <1>7, <1>8, <1>9 DEF State, SameBox

LEMMA Retires ==
  ASSUME NEW s \in State, NEW n \in Note
  PROVE  LET t == Retire(s, n)
         IN  /\ t \in State /\ t.queue = s.queue /\ SameBox(s, t)
             /\ t.closed = s.closed \cup {n.id}
<1> DEFINE c == notify_closed(s, n.id)
<1>1. /\ c \in State /\ c.queue = s.queue /\ SameBox(s, c)
      /\ c.closed = s.closed \cup {n.id}
  <2>1. n.id \in Ids  BY NoteFields
  <2> QED  BY <2>1 DEF notify_closed, State, SameBox
<1> HIDE DEF c
<1>2. LET t == notify_history_push(c, n)
      IN  t \in State /\ t.queue = c.queue /\ t.closed = c.closed /\ SameBox(c, t)
  BY <1>1, HistoryKeeps
<1> QED  BY <1>1, <1>2 DEF Retire, c, SameBox

-----------------------------------------------------------------------------
(* The queue. *)

LEMMA Unqueues ==
  ASSUME NEW s \in State, Once(s.queue), NEW i \in DOMAIN s.queue
  PROVE  LET t == notify_unqueue(s, i)
         IN  /\ t \in State /\ SameBox(s, t) /\ t.closed = s.closed
             /\ Once(t.queue) /\ IdsOf(t.queue) = IdsOf(s.queue) \ {s.queue[i].id}
             /\ ToSet(t.queue) \subseteq ToSet(s.queue)
             /\ Len(t.queue) = Len(s.queue) - 1
             /\ s.queue[i] \in Note
<1> DEFINE r == RemoveAt(s.queue, i)
<1>1. s.queue \in Seq(Note) /\ s.queue[i] \in Note  BY DEF State
<1>2. /\ r \in Seq(Note) /\ Once(r) /\ Len(r) = Len(s.queue) - 1
      /\ IdsOf(r) = IdsOf(s.queue) \ {s.queue[i].id}
      /\ ToSet(r) \subseteq ToSet(s.queue)
  BY <1>1, TakeOut
<1>3. notify_unqueue(s, i) = [s EXCEPT !.queue = r]  BY DEF notify_unqueue
<1> HIDE DEF r
<1> QED  BY <1>1, <1>2, <1>3 DEF State, SameBox

(* The one that makes room is in the queue. *)
LEMMA ChoiceInQueue ==
  ASSUME NEW s \in State, s.queue # <<>>
  PROVE  /\ (IF Expiring(s) # {} THEN Min(Expiring(s)) ELSE 1) \in DOMAIN s.queue
         /\ NextShown(s) \in DOMAIN s.queue
         /\ Unseen(s) # {} => Min(Unseen(s)) \in Unseen(s)
         /\ Unseen(s) # {} => NextShown(s) \in Unseen(s)
<1>1. s.queue \in Seq(Note) /\ DOMAIN s.queue = 1 .. Len(s.queue) /\ Len(s.queue) \in Nat
  BY DEF State
<1>2. Expiring(s) \in SUBSET Nat /\ Expiring(s) \subseteq DOMAIN s.queue
  BY <1>1 DEF Expiring
<1>3. Unseen(s) \in SUBSET Nat /\ Unseen(s) \subseteq DOMAIN s.queue
  BY <1>1 DEF Unseen
<1>4. Expiring(s) # {} => Min(Expiring(s)) \in DOMAIN s.queue  BY <1>2, MinIn
<1>5. Unseen(s) # {} => Min(Unseen(s)) \in Unseen(s)  BY <1>3, MinIn
<1>6. 1 \in DOMAIN s.queue  BY <1>1
<1> QED  BY <1>3, <1>4, <1>5, <1>6 DEF NextShown

LEMMA Enqueues ==
  ASSUME NEW s, NEW n, HasRoom(s, n), NEW front \in BOOLEAN
  PROVE  LET t == notify_enqueue(s, n, front)
         IN  /\ t \in State /\ SameBox(s, t) /\ Once(t.queue)
             /\ t.closed \cap IdsOf(t.queue) = {}
             /\ n.id \in IdsOf(t.queue)
             /\ IdsOf(t.queue) \subseteq IdsOf(s.queue) \cup {n.id}
             /\ IdsOf(s.queue) \subseteq IdsOf(t.queue) \cup t.closed
             /\ s.closed \subseteq t.closed
             /\ t.closed \subseteq s.closed \cup IdsOf(s.queue)
<1> DEFINE i    == IF Expiring(s) # {} THEN Min(Expiring(s)) ELSE 1
           room == IF Len(s.queue) < QueueMax THEN s
                   ELSE Retire(notify_unqueue(s, i), s.queue[i])
           q    == IF front THEN <<n>> \o room.queue ELSE Append(room.queue, n)
<1>0. s \in State /\ n \in Note /\ Once(s.queue) /\ Len(s.queue) \in Nat
  BY DEF HasRoom, State
<1>1. /\ room \in State /\ SameBox(s, room) /\ Once(room.queue)
      /\ room.closed \cap IdsOf(room.queue) = {}
      /\ IdsOf(room.queue) \subseteq IdsOf(s.queue)
      /\ IdsOf(s.queue) \subseteq IdsOf(room.queue) \cup room.closed
      /\ s.closed \subseteq room.closed
      /\ room.closed \subseteq s.closed \cup IdsOf(s.queue)
  <2>1. CASE Len(s.queue) < QueueMax
    BY <1>0, <2>1 DEF HasRoom, SameBox
  <2>2. CASE ~(Len(s.queue) < QueueMax)
    <3> DEFINE u == notify_unqueue(s, i)
               t == Retire(u, s.queue[i])
    <3>1. s.queue # <<>>  BY <1>0, <2>2, LimitsAssumption
    <3>2. i \in DOMAIN s.queue  BY <1>0, <3>1, ChoiceInQueue
    <3> HIDE DEF i
    <3>3. /\ u \in State /\ SameBox(s, u) /\ u.closed = s.closed
          /\ Once(u.queue) /\ IdsOf(u.queue) = IdsOf(s.queue) \ {s.queue[i].id}
          /\ s.queue[i] \in Note
      BY <1>0, <3>2, Unqueues
    <3> HIDE DEF u
    <3>4. /\ t \in State /\ t.queue = u.queue /\ SameBox(u, t)
          /\ t.closed = u.closed \cup {s.queue[i].id}
      BY <3>3, Retires
    <3> HIDE DEF t
    <3>5. SameBox(s, t)  BY <3>3, <3>4 DEF SameBox
    <3>6. s.queue[i].id \in IdsOf(s.queue)  BY <3>2 DEF IdsOf
    <3>7. room = t  BY <2>2 DEF t, u
    <3> HIDE DEF room
    <3> QED  BY <3>3, <3>4, <3>5, <3>6, <3>7 DEF HasRoom
  <2> QED  BY <2>1, <2>2
<1> HIDE DEF room
<1>2. n.id \notin IdsOf(room.queue) \cup room.closed  BY <1>1 DEF HasRoom
<1>3. q \in Seq(Note) /\ Once(q) /\ IdsOf(q) = IdsOf(room.queue) \cup {n.id}
  <2>1. room.queue \in Seq(Note)  BY <1>1 DEF State
  <2> QED  BY <1>0, <1>1, <1>2, <2>1, PutFirst, PutLast
<1> DEFINE t == [room EXCEPT !.queue = q]
<1>4. notify_enqueue(s, n, front) = t  BY DEF notify_enqueue, room
<1> HIDE DEF q
<1>5. t \in State /\ t.queue = q /\ t.closed = room.closed /\ SameBox(s, t)
  BY <1>1, <1>3 DEF State, SameBox
<1> HIDE DEF t
<1> QED  BY <1>1, <1>2, <1>3, <1>4, <1>5

-----------------------------------------------------------------------------
(* The box. *)

LEMMA Arms ==
  ASSUME NEW s \in State, NEW on \in BOOLEAN
  PROVE  LET t == notify_arm(s, on)
         IN  /\ t \in State /\ t.queue = s.queue /\ t.closed = s.closed
             /\ t.active = s.active /\ t.cur = s.cur /\ t.held = s.held
             /\ t.pick = s.pick /\ t.heldleft = s.heldleft
             /\ t.timer = "on" => on
             /\ t.timer = "off" => ~on
  BY DEF notify_arm, State

(* What notify_show leaves behind: the box as far as it could be filled. *)
Shown(s, n, t) ==
  /\ t \in State /\ t.queue = s.queue /\ t.closed = s.closed
  /\ t.held = s.held /\ t.pick = s.pick
  /\ t.cur # <<>> /\ Cur(t) \in Note
  /\ Cur(t).id = n.id /\ Cur(t).kind = n.kind
  /\ TimerFits(t)
  /\ s.held \/ n.kind.critical => t.active

LEMMA Shows ==
  ASSUME NEW s \in State, NEW n \in Note, s.held => s.timer # "on"
  PROVE  Shown(s, n, notify_show(s, n))
<1> DEFINE m  == [n EXCEPT !.seen = TRUE]
           on == ~n.kind.critical
           up == [s EXCEPT !.cur = <<m>>, !.active = TRUE]
           h  == [up EXCEPT !.heldleft = on]
           a  == notify_arm(up, on)
           r  == [a EXCEPT !.active = Armed(a, on)]
<1>1. m \in Note /\ m.id = n.id /\ m.kind = n.kind  BY NoteFields DEF Note
<1>2. on \in BOOLEAN /\ n.kind.critical \in BOOLEAN  BY NoteFields
<1> HIDE DEF m
<1>3. /\ up \in State /\ up.queue = s.queue /\ up.closed = s.closed
      /\ up.held = s.held /\ up.pick = s.pick /\ up.timer = s.timer
      /\ up.cur = <<m>> /\ up.active = TRUE
  <2>1. <<m>> \in Seq(Note)  BY <1>1
  <2> QED  BY <2>1 DEF State
<1> HIDE DEF up
<1>4. notify_show(s, n) = IF s.held THEN h ELSE r  BY DEF notify_show, up, m
<1>5. ASSUME s.held  PROVE Shown(s, n, h)
  <2>1. /\ h \in State /\ h.queue = s.queue /\ h.closed = s.closed
        /\ h.held = s.held /\ h.pick = s.pick /\ h.timer = s.timer
        /\ h.cur = <<m>> /\ h.active = TRUE /\ h.heldleft = on
    BY <1>2, <1>3 DEF State
  <2> HIDE DEF h
  <2>2. Cur(h) = m  BY <2>1 DEF Cur
  <2>3. ~n.kind.critical => h.heldleft
    <3>1. h.heldleft = ~n.kind.critical  BY <2>1
    <3> QED  BY <3>1
  <2>4. TimerFits(h)  BY <1>1, <1>5, <2>1, <2>2, <2>3 DEF TimerFits
  <2> QED  BY <1>1, <1>5, <2>1, <2>2, <2>4 DEF Shown
<1>6. ASSUME ~s.held  PROVE Shown(s, n, r)
  <2>1. /\ a \in State /\ a.queue = s.queue /\ a.closed = s.closed
        /\ a.held = s.held /\ a.pick = s.pick /\ a.cur = <<m>>
        /\ a.timer = "on" => on
        /\ a.timer = "off" => ~on
    BY <1>2, <1>3, Arms
  <2> HIDE DEF a
  <2>2. /\ r \in State /\ r.queue = s.queue /\ r.closed = s.closed
        /\ r.held = s.held /\ r.pick = s.pick /\ r.cur = <<m>>
        /\ r.timer = a.timer /\ r.active = Armed(a, on)
    BY <2>1 DEF State, Armed
  <2> HIDE DEF r
  <2>3. Cur(r) = m  BY <2>2 DEF Cur
  <2>4. r.active = (on => r.timer = "on")  BY <2>2 DEF Armed
  <2>5. TimerFits(r)  BY <1>1, <1>2, <1>6, <2>1, <2>2, <2>3, <2>4 DEF TimerFits
  <2> QED  BY <1>1, <1>2, <1>6, <2>2, <2>3, <2>4, <2>5 DEF Shown
<1>7. s.held \in BOOLEAN  BY DEF State
<1> HIDE DEF h, r
<1> QED  BY <1>4, <1>5, <1>6, <1>7

(* The one shown is live; one that could not be shown is retired. *)
LEMMA ShownIsSound ==
  ASSUME NEW s, NEW n, NEW t, HasRoom(s, n), Shown(s, n, t)
  PROVE  /\ Sound(t)
         /\ t.active => LiveIds(t) = IdsOf(s.queue) \cup {n.id}
         /\ ~t.active => HasRoom(t, n)
<1>1. LiveIds(t) = (IF t.active THEN {t.cur[1].id} ELSE {}) \cup IdsOf(t.queue)
  BY LiveIdsAre DEF Shown
<1>2. t.cur[1].id = n.id  BY DEF Shown, Cur
<1> QED  BY <1>1, <1>2 DEF Shown, HasRoom, Sound

LEMMA RetiredIsSound ==
  ASSUME NEW t, NEW n, HasRoom(t, n), ~t.active, TimerFits(t)
  PROVE  LET u == Retire(t, n)
         IN  /\ Sound(u) /\ TimerFits(u) /\ ~u.active
             /\ u.queue = t.queue /\ u.closed = t.closed \cup {n.id}
             /\ u.held = t.held /\ u.pick = t.pick
             /\ LiveIds(u) = IdsOf(t.queue)
<1> DEFINE u == Retire(t, n)
<1>1. /\ u \in State /\ u.queue = t.queue /\ SameBox(t, u)
      /\ u.closed = t.closed \cup {n.id}
  BY Retires DEF HasRoom
<1> HIDE DEF u
<1>2. LiveIds(u) = (IF u.active THEN {u.cur[1].id} ELSE {}) \cup IdsOf(u.queue)
  BY <1>1, LiveIdsAre
<1>3. Sound(u) /\ TimerFits(u)  BY <1>1 DEF HasRoom, Sound, TimerFits, SameBox
<1> QED  BY <1>1, <1>2, <1>3 DEF SameBox, u

-----------------------------------------------------------------------------
(* notify_show_next: whatever fails on the way, the one that is shown in the
   end is critical unless no unseen critical one waits. *)

NextTurn(a, s, i) == ShowNext(s, i)
NextInv(a, i, s) ==
  /\ Sound(s) /\ TimerFits(s) /\ CriticalFirst(s) /\ Lossless(a, s)
  /\ s.held = a.held /\ s.pick = a.pick
Nexts == INSTANCE Loops WITH Turn <- NextTurn, Inv <- NextInv

LEMMA ShowsNext ==
  ASSUME NEW a, NEW s, NEW i, NextInv(a, 0, s)
  PROVE  NextInv(a, 0, ShowNext(s, i))
<1> DEFINE k == NextShown(s)
           n == s.queue[k]
           u == notify_unqueue(s, k)
           v == notify_show(u, n)
<1>0. CASE s.active \/ s.queue = <<>>  BY <1>0 DEF ShowNext
<1>1. CASE ~s.active /\ s.queue # <<>>
  <2>1. s \in State /\ Once(s.queue) /\ s.closed \cap IdsOf(s.queue) = {}
    BY DEF NextInv, Sound
  <2>2. k \in DOMAIN s.queue /\ (Unseen(s) # {} => k \in Unseen(s))
    BY <1>1, <2>1, ChoiceInQueue
  <2> HIDE DEF k
  <2>3. /\ u \in State /\ SameBox(s, u) /\ u.closed = s.closed
        /\ Once(u.queue) /\ IdsOf(u.queue) = IdsOf(s.queue) \ {n.id}
        /\ ToSet(u.queue) \subseteq ToSet(s.queue)
        /\ n \in Note
    BY <2>1, <2>2, Unqueues
  <2>4. n.id \in IdsOf(s.queue)  BY <2>2 DEF IdsOf
  <2>5. Unseen(s) = {} \/ n.kind.critical  BY <2>2 DEF Unseen
  <2> HIDE DEF n, u
  <2>6. HasRoom(u, n)  BY <2>1, <2>3, <2>4 DEF HasRoom
  <2>7. u.held => u.timer # "on"  BY <1>1, <2>3 DEF SameBox, NextInv, TimerFits
  <2>8. Shown(u, n, v)  BY <2>3, <2>7, Shows
  <2> HIDE DEF v
  <2>9. LiveIds(s) = IdsOf(s.queue)  BY <1>1, <2>1, LiveIdsAre
  <2>10. ShowNext(s, i) = IF v.active THEN v ELSE Retire(v, n)
    BY <1>1 DEF ShowNext, k, n, u, v
  <2>11. Sound(v) /\ (v.active => LiveIds(v) = IdsOf(u.queue) \cup {n.id})
                  /\ (~v.active => HasRoom(v, n))
    BY <2>6, <2>8, ShownIsSound
  <2>12. Lossless(a, s) /\ s.held = a.held /\ s.pick = a.pick  BY DEF NextInv
  <2>13. ASSUME v.active  PROVE NextInv(a, 0, v)
    <3>1. Unseen(s) = {} => Unseen(v) = {}
      <4>1. \A j \in DOMAIN v.queue : \E l \in DOMAIN s.queue : v.queue[j] = s.queue[l]
        BY <2>3, <2>8 DEF ToSet, Shown
      <4> QED  BY <4>1 DEF Unseen
    <3>2. CriticalFirst(v)  BY <2>5, <2>8, <3>1 DEF CriticalFirst, Shown
    <3>3. Lossless(a, v)
      BY <2>3, <2>4, <2>8, <2>9, <2>11, <2>12, <2>13 DEF Lossless, Shown
    <3> QED  BY <2>3, <2>8, <2>11, <2>12, <3>2, <3>3 DEF NextInv, Shown, SameBox
  <2>14. ASSUME ~v.active  PROVE NextInv(a, 0, Retire(v, n))
    <3> DEFINE w == Retire(v, n)
    <3>1. /\ Sound(w) /\ TimerFits(w) /\ ~w.active
          /\ w.closed = v.closed \cup {n.id} /\ w.held = v.held /\ w.pick = v.pick
          /\ LiveIds(w) = IdsOf(v.queue)
      BY <2>8, <2>11, <2>14, RetiredIsSound DEF Shown
    <3> HIDE DEF w
    <3>2. Lossless(a, w)
      BY <2>3, <2>8, <2>9, <2>12, <3>1 DEF Lossless, Shown
    <3>3. NextInv(a, 0, w)
      BY <2>3, <2>8, <2>12, <3>1, <3>2 DEF NextInv, Shown, SameBox, CriticalFirst
    <3> QED  BY <3>3 DEF w
  <2> QED  BY <2>10, <2>13, <2>14
<1> QED  BY <1>0, <1>1 DEF NextInv, Sound, State

LEMMA ShowsTheNext ==
  ASSUME NEW s, Sound(s), TimerFits(s), CriticalFirst(s)
  PROVE  NextInv(s, 0, notify_show_next(s))
<1> DEFINE turns == [i \in 1 .. Len(s.queue) |-> i]
           t     == Nexts!Fold(s, s, turns)
<1>1. t = notify_show_next(s)
  BY DEF Nexts!Fold, Nexts!Greatest,
         notify_show_next, FoldLeft, MapThenFoldSet, NextTurn, Max
<1>2. turns \in Seq(Nat)
  <2>1. Len(s.queue) \in Nat  BY DEF Sound, State
  <2> QED  BY <2>1
<1> HIDE DEF turns
<1>3. NextInv(s, 0, s)  BY DEF NextInv, Lossless
<1>4. \A i : \A u : NextInv(s, i, u) <=> NextInv(s, 0, u)  BY DEF NextInv
<1>5. \A i \in 1 .. Len(turns) : \A u : NextInv(s, i - 1, u) =>
        NextInv(s, i, NextTurn(s, u, turns[i]))
  BY <1>4, ShowsNext DEF NextTurn
<1>6. NextInv(s, Len(turns), t)
  BY <1>2, <1>3, <1>5, LeastMembers, Nexts!LoopKeeps
<1> HIDE DEF t
<1> QED  BY <1>1, <1>4, <1>6

-----------------------------------------------------------------------------
(* What every handler makes of the state: nothing is lost, and what is let go
   makes way for a critical one. *)
Frees(s, t) == s.held /\ ~t.held => CriticalFirst(t)

Good(s, t) == Sound(t) /\ TimerFits(t) /\ Owned(t) /\ Lossless(s, t) /\ Frees(s, t)

LEMMA ShowsOrDrops ==
  ASSUME NEW s, NEW n, HasRoom(s, n), s.held => s.timer # "on"
  PROVE  LET t == ShowOrDrop(s, n)
         IN  /\ Sound(t) /\ TimerFits(t) /\ t.held = s.held /\ t.pick = s.pick
             /\ s.closed \subseteq t.closed
             /\ IdsOf(s.queue) \cup {n.id} \subseteq LiveIds(t) \cup t.closed
             /\ s.held \/ n.kind.critical =>
                  t.active /\ Cur(t).id = n.id /\ Cur(t).kind = n.kind
<1> DEFINE v == notify_show(s, n)
           w == Retire(v, n)
           x == notify_show_next(w)
<1>1. Shown(s, n, v)  BY Shows DEF HasRoom
<1> HIDE DEF v
<1>2. Sound(v) /\ (v.active => LiveIds(v) = IdsOf(s.queue) \cup {n.id})
               /\ (~v.active => HasRoom(v, n))
  BY <1>1, ShownIsSound
<1>3. ShowOrDrop(s, n) = IF v.active THEN v ELSE x  BY DEF ShowOrDrop, v
<1>4. CASE v.active  BY <1>1, <1>2, <1>3, <1>4 DEF Shown
<1>5. CASE ~v.active
  <2>1. /\ Sound(w) /\ TimerFits(w) /\ ~w.active
        /\ w.closed = v.closed \cup {n.id} /\ w.held = v.held /\ w.pick = v.pick
        /\ LiveIds(w) = IdsOf(v.queue)
    BY <1>1, <1>2, <1>5, RetiredIsSound DEF Shown
  <2> HIDE DEF w
  <2>2. CriticalFirst(w)  BY <2>1 DEF CriticalFirst
  <2>3. NextInv(w, 0, x)  BY <2>1, <2>2, ShowsTheNext
  <2> HIDE DEF x
  <2> QED  BY <1>1, <1>3, <1>5, <2>1, <2>3 DEF Shown, NextInv, Lossless
<1> QED  BY <1>4, <1>5

LEMMA Clears ==
  ASSUME NEW s, Sound(s), s.active, NEW bycall \in BOOLEAN
  PROVE  LET t == notify_clear(s, bycall)
         IN  Good(s, t) /\ CriticalFirst(t) /\ ~t.held /\ t.pick = s.pick
<1> DEFINE n    == Cur(s)
           d    == [s EXCEPT !.active = FALSE, !.held = FALSE]
           down == notify_arm(d, FALSE)
           gone == IF bycall THEN notify_closed(down, n.id) ELSE Retire(down, n)
           t    == notify_show_next(gone)
<1>1. n \in Note  BY CurIsANote
<1>2. /\ d \in State /\ d.queue = s.queue /\ d.closed = s.closed
      /\ d.active = FALSE /\ d.held = FALSE /\ d.pick = s.pick
  BY DEF Sound, State
<1> HIDE DEF d
<1>3. /\ down \in State /\ down.queue = s.queue /\ down.closed = s.closed
      /\ down.active = FALSE /\ down.held = FALSE /\ down.pick = s.pick
      /\ down.timer # "on"
  BY <1>2, Arms
<1> HIDE DEF down
<1>4. /\ gone \in State /\ gone.queue = s.queue
      /\ gone.closed = s.closed \cup {n.id}
      /\ gone.active = FALSE /\ gone.held = FALSE /\ gone.pick = s.pick
      /\ gone.timer # "on"
  <2>1. CASE bycall
    <3>1. n.id \in Ids  BY <1>1, NoteFields
    <3> HIDE DEF n
    <3> QED  BY <1>3, <2>1, <3>1 DEF notify_closed, State
  <2>2. CASE ~bycall  BY <1>1, <1>3, <2>2, Retires DEF SameBox
  <2> QED  BY <2>1, <2>2
<1>5. notify_clear(s, bycall) = t  BY DEF notify_clear, d, down
<1> HIDE DEF gone
<1>6. LiveIds(s) = {n.id} \cup IdsOf(s.queue)  BY LiveIdsAre DEF Sound, Cur
<1>7. LiveIds(gone) = IdsOf(s.queue)  BY <1>4, LiveIdsAre
<1>8. Sound(gone) /\ TimerFits(gone) /\ CriticalFirst(gone)
  BY <1>4 DEF Sound, TimerFits, CriticalFirst, Cur
<1>9. NextInv(gone, 0, t)  BY <1>8, ShowsTheNext
<1> HIDE DEF t, n
<1>10. Lossless(s, t)  BY <1>4, <1>6, <1>7, <1>9 DEF NextInv, Lossless
<1> QED  BY <1>4, <1>5, <1>9, <1>10 DEF NextInv, Good, Frees, Owned

LEMMA GoodToStay ==
  ASSUME NEW s, Sound(s), TimerFits(s), Owned(s)
  PROVE  Good(s, s)
  BY DEF Good, Lossless, Frees

LEMMA ClearsOrStays ==
  ASSUME NEW s, Sound(s), TimerFits(s), Owned(s), NEW bycall \in BOOLEAN
  PROVE  LET t == notify_clear(s, bycall)
         IN  Good(s, t) /\ CriticalFirst(t)
<1>1. CASE s.active  BY <1>1, Clears
<1>2. CASE ~s.active
  <2>1. notify_clear(s, bycall) = s  BY <1>2 DEF notify_clear
  <2> QED  BY <1>2, <2>1, GoodToStay DEF CriticalFirst
<1> QED  BY <1>1, <1>2

(* Nothing that hold(0) does needs the picker any more. *)
LEMMA Releases ==
  ASSUME NEW s, Sound(s), TimerFits(s)
  PROVE  LET t == Release(s)
         IN  Good(s, t) /\ t.pick = s.pick
<1> DEFINE r == [s EXCEPT !.held = FALSE]
           c == Cur(s)
<1>1. CASE ~(s.active /\ s.held)
  <2>1. Release(s) = s  BY <1>1 DEF Release
  <2>2. Owned(s)  BY <1>1 DEF Owned
  <2> QED  BY <2>1, <2>2, GoodToStay
<1>2. CASE s.active /\ s.held
  <2>1. c \in Note /\ c.id \notin IdsOf(s.queue) \cup s.closed
    BY <1>2, CurIsANote DEF Sound, Cur
  <2>2. /\ r \in State /\ r.queue = s.queue /\ r.closed = s.closed /\ r.cur = s.cur
        /\ r.active = TRUE /\ r.held = FALSE /\ r.pick = s.pick
        /\ r.timer = s.timer /\ r.heldleft = s.heldleft
    BY <1>2 DEF Sound, State
  <2> HIDE DEF r
  <2>3. Cur(r) = c  BY <2>2 DEF Cur
  <2>4. LiveIds(s) = {c.id} \cup IdsOf(s.queue) /\ LiveIds(r) = LiveIds(s)
    BY <1>2, <2>2, LiveIdsAre DEF Sound, Cur
  <2>5. s.timer # "on"  BY <1>2 DEF TimerFits
  <2>6. Sound(r)  BY <1>2, <2>2 DEF Sound
  <2>7. CASE c.kind.critical
    <3>1. Release(s) = r  BY <1>2, <2>7 DEF Release, r
    <3>2. TimerFits(r)  BY <2>2, <2>3, <2>5, <2>7 DEF TimerFits
    <3> QED
      BY <2>2, <2>3, <2>4, <2>6, <2>7, <3>1, <3>2
         DEF Good, Owned, Lossless, Frees, CriticalFirst
  <2>8. CASE ~c.kind.critical /\ Unseen(s) = {}
    <3> DEFINE t == notify_arm(r, s.heldleft)
    <3>1. Release(s) = t  BY <1>2, <2>8 DEF Release, r
    <3>2. s.heldleft = TRUE  BY <1>2, <2>8 DEF TimerFits, Sound, State
    <3>3. /\ t \in State /\ t.queue = s.queue /\ t.closed = s.closed /\ t.cur = s.cur
          /\ t.active = TRUE /\ t.held = FALSE /\ t.pick = s.pick
          /\ t.timer # "off"
      BY <2>2, <3>2, Arms
    <3> HIDE DEF t
    <3>4. Cur(t) = c /\ Unseen(t) = {}  BY <2>8, <3>3 DEF Cur, Unseen
    <3>5. Sound(t)  BY <1>2, <3>3 DEF Sound
    <3>6. LiveIds(t) = LiveIds(s)  BY <1>2, <3>3, LiveIdsAre DEF Sound
    <3> QED
      BY <2>8, <3>1, <3>3, <3>4, <3>5, <3>6
         DEF Good, Owned, Lossless, Frees, CriticalFirst, TimerFits
  <2>9. CASE ~c.kind.critical /\ Unseen(s) # {}
    <3> DEFINE i == Min(Unseen(s))
               n == s.queue[i]
               u == notify_unqueue(r, i)
               d == [u EXCEPT !.active = FALSE]
               p == notify_enqueue(d, c, TRUE)
               t == ShowOrDrop(p, n)
    <3>1. Release(s) = t  BY <1>2, <2>9 DEF Release, r
    <3>2. i \in DOMAIN s.queue /\ n.kind.critical
      <4>1. s.queue # <<>>  BY <2>9 DEF Unseen
      <4>2. i \in Unseen(s)
        <5> HIDE DEF i
        <5> QED  BY <2>9, <4>1, ChoiceInQueue DEF Sound, i
      <4> QED  BY <4>2 DEF Unseen
    <3> HIDE DEF i
    <3>3. /\ u \in State /\ SameBox(r, u) /\ u.closed = s.closed /\ Once(u.queue)
          /\ IdsOf(u.queue) = IdsOf(s.queue) \ {n.id} /\ n \in Note
      BY <2>2, <2>6, <3>2, Unqueues DEF Sound
    <3>4. n.id \in IdsOf(s.queue)  BY <3>2 DEF IdsOf
    <3> HIDE DEF n, u, c
    <3>5. /\ d \in State /\ d.queue = u.queue /\ d.closed = s.closed
          /\ d.held = FALSE /\ d.pick = s.pick
      BY <2>2, <3>3 DEF SameBox, State
    <3> HIDE DEF d
    <3>6. HasRoom(d, c)  BY <2>1, <3>3, <3>5 DEF HasRoom, Sound
    <3>7. /\ p \in State /\ SameBox(d, p) /\ Once(p.queue)
          /\ p.closed \cap IdsOf(p.queue) = {} /\ c.id \in IdsOf(p.queue)
          /\ IdsOf(p.queue) \subseteq IdsOf(d.queue) \cup {c.id}
          /\ IdsOf(d.queue) \subseteq IdsOf(p.queue) \cup p.closed
          /\ d.closed \subseteq p.closed
          /\ p.closed \subseteq d.closed \cup IdsOf(d.queue)
      BY <3>6, Enqueues
    <3> HIDE DEF p
    <3>8. HasRoom(p, n)
      BY <2>1, <3>3, <3>4, <3>5, <3>7 DEF HasRoom, Sound
    <3>9. /\ Sound(t) /\ TimerFits(t) /\ t.held = p.held /\ t.pick = p.pick
          /\ p.closed \subseteq t.closed
          /\ IdsOf(p.queue) \cup {n.id} \subseteq LiveIds(t) \cup t.closed
          /\ t.active /\ Cur(t).kind = n.kind
      BY <3>2, <3>5, <3>7, <3>8, ShowsOrDrops DEF SameBox, n
    <3> HIDE DEF t
    <3>10. p.held = FALSE /\ p.pick = s.pick  BY <3>5, <3>7 DEF SameBox
    <3>11. Lossless(s, t)
      BY <2>4, <3>3, <3>4, <3>5, <3>7, <3>9 DEF Lossless
    <3>12. Cur(t).kind.critical  BY <3>2, <3>9 DEF n
    <3> QED
      BY <3>1, <3>9, <3>10, <3>11, <3>12 DEF Good, Owned, Frees, CriticalFirst
  <2> QED  BY <2>7, <2>8, <2>9
<1> QED  BY <1>1, <1>2

-----------------------------------------------------------------------------
(* What a message brings. *)

LEMMA EnqueuesSoundly ==
  ASSUME NEW s, Sound(s), TimerFits(s), Owned(s), NEW n, HasRoom(s, n),
         s.active => Cur(s).id # n.id, NEW front \in BOOLEAN
  PROVE  LET t == notify_enqueue(s, n, front)
         IN  Good(s, t) /\ t.held = s.held
<1> DEFINE t == notify_enqueue(s, n, front)
<1>1. /\ t \in State /\ SameBox(s, t) /\ Once(t.queue)
      /\ t.closed \cap IdsOf(t.queue) = {}
      /\ IdsOf(t.queue) \subseteq IdsOf(s.queue) \cup {n.id}
      /\ IdsOf(s.queue) \subseteq IdsOf(t.queue) \cup t.closed
      /\ s.closed \subseteq t.closed
      /\ t.closed \subseteq s.closed \cup IdsOf(s.queue)
  BY Enqueues
<1> HIDE DEF t
<1>2. Cur(t) = Cur(s)  BY <1>1 DEF Cur, SameBox
<1>3. Sound(t)  BY <1>1 DEF Sound, SameBox, Cur
<1>4. LiveIds(s) = (IF s.active THEN {s.cur[1].id} ELSE {}) \cup IdsOf(s.queue)
  BY LiveIdsAre DEF Sound
<1>5. LiveIds(t) = (IF t.active THEN {t.cur[1].id} ELSE {}) \cup IdsOf(t.queue)
  BY <1>1, LiveIdsAre
<1>6. Lossless(s, t)  BY <1>1, <1>4, <1>5 DEF Lossless, SameBox
<1>7. TimerFits(t) /\ Owned(t)  BY <1>1, <1>2 DEF TimerFits, Owned, SameBox
<1> QED  BY <1>1, <1>3, <1>6, <1>7 DEF Good, Frees, SameBox, t

LEMMA Delivers ==
  ASSUME NEW s, Sound(s), TimerFits(s), Owned(s), NEW n \in Note, s.closed = {}
  PROVE  Good(s, Deliver(s, n))
<1> DEFINE at == {i \in DOMAIN s.queue : s.queue[i].id = n.id}
           t  == Deliver(s, n)
<1>0. s \in State /\ s.queue \in Seq(Note) /\ Once(s.queue)  BY DEF Sound, State
<1>1. LiveIds(s) = (IF s.active THEN {s.cur[1].id} ELSE {}) \cup IdsOf(s.queue)
  BY LiveIdsAre DEF Sound
<1>2. at = {} => HasRoom(s, n)  BY <1>0 DEF HasRoom, IdsOf
<1>3. s.active => Cur(s) \in Note /\ Cur(s).id \notin IdsOf(s.queue)
  BY CurIsANote DEF Sound, Cur
<1>4. s.held => s.timer # "on"  BY DEF TimerFits
<1>5. CASE s.active /\ Cur(s).id = n.id
  <2>1. t = ShowOrDrop(s, n)  BY <1>5 DEF Deliver
  <2>2. HasRoom(s, n)  BY <1>0, <1>3, <1>5 DEF HasRoom
  <2>3. /\ Sound(t) /\ TimerFits(t) /\ t.held = s.held /\ t.pick = s.pick
        /\ s.closed \subseteq t.closed
        /\ IdsOf(s.queue) \cup {n.id} \subseteq LiveIds(t) \cup t.closed
        /\ s.held => Cur(t).id = n.id
    BY <1>4, <2>1, <2>2, ShowsOrDrops
  <2> HIDE DEF t
  <2>4. Lossless(s, t)  BY <1>1, <1>5, <2>3 DEF Lossless, Cur
  <2>5. Owned(t)  BY <1>5, <2>3 DEF Owned
  <2> QED  BY <2>3, <2>4, <2>5 DEF Good, Frees, t
<1>6. CASE ~(s.active /\ Cur(s).id = n.id) /\ at # {}
  <2> DEFINE k == Min(at)
             q == [s.queue EXCEPT ![k] = n]
  <2>1. t = [s EXCEPT !.queue = q]  BY <1>6 DEF Deliver
  <2>2. k \in at
    <3>1. at \in SUBSET Nat  BY <1>0
    <3> HIDE DEF at
    <3> QED  BY <1>6, <3>1, MinIn
  <2>3. k \in DOMAIN s.queue /\ s.queue[k].id = n.id  BY <2>2
  <2> HIDE DEF k, at
  <2>4. q \in Seq(Note) /\ Once(q) /\ IdsOf(q) = IdsOf(s.queue)
    BY <1>0, <2>3, PutAt
  <2> HIDE DEF q, t
  <2>5. t \in State /\ t.queue = q /\ t.closed = s.closed /\ SameBox(s, t)
    BY <1>0, <2>1, <2>4 DEF State, SameBox
  <2>6. Cur(t) = Cur(s)  BY <2>5 DEF Cur, SameBox
  <2>7. LiveIds(t) = (IF t.active THEN {t.cur[1].id} ELSE {}) \cup IdsOf(t.queue)
    BY <2>5, LiveIdsAre
  <2>8. Sound(t)  BY <2>4, <2>5 DEF Sound, SameBox
  <2>9. Lossless(s, t)  BY <1>1, <2>4, <2>5, <2>7 DEF Lossless, SameBox
  <2>10. TimerFits(t) /\ Owned(t)  BY <2>5, <2>6 DEF TimerFits, Owned, SameBox
  <2> QED  BY <2>5, <2>8, <2>9, <2>10 DEF Good, Frees, SameBox, t
<1>7. CASE /\ ~(s.active /\ Cur(s).id = n.id) /\ at = {}
           /\ s.held \/ (s.active /\ ~(Cur(s).kind.critical \/ n.kind.critical))
  <2>1. n.kind.critical \in BOOLEAN  BY NoteFields
  <2>2. t = notify_enqueue(s, n, n.kind.critical) \/ t = notify_enqueue(s, n, FALSE)
    BY <1>7 DEF Deliver
  <2>3. HasRoom(s, n)  BY <1>2, <1>7
  <2>4. s.active => Cur(s).id # n.id  BY <1>7
  <2> HIDE DEF at, t
  <2>5. \A front \in BOOLEAN : Good(s, notify_enqueue(s, n, front))
    BY <2>3, <2>4, EnqueuesSoundly
  <2> QED  BY <2>1, <2>2, <2>5 DEF t
<1>8. CASE ~s.held /\ ~s.active /\ at = {}
  <2>1. t = ShowOrDrop(s, n)  BY <1>8 DEF Deliver
  <2>2. /\ Sound(t) /\ TimerFits(t) /\ t.held = s.held
        /\ s.closed \subseteq t.closed
        /\ IdsOf(s.queue) \cup {n.id} \subseteq LiveIds(t) \cup t.closed
    BY <1>2, <1>4, <1>8, <2>1, ShowsOrDrops
  <2> HIDE DEF t
  <2> QED  BY <1>1, <1>8, <2>2 DEF Good, Lossless, Frees, Owned, t
<1>9. CASE /\ ~(s.active /\ Cur(s).id = n.id) /\ at = {} /\ ~s.held /\ s.active
           /\ Cur(s).kind.critical \/ n.kind.critical
  <2> DEFINE c == Cur(s)
             a == notify_arm(s, FALSE)
             d == [a EXCEPT !.active = FALSE]
             p == notify_enqueue(d, c, TRUE)
  <2>1. t = ShowOrDrop(p, n)  BY <1>9 DEF Deliver
  <2>2. /\ a \in State /\ a.queue = s.queue /\ a.closed = s.closed
        /\ a.held = s.held
    BY <1>0, Arms
  <2> HIDE DEF a
  <2>3. /\ d \in State /\ d.queue = s.queue /\ d.closed = s.closed /\ d.held = FALSE
    BY <1>0, <1>9, <2>2 DEF State
  <2> HIDE DEF d, c
  <2>4. c \in Note /\ c.id \notin IdsOf(s.queue) /\ c.id # n.id
        /\ LiveIds(s) = {c.id} \cup IdsOf(s.queue)
    BY <1>1, <1>3, <1>9 DEF c, Cur
  <2>5. HasRoom(d, c)  BY <1>0, <2>3, <2>4 DEF HasRoom
  <2>6. /\ p \in State /\ SameBox(d, p) /\ Once(p.queue)
        /\ p.closed \cap IdsOf(p.queue) = {} /\ c.id \in IdsOf(p.queue)
        /\ IdsOf(p.queue) \subseteq IdsOf(d.queue) \cup {c.id}
        /\ IdsOf(d.queue) \subseteq IdsOf(p.queue) \cup p.closed
        /\ p.closed \subseteq d.closed \cup IdsOf(d.queue)
    BY <2>5, Enqueues
  <2> HIDE DEF p
  <2>7. HasRoom(p, n)
    BY <1>2, <1>9, <2>3, <2>4, <2>6 DEF HasRoom
  <2>8. p.held = FALSE  BY <2>3, <2>6 DEF SameBox
  <2>9. /\ Sound(t) /\ TimerFits(t) /\ t.held = p.held
        /\ p.closed \subseteq t.closed
        /\ IdsOf(p.queue) \cup {n.id} \subseteq LiveIds(t) \cup t.closed
    BY <2>1, <2>7, <2>8, ShowsOrDrops
  <2> HIDE DEF t
  <2>10. Lossless(s, t)  BY <2>3, <2>4, <2>6, <2>9 DEF Lossless
  <2> QED  BY <1>9, <2>8, <2>9, <2>10 DEF Good, Frees, Owned, t
<1> HIDE DEF at, t
<1>10. s.active \in BOOLEAN /\ s.held \in BOOLEAN  BY <1>0 DEF State
<1> QED  BY <1>5, <1>6, <1>7, <1>8, <1>9, <1>10 DEF t

-----------------------------------------------------------------------------
(* What the user does. *)

LEMMA PickSet ==
  ASSUME NEW s, Sound(s), TimerFits(s), NEW p \in 0 .. IdCount
  PROVE  LET t == [s EXCEPT !.pick = p]
         IN  /\ Sound(t) /\ TimerFits(t) /\ t.pick = p
             /\ t.active = s.active /\ t.held = s.held /\ t.queue = s.queue
             /\ Cur(t) = Cur(s) /\ Unseen(t) = Unseen(s)
             /\ Lossless(s, t) /\ Lossless(t, s)
<1> DEFINE t == [s EXCEPT !.pick = p]
<1>1. /\ t \in State /\ t.pick = p /\ t.active = s.active /\ t.held = s.held
      /\ t.queue = s.queue /\ t.cur = s.cur /\ t.closed = s.closed
      /\ t.timer = s.timer /\ t.heldleft = s.heldleft
  BY DEF Sound, State
<1> HIDE DEF t
<1>2. Cur(t) = Cur(s) /\ Unseen(t) = Unseen(s)  BY <1>1 DEF Cur, Unseen
<1>3. Sound(t) /\ TimerFits(t)  BY <1>1, <1>2 DEF Sound, TimerFits
<1>4. LiveIds(t) = LiveIds(s)  BY <1>1, LiveIdsAre DEF Sound
<1> QED  BY <1>1, <1>2, <1>3, <1>4 DEF Lossless, t

LEMMA ClosesPicker ==
  ASSUME NEW s, Sound(s), TimerFits(s), Owned(s)
  PROVE  Good(s, PickClosed(s)) /\ PickClosed(s).pick = 0
<1> DEFINE r == [s EXCEPT !.pick = 0]
<1>0. 0 \in 0 .. IdCount  BY LimitsAssumption
<1>1. /\ Sound(r) /\ TimerFits(r) /\ r.pick = 0 /\ r.held = s.held
      /\ Lossless(s, r)
  BY <1>0, PickSet
<1> HIDE DEF r
<1>2. Good(r, Release(r)) /\ Release(r).pick = 0  BY <1>1, Releases
<1>3. PickClosed(s) = Release(r)  BY DEF PickClosed, r
<1> QED  BY <1>1, <1>2, <1>3 DEF Good, Lossless, Frees

LEMMA PicksOrCloses ==
  ASSUME NEW s, Sound(s), TimerFits(s), Owned(s)
  PROVE  /\ Good(s, Picked(s))
         /\ Picked(s).pick # 0 => Picked(s) = s /\ s.active
<1>1. CASE s.pick = 0 \/ (s.active /\ Cur(s).id = s.pick /\ Cur(s).kind.acts)
  BY <1>1, GoodToStay DEF Picked
<1>2. CASE ~(s.pick = 0 \/ (s.active /\ Cur(s).id = s.pick /\ Cur(s).kind.acts))
  BY <1>2, ClosesPicker DEF Picked
<1> QED  BY <1>1, <1>2

LEMMA Holds ==
  ASSUME NEW s, Sound(s), TimerFits(s), s.active, s.pick = Cur(s).id
  PROVE  Good(s, Hold(s)) /\ Hold(s).held
<1>1. CASE s.held
  <2>1. Hold(s) = s  BY <1>1 DEF Hold
  <2> QED  BY <1>1, <2>1, GoodToStay DEF Owned
<1>2. CASE ~s.held
  <2> DEFINE on == ~Cur(s).kind.critical
             h  == [s EXCEPT !.held = TRUE, !.heldleft = on]
             t  == notify_arm(h, FALSE)
  <2>0. Cur(s).kind.critical \in BOOLEAN  BY CurIsANote, NoteFields
  <2>1. /\ h \in State /\ h.queue = s.queue /\ h.closed = s.closed /\ h.cur = s.cur
        /\ h.active = TRUE /\ h.held = TRUE /\ h.pick = s.pick
        /\ Cur(s).kind.critical \/ h.heldleft
    BY <2>0 DEF Sound, State
  <2>2. Hold(s) = t  BY <1>2 DEF Hold
  <2> HIDE DEF h
  <2>3. /\ t \in State /\ t.queue = s.queue /\ t.closed = s.closed /\ t.cur = s.cur
        /\ t.active = TRUE /\ t.held = TRUE /\ t.pick = s.pick
        /\ t.timer # "on" /\ t.heldleft = h.heldleft
    BY <2>1, Arms
  <2> HIDE DEF t
  <2>4. Cur(t) = Cur(s)  BY <2>3 DEF Cur
  <2>5. Sound(t) /\ TimerFits(t) /\ Owned(t)
    BY <2>1, <2>3, <2>4 DEF Sound, TimerFits, Owned
  <2>6. LiveIds(t) = LiveIds(s)  BY <2>3, LiveIdsAre DEF Sound
  <2> QED  BY <2>2, <2>3, <2>5, <2>6 DEF Good, Lossless, Frees
<1> QED  BY <1>1, <1>2 DEF Sound, State

(* Of any state the picker was closed in: hold(0), or the box is cleared. *)
LEMMA Invokes ==
  ASSUME NEW s, Sound(s), TimerFits(s), s.active
  PROVE  Good(s, Invoke(s))
  BY Releases, Clears DEF Invoke

LEMMA InvokesOrClears ==
  ASSUME NEW s, Sound(s), TimerFits(s), Owned(s)
  PROVE  Good(s, notify_invoke(s))
  BY Invokes, Clears, GoodToStay DEF notify_invoke

(* Everything goes to the history, one after the other. *)
DismissTurn(a, s, n) == Retire(s, n)
DismissInv(a, i, s) ==
  /\ s \in State /\ ~s.active /\ s.queue = <<>> /\ s.timer # "on"
  /\ a.closed \subseteq s.closed
  /\ \A j \in 1 .. i : a.list[j].id \in s.closed
Dismissals == INSTANCE Loops WITH Turn <- DismissTurn, Inv <- DismissInv

(* Places of a concatenation. *)
LEMMA Places ==
  ASSUME NEW a \in Nat \ {0}, NEW b \in Nat
  PROVE  /\ 1 \in 1 .. a + b /\ 1 <= a
         /\ \A i \in 1 .. b :
              a + i \in 1 .. a + b /\ ~(a + i <= a) /\ (a + i) - a = i
  OBVIOUS

LEMMA DismissesAll ==
  ASSUME NEW s, Sound(s), TimerFits(s), Owned(s)
  PROVE  Good(s, notify_dismiss_all(s))
<1>1. CASE ~s.active
  <2>1. notify_dismiss_all(s) = s  BY <1>1 DEF notify_dismiss_all
  <2> QED  BY <2>1, GoodToStay
<1>2. CASE s.active
  <2> DEFINE l    == s.cur \o s.queue
             a    == [list |-> l, closed |-> s.closed]
             d    == [s EXCEPT !.active = FALSE, !.queue = <<>>]
             down == notify_arm(d, FALSE)
             t    == Dismissals!Fold(a, down, l)
  <2>1. t = FoldLeft(Retire, down, l)
    BY DEF Dismissals!Fold, Dismissals!Greatest, FoldLeft, MapThenFoldSet, DismissTurn,
           Max
  <2>2. notify_dismiss_all(s) = t  BY <1>2, <2>1 DEF notify_dismiss_all
  <2>3. s.cur \in Seq(Note) /\ s.queue \in Seq(Note) /\ s.cur # <<>>
    BY <1>2 DEF Sound, State
  <2>4. /\ l \in Seq(Note) /\ Len(l) = Len(s.cur) + Len(s.queue)
        /\ \A i \in 1 .. Len(s.cur) + Len(s.queue) :
             l[i] = IF i <= Len(s.cur) THEN s.cur[i] ELSE s.queue[i - Len(s.cur)]
    BY <2>3, ConcatProperties
  <2>5. /\ d \in State /\ d.queue = <<>> /\ d.closed = s.closed /\ d.active = FALSE
    <3>1. <<>> \in Seq(Note)  OBVIOUS
    <3> QED  BY <3>1 DEF Sound, State
  <2> HIDE DEF d
  <2>6. /\ down \in State /\ down.queue = <<>> /\ down.closed = s.closed
        /\ down.active = FALSE /\ down.timer # "on"
    BY <2>5, Arms
  <2> HIDE DEF down, l
  <2>7. a.list = l /\ a.closed = s.closed  OBVIOUS
  <2> HIDE DEF a
  <2>8. DismissInv(a, 0, down)  BY <2>6, <2>7 DEF DismissInv
  <2>9. ASSUME NEW i \in 1 .. Len(l), NEW u, DismissInv(a, i - 1, u)
        PROVE  DismissInv(a, i, DismissTurn(a, u, l[i]))
    <3> DEFINE v == Retire(u, l[i])
    <3>1. l[i] \in Note /\ Len(l) \in Nat
      <4>1. l \in Seq(Note)  BY <2>4
      <4> QED  BY <4>1
    <3>2. /\ v \in State /\ v.queue = u.queue /\ SameBox(u, v)
          /\ v.closed = u.closed \cup {l[i].id}
      BY <2>9, <3>1, Retires DEF DismissInv
    <3> HIDE DEF v
    <3>3. \A j \in 1 .. i : j = i \/ j \in 1 .. i - 1  BY <3>1
    <3>4. DismissInv(a, i, v)  BY <2>7, <2>9, <3>2, <3>3 DEF DismissInv, SameBox
    <3> QED  BY <3>4 DEF DismissTurn, v
  <2>10. DismissInv(a, Len(l), t)  BY <2>4, <2>8, <2>9, LeastMembers, Dismissals!LoopKeeps
  <2> HIDE DEF t
  <2>11. \A j \in 1 .. Len(l) : l[j].id \in t.closed  BY <2>7, <2>10 DEF DismissInv
  <2>12. LiveIds(s) \subseteq t.closed
    <3>1. LiveIds(s) = {s.cur[1].id} \cup IdsOf(s.queue)  BY <1>2, LiveIdsAre DEF Sound
    <3>2. Len(s.cur) \in Nat \ {0} /\ Len(s.queue) \in Nat  BY <2>3
    <3>0. Len(l) = Len(s.cur) + Len(s.queue)  BY <2>4
    <3>3. 1 \in 1 .. Len(l) /\ l[1] = s.cur[1]
      <4>1. 1 \in 1 .. Len(s.cur) + Len(s.queue) /\ 1 <= Len(s.cur)  BY <3>2, Places
      <4> QED  BY <2>4, <3>0, <4>1
    <3>4. ASSUME NEW i \in DOMAIN s.queue  PROVE s.queue[i].id \in t.closed
      <4>1. i \in 1 .. Len(s.queue)  BY <2>3
      <4> DEFINE k == Len(s.cur) + i
      <4>2. k \in 1 .. Len(l) /\ ~(k <= Len(s.cur)) /\ k - Len(s.cur) = i
        BY <3>0, <3>2, <4>1, Places
      <4>3. l[k] = s.queue[i]
        <5> HIDE DEF k
        <5> QED  BY <2>4, <3>0, <4>2
      <4> HIDE DEF k
      <4> QED  BY <2>11, <4>2, <4>3
    <3> QED  BY <2>11, <3>1, <3>3, <3>4 DEF IdsOf
  <2>13. Sound(t) /\ TimerFits(t) /\ Owned(t) /\ CriticalFirst(t)
    BY <2>10 DEF DismissInv, Sound, TimerFits, Owned, CriticalFirst, Once, IdsOf
  <2> QED  BY <2>2, <2>7, <2>10, <2>12, <2>13 DEF Good, Lossless, Frees, DismissInv
<1> QED  BY <1>1, <1>2

-----------------------------------------------------------------------------
(* The invariant: a sound state, whose timer fits the box, which nobody but
   the picker holds. *)

NotifyInv == Sound(ns) /\ TimerFits(ns) /\ Owned(ns)

(* What the box and the queue are, whatever else differs. *)
SameLive(s, t) ==
  /\ t.active = s.active /\ t.cur = s.cur /\ t.queue = s.queue
  /\ t.held = s.held /\ t.heldleft = s.heldleft /\ t.pick = s.pick

LEMMA SameLiveIsAlike ==
  ASSUME NEW s \in State, NEW t \in State, SameLive(s, t)
  PROVE  Cur(t) = Cur(s) /\ Unseen(t) = Unseen(s) /\ LiveIds(t) = LiveIds(s)
  BY DEF SameLive, Cur, Unseen, LiveIds, Live

(* A step may also change the history, the counter and whether it runs, and
   take the timer away. *)
LEMMA GoodAfterAll ==
  ASSUME NEW s, NEW t, NEW u \in State, s \in State, Good(s, t), SameLive(t, u),
         u.closed = t.closed, u.timer \in {t.timer, "none"}
  PROVE  Good(s, u)
<1>1. Cur(u) = Cur(t) /\ Unseen(u) = Unseen(t) /\ LiveIds(u) = LiveIds(t)
  BY SameLiveIsAlike DEF Good, Sound
<1>2. Sound(u)  BY DEF Good, Sound, SameLive
<1>3. TimerFits(u) /\ Owned(u)
  BY <1>1 DEF Good, TimerFits, Owned, SameLive
<1>4. Lossless(s, u) /\ Frees(s, u)
  BY <1>1 DEF Good, Lossless, Frees, CriticalFirst, SameLive
<1> QED  BY <1>2, <1>3, <1>4 DEF Good

(* From a sound state that differs in nothing a notification is about. *)
LEMMA GoodFromThere ==
  ASSUME NEW s \in State, NEW t \in State, NEW u, Good(t, u),
         t.held = s.held, t.closed = s.closed, LiveIds(t) = LiveIds(s)
  PROVE  Good(s, u)
  BY DEF Good, Lossless, Frees

LEMMA FreshIsSound ==
  ASSUME NotifyInv
  PROVE  /\ Sound(Fresh) /\ TimerFits(Fresh) /\ Owned(Fresh)
         /\ Fresh.closed = {} /\ SameLive(ns, Fresh)
         /\ Fresh.hist = ns.hist /\ Fresh.timer = ns.timer
         /\ Cur(Fresh) = Cur(ns) /\ LiveIds(Fresh) = LiveIds(ns)
<1>1. /\ Fresh \in State /\ Fresh.closed = {} /\ SameLive(ns, Fresh)
      /\ Fresh.hist = ns.hist /\ Fresh.timer = ns.timer
  BY DEF NotifyInv, Sound, State, Fresh, SameLive
<1> HIDE DEF Fresh
<1>2. Cur(Fresh) = Cur(ns) /\ LiveIds(Fresh) = LiveIds(ns)
  BY <1>1, SameLiveIsAlike DEF NotifyInv, Sound
<1>3. Sound(Fresh) /\ TimerFits(Fresh) /\ Owned(Fresh)
  BY <1>1, <1>2 DEF NotifyInv, Sound, TimerFits, Owned, SameLive
<1> QED  BY <1>1, <1>2, <1>3

(* Ids stay within the counter. *)
LEMMA TagIsKnown ==
  ASSUME NotifyInv, NEW tag
  PROVE  SameTag(ns, tag) \in 0 .. IdCount
<1> DEFINE at == {i \in DOMAIN ns.queue : ns.queue[i].kind.tag = tag}
<1>1. \A n \in Note : n.id \in 0 .. IdCount
  <2>1. \A n \in Note : n.id \in Ids  BY NoteFields
  <2> QED  BY <2>1, LimitsAssumption DEF Ids
<1>2. 0 \in 0 .. IdCount  BY LimitsAssumption
<1>3. ns.active => Cur(ns).id \in 0 .. IdCount  BY <1>1, CurIsANote DEF NotifyInv
<1>4. at # {} => ns.queue[Min(at)].id \in 0 .. IdCount
  <2>1. ns.queue \in Seq(Note)  BY DEF NotifyInv, Sound, State
  <2>2. at \in SUBSET Nat /\ at \subseteq DOMAIN ns.queue  BY <2>1
  <2> HIDE DEF at
  <2>3. at # {} => Min(at) \in at  BY <2>2, MinIn
  <2>4. \A k \in DOMAIN ns.queue : ns.queue[k].id \in 0 .. IdCount  BY <1>1, <2>1
  <2> QED  BY <2>2, <2>3, <2>4
<1> QED  BY <1>2, <1>3, <1>4 DEF SameTag

LEMMA NextIdIsAnId ==
  ASSUME NEW s \in State
  PROVE  NextId(s) \in Ids
<1>1. s.seq \in Nat  BY LimitsAssumption DEF State
<1> QED  BY <1>1, LimitsAssumption DEF NextId, Ids

-----------------------------------------------------------------------------
(* Each handler. *)

LEMMA HandlesNotify ==
  ASSUME NotifyInv, notify_handle_notify
  PROVE  Good(Fresh, ns')
<1>1. PICK kind \in Kinds, r \in 0 .. IdCount :
        LET known == IF r # 0 THEN r ELSE SameTag(ns, kind.tag)
            id    == IF known # 0 THEN known ELSE NextId(ns)
            s     == IF known # 0 THEN Fresh ELSE [Fresh EXCEPT !.seq = id]
        IN  ns' = Deliver(s, [id |-> id, kind |-> kind, seen |-> FALSE])
  BY DEF notify_handle_notify
<1> DEFINE known == IF r # 0 THEN r ELSE SameTag(ns, kind.tag)
           id    == IF known # 0 THEN known ELSE NextId(ns)
           q     == [Fresh EXCEPT !.seq = id]
           s     == IF known # 0 THEN Fresh ELSE q
           n     == [id |-> id, kind |-> kind, seen |-> FALSE]
<1>2. ns' = Deliver(s, n)  BY <1>1
<1>3. known \in 0 .. IdCount  BY TagIsKnown
<1>4. id \in Ids
  <2>1. NextId(ns) \in Ids  BY NextIdIsAnId DEF NotifyInv, Sound
  <2> HIDE DEF known
  <2>2. known # 0 => known \in Ids  BY <1>3, LimitsAssumption DEF Ids
  <2> QED  BY <2>1, <2>2
<1> HIDE DEF known, id
<1>5. n \in Note  BY <1>4 DEF Note
<1>6. /\ Sound(Fresh) /\ TimerFits(Fresh) /\ Owned(Fresh) /\ Fresh.closed = {}
  BY FreshIsSound
<1> HIDE DEF Fresh
<1>7. /\ q \in State /\ SameLive(Fresh, q) /\ q.closed = {}
      /\ q.timer = Fresh.timer
  <2>1. id \in 0 .. IdCount  BY <1>4, LimitsAssumption DEF Ids
  <2> QED  BY <1>6, <2>1 DEF Sound, State, SameLive
<1> HIDE DEF q
<1>8. Good(Fresh, Fresh)  BY <1>6, GoodToStay
<1>9. Good(Fresh, q)  BY <1>6, <1>7, <1>8, GoodAfterAll DEF Sound
<1>10. LiveIds(q) = LiveIds(Fresh)  BY <1>6, <1>7, SameLiveIsAlike DEF Sound
<1>11. Good(s, Deliver(s, n))
  <2>1. Sound(s) /\ TimerFits(s) /\ Owned(s) /\ s.closed = {}
    BY <1>6, <1>7, <1>9 DEF Good
  <2> HIDE DEF s, n
  <2> QED  BY <1>5, <2>1, Delivers
<1> HIDE DEF n
<1>12. CASE known # 0  BY <1>2, <1>11, <1>12
<1>13. CASE known = 0
  <2>1. s = q  BY <1>13
  <2> QED  BY <1>2, <1>6, <1>7, <1>10, <1>11, <2>1, GoodFromThere DEF Sound, SameLive
<1> QED  BY <1>12, <1>13

LEMMA HandlesClose ==
  ASSUME NotifyInv, NEW id \in Ids, notify_handle_close(id)
  PROVE  Good(Fresh, ns')
<1> DEFINE at == {i \in DOMAIN ns.queue : ns.queue[i].id = id}
           k  == Min(at)
           u  == notify_unqueue(Fresh, k)
           t  == notify_closed(u, id)
<1>1. /\ Sound(Fresh) /\ TimerFits(Fresh) /\ Owned(Fresh) /\ Fresh.closed = {}
      /\ SameLive(ns, Fresh) /\ Cur(Fresh) = Cur(ns)
  BY FreshIsSound
<1>2. CASE ns.active /\ Cur(ns).id = id
  <2>1. ns' = notify_clear(Fresh, TRUE)  BY <1>2 DEF notify_handle_close
  <2> HIDE DEF Fresh
  <2> QED  BY <1>1, <1>2, <2>1, Clears DEF SameLive
<1>3. CASE ~(ns.active /\ Cur(ns).id = id)
  <2>1. at # {} /\ ns' = t  BY <1>3 DEF notify_handle_close
  <2> HIDE DEF Fresh
  <2>2. at \in SUBSET Nat
    <3>1. ns.queue \in Seq(Note)  BY DEF NotifyInv, Sound, State
    <3> QED  BY <3>1
  <2>3. k \in at  BY <2>1, <2>2, MinIn
  <2>4. k \in DOMAIN Fresh.queue /\ Fresh.queue[k].id = id
    <3> HIDE DEF k
    <3> QED  BY <1>1, <2>3 DEF SameLive
  <2> HIDE DEF k
  <2>5. /\ u \in State /\ SameBox(Fresh, u) /\ Once(u.queue)
        /\ u.closed = Fresh.closed /\ IdsOf(u.queue) = IdsOf(Fresh.queue) \ {id}
    BY <1>1, <2>4, Unqueues DEF Sound
  <2> HIDE DEF u
  <2>6. /\ t \in State /\ t.queue = u.queue /\ t.closed = {id} /\ SameBox(u, t)
    BY <1>1, <2>5 DEF notify_closed, State, SameBox
  <2> HIDE DEF t
  <2>7. Cur(t) = Cur(Fresh)  BY <2>5, <2>6 DEF Cur, SameBox
  <2>8. ~(t.active /\ t.cur[1].id = id)
    BY <1>1, <1>3, <2>5, <2>6 DEF Cur, SameBox, SameLive
  <2>9. Sound(t)  BY <1>1, <2>5, <2>6, <2>8 DEF Sound, SameBox
  <2>10. TimerFits(t) /\ Owned(t)
    BY <1>1, <2>5, <2>6, <2>7 DEF TimerFits, Owned, SameBox
  <2>11. LiveIds(t) = (IF t.active THEN {t.cur[1].id} ELSE {}) \cup IdsOf(t.queue)
    BY <2>6, LiveIdsAre
  <2>12. LiveIds(Fresh)
           = (IF Fresh.active THEN {Fresh.cur[1].id} ELSE {}) \cup IdsOf(Fresh.queue)
    BY <1>1, LiveIdsAre DEF Sound
  <2>13. Lossless(Fresh, t)
    BY <1>1, <2>5, <2>6, <2>11, <2>12 DEF Lossless, SameBox
  <2> QED  BY <2>1, <2>5, <2>6, <2>9, <2>10, <2>13 DEF Good, Frees, SameBox
<1> QED  BY <1>2, <1>3

LEMMA Expires ==
  ASSUME NotifyInv, notify_expire
  PROVE  Good(Fresh, ns')
<1> DEFINE d == [Fresh EXCEPT !.timer = "off"]
<1>1. /\ Sound(Fresh) /\ TimerFits(Fresh) /\ SameLive(ns, Fresh)
      /\ Fresh.timer = ns.timer
  BY FreshIsSound
<1>2. Fresh.active  BY <1>1 DEF notify_expire, TimerFits
<1>3. ns' = notify_clear(d, FALSE)  BY DEF notify_expire
<1> HIDE DEF Fresh
<1>4. d \in State /\ SameLive(Fresh, d) /\ d.closed = Fresh.closed
  BY <1>1 DEF Sound, State, SameLive
<1> HIDE DEF d
<1>5. Sound(d)  BY <1>1, <1>4 DEF Sound, SameLive
<1>6. Good(d, ns')  BY <1>2, <1>3, <1>4, <1>5, Clears DEF SameLive
<1>7. LiveIds(d) = LiveIds(Fresh)  BY <1>1, <1>4, SameLiveIsAlike DEF Sound
<1> QED  BY <1>1, <1>4, <1>6, <1>7, GoodFromThere DEF Sound, SameLive

LEMMA ChecksPicker ==
  ASSUME NotifyInv, CheckPicker
  PROVE  Good(Fresh, ns')
BY FreshIsSound, PicksOrCloses DEF CheckPicker

(* Closing the picker, then anything that frees nothing or puts the critical
   ones first. *)
LEMMA GoodAfterPicked ==
  ASSUME NEW s, NEW t, NEW u, Good(s, t), Good(t, u), u.held \/ CriticalFirst(u)
  PROVE  Good(s, u)
BY DEF Good, Lossless, Frees

LEMMA PickedIs ==
  ASSUME NotifyInv
  PROVE  LET s == Picked(Fresh)
         IN  /\ Good(Fresh, s) /\ Sound(s) /\ TimerFits(s) /\ Owned(s)
             /\ s.pick # 0 => s.active /\ Good(Fresh, PickClosed(s))
<1>1. Sound(Fresh) /\ TimerFits(Fresh) /\ Owned(Fresh)  BY FreshIsSound
<1> HIDE DEF Fresh
<1>2. /\ Good(Fresh, Picked(Fresh))
      /\ Picked(Fresh).pick # 0 => Picked(Fresh) = Fresh /\ Fresh.active
  BY <1>1, PicksOrCloses
<1>3. Good(Fresh, PickClosed(Fresh))  BY <1>1, ClosesPicker
<1> QED  BY <1>2, <1>3 DEF Good

LEMMA TogglesPicker ==
  ASSUME NotifyInv, TogglePicker
  PROVE  Good(Fresh, ns')
<1> DEFINE s == Picked(Fresh)
           q == [s EXCEPT !.pick = Cur(s).id]
<1>1. /\ Good(Fresh, s) /\ Sound(s) /\ TimerFits(s) /\ Owned(s)
      /\ s.pick # 0 => s.active /\ Good(Fresh, PickClosed(s))
  BY PickedIs
<1>2. ns' = IF s.pick # 0 THEN PickClosed(s)
            ELSE IF s.active /\ Cur(s).kind.acts THEN Hold(q) ELSE s
  BY DEF TogglePicker
<1> HIDE DEF s
<1>3. CASE s.pick = 0 /\ s.active /\ Cur(s).kind.acts
  <2>1. Cur(s).id \in 0 .. IdCount
    <3>1. Cur(s).id \in Ids  BY <1>1, <1>3, CurIsANote, NoteFields
    <3> QED  BY <3>1, LimitsAssumption DEF Ids
  <2>2. /\ Sound(q) /\ TimerFits(q) /\ q.pick = Cur(s).id /\ q.active = s.active
        /\ q.held = s.held /\ Cur(q) = Cur(s) /\ Lossless(s, q)
    BY <1>1, <2>1, PickSet
  <2>3. ns' = Hold(q)  BY <1>2, <1>3
  <2> HIDE DEF q
  <2>4. Good(q, ns') /\ ns'.held  BY <1>3, <2>2, <2>3, Holds
  <2> QED  BY <1>1, <2>2, <2>4 DEF Good, Lossless, Frees
<1> QED  BY <1>1, <1>2, <1>3

LEMMA PicksKey ==
  ASSUME NotifyInv, PickKey
  PROVE  Good(Fresh, ns')
<1> DEFINE q == [Fresh EXCEPT !.pick = 0]
<1>1. Picked(Fresh).pick # 0  BY DEF PickKey
<1>2. /\ Sound(Fresh) /\ TimerFits(Fresh) /\ Owned(Fresh)
      /\ Good(Fresh, PickClosed(Picked(Fresh)))
  BY <1>1, FreshIsSound, PickedIs
<1>3. Picked(Fresh) = Fresh /\ Fresh.active  BY <1>1, <1>2, PicksOrCloses
<1>4. CASE ns' = Invoke([Picked(Fresh) EXCEPT !.pick = 0])
  <2>0. 0 \in 0 .. IdCount  BY LimitsAssumption
  <2>1. ns' = Invoke(q)  BY <1>3, <1>4
  <2> HIDE DEF Fresh
  <2>2. /\ Sound(q) /\ TimerFits(q) /\ q.active = Fresh.active
        /\ q.held = Fresh.held /\ Lossless(Fresh, q)
    BY <1>2, <2>0, PickSet
  <2> HIDE DEF q
  <2>3. Good(q, ns')  BY <1>3, <2>1, <2>2, Invokes
  <2> QED  BY <2>2, <2>3 DEF Good, Lossless, Frees
<1> QED  BY <1>2, <1>4 DEF PickKey

LEMMA Dismisses ==
  ASSUME NotifyInv, Dismiss
  PROVE  Good(Fresh, ns')
<1> DEFINE s == Picked(Fresh)
<1>1. /\ Good(Fresh, s) /\ Sound(s) /\ TimerFits(s) /\ Owned(s)
      /\ s.pick # 0 => s.active /\ Good(Fresh, PickClosed(s))
  BY PickedIs
<1>2. ns' = IF s.pick # 0 THEN PickClosed(s) ELSE notify_clear(s, FALSE)
  BY DEF Dismiss
<1> HIDE DEF s
<1>3. CASE s.pick = 0
  <2>1. Good(s, ns') /\ CriticalFirst(ns')  BY <1>1, <1>2, <1>3, ClearsOrStays
  <2> QED  BY <1>1, <2>1, GoodAfterPicked
<1> QED  BY <1>1, <1>2, <1>3

LEMMA Forgets ==
  ASSUME NotifyInv, Forget
  PROVE  Good(Fresh, ns')
<1> DEFINE s == Picked(Fresh)
           H == [id : Ids, tag : Tagset]
<1>1. Good(Fresh, s) /\ Sound(s)  BY PickedIs
<1>2. PICK i \in DOMAIN s.hist : ns' = [s EXCEPT !.hist = RemoveAt(@, i)]
  BY DEF Forget
<1>3. Fresh \in State  BY FreshIsSound DEF Sound
<1> HIDE DEF s, Fresh
<1>4. s.hist \in Seq(H)  BY <1>1 DEF Sound, State
<1>5. RemoveAt(s.hist, i) \in Seq(H)
  <2>1. i \in 1 .. Len(s.hist)  BY <1>4
  <2> HIDE DEF H
  <2> QED  BY <1>4, <2>1, RemoveAtProperties
<1>6. /\ ns' \in State /\ SameLive(s, ns') /\ ns'.closed = s.closed
      /\ ns'.timer = s.timer
  BY <1>1, <1>2, <1>5 DEF Sound, State, SameLive
<1> QED  BY <1>1, <1>3, <1>6, GoodAfterAll

LEMMA DismissesEverything ==
  ASSUME NotifyInv, DismissAll
  PROVE  Good(Fresh, ns')
BY FreshIsSound, DismissesAll DEF DismissAll

LEMMA Opens ==
  ASSUME NotifyInv, Open
  PROVE  Good(Fresh, ns')
BY FreshIsSound, InvokesOrClears DEF Open

LEMMA Stops ==
  ASSUME NotifyInv, notify_stop
  PROVE  Good(Fresh, ns')
<1> DEFINE ids == {n.id : n \in ToSet(ns.queue)}
           d   == [Fresh EXCEPT !.queue = <<>>, !.closed = ids]
           t   == notify_clear(d, FALSE)
<1>1. /\ Sound(Fresh) /\ TimerFits(Fresh) /\ Owned(Fresh)
      /\ SameLive(ns, Fresh) /\ Fresh.closed = {}
  BY FreshIsSound
<1>2. ns' = [t EXCEPT !.hist = <<>>, !.timer = "none", !.running = FALSE]
  BY DEF notify_stop
<1> HIDE DEF Fresh
<1>3. ids = IdsOf(Fresh.queue)  BY <1>1 DEF ToSet, IdsOf, SameLive
<1>4. ids \subseteq Ids
  <2>1. ns.queue \in Seq(Note)  BY DEF NotifyInv, Sound, State
  <2>2. ToSet(ns.queue) \subseteq Note  BY <2>1 DEF ToSet
  <2> QED  BY <2>2, NoteFields
<1> HIDE DEF ids
<1>5. /\ d \in State /\ d.queue = <<>> /\ d.closed = ids /\ d.active = Fresh.active
      /\ d.cur = Fresh.cur /\ d.held = Fresh.held /\ d.heldleft = Fresh.heldleft
      /\ d.timer = Fresh.timer /\ d.pick = Fresh.pick
  <2>1. <<>> \in Seq(Note)  OBVIOUS
  <2> QED  BY <1>1, <1>4, <2>1 DEF Sound, State
<1> HIDE DEF d
<1>6. IdsOf(d.queue) = {} /\ Once(d.queue)  BY <1>5 DEF IdsOf, Once
<1>7. Sound(d)  BY <1>1, <1>3, <1>5, <1>6 DEF Sound
<1>8. TimerFits(d) /\ Owned(d)
  BY <1>1, <1>5 DEF TimerFits, Owned, Cur
<1>9. Good(d, t) /\ CriticalFirst(t)  BY <1>7, <1>8, ClearsOrStays
<1>10. Lossless(Fresh, d)
  <2>1. LiveIds(d) = (IF d.active THEN {d.cur[1].id} ELSE {}) \cup IdsOf(d.queue)
    BY <1>5, LiveIdsAre
  <2>2. LiveIds(Fresh)
          = (IF Fresh.active THEN {Fresh.cur[1].id} ELSE {}) \cup IdsOf(Fresh.queue)
    BY <1>1, LiveIdsAre DEF Sound
  <2> QED  BY <1>1, <1>3, <1>5, <2>1, <2>2 DEF Lossless
<1> HIDE DEF t
<1>11. Good(Fresh, t)  BY <1>5, <1>9, <1>10 DEF Good, Lossless, Frees
<1>12. /\ ns' \in State /\ SameLive(t, ns') /\ ns'.closed = t.closed
       /\ ns'.timer = "none"
  <2>1. <<>> \in Seq([id : Ids, tag : Tagset])  OBVIOUS
  <2> QED  BY <1>2, <1>9, <2>1 DEF Good, Sound, State, SameLive
<1> QED  BY <1>1, <1>11, <1>12, GoodAfterAll DEF Sound

LEMMA Starves ==
  ASSUME NotifyInv, Starve
  PROVE  Good(Fresh, ns')
<1>1. Sound(Fresh) /\ TimerFits(Fresh) /\ Owned(Fresh)  BY FreshIsSound
<1>2. ns' = [Fresh EXCEPT !.able = ~@]  BY DEF Starve
<1> HIDE DEF Fresh
<1>3. (~Fresh.able) \in BOOLEAN  OBVIOUS
<1>4. /\ ns' \in State /\ SameLive(Fresh, ns') /\ ns'.closed = Fresh.closed
      /\ ns'.timer = Fresh.timer
  BY <1>1, <1>2, <1>3 DEF Sound, State, SameLive
<1> QED  BY <1>1, <1>4, GoodToStay, GoodAfterAll DEF Sound

-----------------------------------------------------------------------------
(* The specification. *)

LEMMA StartIsSound ==
  ASSUME ns = notify_start
  PROVE  NotifyInv
<1>1. /\ <<>> \in Seq(Note) /\ <<>> \in Seq([id : Ids, tag : Tagset])
      /\ 0 \in 0 .. IdCount
  BY LimitsAssumption
<1>2. /\ ns \in State /\ ns.active = FALSE /\ ns.queue = <<>> /\ ns.closed = {}
      /\ ns.timer = "none" /\ ns.held = FALSE
  BY <1>1 DEF notify_start, State
<1> QED  BY <1>2 DEF NotifyInv, Sound, TimerFits, Owned, Once, IdsOf

LEMMA StepIsGood ==
  ASSUME NotifyInv, NotifyNext
  PROVE  Good(Fresh, ns')
BY HandlesNotify, HandlesClose, Expires, ChecksPicker, TogglesPicker, PicksKey,
   Dismisses, Forgets, DismissesEverything, Opens, Stops, Starves DEF NotifyNext

LEMMA InvIsKept ==
  ASSUME NotifyInv, [NotifyNext]_ns
  PROVE  NotifyInv'
<1>1. CASE NotifyNext  BY <1>1, StepIsGood DEF Good, NotifyInv
<1>2. CASE UNCHANGED ns  BY <1>2 DEF NotifyInv
<1> QED  BY <1>1, <1>2

LEMMA InvHolds == NotifySpec => []NotifyInv
BY StartIsSound, InvIsKept, PTL DEF NotifySpec

(* Whatever ids programs make up and however often the counter wraps, no two
   notifications in the box and the queue have the same id: an id names what a
   program can close or replace. *)
THEOREM IdsStayDistinct == NotifySpec => []LiveIdsAreDistinct
<1>1. NotifyInv => LiveIdsAreDistinct
  <2> SUFFICES ASSUME NotifyInv  PROVE LiveIdsAreDistinct  OBVIOUS
  <2>1. {n.id : n \in ToSet(ns.queue)} = IdsOf(ns.queue)  BY DEF ToSet, IdsOf
  <2>2. IsInjective([i \in DOMAIN ns.queue |-> ns.queue[i].id])
    BY DEF NotifyInv, Sound, Once, IsInjective
  <2> QED  BY <2>1, <2>2 DEF NotifyInv, Sound, LiveIdsAreDistinct, Cur
<1> QED  BY <1>1, InvHolds, PTL

(* The timer runs exactly for an expiring notification in the box that nobody
   holds: it never takes another one down, and none sits there forever, short
   of a timer that cannot be created. *)
THEOREM TimerFollows == NotifySpec => []TimerFollowsTheBox
<1>1. NotifyInv => TimerFollowsTheBox
  BY DEF NotifyInv, TimerFits, TimerFollowsTheBox
<1> QED  BY <1>1, InvHolds, PTL

(* Every notification that leaves the box or the queue is reported to its
   program in the step in which it goes, and none that is still there. *)
THEOREM LossesAreReported == NotifySpec => EveryLossIsReported
<1> DEFINE Exact == /\ LiveIds(ns) \ LiveIds(ns') \subseteq ns'.closed
                    /\ ns'.closed \cap LiveIds(ns') = {}
<1>1. ASSUME NotifyInv, NotifyNext  PROVE Exact
  <2>1. Good(Fresh, ns')  BY <1>1, StepIsGood
  <2>2. LiveIds(Fresh) = LiveIds(ns)  BY <1>1, FreshIsSound
  <2> HIDE DEF Fresh
  <2>3. LiveIds(ns')
          = (IF ns'.active THEN {ns'.cur[1].id} ELSE {}) \cup IdsOf(ns'.queue)
    BY <2>1, LiveIdsAre DEF Good, Sound
  <2> QED  BY <2>1, <2>2, <2>3 DEF Good, Sound, Lossless
<1>2. NotifyInv /\ [NotifyNext]_ns => [Exact]_ns  BY <1>1
<1> QED  BY <1>2, InvHolds, PTL DEF NotifySpec, EveryLossIsReported

(* As long as the same picker holds the box, what is in it stays there. *)
THEOREM HeldBoxIsKept == NotifySpec => NothingTakesTheHeldBox
<1> DEFINE Keeps == ns.held /\ ns'.held /\ ns.pick = ns'.pick /\ ns.active /\ ns'.active
                      => Cur(ns').id = Cur(ns).id
<1>1. ASSUME NotifyInv, NotifyNext  PROVE Keeps
  <2>1. Owned(ns) /\ Owned(ns')  BY <1>1, StepIsGood DEF Good, NotifyInv
  <2> QED  BY <2>1 DEF Owned
<1>2. NotifyInv /\ [NotifyNext]_ns => [Keeps]_ns  BY <1>1
<1> QED  BY <1>2, InvHolds, PTL DEF NotifySpec, NothingTakesTheHeldBox

(* Letting the box go leaves no unseen critical notification behind one that is
   not critical. *)
THEOREM CriticalsGoFirst == NotifySpec => CriticalGoesFirst
<1> DEFINE Goes == ns.held /\ ~ns'.held /\ ns'.active =>
                     Cur(ns').kind.critical \/ Unseen(ns') = {}
<1>1. ASSUME NotifyInv, NotifyNext  PROVE Goes
  <2>1. Frees(Fresh, ns')  BY <1>1, StepIsGood DEF Good
  <2>2. Fresh.held = ns.held  BY <1>1, FreshIsSound DEF SameLive
  <2> HIDE DEF Fresh
  <2> QED  BY <2>1, <2>2 DEF Frees, CriticalFirst
<1>2. NotifyInv /\ [NotifyNext]_ns => [Goes]_ns  BY <1>1
<1> QED  BY <1>2, InvHolds, PTL DEF NotifySpec, CriticalGoesFirst
=============================================================================
