------------------------------ MODULE MCDesktop ------------------------------
(***************************************************************************)
(* The parts of the desktop and of the input that share no state, on small *)
(* instances.  Every behaviour of the whole is an interleaving of theirs,  *)
(* so a state of one of them is reachable in the whole exactly when it is  *)
(* reachable alone, and a step of the whole is a step of one of them: the  *)
(* part that runs is chosen at the start.                                  *)
(***************************************************************************)
EXTENDS Notify, Keys, Pointer, Cursor, Gestures, Tablet, TabletPads, TextInput,
        Tray, TrayMenu, MenuLayout, Prompt, Calc, StatusText, Privacy

VARIABLE part

(* Notifications: a critical one, and a call that is updated through its
   stack tag, has actions, stays up after one, has a default one and leaves no
   trace in the history. *)
Alarm == [tag |-> NoTag, critical |-> TRUE, transient |-> FALSE,
          resident |-> FALSE, acts |-> FALSE, hasdefault |-> FALSE]
Call  == [tag |-> "call", critical |-> FALSE, transient |-> TRUE,
          resident |-> TRUE, acts |-> TRUE, hasdefault |-> TRUE]
Messages == {Alarm, Call}

(* Keys: the prompt's binding, the inhibitor's, and Escape. *)
Binds == ("toggle" :> "runner") @@ ("inhibit" :> "inhibit") @@ ("escape" :> "nothing")

(* Two programs, each with a field and a surface. *)
Owner == ("f" :> "a") @@ ("s" :> "a") @@ ("g" :> "b") @@ ("t" :> "b")

(* A pad and the two tablets of its group, and one of another group. *)
DeviceGroups == ("pad" :> 1) @@ ("lonely" :> 2) @@ ("t1" :> 1) @@ ("t2" :> 1) @@ ("t3" :> 2)

(* What programs answer as their menu: skipped entries above a submenu with
   one too, nothing to show, an entry of a submenu that does not parse, and a
   submenu with nothing to show. *)
MenuItem(x)  == [kind |-> "item", id |-> x, sub |-> <<>>]
Submenu(x, s) == [kind |-> "sub", id |-> x, sub |-> s]
Hidden     == [kind |-> "skip", id |-> 0, sub |-> <<>>]
Malformed  == [kind |-> "bad", id |-> 0, sub |-> <<>>]
MenuAnswers == {
  <<Hidden, MenuItem(1), Submenu(2, <<MenuItem(3), Hidden, MenuItem(4)>>), MenuItem(5)>>,
  <<Hidden>>, <<MenuItem(1), Submenu(2, <<Malformed>>)>>, <<Submenu(1, <<Hidden>>), MenuItem(2)>>}

(* The levels of these, and of their submenus. *)
TopLevels  == {menu_extract(raw).level : raw \in {a \in MenuAnswers : menu_extract(a).ok}}
MenuLevels ==
  TopLevels \cup UNION {{level[i].sub : i \in DOMAIN level} : level \in TopLevels}

(* Names the prompt completes, in characters of two bytes: one that fits, one
   that is cut in the middle of a character when it is recorded, and one that
   does not fit after the prefix of its mode. *)
AppNames     == <<<<"L", "C">>, <<"L", "C", "L", "C">>>>
CommandNames == <<<<"L", "C">>, <<"L", "C", " ">>>>

(* Status lines: an area for the left button that is closed, areas of two
   buttons, with escaped carets before and in them; the last one is too long
   for the buffer. *)
StatusLines == {
  <<"^", "s", "!", "x", "^", "a", "^", "e", "^", "a", "n">>,
  <<"^", "^", "^", "s", "4", "!", "y", "^", "a", "n">>,
  <<"^", "s", "4", "!", "x", "^", "^", "e", "^", "a", "n">>,
  <<"a", "^", "s", "4", "!", "x", "^", "^", "s", "!", "z", "^", "a", "n">>}
ProgramName == <<"v">>

-----------------------------------------------------------------------------
Parts == {"notify", "keys", "pointer", "cursor", "gestures", "tablet", "pads",
          "textinput", "tray", "traymenu", "prompt", "calc", "status", "privacy"}

inputs   == <<keys_vars, pointer_vars, cursor_vars, gestures_vars, textinput_vars>>
trayside == <<tray_vars, traymenu_vars>>
tablets  == <<tablet_vars, tabletpads_vars>>
others   == <<ns, status_vars, privacy_vars, tablets>>

DesktopInit ==
  /\ part \in Parts
  /\ ns = notify_start
  /\ KeysInit /\ PointerInit /\ CursorInit /\ GesturesInit
  /\ TabletInit /\ TabletPadsInit /\ TextInputInit
  /\ TrayInit /\ TrayMenuInit /\ PromptInit /\ CalcInit /\ StatusInit /\ PrivacyInit
  (* the choices a part starts with are made when it runs *)
  /\ part # "pointer" => at = CHOOSE m \in Mons : TRUE
  /\ part # "pointer" => on = [w \in Wins |-> at]
  /\ part # "gestures" => size = CHOOSE z \in OutputSizes : TRUE
  /\ part # "prompt" => history_size = CHOOSE h \in HistorySizes : TRUE
  /\ part # "privacy" => isprivate = {}

Runs(p) == part = p /\ UNCHANGED part

DesktopNext ==
  \/ /\ Runs("notify") /\ NotifyNext
     /\ UNCHANGED <<inputs, trayside, prompt_vars, expr, status_vars, privacy_vars, tablets>>
  \/ /\ Runs("keys") /\ KeysNext
     /\ UNCHANGED <<pointer_vars, cursor_vars, gestures_vars, textinput_vars,
                    trayside, prompt_vars, expr, others>>
  \/ /\ Runs("pointer") /\ PointerNext
     /\ UNCHANGED <<keys_vars, cursor_vars, gestures_vars, textinput_vars,
                    trayside, prompt_vars, expr, others>>
  \/ /\ Runs("cursor") /\ CursorNext
     /\ UNCHANGED <<keys_vars, pointer_vars, gestures_vars, textinput_vars,
                    trayside, prompt_vars, expr, others>>
  \/ /\ Runs("gestures") /\ GesturesNext
     /\ UNCHANGED <<keys_vars, pointer_vars, cursor_vars, textinput_vars,
                    trayside, prompt_vars, expr, others>>
  \/ /\ Runs("tablet") /\ TabletNext
     /\ UNCHANGED <<inputs, trayside, prompt_vars, expr, ns, status_vars,
                    privacy_vars, tabletpads_vars>>
  \/ /\ Runs("pads") /\ TabletPadsNext
     /\ UNCHANGED <<inputs, trayside, prompt_vars, expr, ns, status_vars,
                    privacy_vars, tablet_vars>>
  \/ /\ Runs("textinput") /\ TextInputNext
     /\ UNCHANGED <<keys_vars, pointer_vars, cursor_vars, gestures_vars,
                    trayside, prompt_vars, expr, others>>
  \/ /\ Runs("tray") /\ TrayNext
     /\ UNCHANGED <<inputs, traymenu_vars, prompt_vars, expr, others>>
  \/ /\ Runs("traymenu") /\ TrayMenuNext
     /\ UNCHANGED <<inputs, tray_vars, prompt_vars, expr, others>>
  \/ /\ Runs("prompt") /\ PromptNext
     /\ UNCHANGED <<inputs, trayside, expr, others>>
  \/ /\ Runs("calc") /\ CalcNext
     /\ UNCHANGED <<inputs, trayside, prompt_vars, others>>
  \/ /\ Runs("status") /\ StatusNext
     /\ UNCHANGED <<inputs, trayside, prompt_vars, expr, ns, privacy_vars, tablets>>
  \/ /\ Runs("privacy") /\ PrivacyNext
     /\ UNCHANGED <<inputs, trayside, prompt_vars, expr, ns, status_vars, tablets>>

DesktopSpec ==
  DesktopInit /\ [][DesktopNext]_<<part, inputs, trayside, prompt_vars, expr, others>>
=============================================================================
