------------------------------- MODULE Privacy -------------------------------
(***************************************************************************)
(* Private windows, src/output/privacy.c: what others see of an output or  *)
(* of a window while the screen itself shows everything.  Pictures are     *)
(* taken in two ways: a screencopy frame waits for the next commit of its  *)
(* output, and a capture session copies through a source whose copy_frame  *)
(* has been replaced.                                                      *)
(*                                                                         *)
(* A part <<w, p>> is what can be seen of a window: its surface, its title *)
(* bar, or its title in the bar of an output.  A picture has the set of    *)
(* parts it shows as they are.                                             *)
(*                                                                         *)
(* What may fail, fails in the model: painting a bar or its second title   *)
(* when no buffer is free, masking a picture, and wiping it.               *)
(***************************************************************************)
EXTENDS Naturals, FiniteSets

CONSTANTS
  PWindows,    (* windows                                                    *)
  Titled,      (* those with a title bar                                     *)
  POutputs,    (* outputs                                                    *)
  Sources,     (* windows and outputs that are captured                      *)
  Frames,      (* bound: screencopy frames at a time                         *)
  MAXBOXES,    (* boxes that fit the list of masks                           *)
  NoWindow

ASSUME PrivacyAssumption ==
  /\ MAXBOXES \in Nat \ {0} /\ NoWindow \notin PWindows /\ PWindows \cap POutputs = {}
  /\ Titled \subseteq PWindows /\ Sources \subseteq PWindows \cup POutputs

VARIABLES
  isprivate,   (* windows marked private                                     *)
  drawn,       (* for each output, the windows on it that are enabled        *)
  focused,     (* for each output, the window its bar names                  *)
  bar,         (* each bar: [up, names, shared, whole], the window whose     *)
               (* title it shows; whether a title for others goes with it;   *)
               (* whether it found the buffers it needed when last drawn     *)
  shields,     (* sources that live, and those whose copy_frame is ours      *)
  frames,      (* screencopy frames waiting for a commit of their output     *)
  picture      (* the last picture taken: [parts, bare], bare when it could  *)
               (* be neither masked nor wiped                                *)

privacy_vars == <<isprivate, drawn, focused, bar, shields, frames, picture>>

PrivacyInit ==
  /\ isprivate \in SUBSET PWindows
  /\ drawn = [o \in POutputs |-> {}] /\ focused = [o \in POutputs |-> NoWindow]
  /\ bar = [o \in POutputs |-> [up |-> TRUE, names |-> NoWindow, shared |-> FALSE, whole |-> TRUE]]
  /\ shields = [live |-> {}, ours |-> {}]
  /\ frames = {} /\ picture = [parts |-> {}, bare |-> FALSE]

-----------------------------------------------------------------------------
(* What there is to see on an output. *)

PartsOf(ws) == (ws \X {"surface"}) \cup ((ws \cap Titled) \X {"title"})
TitleShown(o) == IF bar[o].up THEN {bar[o].names} \ {NoWindow} ELSE {}
Shown(o) == PartsOf(drawn[o]) \cup (TitleShown(o) \X {"bar"})

(* privacy_private_boxes: what is masked, which is all of the output when the
   boxes do not fit *)
privacy_private_boxes(o) ==
  LET boxes == PartsOf(drawn[o] \cap isprivate)
                 \cup (IF bar[o].shared THEN {<<bar[o].names, "bar">>} ELSE {})
  IN IF Cardinality(boxes) > MAXBOXES THEN Shown(o) ELSE boxes

(* bar_draw: a bar that is up shows the title of w, and a second title for
   others if w is private; unless there is no buffer for the second one, or
   none for the bar, which goes on showing what it showed. *)
bar_draw(b, w, priv) ==
  IF ~b.up THEN {[b EXCEPT !.shared = FALSE]}
  ELSE {[b EXCEPT !.names = w, !.shared = w \in priv, !.whole = TRUE],
        [b EXCEPT !.names = w, !.shared = FALSE, !.whole = w \notin priv],
        [b EXCEPT !.shared = FALSE, !.whole = FALSE]}

(* bar_draw_all, where the bars bs have the titles foc to show *)
bar_draw_all(bs, foc, priv) ==
  /\ bar' \in [POutputs -> UNION {bar_draw(bs[o], foc[o], priv) : o \in POutputs}]
  /\ \A o \in POutputs : bar'[o] \in bar_draw(bs[o], foc[o], priv)

(* Windows are mapped, moved, raised, given the focus: the bars follow. *)
WindowsChange(o) ==
  /\ drawn' \in {[drawn EXCEPT ![o] = ws] : ws \in SUBSET PWindows}
  /\ focused' \in {[focused EXCEPT ![o] = w] : w \in drawn'[o] \cup {NoWindow}}
  /\ bar_draw_all(bar, focused', isprivate)
  /\ UNCHANGED <<isprivate, shields, frames, picture>>

(* mutant: the bars keep what they painted *)
privacy_toggle_Bars(o) ==
  /\ focused[o] # NoWindow
  /\ isprivate' = IF focused[o] \in isprivate THEN isprivate \ {focused[o]}
                  ELSE isprivate \cup {focused[o]}
  /\ UNCHANGED <<drawn, focused, bar, shields, frames, picture>>

(* privacy_toggle, with o the selected monitor *)
privacy_toggle(o) ==
  /\ focused[o] # NoWindow
  /\ isprivate' = IF focused[o] \in isprivate THEN isprivate \ {focused[o]}
                  ELSE isprivate \cup {focused[o]}
  /\ bar_draw_all(bar, focused, isprivate')
  /\ UNCHANGED <<drawn, focused, shields, frames, picture>>

(* settings_reload, when always_private changed; monitor_update_layout draws
   the bars *)
AlwaysPrivateChanges ==
  /\ isprivate' \in {{}, PWindows} /\ isprivate' # isprivate
  /\ bar_draw_all(bar, focused, isprivate')
  /\ UNCHANGED <<drawn, focused, shields, frames, picture>>

(* bar_toggle *)
bar_toggle(o) ==
  /\ bar_draw_all([bar EXCEPT ![o].up = ~@], focused, isprivate)
  /\ UNCHANGED <<isprivate, drawn, focused, shields, frames, picture>>

-----------------------------------------------------------------------------
(* Capture sources, an output's or a window's. *)

(* privacy_handle_new_capture_session, toplevel_handle_new_capture_request:
   a source is shielded once *)
privacy_shield(s) ==
  /\ s \notin shields.ours
  /\ shields' = [live |-> shields.live \cup {s}, ours |-> shields.ours \cup {s}]
  /\ UNCHANGED <<isprivate, drawn, focused, bar, frames, picture>>

(* privacy_handle_shield_destroy: the original is put back for what is left of
   the source's destruction *)
privacy_handle_shield_destroy(s) ==
  /\ s \in shields.ours
  /\ shields' = [live |-> shields.live \ {s}, ours |-> shields.ours \ {s}]
  /\ UNCHANGED <<isprivate, drawn, focused, bar, frames, picture>>

(* privacy_copy_frame.  That of an output runs within a commit, or has nothing
   to copy from and fails; a frame that cannot be masked fails as well. *)
privacy_copy_frame(s) ==
  /\ s \in shields.ours
  /\ picture' = [bare |-> FALSE,
                 parts |-> IF s \in PWindows THEN {<<w, "surface">> : w \in {s} \ isprivate}
                           ELSE Shown(s) \ privacy_private_boxes(s)]
  /\ UNCHANGED <<isprivate, drawn, focused, bar, shields, frames>>

-----------------------------------------------------------------------------
(* Screencopy. *)

FrameRequested(f, o) ==
  /\ \A g \in frames : g.id # f
  /\ frames' = frames \cup {[id |-> f, output |-> o]}
  /\ UNCHANGED <<isprivate, drawn, focused, bar, shields, picture>>

(* privacy_wipe: where that fails too it logs, and the copy goes out as it is *)
privacy_wipe(o) == {[parts |-> {}, bare |-> FALSE], [parts |-> Shown(o), bare |-> TRUE]}

(* A commit: privacy_before_commit notes the frames that wait, some of them
   are copied, and privacy_after_commit masks those, or wipes them where that
   fails. *)
Commit(o) ==
  \E done \in SUBSET {f \in frames : f.output = o} :
    /\ done # {} /\ frames' = frames \ done
    /\ \/ picture' = [parts |-> Shown(o) \ privacy_private_boxes(o), bare |-> FALSE]
       \/ privacy_private_boxes(o) # {} /\ picture' \in privacy_wipe(o)
    /\ UNCHANGED <<isprivate, drawn, focused, bar, shields>>

PrivacyNext ==
  \/ \E o \in POutputs :
       \/ WindowsChange(o) \/ privacy_toggle(o) \/ bar_toggle(o) \/ Commit(o)
       \/ \E f \in Frames : FrameRequested(f, o)
  \/ AlwaysPrivateChanges
  \/ \E s \in Sources :
       privacy_shield(s) \/ privacy_handle_shield_destroy(s) \/ privacy_copy_frame(s)

PrivacySpec == PrivacyInit /\ [][PrivacyNext]_privacy_vars

-----------------------------------------------------------------------------
(* Properties. *)

(* "A window can be marked private, and screen sharing shows it as a black
   box" (docs/features.md:27).  A picture, however it is taken, shows a part of
   a window that is private then in two cases only: the copy could be neither
   masked nor wiped, or the part is the window's title in a bar that did not
   find its buffers when it was last drawn.  In every other case the masks have
   followed the windows, the bars and what is private. *)
SharedIsMasked ==
  [][picture' # picture =>
       \A part \in picture'.parts : part[1] \in isprivate =>
         \/ picture'.bare
         \/ /\ part[2] = "bar"
            /\ \E o \in POutputs : part[1] \in TitleShown(o) /\ ~bar[o].whole]_privacy_vars
=============================================================================
