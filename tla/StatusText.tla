----------------------------- MODULE StatusText -----------------------------
(***************************************************************************)
(* The status text of the bar, src/desktop/bar/status.c, once it is read:  *)
(* walked to draw it and once more to find the command under a click.      *)
(***************************************************************************)
EXTENDS StatusInput

CONSTANT AreaButtons  (* the digits of the buttons an area may be for *)

-----------------------------------------------------------------------------
(* The walks. *)

At(t, i) == IF i <= Len(t) THEN t[i] ELSE EOL

(* The first caret of t from i on, or 0. *)
CaretFrom(t, i) ==
  IF \E j \in i .. Len(t) : t[j] = "^"
  THEN CHOOSE j \in i .. Len(t) : t[j] = "^" /\ \A k \in i .. j - 1 : t[k] # "^" ELSE 0

(* Where the command of an area that starts at i begins. *)
CommandAt(t, i) == IF At(t, i + 2) \in AreaButtons THEN i + 4 ELSE i + 3

(* bar_status_escape: the bytes an escape at i takes, 0 if there is none;
   "^d^" stands for the colours *)
bar_status_escape(t, i) ==
  IF At(t, i) # "^" THEN 0
  ELSE IF At(t, i + 1) = "s"
  THEN LET c == CommandAt(t, i)
           caret == CaretFrom(t, c)
       IN IF At(t, c - 1) = "!" /\ c <= Len(t) /\ t[c] # "^" /\ caret > 0
          THEN caret - i + 1 ELSE 0
  ELSE IF At(t, i + 1) \in {"e", "d"} /\ At(t, i + 2) = "^" THEN 3
  ELSE IF At(t, i + 1) = "e" /\ At(t, i + 2) = "!" /\ At(t, i + 3) = "^" THEN 4
  ELSE 0

(* bar_draw_status: the glyphs and the escapes it takes, in order.  A glyph
   is one pixel wide; two carets draw one. *)
RECURSIVE bar_draw_status(_, _)
bar_draw_status(t, i) ==
  IF i > Len(t) THEN <<>>
  ELSE IF t[i] = "^" /\ At(t, i + 1) = "^"
  THEN <<[kind |-> "glyph", at |-> i]>> \o bar_draw_status(t, i + 2)
  ELSE IF bar_status_escape(t, i) > 0
  THEN <<[kind |-> "escape", at |-> i]>> \o bar_draw_status(t, i + bar_status_escape(t, i))
  ELSE <<[kind |-> "glyph", at |-> i]>> \o bar_draw_status(t, i + 1)

(* A segment of text from i on: its width, and where it ends. *)
RECURSIVE Segment(_, _, _)
Segment(t, i, width) ==
  IF i > Len(t) THEN [width |-> width, end |-> i]
  ELSE IF t[i] = "^" /\ At(t, i + 1) = "^" THEN Segment(t, i + 2, width + 1)
  ELSE IF bar_status_escape(t, i) > 0 THEN [width |-> width, end |-> i]
  ELSE Segment(t, i + 1, width + 1)

(* mutant: the end of an area forgets the left button's command only *)
AreasAfter_Left(t, i, cmds) ==
  IF At(t, i + 1) = "s" THEN [cmds EXCEPT ![IF At(t, i + 2) \in AreaButtons THEN t[i + 2] ELSE "1"]
                                = CommandAt(t, i)]
  ELSE IF At(t, i + 1) = "e" THEN [cmds EXCEPT !["1"] = 0] ELSE cmds

(* What an escape does to the commands of the buttons, each a place in t. *)
AreasAfter(t, i, cmds) ==
  IF At(t, i + 1) = "s" THEN [cmds EXCEPT ![IF At(t, i + 2) \in AreaButtons THEN t[i + 2] ELSE "1"]
                                = CommandAt(t, i)]
  ELSE IF At(t, i + 1) = "e" THEN [b \in AreaButtons |-> 0] ELSE cmds

(* bar_status_area: where the command for a click x pixels into t begins *)
RECURSIVE bar_status_area(_, _, _, _, _)
bar_status_area(t, i, x, b, cmds) ==
  LET s == Segment(t, i, 0) IN
  IF i > Len(t) THEN 0
  ELSE IF x < s.width THEN cmds[b]
  ELSE IF s.end > Len(t) THEN 0
  ELSE bar_status_area(t, s.end + bar_status_escape(t, s.end), x - s.width, b,
                       AreasAfter(t, s.end, cmds))

-----------------------------------------------------------------------------
(* Properties. *)

(* "Must walk the text the same way bar_draw_status() does": a click on a
   glyph finds the command of the last area for its button that the drawing
   walk opened before the glyph and has not closed. *)
ClickFindsTheAreaDrawn ==
  LET drawn == bar_draw_status(status_text, 1)
      Glyphs == {k \in 1 .. Len(drawn) : drawn[k].kind = "glyph"}
      X(k) == Cardinality({g \in Glyphs : g < k})
      Is(k, c) == drawn[k].kind = "escape" /\ At(status_text, drawn[k].at + 1) = c
      Opens(k, b) == /\ Is(k, "s")
                     /\ b = IF At(status_text, drawn[k].at + 2) \in AreaButtons
                            THEN status_text[drawn[k].at + 2] ELSE "1"
      Open(k, b) == {o \in 1 .. k : Opens(o, b) /\ \A c \in o .. k :
                                                     ~Is(c, "e") /\ (Opens(c, b) => c = o)}
  IN \A k \in Glyphs, b \in AreaButtons :
       LET found == bar_status_area(status_text, 1, X(k), b, [x \in AreaButtons |-> 0])
       IN IF Open(k, b) = {} THEN found = 0
          ELSE \E o \in Open(k, b) : found = CommandAt(status_text, drawn[o].at)
=============================================================================
