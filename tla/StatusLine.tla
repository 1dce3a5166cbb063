----------------------------- MODULE StatusLine -----------------------------
(***************************************************************************)
(* What the bar promises of standard input: "each line read from standard  *)
(* input replaces the status text" (docs/g0wm.1), one byte after another,  *)
(* however the bytes come; a line of Cap bytes or more is left out.        *)
(***************************************************************************)
EXTENDS Naturals, Sequences, SequencesExt

CONSTANTS
  Lines,       (* what the writer writes, each ends in EOL                   *)
  EOL,         (* the newline                                                *)
  Cap,         (* bytes of a line that is too long                           *)
  TooLong,     (* the line being read when it is too long                    *)
  Version,     (* the program's name and version                             *)
  MaxPipe      (* bound: bytes written and not read                          *)

VARIABLES
  pipe,        (* bytes written and not read                                 *)
  line,        (* bytes of the line being read, or TooLong                   *)
  text         (* the status text                                            *)

line_vars == <<pipe, line, text>>

LineInit == pipe = <<>> /\ line = <<>> /\ text = <<>>

(* A byte of the stream. *)
Byte(st, b) ==
  IF b = EOL THEN [line |-> <<>>, text |-> IF st.line = TooLong THEN st.text ELSE st.line]
  ELSE IF st.line = TooLong \/ Len(st.line) + 1 = Cap THEN [st EXCEPT !.line = TooLong]
  ELSE [st EXCEPT !.line = Append(@, b)]

Writes(w) == Len(pipe) + Len(w) <= MaxPipe /\ pipe' = pipe \o w /\ UNCHANGED <<line, text>>

Reads(n) ==
  /\ pipe' = SubSeq(pipe, n + 1, Len(pipe))
  /\ [line |-> line', text |-> text']
       = FoldLeft(Byte, [line |-> line, text |-> text], SubSeq(pipe, 1, n))

(* Without a text the bar shows the program's version, at its next layout. *)
ShowsVersion == text = <<>> /\ text' = Version /\ UNCHANGED <<pipe, line>>

LineNext == ShowsVersion \/ (\E w \in Lines : Writes(w)) \/ (\E n \in 1 .. Len(pipe) : Reads(n))

LineSpec == LineInit /\ [][LineNext]_line_vars
=============================================================================
