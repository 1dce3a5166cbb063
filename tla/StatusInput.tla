---------------------------- MODULE StatusInput ----------------------------
(***************************************************************************)
(* How the bar reads the status text from standard input,                  *)
(* src/desktop/bar/status.c: lines cut from the chunks that a pipe happens *)
(* to deliver.                                                             *)
(***************************************************************************)
EXTENDS Naturals, Sequences, SequencesExt

CONSTANTS Lines, EOL, Cap, TooLong, Version,   (* as in StatusLine; Cap is
                                                  sizeof(input_buffer) - 1 *)
          MaxPipe

AllBytes == UNION {ToSet(w) : w \in Lines}

ASSUME StatusInputAssumption ==
  /\ Cap \in Nat \ {0} /\ MaxPipe \in Nat
  /\ Lines \subseteq Seq(AllBytes) /\ TooLong \notin Seq(AllBytes)
  /\ \A w \in Lines : w # <<>> /\ Last(w) = EOL /\ ~Contains(Front(w), EOL)

VARIABLES
  pipe,         (* bytes written to standard input and not read              *)
  hungup,       (* the writer closed it                                      *)
  stopped,      (* bar_status_stop: the source is removed                    *)
  input_buffer, (* its first input_len bytes                                 *)
  skipping,     (* skipping_long_line                                        *)
  status_text   (* bar_status_text                                           *)

status_vars == <<pipe, hungup, stopped, input_buffer, skipping, status_text>>

StatusInit ==
  /\ pipe = <<>> /\ hungup = FALSE /\ stopped = FALSE
  /\ input_buffer = <<>> /\ skipping = FALSE /\ status_text = <<>>

-----------------------------------------------------------------------------
(* Reading. *)

WriterWrites(w) ==
  /\ ~hungup /\ Len(pipe) + Len(w) <= MaxPipe
  /\ pipe' = pipe \o w
  /\ UNCHANGED <<hungup, stopped, input_buffer, skipping, status_text>>

WriterExits ==
  /\ ~hungup /\ hungup' = TRUE
  /\ UNCHANGED <<pipe, stopped, input_buffer, skipping, status_text>>

(* The newlines of a buffer, the last line they end, and what follows it. *)
Ends(buffer) == {i \in 1 .. Len(buffer) : buffer[i] = EOL}
LatestLine(buffer) ==
  LET end == Max(Ends(buffer)) IN SubSeq(buffer, Max({0} \cup (Ends(buffer) \ {end})) + 1, end - 1)
PartialLine(buffer) == SubSeq(buffer, Max({0} \cup Ends(buffer)) + 1, Len(buffer))

(* mutant: the end of a line that was too long is taken for a line *)
LinesRead_Tail(buffer) == Cardinality(Ends(buffer))

(* The lines of a buffer, without the end of one that was too long. *)
LinesRead(buffer) ==
  IF skipping /\ Ends(buffer) # {} THEN Cardinality(Ends(buffer)) - 1
  ELSE Cardinality(Ends(buffer))

(* bar_handle_status_input: a read of n bytes.  The last of the lines read is
   the text; what follows it is kept, unless it fills the buffer. *)
bar_handle_status_input(n) ==
  LET buffer == input_buffer \o SubSeq(pipe, 1, n) IN
  /\ ~stopped /\ n <= Cap - Len(input_buffer)
  /\ pipe' = SubSeq(pipe, n + 1, Len(pipe))
  /\ status_text' = IF LinesRead(buffer) = 0 THEN status_text ELSE LatestLine(buffer)
  /\ IF Len(PartialLine(buffer)) = Cap
     THEN input_buffer' = <<>> /\ skipping' = TRUE
     ELSE input_buffer' = PartialLine(buffer) /\ skipping' = (skipping /\ Ends(buffer) = {})
  /\ UNCHANGED <<hungup, stopped>>

(* bar_status_stop: end of file, or a hangup, which is looked at before what
   is left in the pipe *)
bar_status_stop ==
  /\ hungup /\ ~stopped /\ stopped' = TRUE
  /\ UNCHANGED <<pipe, hungup, input_buffer, skipping, status_text>>

(* monitor_update_layout fills in a text that is empty *)
LayoutNamesTheProgram ==
  /\ status_text = <<>> /\ status_text' = Version
  /\ UNCHANGED <<pipe, hungup, stopped, input_buffer, skipping>>

StatusNext ==
  \/ \E w \in Lines : WriterWrites(w)
  \/ \E n \in 1 .. Len(pipe) : bar_handle_status_input(n)
  \/ WriterExits \/ bar_status_stop \/ LayoutNamesTheProgram

StatusSpec == StatusInit /\ [][StatusNext]_status_vars

-----------------------------------------------------------------------------
(* Properties. *)

Stream == INSTANCE StatusLine
            WITH line <- IF skipping THEN TooLong ELSE input_buffer, text <- status_text

(* "Every line g0wm reads from standard input replaces the status text"
   (docs/g0wm.1:63), whatever the chunks they come in: the reader implements
   the byte by byte StatusLine. *)
ReadsLineByLine == Stream!LineSpec
=============================================================================
