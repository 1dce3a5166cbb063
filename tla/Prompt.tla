------------------------------- MODULE Prompt -------------------------------
(***************************************************************************)
(* The runner's prompt, src/desktop/runner: a line of UTF-8 edited key by  *)
(* key, the candidates that follow it, Tab that goes through them, and the *)
(* history that Up and Down recall.                                        *)
(*                                                                         *)
(* A byte is Lead or Cont (of a character of two bytes), Blank, Mark (the  *)
(* prefix of the mode that runs commands) or a letter.  Of the modes, the  *)
(* one without a prefix opens an application and needs a candidate, the    *)
(* one with it runs what is typed.                                         *)
(***************************************************************************)
EXTENDS Naturals, Sequences, SequencesExt

CONSTANTS
  Letters, Lead, Cont, Blank, Mark,
  Apps, Commands,    (* names, as sequences of bytes, in order               *)
  BufferSize,        (* sizeof runner_buffer                                 *)
  HistorySizes       (* values runner_history_size takes                     *)

ASSUME PromptAssumption ==
  /\ BufferSize \in Nat \ {0} /\ HistorySizes \subseteq Nat
  /\ Lead \notin Letters \cup {Cont, Blank, Mark}
  /\ Cont \notin Letters \cup {Blank, Mark}
  /\ Blank # Mark /\ {Blank, Mark} \cap Letters = {}

(* What the buffer, a name or an entry of the history can be: text that does
   not start within a character.  Names are text as the whole line is
   ("runner_buffer holds UTF-8", runner.c).  A line may end within a character,
   where what was recorded has been cut. *)
Bytes == Letters \cup {Lead, Cont, Blank, Mark}
Line  == {b \in Seq(Bytes) : b = <<>> \/ b[1] # Cont}

ASSUME NamesAssumption == Apps \in Seq(Line) /\ Commands \in Seq(Line)

VARIABLES
  prompt,      (* runner_active                                              *)
  buffer,      (* runner_buffer, runner_length bytes                         *)
  cursor,      (* runner_cursor, 0 .. Len(buffer)                            *)
  matches,     (* the candidates listed                                      *)
  selection,   (* runner_selection, from 1                                   *)
  cycling,     (* runner_cycling                                             *)
  history,     (* runner_history, oldest first                               *)
  history_pos, (* runner_history_pos, from 1; 0 is -1                        *)
  history_size (* the setting runner_history_size                            *)

prompt_vars == <<prompt, buffer, cursor, matches, selection, cycling,
                 history, history_pos, history_size>>

PromptInit ==
  /\ prompt = FALSE /\ buffer = <<>> /\ cursor = 0 /\ matches = <<>> /\ selection = 1
  /\ cycling = FALSE /\ history = <<>> /\ history_pos = 0 /\ history_size \in HistorySizes

-----------------------------------------------------------------------------
(* The mode and the candidates. *)

(* runner_mode: the bytes before the query, the prefix and blanks after it *)
runner_query(b) ==
  IF b = <<>> \/ b[1] # Mark THEN 0
  ELSE CHOOSE n \in 1 .. Len(b) : /\ \A i \in 2 .. n : b[i] = Blank
                                  /\ n = Len(b) \/ b[n + 1] # Blank

Source(b) == IF b # <<>> /\ b[1] = Mark THEN Commands ELSE Apps
Query(b) == SubSeq(b, runner_query(b) + 1, Len(b))

(* runner_filter, with runner_fuzzy off and the order the names have; nothing
   typed lists nothing *)
runner_filter(b) ==
  LET Match(found, c) == IF IsPrefix(Query(b), c) THEN Append(found, c) ELSE found
  IN  IF Query(b) = <<>> THEN <<>> ELSE FoldLeft(Match, <<>>, Source(b))

Refilter(b) == matches' = runner_filter(b) /\ selection' = 1

-----------------------------------------------------------------------------
(* Moving and cutting. *)

(* runner_prev, runner_next: the places a cursor may rest on *)
Rests(b) == {i \in 0 .. Len(b) : i = Len(b) \/ i = 0 \/ b[i + 1] # Cont}
runner_prev(b, i) == IF i = 0 THEN 0 ELSE Max({p \in Rests(b) : p < i})
runner_next(b, i) == IF i = Len(b) THEN i ELSE Min({p \in Rests(b) : p > i})

(* The word behind the cursor: blanks, then what is not blank. *)
WordStart(b, i) ==
  LET blanks == CHOOSE s \in 0 .. i : /\ \A k \in s + 1 .. i : b[k] = Blank
                                      /\ s = 0 \/ b[s] # Blank
  IN CHOOSE s \in 0 .. blanks : /\ \A k \in s + 1 .. blanks : b[k] # Blank
                                /\ s = 0 \/ b[s] = Blank

Cut(from, to) ==
  /\ buffer' = SubSeq(buffer, 1, from) \o SubSeq(buffer, to + 1, Len(buffer)) /\ cursor' = from

(* A key that changed the line lists its candidates anew. *)
Edited ==
  /\ IF buffer' # buffer THEN Refilter(buffer') /\ cycling' = FALSE
     ELSE UNCHANGED <<matches, selection, cycling>>
  /\ UNCHANGED <<prompt, history, history_size>>

-----------------------------------------------------------------------------
(* Keys. *)

(* A printable character, if it fits. *)
TypesText(c) ==
  /\ prompt /\ Len(buffer) + Len(c) < BufferSize
  /\ buffer' = SubSeq(buffer, 1, cursor) \o c \o SubSeq(buffer, cursor + 1, Len(buffer))
  /\ cursor' = cursor + Len(c)
  /\ Edited /\ UNCHANGED history_pos

(* Left, Right, Home, End, and Ctrl with b, f, a, e *)
MovesCursor ==
  /\ prompt /\ cursor' \in {runner_prev(buffer, cursor), runner_next(buffer, cursor), 0, Len(buffer)}
  /\ UNCHANGED <<prompt, buffer, matches, selection, cycling, history, history_pos, history_size>>

(* mutant: Delete takes a byte *)
runner_cut_Byte ==
  /\ prompt
  /\ \/ Cut(runner_prev(buffer, cursor), cursor)
     \/ cursor < Len(buffer) /\ Cut(cursor, cursor + 1)
  /\ Edited /\ UNCHANGED history_pos

(* BackSpace, Delete, Ctrl with w, Ctrl with c *)
runner_cut ==
  /\ prompt
  /\ \/ Cut(runner_prev(buffer, cursor), cursor)
     \/ Cut(cursor, runner_next(buffer, cursor))
     \/ Cut(WordStart(buffer, cursor), cursor)
     \/ Cut(0, Len(buffer))
  /\ Edited /\ UNCHANGED history_pos

(* Where runner_recall stops: past repeats of the line that is shown. *)
Skipped(pos, up) ==
  LET shown == IF history_pos = 0 THEN <<>> ELSE history[history_pos]
      stops == {0, Len(history) + 1} \cup {i \in 1 .. Len(history) : history[i] # shown}
  IN IF up THEN Max({s \in stops : s < pos}) ELSE Min({s \in stops : s > pos})

(* Up and Down, runner_recall *)
runner_recall(up) ==
  LET to == Skipped(IF history_pos = 0 THEN Len(history) + 1 ELSE history_pos, up) IN
  /\ prompt
  /\ IF (history_pos = 0 /\ ~up) \/ to = 0 THEN UNCHANGED <<buffer, cursor, history_pos>>
     ELSE /\ history_pos' = IF to > Len(history) THEN 0 ELSE to
          /\ buffer' = IF to > Len(history) THEN <<>> ELSE history[to]
          /\ cursor' = Len(buffer')
  /\ Edited

(* Tab: the first takes the selected candidate, the next the one after it,
   with Shift the one before; the list stays put. *)
TakesCandidate(back) ==
  LET n == Len(matches)
      sel == IF n > 0 /\ (cycling \/ back)
             THEN IF back THEN IF selection = 1 THEN n ELSE selection - 1
                  ELSE IF selection = n THEN 1 ELSE selection + 1
             ELSE selection
      line == IF n = 0 THEN <<>> ELSE SubSeq(buffer, 1, runner_query(buffer)) \o matches[sel]
  IN /\ prompt /\ n > 0
     /\ selection' = sel
     /\ IF Len(line) < BufferSize
        THEN buffer' = line /\ cursor' = Len(line) /\ cycling' = TRUE
        ELSE UNCHANGED <<buffer, cursor, cycling>>
     /\ UNCHANGED <<prompt, matches, history, history_pos, history_size>>

-----------------------------------------------------------------------------
(* Opening, running, leaving. *)

(* runner_trim_history keeps the newest *)
runner_trim_history(h) ==
  SubSeq(h, (IF Len(h) > history_size THEN Len(h) - history_size ELSE 0) + 1, Len(h))

(* runner_toggle: the setting may have shrunk since *)
runner_toggle ==
  /\ prompt' = ~prompt
  /\ IF prompt THEN UNCHANGED <<buffer, cursor, matches, selection, cycling, history, history_pos>>
     ELSE /\ history' = runner_trim_history(history) /\ history_pos' = 0
          /\ buffer' = <<>> /\ cursor' = 0 /\ Refilter(<<>>) /\ cycling' = FALSE
  /\ UNCHANGED history_size

(* Return: runner_enter closes the prompt; what it ran is recorded with its
   prefix, cut to the buffer. *)
runner_enter ==
  LET sug == IF matches = <<>> THEN Query(buffer) ELSE matches[selection]
      runs == IF Source(buffer) = Apps THEN matches # <<>> ELSE sug # <<>>
      line == SubSeq(buffer, 1, runner_query(buffer)) \o sug
      record == SubSeq(line, 1, IF Len(line) < BufferSize THEN Len(line) ELSE BufferSize - 1)
  IN /\ prompt /\ prompt' = FALSE
     /\ history' = IF runs /\ history_size > 0 THEN runner_trim_history(Append(history, record))
                   ELSE history
     /\ UNCHANGED <<buffer, cursor, matches, selection, cycling, history_pos, history_size>>

(* Escape *)
Escapes ==
  /\ prompt /\ prompt' = FALSE
  /\ UNCHANGED <<buffer, cursor, matches, selection, cycling, history, history_pos, history_size>>

(* settings_reload, prompt open or not *)
HistorySizeChanges ==
  /\ history_size' \in HistorySizes \ {history_size}
  /\ UNCHANGED <<prompt, buffer, cursor, matches, selection, cycling, history, history_pos>>

PromptNext ==
  \/ \E c \in ({Blank, Mark} \cup Letters) : TypesText(<<c>>)
  \/ TypesText(<<Lead, Cont>>)
  \/ MovesCursor \/ runner_cut
  \/ \E up \in BOOLEAN : runner_recall(up)
  \/ \E back \in BOOLEAN : TakesCandidate(back)
  \/ runner_toggle \/ runner_enter \/ Escapes \/ HistorySizeChanges

PromptSpec == PromptInit /\ [][PromptNext]_prompt_vars

-----------------------------------------------------------------------------
(* Properties. *)

(* Every place the prompt keeps is inside what it is a place of: the cursor
   "only ever rests on a character start" (src/desktop/runner/runner.c) of the
   line, whatever was typed, cut, recalled or taken from the candidates; what
   is selected is listed; and what Up and Down stand on is in the history, also
   when that was cut short between two prompts. *)
EveryPlaceIsInside ==
  /\ cursor \in 0 .. Len(buffer) /\ (cursor < Len(buffer) => buffer[cursor + 1] # Cont)
  /\ prompt => /\ history_pos <= Len(history)
               /\ selection <= Len(matches) \/ matches = <<>>
=============================================================================
