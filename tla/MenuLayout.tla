----------------------------- MODULE MenuLayout -----------------------------
(***************************************************************************)
(* What menu_extract of src/desktop/systray/menu.c makes of the layout a   *)
(* program sends for its menu: the levels the popup can show.              *)
(*                                                                         *)
(* A layout is a sequence of entries [kind, id, sub]: an "item", a "sub"   *)
(* with entries of its own, a "skip" (hidden, disabled, or too long a      *)
(* label) or a "bad" one that does not parse.  A label stands for its id.  *)
(***************************************************************************)
EXTENDS Naturals, Sequences

(* menu_extract: a skipped entry leaves no item, an entry that does not
   parse, or an array without entries, fails the whole menu. *)
RECURSIVE menu_extract(_)
menu_extract(raw) ==
  LET Bad(e) == \/ e.kind = "bad"
                \/ e.kind = "sub" /\ ~menu_extract(e.sub).ok
      Item(e) == IF e.kind = "sub" THEN [e EXCEPT !.sub = menu_extract(@).level] ELSE e
      shown == SelectSeq(raw, LAMBDA e : e.kind # "skip")
  IN IF raw = <<>> \/ \E i \in 1 .. Len(raw) : Bad(raw[i])
     THEN [ok |-> FALSE, level |-> <<>>]
     ELSE [ok |-> TRUE, level |-> [i \in 1 .. Len(shown) |-> Item(shown[i])]]
=============================================================================
