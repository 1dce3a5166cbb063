----------------------------- MODULE MCWindows -----------------------------
(***************************************************************************)
(* Windows on small instances.  The rules: none matches, one sends the     *)
(* window to the second monitor of the list, one puts it on the last tag   *)
(* and floats it.                                                          *)
(***************************************************************************)
EXTENDS Windows

CONSTANTS c1, c2, c3, m1, m2

AllMasks == SUBSET Tags

NoRule == [monitor |-> 0, tags |-> {}, isfloating |-> None]
NoRules == {NoRule}
AllRules == {NoRule,
             [monitor |-> 2, tags |-> {}, isfloating |-> FALSE],
             [monitor |-> 0, tags |-> {TagCount}, isfloating |-> TRUE]}

MonitorRules == {NoRule, [monitor |-> 2, tags |-> {}, isfloating |-> None]}

OneTag == {{t} : t \in Tags}

UpAndDown == {-1, 1}

(* c2 is a dialog of c1 *)
DialogOfC1 == [c \in Clients |-> IF c = c2 THEN c1 ELSE None]
NoParents == [c \in Clients |-> None]
=============================================================================
