----------------------------- MODULE MCOutputs -----------------------------
(* Outputs on small instances. *)
EXTENDS Outputs

CONSTANTS c1, c2, m1, m2, m3, l1, u1

NoRules == {[monitor |-> 0, tags |-> {}, isfloating |-> None]}
OneTag == {{t} : t \in Tags}
NoParents == [c \in Clients |-> None]
DialogOfC1 == [c \in Clients |-> IF c = c2 THEN c1 ELSE None]
=============================================================================
