------------------------------ MODULE MCFocus ------------------------------
(* Focus on small instances. *)
EXTENDS Focus

CONSTANTS c1, c2, m1, m2, l1, l2, u1, u2

NoRules == {[monitor |-> 0, tags |-> {}, isfloating |-> None]}
OneTag == {{t} : t \in Tags}
NoParents == [c \in Clients |-> None]
=============================================================================
