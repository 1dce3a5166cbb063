------------------------------ MODULE MCNotify ------------------------------
(* Notify on small instances: a transient one that expires, a critical one
   with actions, and a call that is updated through its stack tag, stays up
   after an action and has a default one. *)
EXTENDS Notify

Plain == [tag |-> NoTag, critical |-> FALSE, transient |-> TRUE,
          resident |-> FALSE, acts |-> FALSE, hasdefault |-> FALSE]
Alarm == [tag |-> NoTag, critical |-> TRUE, transient |-> FALSE,
          resident |-> FALSE, acts |-> TRUE, hasdefault |-> FALSE]
Call  == [tag |-> "call", critical |-> FALSE, transient |-> FALSE,
          resident |-> TRUE, acts |-> TRUE, hasdefault |-> TRUE]

Messages == {Plain, Alarm, Call}
=============================================================================
