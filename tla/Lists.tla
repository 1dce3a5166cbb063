-------------------------------- MODULE Lists --------------------------------
(***************************************************************************)
(* The lists of g0wm are wl_lists: each member is in a list once, and is   *)
(* taken out or moved to the front without looking for it.  A list is the  *)
(* sequence of its members here, in the order of the list.                 *)
(***************************************************************************)
EXTENDS Naturals, Sequences, SequencesExt

(* wl_list_remove of a member, if it is there *)
Without(list, c) ==
  IF c \in ToSet(list)
  THEN RemoveAt(list, CHOOSE i \in DOMAIN list : list[i] = c)
  ELSE list

(* wl_list_remove then wl_list_insert at the head *)
ToHead(list, c) == <<c>> \o Without(list, c)
=============================================================================
