----------------------------- MODULE TabletPads -----------------------------
(***************************************************************************)
(* The pads of drawing tablets, src/input/tablet.c: a pad belongs to the   *)
(* tablet of its device group, whichever of the two is plugged first, and  *)
(* "pads follow keyboard focus": its buttons, rings and strips go to the   *)
(* surface that has the keyboard, if that takes the tablet.                *)
(***************************************************************************)
EXTENDS Naturals, Sequences, SequencesExt, Lists

CONSTANTS
  Pads, Tablets,   (* devices                                                *)
  GroupOf,         (* the libinput device group of each                      *)
  V2Tablets,       (* tablets wlr_tablet_create succeeded for                *)
  PadSurfaces,     (* surfaces that may have the keyboard                    *)
  TakesTablets,    (* those whose client bound tablet-v2                     *)
  NoTablet, NoFocus

ASSUME PadsAssumption ==
  NoTablet \notin Tablets /\ NoFocus \notin PadSurfaces /\ TakesTablets \subseteq PadSurfaces

VARIABLES
  tablet_devices,  (* the list, the newest first                             *)
  tablet_pads,     (* pads that are plugged                                  *)
  attached,        (* pad->tablet                                            *)
  padfocus,        (* pad->focus                                             *)
  focused_surface  (* seat->keyboard_state.focused_surface                   *)

tabletpads_vars == <<tablet_devices, tablet_pads, attached, padfocus, focused_surface>>

TabletPadsInit ==
  /\ tablet_devices = <<>> /\ tablet_pads = {}
  /\ attached = [p \in Pads |-> NoTablet] /\ padfocus = [p \in Pads |-> NoFocus]
  /\ focused_surface = NoFocus

-----------------------------------------------------------------------------
(* What the pad of tablet t enters when s has the keyboard. *)
tablet_pad_focus(t, s) == IF s \in TakesTablets /\ t \in V2Tablets THEN s ELSE NoFocus

(* The first of its group. *)
tablet_pad_attach(p, tablets) ==
  LET same == {i \in DOMAIN tablets : GroupOf[tablets[i]] = GroupOf[p]}
  IN  IF same = {} THEN NoTablet ELSE tablets[Min(same)]

(* The pads of ps look for their tablet. *)
Attach(ps, tablets) ==
  /\ attached' = [p \in Pads |-> IF p \in ps THEN tablet_pad_attach(p, tablets) ELSE attached[p]]
  /\ padfocus' = [p \in Pads |-> IF p \in ps THEN tablet_pad_focus(attached'[p], focused_surface)
                                 ELSE padfocus[p]]

(* mutant: a pad that came first is not told of its tablet *)
tablet_create_Alone(t) ==
  /\ t \notin ToSet(tablet_devices)
  /\ tablet_devices' = <<t>> \o tablet_devices
  /\ UNCHANGED <<tablet_pads, attached, padfocus, focused_surface>>

tablet_create(t) ==
  /\ t \notin ToSet(tablet_devices)
  /\ tablet_devices' = <<t>> \o tablet_devices
  /\ Attach({p \in tablet_pads : attached[p] = NoTablet}, tablet_devices')
  /\ UNCHANGED <<tablet_pads, focused_surface>>

tablet_handle_destroy(t) ==
  /\ t \in ToSet(tablet_devices)
  /\ tablet_devices' = Without(tablet_devices, t)
  /\ Attach({p \in tablet_pads : attached[p] = t}, tablet_devices')
  /\ UNCHANGED <<tablet_pads, focused_surface>>

tablet_create_pad(p) ==
  /\ p \notin tablet_pads /\ tablet_pads' = tablet_pads \cup {p}
  /\ Attach({p}, tablet_devices)
  /\ UNCHANGED <<tablet_devices, focused_surface>>

tablet_handle_pad_destroy(p) ==
  /\ p \in tablet_pads /\ tablet_pads' = tablet_pads \ {p}
  /\ attached' = [attached EXCEPT ![p] = NoTablet] /\ padfocus' = [padfocus EXCEPT ![p] = NoFocus]
  /\ UNCHANGED <<tablet_devices, focused_surface>>

(* The keyboard goes to another surface, or its surface is destroyed. *)
tablet_handle_keyboard_focus_change(s) ==
  /\ s # focused_surface /\ focused_surface' = s
  /\ padfocus' = [p \in Pads |->
       IF p \in tablet_pads THEN tablet_pad_focus(attached[p], s) ELSE NoFocus]
  /\ UNCHANGED <<tablet_devices, tablet_pads, attached>>

TabletPadsNext ==
  \/ \E t \in Tablets : tablet_create(t) \/ tablet_handle_destroy(t)
  \/ \E p \in Pads : tablet_create_pad(p) \/ tablet_handle_pad_destroy(p)
  \/ \E s \in PadSurfaces \cup {NoFocus} : tablet_handle_keyboard_focus_change(s)

TabletPadsSpec == TabletPadsInit /\ [][TabletPadsNext]_tabletpads_vars

-----------------------------------------------------------------------------
(* Properties. *)

(* A pad that is plugged has a tablet of its group whenever one is plugged,
   and is on the surface that has the keyboard whenever that takes its tablet,
   whatever the order in which devices came and went and the focus moved. *)
PadsFollowTheKeyboard ==
  \A p \in tablet_pads :
     LET group == {t \in ToSet(tablet_devices) : GroupOf[t] = GroupOf[p]} IN
     /\ IF group = {} THEN attached[p] = NoTablet ELSE attached[p] \in group
     /\ padfocus[p] = IF attached[p] \in V2Tablets /\ focused_surface \in TakesTablets
                      THEN focused_surface ELSE NoFocus
=============================================================================
