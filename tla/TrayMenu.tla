------------------------------ MODULE TrayMenu ------------------------------
(***************************************************************************)
(* The menu of a tray item, src/desktop/systray/menu.c and                 *)
(* src/desktop/traypopup.c.  A right click asks the item's program for its *)
(* menu in two calls; the answer is laid out in the one popup there is,    *)
(* which owes the menu a single menu_pick(): a row, or -1.  Several menus  *)
(* may be under way while the popup, the session lock and the items change.*)
(*                                                                         *)
(* What the answer is made of, and how menu_extract turns it into levels   *)
(* the popup can show, is in MenuLayout: a level is a sequence of rows     *)
(* [kind, id, sub], and the one of a "sub" has a level of its own.         *)
(***************************************************************************)
EXTENDS Naturals, Sequences, SequencesExt

CONSTANTS
  Items,       (* items of the tray                                          *)
  MenuIds,     (* bound: menus at a time                                     *)
  Layouts,     (* what programs answer                                       *)
  Extract(_),  (* menu_extract: the level of an answer, if it is ok          *)
  Levels,      (* what it can yield: levels, and those of their submenus     *)
  ITEMS_MAX,   (* rows of a popup, ITEMS_MAX and TRAYPOPUP_ITEMS_MAX alike   *)
  NoMenu, NoItem

ASSUME TrayMenuAssumption ==
  /\ ITEMS_MAX \in Nat \ {0} /\ NoMenu \notin MenuIds /\ NoItem \notin Items
ASSUME LevelsAssumption ==
  /\ \A raw \in Layouts : Extract(raw).ok => Extract(raw).level \in Levels
  /\ \A level \in Levels : /\ Len(level) \in Nat /\ DOMAIN level = 1 .. Len(level)
                           /\ \A i \in DOMAIN level :
                                level[i].kind = "sub" => level[i].sub \in Levels

VARIABLES
  paths,       (* items whose menu_busobj is known                           *)
  menus,       (* each menu: [phase, of, level]; level is menu->shown        *)
  popup_menu,  (* traypopup_state.menu                                       *)
  labels, sel, (* its rows, and the one hovered; 0 is -1                     *)
  over,        (* the row the cursor is on, 0 when it is outside             *)
  clicked,     (* the id of the "clicked" event sent last                    *)
  menus_locked (* lock_active                                                *)

menupopupvars == <<popup_menu, labels, sel, over>>
traymenu_vars == <<paths, menus, menupopupvars, clicked, menus_locked>>

Freed == [phase |-> "freed", of |-> NoItem, level |-> <<>>]

TrayMenuInit ==
  /\ paths = {} /\ menus = [m \in MenuIds |-> Freed] /\ popup_menu = NoMenu
  /\ labels = <<>> /\ sel = 0 /\ over = 0 /\ clicked = 0 /\ menus_locked = FALSE

-----------------------------------------------------------------------------
menu_destroy(ms, m) == [ms EXCEPT ![m] = Freed]

traypopup_hide == popup_menu' = NoMenu /\ labels' = <<>> /\ sel' = 0 /\ over' = 0

(* traypopup_dismiss *)
traypopup_dismiss ==
  /\ menus' = IF popup_menu = NoMenu THEN menus ELSE menu_destroy(menus, popup_menu)
  /\ traypopup_hide

(* What menu_present hands over: its first entries. *)
Rows(level) == [i \in 1 .. (IF Len(level) < ITEMS_MAX THEN Len(level) ELSE ITEMS_MAX)
                  |-> level[i].id]

Showing(ms, m, level) == [ms EXCEPT ![m] = [@ EXCEPT !.phase = "shown", !.level = level]]

(* mutant: a new menu forgets the one it replaces *)
traypopup_present_Forget(ms, m, level) ==
  /\ menus' = Showing(ms, m, level) /\ popup_menu' = m /\ labels' = Rows(level)
  /\ sel' = 0 /\ over' \in 0 .. Len(Rows(level))

(* mutant: a submenu is shown without a note of its level *)
traypopup_present_Level(ms, m, level) ==
  /\ menus' = IF popup_menu = m THEN ms
              ELSE Showing(IF popup_menu = NoMenu THEN ms ELSE menu_destroy(ms, popup_menu), m, level)
  /\ popup_menu' = m /\ labels' = Rows(level)
  /\ sel' = 0 /\ over' \in 0 .. Len(Rows(level))

(* traypopup_present: a new menu cancels the one it replaces; where the cursor
   is on no monitor with a bar's font, or the monitor leaves no room for a
   row, the menu is answered -1. *)
traypopup_present(ms, m, level) ==
  LET rest == IF popup_menu \in {NoMenu, m} THEN ms ELSE menu_destroy(ms, popup_menu) IN
  \/ /\ menus' = Showing(rest, m, level) /\ popup_menu' = m /\ labels' = Rows(level)
     /\ sel' = 0 /\ over' \in 0 .. Len(Rows(level))
  \/ menus' = menu_destroy(rest, m) /\ traypopup_hide

(* menu_present, and the menu_destroy its callers run when it shows nothing;
   in menu_pick the popup is hidden by then *)
menu_present(ms, m, level) ==
  IF level # <<>> THEN traypopup_present(ms, m, level)
  ELSE /\ menus' = menu_destroy(ms, m)
       /\ IF popup_menu = m THEN traypopup_hide ELSE UNCHANGED menupopupvars

-----------------------------------------------------------------------------
(* item_handle_menu_path_ready; an item of the tray may have no menu *)
item_handle_menu_path_ready(i) ==
  /\ i \notin paths /\ paths' = paths \cup {i}
  /\ UNCHANGED <<menus, menupopupvars, clicked, menus_locked>>

(* watcher_unregister_item: a menu keeps names of its own *)
ItemUnregistered(i) ==
  /\ i \in paths /\ paths' = paths \ {i}
  /\ UNCHANGED <<menus, menupopupvars, clicked, menus_locked>>

(* bar_tray_menu, tray_right_clicked, menu_show: AboutToShow is sent.  A click
   on the bar with a popup up is the popup's. *)
menu_show(i) ==
  /\ i \in paths /\ popup_menu = NoMenu /\ ~menus_locked
  /\ \E m \in MenuIds :
       /\ menus[m].phase = "freed"
       /\ menus' = [menus EXCEPT ![m] = [Freed EXCEPT !.phase = "about", !.of = i]]
  /\ UNCHANGED <<paths, menupopupvars, clicked, menus_locked>>

(* menu_handle_about_to_show, menu_request_layout: any reply will do *)
menu_handle_about_to_show(m) ==
  /\ menus[m].phase = "about"
  /\ menus' = [menus EXCEPT ![m].phase = "layout"]
  /\ UNCHANGED <<paths, menupopupvars, clicked, menus_locked>>

(* menu_handle_layout_ready: an error, or a layout *)
menu_handle_layout_ready(m) ==
  /\ menus[m].phase = "layout"
  /\ UNCHANGED <<paths, clicked, menus_locked>>
  /\ \/ menus' = menu_destroy(menus, m) /\ UNCHANGED menupopupvars
     \/ \E raw \in Layouts :
          IF Extract(raw).ok THEN menu_present(menus, m, Extract(raw).level)
          ELSE menus' = menu_destroy(menus, m) /\ UNCHANGED menupopupvars

(* menu_pick(menu, row) of the popup's menu *)
menu_pick(row) ==
  LET m == popup_menu
      level == menus[m].level
  IN IF row = 0 \/ row > Len(level) THEN traypopup_dismiss /\ UNCHANGED clicked
     ELSE IF level[row].kind = "sub"
     THEN menu_present(menus, m, level[row].sub) /\ UNCHANGED clicked
     ELSE traypopup_dismiss /\ clicked' = level[row].id

(* traypopup_click: the row under the cursor, or -1 *)
traypopup_click ==
  /\ popup_menu # NoMenu /\ ~menus_locked
  /\ menu_pick(over)
  /\ UNCHANGED <<paths, menus_locked>>

(* traypopup_motion *)
traypopup_motion ==
  /\ popup_menu # NoMenu /\ ~menus_locked
  /\ over' \in 0 .. Len(labels) /\ over' # over /\ sel' = over'
  /\ UNCHANGED <<paths, menus, popup_menu, labels, clicked, menus_locked>>

(* keyboard.c: Escape puts the popup away *)
KeyDismisses ==
  /\ popup_menu # NoMenu /\ ~menus_locked
  /\ traypopup_dismiss
  /\ UNCHANGED <<paths, clicked, menus_locked>>

(* lock.c: a new lock puts the popup away; so does the end of it, by default *)
MenuLockChanges ==
  /\ menus_locked' = ~menus_locked
  /\ IF menus_locked THEN UNCHANGED <<menus, menupopupvars>> ELSE traypopup_dismiss
  /\ UNCHANGED <<paths, clicked>>

TrayMenuNext ==
  \/ \E i \in Items : item_handle_menu_path_ready(i) \/ ItemUnregistered(i) \/ menu_show(i)
  \/ \E m \in MenuIds : menu_handle_about_to_show(m) \/ menu_handle_layout_ready(m)
  \/ traypopup_click \/ traypopup_motion \/ KeyDismisses \/ MenuLockChanges

TrayMenuSpec == TrayMenuInit /\ [][TrayMenuNext]_traymenu_vars

-----------------------------------------------------------------------------
(* Properties. *)

(* Every menu is answered exactly once ("the menu waiting for its one
   menu_pick()", src/desktop/traypopup.c): the popup's menu is alive, and a
   menu that was presented is the popup's until it is freed; any other would
   never be answered. *)
MenusAreAnsweredOnce ==
  \A m \in MenuIds : menus[m].phase = "shown" <=> popup_menu = m

(* A "clicked" event names the row that the cursor was on, across submenus,
   skipped entries and menus that replace each other. *)
ClickSendsTheRowClicked ==
  [][clicked' # clicked => over \in 1 .. Len(labels) /\ clicked' = labels[over]]_traymenu_vars
=============================================================================
