-------------------------------- MODULE Tray --------------------------------
(***************************************************************************)
(* The system tray, src/desktop/systray: programs register an item with    *)
(* the watcher, which asks them for an icon, a name and a menu; the answers*)
(* come one by one, while items come and go and every bar paints a tray of *)
(* its own.                                                                *)
(*                                                                         *)
(* A request holds the address of its Item (helpers.c:28-33), and          *)
(* item_destroy cancels none: the answer, or the error that the bus sends  *)
(* for a program that is gone or silent, runs its handler whatever is at   *)
(* that address by then.  That is the item that asked, another item that   *)
(* was given the memory, or memory that is free.  What a handler does with *)
(* free memory is undefined; of what the build can do, painting the trays, *)
(* asking more and nothing are modelled (a crash ends the behaviour, and   *)
(* memory that was given to something other than an item is left out).     *)
(*                                                                         *)
(* Programs register, leave and change their icon in any order; messages   *)
(* of a program that has no item do nothing.  A request made again while   *)
(* it is under way for the same address counts once, which bounds them.    *)
(***************************************************************************)
EXTENDS Naturals, Sequences, SequencesExt, Lists

CONSTANTS
  Names,       (* bus names of programs                                      *)
  Screens,     (* monitors with a bar                                        *)
  Pixmaps,     (* icons programs send                                        *)
  NoIcon, NoName,
  Addresses,   (* where an Item may be; bound: items at a time               *)
  MaxAsked     (* bound: requests under way when programs cause more         *)

ASSUME TrayAssumption ==
  /\ {NoIcon, "themed"} \cap Pixmaps = {} /\ NoIcon # "themed" /\ NoName \notin Names
  /\ MaxAsked \in Nat

VARIABLES
  items,       (* watcher->items, newest first, as addresses                 *)
  busname,     (* for each address, the program of the item there            *)
  asked,       (* for each address, the requests that were not answered yet  *)
  icon, appid, (* for each address, what its item knows                      *)
  trays,       (* watcher->trays, newest first                               *)
  painted      (* what the last update of each tray painted: a sequence of   *)
               (* looks; empty if it failed, or none was since it was made   *)

known     == <<busname, icon, appid>>
tray_vars == <<items, asked, known, trays, painted>>

Icons == Pixmaps \cup {"themed"}

TrayInit ==
  /\ items = <<>> /\ trays = <<>>
  /\ busname = [a \in Addresses |-> NoName]
  /\ asked = [a \in Addresses |-> {}]
  /\ icon = [a \in Addresses |-> NoIcon] /\ appid = [a \in Addresses |-> FALSE]
  /\ painted = [s \in Screens |-> <<>>]

InTray(a) == Contains(items, a)
watcher_find_item(n) == {a \in ToSet(items) : busname[a] = n}

-----------------------------------------------------------------------------
(* Painting. *)

(* What tray_update paints for an item: its icon, else the initial of its
   name, else nothing. *)
Look(a) == IF icon[a] # NoIcon THEN icon[a] ELSE IF appid[a] THEN "initial" ELSE "blank"
Looks == [i \in DOMAIN items |-> [of |-> busname[items[i]], look |-> Look(items[i])]]

(* watcher_update_trays.  The update of a tray may fail, which then goes on
   showing what it showed: no canvas, or no glyph for an initial in its font. *)
watcher_update_trays ==
  \E failed \in SUBSET ToSet(trays') :
    painted' = [s \in Screens |-> IF Contains(trays', s) /\ s \notin failed THEN Looks' ELSE <<>>]

NotPainted == UNCHANGED painted

-----------------------------------------------------------------------------
(* Messages of programs to the watcher. *)

(* A message causes requests to the item at an address. *)
Asks(a, requests) ==
  /\ asked' = [asked EXCEPT ![a] = @ \cup requests]
  /\ Cardinality(UNION {{b} \X asked'[b] : b \in Addresses}) <= MaxAsked

(* The memory at an address holds a new item, or is free and of no item. *)
HoldsItem(a, n) ==
  /\ busname' = [busname EXCEPT ![a] = n]
  /\ icon' = [icon EXCEPT ![a] = NoIcon] /\ appid' = [appid EXCEPT ![a] = FALSE]

(* watcher_respond_register_item: a name that is tracked is refused;
   item_create asks for the icon, the name and the path of the menu, which
   TrayMenu follows *)
watcher_respond_register_item(n) ==
  \E a \in Addresses :
    /\ watcher_find_item(n) = {} /\ ~InTray(a)
    /\ items' = <<a>> \o items
    /\ HoldsItem(a, n)
    /\ Asks(a, {"pixmap", "id"})
    /\ UNCHANGED trays
    /\ watcher_update_trays

(* mutant: the trays are not painted again *)
watcher_handle_name_owner_changed_Unpainted(n) ==
  \E a \in watcher_find_item(n) :
    /\ items' = Without(items, a)
    /\ HoldsItem(a, NoName) /\ UNCHANGED <<asked, trays>> /\ NotPainted

(* watcher_handle_name_owner_changed, watcher_unregister_item, item_destroy:
   what was asked stays asked *)
watcher_handle_name_owner_changed(n) ==
  \E a \in watcher_find_item(n) :
    /\ items' = Without(items, a)
    /\ HoldsItem(a, NoName) /\ UNCHANGED <<asked, trays>>
    /\ watcher_update_trays

(* item_handle_new_icon *)
item_handle_new_icon(n) ==
  \E a \in watcher_find_item(n) :
    /\ Asks(a, {"pixmap"})
    /\ UNCHANGED <<items, known, trays>> /\ NotPainted

-----------------------------------------------------------------------------
(* Answers and errors.  Whose they are is not looked at: the handler works on
   the item at the address. *)

Answered(a, request, followups) ==
  /\ request \in asked[a]
  /\ asked' = [asked EXCEPT ![a] = (@ \ {request}) \cup followups]
  /\ UNCHANGED <<items, busname, trays>>

Finds(a, request, followups) == InTray(a) /\ Answered(a, request, followups)

(* The handler runs on an item that was freed. *)
FindsFreed(a, request, followups) ==
  /\ ~InTray(a) /\ UNCHANGED <<icon, appid>>
  /\ Answered(a, request, {}) \/ Answered(a, request, followups)
  /\ watcher_update_trays \/ NotPainted

(* item_handle_pixmap_ready: the icon is the first, another one or the same,
   or none can be made of the answer; the old icon goes before the new one is
   made.  Without a pixmap the item may still name an icon; its theme's path
   is asked first. *)
item_handle_pixmap_ready(a) ==
  \/ \E p \in Pixmaps :
       /\ Finds(a, "pixmap", {}) /\ UNCHANGED appid
       /\ icon' = [icon EXCEPT ![a] = p]
       /\ IF icon[a] = p THEN NotPainted ELSE watcher_update_trays
  \/ /\ Finds(a, "pixmap", {"theme"}) /\ UNCHANGED appid
     /\ icon' \in {icon, [icon EXCEPT ![a] = NoIcon]}
     /\ NotPainted
  \/ FindsFreed(a, "pixmap", {"theme"})

(* item_handle_theme_path_ready, whatever the answer was *)
item_handle_theme_path_ready(a) ==
  \/ Finds(a, "theme", {"name"}) /\ UNCHANGED <<icon, appid>> /\ NotPainted
  \/ FindsFreed(a, "theme", {"name"})

(* item_handle_icon_name_ready: if there is such an icon *)
item_handle_icon_name_ready(a) ==
  \/ /\ Finds(a, "name", {}) /\ UNCHANGED appid
     /\ \/ icon' = [icon EXCEPT ![a] = "themed"] /\ watcher_update_trays
        \/ UNCHANGED icon /\ NotPainted
  \/ FindsFreed(a, "name", {})

(* item_handle_id_ready: painted only if the initial is what it shows *)
item_handle_id_ready(a) ==
  \/ /\ Finds(a, "id", {}) /\ UNCHANGED icon
     /\ \/ /\ appid' = [appid EXCEPT ![a] = TRUE]
           /\ IF icon[a] = NoIcon THEN watcher_update_trays ELSE NotPainted
        \/ UNCHANGED appid /\ NotPainted
  \/ FindsFreed(a, "id", {})

-----------------------------------------------------------------------------
(* Monitors. *)

(* bar_update of a new monitor, or after its scale changed: a new tray, which
   nothing paints. *)
BarUpdate(s) ==
  /\ trays' = ToHead(trays, s)
  /\ painted' = [painted EXCEPT ![s] = <<>>]
  /\ UNCHANGED <<items, asked, known>>

(* monitor_handle_destroy *)
TrayDestroy(s) ==
  /\ Contains(trays, s)
  /\ trays' = Without(trays, s)
  /\ painted' = [painted EXCEPT ![s] = <<>>]
  /\ UNCHANGED <<items, asked, known>>

TrayNext ==
  \/ \E n \in Names :
       \/ watcher_respond_register_item(n) \/ watcher_handle_name_owner_changed(n)
       \/ item_handle_new_icon(n)
  \/ \E a \in Addresses :
       \/ item_handle_pixmap_ready(a) \/ item_handle_theme_path_ready(a)
       \/ item_handle_icon_name_ready(a) \/ item_handle_id_ready(a)
  \/ \E s \in Screens : BarUpdate(s) \/ TrayDestroy(s)

TraySpec == TrayInit /\ [][TrayNext]_tray_vars

-----------------------------------------------------------------------------
(* Properties. *)

(* What the last update of a tray painted are the items there are, each as it
   looks now: whatever the order of the answers, those that come for items that
   are gone included, every handler that changes a look paints the trays.
   There is one exception: an item whose icon went because the next one could
   not be made (item.c:265-269) may still be shown with it. *)
PaintedTraysAreCurrent ==
  \A s \in ToSet(trays) : painted[s] # <<>> =>
    /\ DOMAIN painted[s] = DOMAIN items
    /\ \A i \in DOMAIN items :
         /\ painted[s][i].of = busname[items[i]]
         /\ \/ painted[s][i].look = Look(items[i])
            \/ icon[items[i]] = NoIcon /\ painted[s][i].look \in Icons
=============================================================================
