# A verification of g0wm

g0wm is a Wayland compositor in C, descended from dwl: one process, one thread,
one `wl_event_loop`. This directory holds TLA+ modules that model the part of
it that decides things (which window is where, what is drawn, who has the
keyboard, who hears a key, a gesture or a pen, which notification has the box,
what a shared screen shows), the TLC configurations that check
them on small instances, and theorems about them that TLAPS checks for every
instance. Paths below are relative to the repository, which `PROJECT.json`
calls `src/`.

## 1. The system

### How it runs

Every event (a message of a client, a key, an output that appears, a timer, a
D-Bus call) is a callback of the event loop and runs to its end before the next
one. There are no threads, and so no races of the usual kind. What makes the
program hard is elsewhere:

- **Handlers nest.** `client_set_monitor` arranges two monitors and refocuses,
  and focusing selects a monitor; `monitor_update_layout` changes
  `output_layout`, whose change event runs `monitor_update_layout` again from
  inside; destroying a layer surface in the loop of an output that is
  unplugged unmaps it, arranges and refocuses. What a caller read before the
  call may be stale after it.
- **Order.** Clients, outputs, the lock and the taskbars send their events in
  any order: a dialog names its parent before or after it maps, an output goes
  while the session is locked, a layer surface unmaps after a window was raised
  under it.
- **State kept twice.** The seat's focused surface, the head of `focus_stack`,
  `selected_monitor`, `exclusive_focus` and `toplevel_active` each say
  something about who has the focus, and no single function keeps them
  together. The same holds for the tags of a window and what the scene draws.
- **Raw pointers.** `Client.mon`, `selected_monitor`, `exclusive_focus` and
  `toplevel_active` are pointers compared long after they were set.
- **Timers.** A window held back until it fits its tile (200 ms), a
  notification that expires, a key that repeats.
- **Beginnings and ends.** A key, a button, a stroke, a swipe, a drag begins
  under one consumer and ends after the lock, a menu, the prompt or the death of
  its window has changed who would be asked now.
- **Late answers.** Programs answer requests on D-Bus (an icon, a menu) in any
  order, or after what asked is gone, in whose memory they then write; standard input arrives in pieces.

### Components

| component (source) | state it keeps | operations | what makes it correct |
| --- | --- | --- | --- |
| windows (`src/window/client.c`) | lists `clients`, `focus_stack`; per client: monitor, tags, floating, fullscreen, urgent, held back | commit, map, unmap, parent, focus, activate, move to a monitor, fullscreen, float, bell | a mapped window is in both lists once; what is drawn is what the tags say; the keyboard is on the window on top, or its modal dialog |
| tags and stack (`src/window/layout.c`) | per monitor: two tag sets, which one is on view, the layouts per tag | view, toggleview, tag, toggletag, shift, focusstack, movestack, zoom, layouts | no empty tag set; a tag action redraws the monitor it changed; the list survives being permuted |
| foreign toplevels (`src/window/toplevel.c`) | handle per window, `toplevel_active` | map, unmap, focus, requests of taskbars | the handle marked active is the focused window's |
| X11 windows (`src/window/xwayland.c`) | unmanaged windows, hints | map, unmap, activate, configure | a menu does not outlive its focus |
| outputs (`src/output/monitor.c`) | list `monitors`, `selected_monitor`, layout, asleep, layer surfaces | plug, unplug, power, configuration, update of the layout, layer surfaces | no pointer to a freed monitor, no lost window |
| session lock (`src/output/lock.c`) | lock, its surfaces, `lock_active` | lock, surface, unlock, death of the locker | nothing behind the lock gets the keyboard |
| pointer (`src/input/pointer.c`) | cursor mode, the window it holds, constraints, the client's cursor | press, release, motion, interactive move and resize, constraints | a grab does not outlive its window; one constraint at a time |
| keyboard (`src/input/keyboard.c`) | groups, repeat timer, inhibitors | a key goes to the inhibitor, runner, tray menu, picker, a binding, the input method or the client | repeat stops with the key |
| gestures, magnifier (`src/input/gesture.c`, `src/output/magnifier.c`) | the gesture under way and who took it; the level, the locks and buffers | swipe, pinch, hold; zoom, frame, mode change | a client sees whole gestures; buffers and locks agree with the level |
| tablet (`src/input/tablet.c`) | tools, touch points, pads, how each press went out | proximity, tip, button, finger, pad | a release goes the way its press went; pads follow the keyboard |
| seat and text input (`src/input/seat.c`, `textinput.c`) | fields, the input method, the field it serves, popups | enable, commit, focus, grab | what is composed goes where the user types |
| notifications (`src/desktop/notify/*.c`, `src/desktop/bar/notification.c`) | box, queue, history, hold, timer; picker | Notify, CloseNotification, expiry, dismiss, actions, picker | programs hear what became of what they sent; the picked one stays |
| bar (`src/desktop/bar/*.c`) | buffers, the status text and its areas, the line being read | read, draw, click | every line is shown; a click runs what is drawn there |
| runner (`src/desktop/runner/*.c`) | line, cursor, matches, selection, history | type, edit, complete, recall, run, calculate | every place is inside what it is a place of; arithmetic |
| system tray (`src/desktop/systray/*.c`, `src/desktop/traypopup.c`) | items, trays, menus, pending replies, the popup | register, vanish, reply, click, pick | what is painted is what there is, though a late reply runs on whatever is at the address of its item; each menu is answered once |
| privacy (`src/output/privacy.c`) | private windows, masks, shields, frames under way | mark, draw, copy | a picture shows a private window only where masking it failed |
| settings (`src/core/settings/*.c`) | the settings in force | read, reload, write | a reload leaves windows and outputs consistent |
| D-Bus, start, rendering | objects of libraries | glue and pixels | |

`PROJECT.json` lists each with its status, and under `hazards`, at its line,
what in this code a test would hardly reach.

### How they interact

`client_focus` is where most paths meet: tag actions, the stack, mapping,
unmapping, the pointer, activation and the outputs end in
`client_focus(client_top(selected_monitor), 1)`. It is stopped by the lock, and
leaves the keyboard where it is for an overlay or a menu, after it has already
reordered `focus_stack` and selected a monitor. `layout_arrange` is where a
change of tags becomes visible. `monitor_update_layout` is where outputs,
windows, layer surfaces and the lock meet. The bar's picker shares the
notification in the box with the notification service, through `notify_hold`.

Input reaches the rest through chains of consumers. `input_handle_key` asks the
inhibitor, the prompt, the tray's popup, the picker, the bindings, the input
method and at last the client; the pointer asks the popup, the lock, the
bindings; pens and fingers become clicks of the pointer when nobody takes them
as what they are; a gesture is a binding's, the magnifier's or a client's. The
bars, of which each output has one, read the tray, the status text and what
window is private.

## 2. The modules

| module | models |
| --- | --- |
| `Lists` | `wl_list_remove` and moving to the head, on sequences |
| `WindowCore` | the state, and the functions every handler calls |
| `Windows` | handlers of windows, tags, stack, pointer; extends `WindowCore` |
| `Focus` | layer surfaces, menus of X11 programs, the session lock; extends `Windows` |
| `Outputs` | hotplug, power, configuration, `monitor_update_layout`; extends `Focus` |
| `Notify` | the notification service and the bar's picker |
| `Keys` | the consumers of a key, the repeat timer, inhibitors, virtual keyboards, the input method's grab |
| `Pointer` | interactive move and resize, presses and releases under the popup and the lock |
| `Cursor` | whose image the pointer has, when it is hidden, the constraints |
| `Gestures` | swipes, pinches and holds, and the magnifier |
| `Tablet` | pens, tablet mice and fingers: tablet and touch events, or the pointer's |
| `TabletPads` | which tablet a pad belongs to, and whose surface it is on |
| `TextInput` | fields, the input method, its popups |
| `Tray` | the watcher's items, the requests to programs, the trays of the bars |
| `TrayMenu` | the menus of items and the popup that shows one |
| `MenuLayout` | what `menu_extract` makes of a program's layout (a constant, `Extract`, of `TrayMenu`) |
| `Prompt` | the runner's line, candidates, Tab and history |
| `Calc` | the runner's calculator, against its grammar |
| `StatusLine` | abstract: lines of standard input become the status text, byte by byte |
| `StatusInput` | `bar_handle_status_input` and its buffer, which implements `StatusLine` |
| `StatusText` | extends it with the two walks over the text |
| `Privacy` | private windows and the two ways pictures are taken |
| `ListProofs`, `Loops` | lemmas about lists, least and greatest members; the induction over the turns of a loop |
| `WindowsProofs` | the theorems about `WindowCore` and `Windows` |
| `FocusProofs` | those about `Focus` |
| `OutputsProofs` | those about `Outputs`, on top of `FocusProofs` |
| `InputProofs` | those about `Keys`, `Pointer`, `Gestures`, `TextInput`, `Tablet`, `TabletPads`, `Cursor` |
| `NotifyProofs` | those about `Notify` |
| `DesktopProofs` | those about `Privacy`, `Tray`, `TrayMenu`, `Prompt`, `StatusInput` |
| `MCWindows`, `MCFocus`, `MCOutputs`, `MCNotify`, `MCDesktop` | constants of the small instances |

`WindowCore`, `Windows`, `Focus` and `Outputs` share the
state of the window manager, and each extends the one before it. The others
meet it only at a few places, and what they see of it there (the session is
locked, a window unmaps, the surface under a pen) is a free choice of theirs:
what is checked of one of them holds whatever the window manager does.
`MCDesktop` puts these side by side.

**One handler, one action.** As a handler runs to its end, it is one action,
with everything it calls. Handlers nest functions that each read what the
previous one wrote, so these functions are operators from a state record to a
state record (`client_focus(s, c)`, `client_set_monitor(s, c, m, newtags)`),
composed in the order of the code; an action says `wm' = f(wm)`. The names are
those of the source wherever there is a function to name.

**State.** `wm` holds the globals and the fields of `Client` and `Monitor` that
the handlers read. A flag of a client is the set of clients that have it; lists
are sequences in the order of the `wl_list`; `tagset[m][i]` and `seltags[m]`
are `Monitor`'s; a tag mask is a set of tags. `kbd` is the seat's focused
surface: a client, a menu, a layer surface, or a monitor, which stands for the
lock surface on it. `session` holds what no handler of a window changes: layer
surfaces, menus, the lock, and which outputs are in the layout or asleep.
`wm.enabled` is `wlr_output->enabled`. In `Notify`, `ns` is `NotifyState` with
the picker, `cur` is an empty or one-element sequence that keeps its value after
the box was emptied, as the C field does, and `closed` is the set of
`NotificationClosed` signals the last step sent. The modules of input and desktop
have a variable for each global of their source file, by the same name where it
says enough (`input_grab_client` is `held_win`, `textinput_served` is `served`),
and where an object of wlroots or a program takes part, one for what it was last
told (`client_sees`, `im_active`, `told`, `padfocus`): the properties relate the two.

**Re-entrance.** `monitor_update_layout` runs again, from inside, when it adds
an output to the layout or removes one. The nested run meets a layout that is
already settled, and the rest of the outer one runs after it, hence
`LayoutPass(LayoutPass(placed))`.

**wlroots** appears only through what g0wm sees of it: a surface is unmapped
before it is destroyed; a seat forgets a destroyed surface (`SurfaceGone`); a
parent is accepted only if it is mapped and closes no cycle
(`ParentAssumption`), and the links of the dialogs of a window that unmaps are
dropped after the handler; the lock's surfaces are destroyed with the lock (after
the unlock event, but before the destroy event when the locker dies); the
commit of an output's state may fail. A tool whose tip or button is down stays
on its surface (the implicit grab of tablet-v2, `Grabbed`), a constraint dies with its
surface, a virtual keyboard releases its keys before it goes. The bus delivers in order.

**Constants.** `Bound` names the actions that the settings bind or that programs
may ask for in an instance: leaving an action out is how an instance is kept small, or
how one question is asked apart from another. `TagMasks` and `StackSteps` are
the arguments bound to the tag actions and to movestack, `Rules` what a
matching rule can ask for, `Late` the clients whose first buffer may not fit.

## 3. What the runs check

Every run ends within five minutes with two workers, `desktop` in about three. Deadlock is not checked:
a window manager that nobody uses is allowed to stand still (with nothing
plugged in, or nothing bound, no action is enabled), and the notification
service stops.

### Windows

`windows_tags`: one monitor, two windows, two tags, every tag action with every
mask (the empty one is "the previous tags"), three rules, a late first buffer,
urgency and activation; under fairness. It checks that

- what is drawn is what the tags say (`ShownIffVisible`),
- no window and no monitor is left without a tag (`EverythingHasATag`),
- the keyboard is always on the top window in view (`KeyboardFollowsView`, true on one monitor),
- the taskbar's active handle is the focused window's, and exists (`TaskbarFollowsKeyboard`),
- a window that stays in view is drawn in the end (`InViewIsDrawn`).

Two windows are enough to have one above, one below, and one replaced; two tags
to have a view, another one, both and a toggled remainder; and the previous view
is a third set.

`windows_monitors`: two monitors, two windows, rules, clicks, motion, activation, and moves
between monitors: a window with the keyboard is the top one in view on its monitor
(`KeyboardIsOnTop`), a moved window arrives in view, and an activated one is brought into
view on its own monitor. There are no modal dialogs here, because with one
`KeyboardIsOnTop` is false: `client_focus` returns early when the window it is given has
the keyboard already, so a dialog that tagmon sends to another monitor keeps the keyboard
there, behind a window of that monitor that is in front of it (three windows show it).

`windows_stack`: three windows, one a modal dialog, in every order the stack actions
reach: both lists hold exactly the mapped windows, each once (`BothListsHoldTheMapped`),
and wherever the keyboard goes, it passes over a window that a modal dialog in view blocks
(`KeyboardGoesToTheDialog`). That all windows are in view here is what lets movestack `-1` be bound
(below).

### Who has the keyboard

`focus`: two windows, a surface on TOP, one on OVERLAY, a menu, and the lock, on
one monitor. `OverlayKeepsKeyboard`: an overlay that has the keyboard keeps it
whatever maps below it; and `KeyboardComesBack`:
when the last of them has let go, the keyboard is on the top window again, even
one mapped or uncovered meanwhile.

`KeyboardComesBack` holds only within this run's bounds, and TLC finds both ways out of them.
`client_handle_unmap` refocuses only when the menu that goes is `exclusive_focus`
(`client.c:717`), so the keyboard is nowhere until the next event when the menu that has it is
not: (1) a click gives the keyboard to a menu that a layer surface had taken `exclusive_focus`
from, and the menu unmaps; (2) of two menus that want the keyboard the second to map becomes
`exclusive_focus` while the first keeps the keyboard, and the first unmaps. This run
therefore has one menu and does not bind `menuclick`; `outputs_lock` binds it and does not state
the property. Within these bounds `KeyboardReturns` proves it for any number of windows and of
layer surfaces, and `KeyboardReturnsUnplugged` while outputs come and go.

`outputs_lock`: two monitors, a window, a menu, a layer surface, the lock,
hotplug and power: `ExclusiveIsUp` (the raw pointer names something mapped),
`FocusIsAlive`, and `LockedOut` (nothing behind the lock gets the keyboard), whichever
output goes under any of them. With three outputs `FocusIsAlive` is false: a window that
`monitor_close` has left on no monitor (below, `outputs_lost`) is clicked, gets the
keyboard and unmaps, and nothing refocuses, since `client_set_monitor`, which would, returns
at once when the window has no monitor to leave.

### Outputs

`outputs`: two outputs plugged, unplugged, put to sleep and reconfigured in any
order, under two windows with two tags. No pointer to a freed monitor, no
window lost while an output is lit, tags kept across unplugging, and `LayoutIsSettled`:
`monitor_update_layout`, which the event loop may run at any time, would change
nothing in any state a handler leaves. Two outputs are what makes a "first" and an "other" one; with
three there is a lit one behind a dark one, and `NoWindowIsLost` fails (below).
The run binds no action that activates a window. With two outputs, one asleep with a window and
the other unplugged, the window of the second is on none; activating the first then selects the
output asleep, and when another comes it is not selected, so that nothing brings the window back.
`LayoutIsSettled` fails with the lock, clicks or activation bound.

### The desktop and the input

`desktop` (`MCDesktop`) runs the fourteen modules that share no variable. Its variable
`part`, chosen at the start, says which of them moves. Nothing is lost by this: as no
module reads what another writes, a behaviour of all of them together is an
interleaving of one behaviour of each, every property reads the variables of one
module, and each module is explored completely. Their product would only be larger.

| part | instance | properties |
| --- | --- | --- |
| `Notify` | a critical message and a resident, transient call with actions and a stack tag; ids up to 3, so that the counter wraps and meets ids programs make up; a queue of 2, so that it overflows; a history of 1; a timer whose creation may fail; the picker open or closed (a key goes to the picker then, a button or a gesture does not) | `LiveIdsAreDistinct`, `TimerFollowsTheBox`, `EveryLossIsReported`, `NothingTakesTheHeldBox`, `CriticalGoesFirst` |
| `Keys` | the seat's keyboard and a virtual one, three keys (bound to the runner, to the inhibitor, Escape), two held at once | `RepeatIsHeld`: a key that is up does not repeat, whoever swallowed its release |
| `Pointer` | a window and an X11 menu, two monitors, two buttons | `DragHasAWindow`: `input_motion`, which dereferences `input_grab_client` unchecked, always finds a mapped window |
| `Cursor` | three surfaces, one with a one-shot constraint | `OneConstraintIsActive`: the clients' idea of who holds the pointer is the compositor's |
| `Gestures` | swipes and pinches of two or three fingers, one number of each bound; three levels of zoom, two modes | `ClientSeesWholeGestures`, `ZoomIsConsistent` |
| `Tablet` | a pen and a totem, a button, two fingers, a surface that takes pens, one that takes touch, the locker's | `NothingStaysPressed` |
| `TabletPads` | two pads, three tablets, two device groups, a tablet without a tablet-v2 object | `PadsFollowTheKeyboard` |
| `TextInput` | two programs with a field and a surface each, two popups | `TheFieldServedHasTheFocus` |
| `Tray` | two programs, two addresses for items, one bar, three requests under way when programs cause more | `PaintedTraysAreCurrent`: whichever answer comes last, and whatever it finds at the address of its item, what is painted is what there is |
| `TrayMenu` | one item, two menus at a time, two rows, four layouts (submenus, hidden and malformed entries) | `MenusAreAnsweredOnce`, `ClickSendsTheRowClicked` |
| `Prompt` | the modes that open an application and run a command; characters of two bytes, a blank and the prefix, a buffer of 4, two names per list, a history of 0 or 2 that a reload may change | `EveryPlaceIsInside` |
| `Calc` | every line of up to 5 of eight keys, a depth of 3 | `ComputesTheGrammar`: the recursive descent yields the one value the grammar gives down to that depth, and fails on what is deeper or no expression |
| `StatusText` | four lines with areas and escaped carets, one too long, pieces of any length | `ReadsLineByLine`, `ClickFindsTheAreaDrawn` |
| `Privacy` | two windows, one with a title bar, one output, a captured window and the captured output, a frame, three boxes; every buffer, mask and wipe may fail | `SharedIsMasked`: what is private is shown only where masking it failed |

**The refinement.** `StatusLine` is the promise of the manual page, one byte at a time:
a line is collected and replaces the text at its newline, unless it is longer than
the buffer. `StatusInput` reads whatever the pipe holds into what room its buffer has,
shows the last whole line of it, and skips the rest of a line that does not
fit. `Stream == INSTANCE StatusLine WITH line <- IF skipping THEN TooLong ELSE
input_buffer, text <- status_text` is the mapping, and `ReadsLineByLine` says that
every step of `StatusInput` is a step of `StatusLine` or a stutter.

### Disagreements found

Each is a run with one property that TLC refutes; `PROJECT.json` quotes the lines.

- `windows_dialog`: `layout_view` refocuses before it arranges, and arranges
  whichever monitor is selected then. If the top window's modal dialog is on another
  monitor, that one is arranged, and the one whose view changed goes on drawing
  the old view.
- `windows_movestack`: movestack `-1` on the last window of the list, with no other
  in view before it, inserts it after itself: it is in the list no more.
- `outputs_lost`: the loop of `monitor_close` that looks for a lit monitor looks
  at the first one every time. With a dark one first, the windows end up without
  a monitor although another is lit.
- `outputs_dialog`: while `monitor_close` moves a window away, the focus goes
  to its modal dialog, still on the monitor that closes, which is selected again:
  the dialog and `selected_monitor` keep pointing to the freed `Monitor`.
- `notify_held`: dismissing everything with the picker open (from a button or
  a gesture) empties the box without releasing it. It cannot be released
  any more, and no later notification is shown.

### Noticed, without a run

These are what the models do because the code does it. Most are no contradiction of a
written promise; they are listed because a reader of the models will meet them.

- A key held when the session gets locked goes on repeating its binding
  (`src/input/keyboard.c:291` has no check of the lock or of the popup, the comment at line 220
  speaks of a press); this is why `Command` in `Windows` has no lock in its guard, and all the
  properties hold with it. `runner_repeating` (line 271) is one flag for all groups.
- A prompt that is open when the session locks stays open, and takes the keys before the
  lock is looked at (`keyboard.c:174`).
- When the focused lock surface goes, `lock_handle_surface_destroy` may hand the keyboard
  to the surface that is going; the seat then forgets it.
- `src/input/textinput.c:450` says that a release goes where its press went; prompt, popup
  and picker take a release before the input method, which is then left with a key down.
- The popup takes a release that ends a drag: the drag goes on until the next one
  (`src/input/pointer.c:172`). A window that is dragged may become fullscreen, though
  `input_grab` refuses one that is.
- A motion activates the constraint of each client in turn, focused or not. When a cursor
  surface is destroyed while the pointer is hidden, the pointer stays invisible.
- A pen that hovers keeps its focus when the session locks, until it moves; a pad button bound
  to an action that is pressed while locked and released after is forwarded as a press alone (`src/input/tablet.c:202`).
- Two touchpads share the state of one gesture (`input_gesture`).
- A late fallback icon overwrites a newer pixmap. A bar made anew shows its tray only at the next paint.
- `item_destroy` cancels no request, and each holds the raw `Item*` (`src/desktop/systray/helpers.c:31`):
  the answer, or the error the bus sends for a program that is gone, runs its handler on freed memory or
  on another item that was given it. The models have both; the trays they leave are current all the same.
- When the next icon cannot be made, the old one is gone already and no tray is painted (`item.c:265-269`):
  the bar may go on showing it. `PaintedTraysAreCurrent` names this as its exception.
- "Screen sharing shows it as a black box" (`docs/features.md:27`) has three ways out, all by a step that
  fails. `privacy_wipe`, which replaces a mask that failed, may fail itself and only logs
  (`src/output/privacy.c:490-498`); `bar_draw` shows the title of a private window without a second title if
  that finds no buffer (`src/desktop/bar/bar.c:473-474`); and if the bar finds none itself, it goes on showing what
  it did, with `sharew` reset (`bar.c:286-299`). The models take each of them, and `SharedIsMasked` says that there is no other.
- A menu whose layout arrives after the lock opens its popup under the lock; one empty
  submenu makes the whole menu fail.
- A reload of `runner_history_size` from 0 while the prompt is open writes over a history
  file that was not read. A recorded line is cut at the buffer, in the middle of a character if need be.
- `src/desktop/runner/calc.c:32-34` says that "even fully parenthesized input" cannot come close to the depth
  limit of 64: the 64th parenthesis reaches the number at depth 65 and is refused, in a line of half the buffer
  (129 of 255 bytes). `ComputesTheGrammar` therefore promises a value only down to the limit, and its run
  goes past a smaller one.
- The writer's hangup with lines unread drops them (`src/desktop/bar/status.c:273`). An empty
  line's text is replaced at the next update of the layout (`src/output/monitor.c:827`).

### Fairness

The only liveness property is `InViewIsDrawn`, under weak fairness of
`client_map_wait_done(c)`: the event loop runs a timer that has expired, and
the 200 ms timer of a window that waits is armed until it fires, is disarmed by
the commit it waits for (the same action), or the window unmaps. No fairness is
assumed of users, programs or outputs.

### Mutants

Every property of every passing run has a mutant in `PROJECT.json`: a change
to one mapped definition of the kind a slip in the code would be (the operators
with a suffix, such as `monitor_close_Selected`), under which TLC finds the
property violated in the same run.

## 4. What is proved

Forty-four theorems, checked by TLAPS, each for every value of the constants that meets the
`ASSUME`s of its module (any finite or infinite sets, unless the assumption
says otherwise) and its own hypotheses. Each argument has lemmas for the operators, one
step per action on top of them, and PTL at the end.

**Loops.** What the program does in a loop over a list the models do with `FoldLeft`, and a
theorem about such a step needs induction over the turns. The library's induction
theorems cannot be instantiated here, so `Loops` does that induction once: it is a module with the
turn of the loop and its invariant as operator constants, `LoopKeeps` says that what is true
before the first turn and kept by every turn is true after the last, and a proof about a loop
instantiates the module (`Dismissals == INSTANCE Loops WITH Turn <- DismissTurn, Inv <-
DismissInv`). It rests on a set of naturals that is not empty having a least member, which is a
hypothesis of `LoopKeeps` and `LeastMembers` of `ListProofs`: an instance is a copy, and every
step after it has all it extends in its context, so `Loops` extends two standard modules only.
`ListProofs` proves it from the finite-set theorems, with what
`Min`, `Max`, `RemoveAt`, `Without`, `ToHead` and `InsertAt` yield.

**Windows** (`WindowsProofs`; `Spec`: any finite sets of windows and monitors, any number of
tags, any rules and bindings, any finite forest of dialogs). The inductive invariant is
`Windowed`, of four parts:

- `TypeOK`, which is inductive as it stands; but the facts it rests on are not shapes: `client_top`
  yields a mapped client or none, `client_modal_top` ends (its chain of dialogs has no
  cycle: `ParentAssumption`), every index the stack actions use is in the list, and every
  monitor written is one there is;
- `Tagged`: every window on a monitor, mapped or not, and both tag sets of every monitor have a
  tag (a window is placed once before it maps, and takes over the tags on view);
- `Steady`: the focus stack holds the mapped windows, each once, the list of clients none but those; nothing
  unmapped is drawn, held back or on a monitor; what has the keyboard is mapped, and the
  active handle is its own;
- `Settled`: with no `movestack -1`, the list of clients is complete, what is drawn is what is in
  view, and who has the keyboard is foremost on its monitor.

| theorem | property | hypotheses |
| --- | --- | --- |
| `TypeCorrect` | `TypeOK` | |
| `EverythingStaysTagged` | `EverythingHasATag` | |
| `MovedWindowsArrive` | `MovedArrivesInView` | |
| `TaskbarsAreTold` | `TaskbarFollowsKeyboard` | |
| `DialogsGetTheKeyboard` | `KeyboardGoesToTheDialog` | |
| `ActivationShows` | `ActivateBringsIntoView` | |
| `ListsAgree` | `BothListsHoldTheMapped` | no `movestack -1` |
| `ScreenShowsTheTags` | `ShownIffVisible` | no `movestack -1`; no modal dialogs, or one monitor |
| `KeyboardStaysOnTop` | `KeyboardIsOnTop` | no `movestack -1`, no modal dialogs |
| `KeyboardIsInView` | `KeyboardFollowsView` | the same, and one monitor |

The hypotheses are what the disagreements above leave: `windows_movestack` breaks the list
of clients, and with it who is in view and drawn; `windows_dialog` breaks what is drawn, and
needs a modal dialog on another monitor; a dialog behind another window breaks
`KeyboardIsOnTop`; and on two monitors the keyboard may be on none although a window is in view
on the other. Without a hypothesis TLC refutes the statement.

**Focus and outputs** (`FocusProofs`, `OutputsProofs`). `FocusSpec` adds layer surfaces, menus and the
lock, `OutputsSpec` hotplug. The invariants are `Guarded` (the lists as in `Steady`; the
pointers of the session name surfaces that are there; a locker that is connected has
locked), `Focused` (with it, who has the keyboard is mapped and on a monitor), and `Plugged`
(no pointer to a monitor out of the list: of a window, a layer surface or a lock surface). What a handler
may do to the rest is said once, by relations of a state to a later one that compose:
`Safe` (a function of `WindowCore`: under a lock or an overlay the keyboard stays), `Minds` (a
handler of `Focus`) and `Follows`, `Turns` (the functions under `monitor_close` and
`monitor_update_layout`, whose loops are instances of `Loops`).

Three properties of the windows have to hold through all of it, so their invariants are
carried along. `Tagged` needs nothing else. What is drawn (`Drawn`) is part of what each function
leaves (`Views` for a handler of `Focus`, `Shows` for a function of `Outputs`): between two calls
of a handler it may fail, but each handler arranges every monitor whose view it changed.
`KeyboardComesBack` has the longest argument. `Returned` says that the keyboard is on the window
`client_top` yields unless the lock, a layer surface or a menu has it, and `Exclusive` that who has it
instead is what `exclusive_focus` names, so that the handler under which that one goes is one that
refocuses. A function either settles the focus (`Settles`: it ends in `client_focus(client_top)`)
or gives the keyboard away (`Gives`); a change of outputs may leave it open (`Rests`) until the
refocusing at the end of `monitor_update_layout` (`Poises`, `Serves`).

| theorem | property | hypotheses |
| --- | --- | --- |
| `KeyboardIsNotDangling` | `FocusIsAlive`, of `FocusSpec` | |
| `OverlaysKeepTheKeyboard` | `OverlayKeepsKeyboard`, of `FocusSpec` | |
| `OutputsTypeCorrect` | `TypeOK`, of `OutputsSpec` | |
| `ExclusiveStaysUp` | `ExclusiveIsUp`, of `OutputsSpec` | |
| `LockHolds` | `LockedOut`, of `OutputsSpec` | |
| `TagsSurvive` | `TagsSurviveUnplug`, of `OutputsSpec` | |
| `TagsStayThroughTheLock` | `EverythingHasATag`, of `FocusSpec` | |
| `TagsStayUnplugged` | `EverythingHasATag`, of `OutputsSpec` | |
| `DrawnThroughTheLock` | `ShownIffVisible`, of `FocusSpec` | no `movestack -1`; no modal dialogs, or one monitor |
| `DrawnUnplugged` | `ShownIffVisible`, of `OutputsSpec` | the same |
| `KeyboardReturns` | `KeyboardComesBack`, of `FocusSpec` | no modal dialogs, one menu that wants the keyboard, no `menuclick`; and no clicks and motion, or no `movestack -1` and one monitor |
| `KeyboardReturnsUnplugged` | `KeyboardComesBack`, of `OutputsSpec` | no modal dialogs, no `movestack -1`, one menu that wants the keyboard, no `menuclick`, clicks or motion |
| `ListsAgreeUnplugged` | `BothListsHoldTheMapped`, of `OutputsSpec` | no `movestack -1` |
| `NothingPointsToAFreedMonitor` | `NoFreedMonitor`, of `OutputsSpec` | no modal dialogs (`outputs_dialog`), no `movestack -1` |
| `NoWindowIsLeftBehind` | `NoWindowIsLost`, of `OutputsSpec` | at most two outputs, no activation, no `movestack -1` |

`NoFreedMonitor` needs the second because `monitor_close` walks the list of clients: a
window that is in it no more would keep its `mon`. `KeyboardReturns` needs one menu and no
`menuclick` for the two reasons above; clicks and motion are out because they may select a monitor
that shows no window, on which the keyboard rightly is nowhere, or a window that is not on top
once the list of clients has lost one.

`NoWindowIsLeftBehind` carries `Homely` beside them, of three parts. `Homed`: while a monitor is
selected, every mapped window is on one. `Chosen`: none is selected only while none of the list is
lit. With both and `Wired` (what is lit is in the list) no window is lost. `Linked`: the parent
of a dialog that has one is mapped, so that placing the dialog on its parent's monitor puts it
on one. Most handlers leave these alone (`Stays`:
what is mapped, linked, lit and on which monitor, and whether one is selected); a window that maps
comes to the selected monitor or its parent's, or is placed by a rule on one there is; `monitor_close`
moves windows to the monitor selected then, or to none with none selected (`CloseHome`); and
`LayoutPass` leaves `Chosen` whatever was before it, adopting the windows that had none. Under
`monitor_handle_destroy`, where `monitor_close` comes last, it takes two outputs: the one left is the
first of the list, so `Successor` finds it if it is lit. With three TLC refutes it
(`outputs_lost`), with activation as section 3 says, and `movestack -1` hides a window from the
loops.

**Input** (`InputProofs`).

| theorem | property | inductive invariant, and why it is needed |
| --- | --- | --- |
| `RepeatsAreHeld` | `RepeatIsHeld` | with `KeysType`. Every consumer of a key disarms the timer, or arms it with the key that goes down (`ConsumersDisarm`, `KeyGoesSafely`) |
| `DragsHaveAWindow` | `DragHasAWindow` | inductive as it stands: `input_grab` refuses what may not be held, and unmapping lets go |
| `WholeGestures` | `ClientSeesWholeGestures` | `GestureInv`: what the client was told is a function of what the fingers do and who took the gesture; a swipe or pinch that is bound is no zoom's |
| `ZoomStaysConsistent` | `ZoomIsConsistent` | with `ZoomType`; what fails leaves the three buffers from the chain upwards dropped |
| `EverythingIsReleased` | `NothingStaysPressed` | `TabletInv`: what went out for a pen is what the hand still does, no button went out both ways, and each button of the pointer is down as often as pens, buttons of pens and a finger hold it (`Accounted`, with finite cardinalities) |
| `PadsKeepUp` | `PadsFollowTheKeyboard` | `PadsInv`: every tablet is in the list once, so the one that goes is found no more |
| `OneConstraintHolds` | `OneConstraintIsActive` | with the types; the loop of `input_motion` over all constraints is an instance of `Loops`: each turn tells the one that was active |
| `ServedFieldsHaveTheFocus` | `TheFieldServedHasTheFocus` | `FieldInv`: no field has entered a surface but the focused one, and none without an input method; `textinput_update` rests on this when it looks at the focused surface only |

**Notifications** (`NotifyProofs`), for any limits, kinds and any number of ids. `NotifyInv`
says that the ids in the box and the queue are distinct and none of them has been
reported closed (`Sound`), that the timer fits the box (`TimerFits`, of which the part
on `heldleft` is needed: what is held with nothing left could never expire), and that a held
box is the picker's (`Owned`). `Good(s, t)` is what every function keeps from one state to the next:
`NotifyInv` of `t`, nothing lost without a report, and no unseen critical one passed over when the
box is let go. Each function of the service is shown to be `Good`, the loops of
`notify_show_next` and `notify_dismiss_all` by `Loops`, and each handler by composing them.

| theorem | property |
| --- | --- |
| `IdsStayDistinct` | `LiveIdsAreDistinct` |
| `TimerFollows` | `TimerFollowsTheBox` |
| `LossesAreReported` | `EveryLossIsReported` |
| `HeldBoxIsKept` | `NothingTakesTheHeldBox` |
| `CriticalsGoFirst` | `CriticalGoesFirst` |

**The rest of the desktop** (`DesktopProofs`).

| theorem | property | inductive invariant, and why it is needed |
| --- | --- | --- |
| `PicturesAreMasked` | `SharedIsMasked` | `PrivacyInv`: a bar that is up and found its buffers has a second title if it names a private window (`IsCurrent`), since every change of what is private draws the bars; `MaskedCopy` shows what that leaves of a copy |
| `TraysStayCurrent` | `PaintedTraysAreCurrent` | `TrayInv`: with types; a handler that paints no tray leaves right what was right (`NotPaintedAnew`), one that runs on freed memory included, and painting makes all of them right but those that fail (`PaintedAnew`) |
| `EveryMenuIsAnswered` | `MenusAreAnsweredOnce` | `MenuInv`: the popup has the rows of the level its menu is at, and the cursor is on one of them or none |
| `ClicksAreExact` | `ClickSendsTheRowClicked` | the same |
| `PlacesStayInside` | `EveryPlaceIsInside` | `PromptInv`: no buffer, candidate or entry of the history starts within a character, so what is put together of two of them splits none; the list and the place in the history are only bounded while the prompt is open, since `runner_toggle` mends what shrank before |
| `ChunksMakeNoDifference` | `ReadsLineByLine` | `ReaderInv`: what is kept between two reads has no newline and is shorter than the buffer, so a read finds room, and its first line is the end of a long one exactly when `skipping_long_line` says so |

The last is the refinement of `StatusLine`, by which every read of `n` bytes is `n` turns of `Byte`:
`StateOf(q, skip, text)` says where `StatusLine` is once the bytes of `q` have come, `ByteIsRead`
that one byte more takes it from `StateOf(q)` to `StateOf(Append(q, b))`, and `Loops` does the
induction over the chunk. It assumes that `TooLong`, which stands for a line nobody keeps, is no line.

`NamesAssumption` says that the names of applications and commands are text; the code takes it
for granted of the whole line ("runner_buffer holds UTF-8", `runner.c:126`).

**Only model-checked.** `LayoutIsSettled`, which compares a whole run of `monitor_update_layout`
with none, and `FocusIsAlive` under hotplug (false with three monitors). `ComputesTheGrammar`, since
the calculator is written with recursive operators, and `ClickFindsTheAreaDrawn`, whose walks are.
`InViewIsDrawn`, which is liveness.

## 5. Bounds and abstractions

Sizes: two or three windows, one to three monitors, two tags, one or two layer
surfaces, one menu; three ids, a queue of two, a history of one (names:
`Clients`, `Monitors`, `TagCount`, `Layers`, `Unmanaged`, `IdCount`, `QueueMax`,
`HistMax`). Those of the desktop's parts are in the table above: at least two of
whatever competes (keyboards, windows, fingers, fields, menus), or one of each kind
that is treated differently. The bounds of these modules are `MaxKeys` (keys held),
`Addresses` (items at a time) and `MaxAsked` (requests under way when a program causes more), `MenuIds` (menus at a time), `MaxLine` (the calculator's
line; `MAXDEPTH` is 3 for the code's 64, so that these lines go past it), `MaxPipe` (bytes written and not read, twice
the buffer less one, so that a piece ends anywhere), `Frames`. `MAXBOXES` is small, so that the masks overflow
their list and everything shown has to be masked. No counter is unbounded: lists hold each client or surface once, and the id
counter wraps as it does in the code. There are no state constraints.

Left out, because no modelled decision depends on it: geometry, gaps, stacking
inside a layer, decorations, `fullscreen_bg`, cursor warps, popups and drags,
layer surfaces that never take the keyboard or that change layer, texts, icons
and progress of notifications, how much time is left of a held one, axis values of
pens, the motion of touch drags, the modifiers of keys, fuzzy scores of the runner
and its modes for terminals, searches, files, windows and tags. Simplified:

- which monitor lies in a direction is any lit one; `monitor_at(geom)` finds none
  for a client without a monitor;
- the pointer is on a lit output, over any drawn window or none;
- toplevel handles and list nodes are always allocated; the notification timer is not;
- `client_has_children` is "a mapped window names it as its parent";
- a grandparent does not inherit the dialogs of a window that unmaps;
- one action, `RingBell`, stands for the bell, the activation token of another
  program, and the X11 urgency hint;
- of a handler that runs on freed memory the model has what the build can do and go on: paint the trays,
  ask more, or nothing. A crash ends the behaviour; memory given to something other than an item is left out.
  A request that is made again for an address where it is under way counts once;
- a notification's picker is opened by its id; browsing the history shows in the
  model only as the entry that is forgotten.

## 6. Not modelled, and why

- **D-Bus and activation** (`src/core/dbus.c`, `src/core/activation.c`): glue between libdbus and the event
  loop; tokens and helpers without state of the program's own.
- **Rendering** (`src/render`), and what of bar, title bars and magnifier is drawing:
  pixels, on which no handler's decision depends. What is hidden from others is in `Privacy`.
- **Settings** (`src/core/settings`): tables from words to values, read and written in one
  go, which the repository's unit tests reach better. What a reload changes under a prompt or a
  shared screen is in `Prompt` and `Privacy`; `Rules` and `Bound` stand for the rest.
- **Geometry**: which layout a tag has, sizes, gaps, tile drags, the placing of popups.
  The layout and its twin are kept per tag and swapped with the view (`layout.c:175`);
  without geometry nothing can be said of them but that they are swapped.
- **Start and `seat.c`**: they create wlroots objects; only the state they leave is `Init`.
- **Pad buttons, rings and strips**, the wheel's bindings, drags of tablets and touch:
  forwarded, or a binding run as a key runs one.

## 7. What could follow

- `LayoutIsSettled` as a theorem: that a second `LayoutPass` finds nothing to do.
- `FocusIsAlive` under hotplug as a theorem, for at most two monitors.
- An abstract specification of the focus (an owner by rank: lock, overlay, menu, window),
  which `Focus` should implement.
- The prompt under the lock, the popup under the lock and the end of a drag in the popup
  as runs of a composition of `Keys`, `Pointer` and `TrayMenu` with `Focus`.
