# scroll: a verification development

scroll is a Wayland compositor (a fork of sway with a scrolling layout). This
directory holds TLA+ models of its core logic, the TLC configurations that check
them on small instances, and TLAPS proofs of what holds for every instance.

The compositor is one process with one thread. An event loop dispatches
handlers (client requests, input, timers, IPC) one after the other, each to
completion. What makes it hard is not preemption but the state that survives
between handlers: transactions that wait for clients, timers, animations,
callbacks with stored pointers, nodes that are destroyed while something still
refers to them.

## Inventory

| part | state it keeps | operations | hard behaviour | what makes it correct |
|---|---|---|---|---|
| Transaction engine (`desktop/transaction.c`) | dirty nodes, pending and queued transaction, instructions, `num_waiting`, timer | commit, configure, answer, timeout, apply, destroy | answers early, late, twice or never; commits from inside an application; nodes dying meanwhile | updates are atomic, none is lost or reordered, reference counts are exact, everything ends |
| Views (`tree/view.c`, `desktop/xdg_shell.c`, `xwayland.c`) | map state, container, saved buffer, configure serials, marks, urgency | create, map, commit, unmap, destroy, rules, minimise | a view mapped again while its old container is still in a transaction; rules that trigger rules | no dangling or leaked view or container, no window frozen on a saved buffer, rules run once |
| Nodes (`tree/node.c`) | `dirty`, `destroying`, `ntxnrefs` | mark dirty, begin destroy, destroy | destruction is deferred to the last transaction | freed once, after the last reference |
| Outputs (`desktop/output.c`, `tree/output.c`) | outputs, their workspaces | plug, unplug, evacuate, restore | the last output goes; workspaces must come back | workspaces always have an output, and return to the one they prefer |
| Workspace switch, animation (`tree/workspace.c`, `desktop/animation.c`) | focus, animation callbacks, filters, timer, path | switch, next key, step, end | the end of a switch is a callback run many events later | the requested workspace gets the focus; filters and data do not outlive the switch |
| Seat focus (`input/seat.c`) | focus stack, focused layer, `has_focus` | set focus, node destroyed, layer and lock focus | reentrant destruction of workspaces | the focus is on something visible that exists |
| Container tree (`tree/container.c`, `root.c`, `layout.c`) | children lists, parents, fullscreen modes, scratchpad, selection | attach, detach, move, swap, drag, hide | long sequences of legal commands | lists and pointers agree, no empty column, fullscreen is exact |
| Scrolling geometry (`tree/layout.c`, `arrange.c`, `transaction.c`) | sizes, positions, scale, pins, overview, gesture | resize, align, fit, toggle, scroll, overview | stored sizes restored much later | the active window is in view, what the user chose is kept |
| Output configuration (`config/output.c`, `desktop/output.c`) | stored configurations, delayed modeset | store, merge, find, test, apply | a backend that rejects; requests of clients in between | what was said last is used; nothing that worked goes dark |
| Layer shell, session lock (`layer_shell.c`, `lock.c`) | surfaces, lock, focus of both | create, map, commit, destroy, lock, abandon | orders of destruction; the lock client dies | keyboard focus follows; nothing unlocks by itself |
| IPC (`ipc-server.c`, `common/ipc-client.c`), `swaybar/` | clients, buffers, subscriptions; the bar's outputs and frames | read, write, broadcast, disconnect; draw, frame, configure | disconnection during a broadcast; partial reads and writes; blocking questions between events | messages whole and in order, none missed; the bar shows the present |
| Keyboard (`keyboard.c`, `bind.c`) | pressed keys, held and repeated binding, groups, jump | key, repeat, layout, group, focus enter | release without press; a group member leaves with keys held | no stuck key, the right binding |
| Pointer (`cursor.c`, `seatop_*.c`) | active operation, buttons, points, tools, gesture | press, motion, release, simulate | the container of an operation is destroyed during it | operations end, clients are let go |
| Text input, launcher, activation, rules (`text_input.c`, `launcher.c`, `criteria.c`) | relays, contexts, criteria | enable, focus, launch, consume, match | objects of several clients come and go in any order | the method serves the focused input; a window opens where it was launched |
| Configuration files (`config.c`, `commands.c`) | deferred commands, programs run | load, include, reload | reload inside anything | programs run once, settings applied |
| Lua, scene graph, rendering, decorations, swaymsg and swaynag drawing | - | - | none of their own protocol | not modelled |

All paths are under `src/sway/` unless they say otherwise. `PROJECT.json` lists the
hazards line by line with the properties that cover them.

## Modules

| module | models |
|---|---|
| `AtomicLayout` | what a transaction promises: `shown`, `next`, `frozen`, `owed` (abstract) |
| `Transaction` | the transaction engine with the life cycle of nodes and views; implements `AtomicLayout` |
| `Transaction_proofs` | theorems about `Transaction`, with the refinement |
| `WorkspaceSwitch`, `WorkspaceSwitch_proofs` | animated workspace switches on one output, and theorems about them |
| `TreeOps`, `LayoutOps`, `ContainerTree` | lists, fullscreen, attach, detach, reap; adding, moving, dragging, selections; commands and events on the tree |
| `SeatFocus`, `LayersAndLock`, `OutputOps`, `WindowOps`, `Desktop` | the focus of a seat; layer surfaces and the session lock; outputs and their workspaces; windows that are placed; all of it composed |
| `FoldFacts`, `Desktop_proofs` | a fold keeps what its steps keep; theorems about `Desktop` |
| `Launcher`, `Criteria`, `ViewOps`, `Views` | launcher contexts; criteria and rules; mapping, unmapping, minimising, urgency; composed with `Desktop` |
| `IpcServer`, `Swaybar` | the IPC server with its sockets; the bar, the compositor's events and other clients |
| `IpcServer_proofs`, `IpcHandlers_proofs`, `Swaybar_proofs` | lemmas about streams, replies and the loop of an event, about each handler, and the theorem about all the clients together |
| `TextInput`, `Keyboard`, `Input` | the text-input relay; keyboards, bindings and the jump; devices, focus, lock and reload around them |
| `SeatOps`, `Pointer`, `Pointer_proofs` | seat operations; mice, touch, tablets, gestures and clients that drive them; the theorem about what they point to |
| `Strip`, `ToggleSize`, `Scroller` | where a row puts its members; stored and temporary sizes; a scrolling workspace under commands and gestures |
| `OutputSettings`, `Configuration` | stored configurations and the search for one that works; files, commands, clients and timers that ask for it |
| `MC...` | the values TLC needs |

Most modules come in layers: a module of operators whose definitions are the C
functions, as functions of one record of state, and above it a module of actions, one for
each event or command. An action is the whole handler, with everything it calls.

A definition `D_Word` written above a definition `D` is not part of the model: it is `D`
with a plausible mistake in it, used to confirm that a property would notice
(`PROJECT.json`, "mutants"). In "map", a helper that stands for a few lines of a C function
shares the row of the definition that models the function.

Many modules have *scenes*: records that say which kinds of events are explored
together, with which windows, outputs or devices and for how many steps. One of them is
chosen in `Init` and kept. A run is the union of its scenes; scenes are how
combinations of features are covered without exploring all of them at once.

### Transaction

A handler is an action taken at `pc = "idle"`. It does all its edits at once and, if it
commits, moves `pc` into the engine: `commit_dirty` (`_transaction_commit_dirty`),
`commit_pending` (`transaction_commit_pending`, `transaction_commit`), `progress`
(`transaction_progress`: `Wait` or `Apply`), `rebase` (`cursor_rebase_all`), `destroy`
(`transaction_destroy`), and `notify` for the rest of `handle_commit` after the
transaction a floating resize commits. Only then is the next handler dispatched.

* A node's geometry and everything else that the state copies hold is one value
  (`pend`, `cur`, `pState`, `qState`). `SizeOf` tells which geometries differ in
  size, because xdg_shell views are configured for a new size only and Xwayland ones
  for a new position too.
* `Containers` are the containers that hold a view; `Others` stand for workspaces,
  outputs and split containers, which no client answers for.
* What a handler arranges is any set of live nodes with any geometries: every
  command, focus change and layout rule is an instance of `Edit`, `Map`, `Unmap`.
  What is arranged or created there always also is marked dirty.
* `ClientCommit` is `handle_commit`: acknowledgement of any serial sent so far, a
  buffer of any geometry, possibly a size change of a floating window.
* Serials start again with each mapping. They are compared for equality between a
  configure and its answer in one mapping only.
* Freeing several nodes in `transaction_destroy` is one step: no handler runs
  between two of them.
* `ok = FALSE` in `CommitPending` is the failure to create the timer.

The refinement of `AtomicLayout` is by

    shown <- cur, next <- pState on pNodes,
    frozen <- qState on qNodes until it is applied,
    owed <- the views that were asked and did not answer.

### WorkspaceSwitch

`Switch(w)` is the workspace command. When it animates, it moves no focus: it installs
the callback with its data and the filters, and dirties the visible tiling windows of
both workspaces. `Edit(p)` is any other command that commits, `p` being the animation path
that it selects or leaves. `Apply` is the application of a transaction, which starts the animation
timer if the current path is enabled. `Tick` and `Last` are the timer, `Last` with
`workspace_switch_callback_end`. `asked` and `skipped` are history variables: the last
workspace asked for, and those whose switch was replaced by another. All the tiling windows of a workspace count as visible, floating windows as ignored
by the switch, which is what `select_visible_containers` does. Auto back-and-forth and
`config->reloading` are left out. A committed transaction may be applied at once or
later, whatever other handlers run, as `Transaction` allows.

Windows open and close, and other workspaces are asked for, during a switch as well. With
`Calm = TRUE` three things do not happen (`MayClose`, `MaySwitch`): a window of the switch
under way or of its target closes; the user asks for the workspace that has the focus
still; or switches between workspaces that exist and have no tiling window.
"Disagreements" shows what they do.

### TreeOps, LayoutOps, ContainerTree

The tree is one variable, a record of the pending state: `list` is `workspace->tiling`,
`workspace->floating` and `pending.children`; `up` and `ws` are `pending.parent` and
`pending.workspace`; `full`, `covers` and `global` are the fullscreen mode of each
container and the two pointers that mirror it; `pad` and `scratch` are the scratchpad
list and the flag that mirrors it; `recent` and `current` are the focused inactive
child of columns (pending) and of workspaces (as last applied). Most of this state is
redundant in the code, each part written by its own lines, and the properties are
about the parts agreeing.

An access outside a list, or through NULL or a freed container, sets `bad`, which ends
the behaviour (`Crashed`): that there is none is part of `WellFormed`, not an
assumption. `did` is a history variable: the last swap, drag, move without mode or of the
selection, for the properties about them; the view of the runs leaves it out, because
nothing depends on it.

* What the focus is on, the mode and insertion position of a workspace, and the
  window focused last in a column are chosen by each action: other commands change
  them in between. `Focuses` says whether a command may find the focus on a column
  (`focus parent`) or on a workspace.
* In a "late" scene commands come before transactions are applied: `Applied` records
  the current focused child of workspaces at any time, and `Recreate` stands for a workspace
  that is destroyed and created again. Otherwise a workspace with columns has a current
  focused child among them.
* Workspaces are otherwise permanent, and each is on an output of its own or not:
  no handler here distinguishes the two.
* Three guards leave out what the code breaks (see "Disagreements"): `MovesWhole` (a
  column leaves with a fullscreen window in it by a command to another window), `Fresh` (the
  place where a moved window is inserted is recorded and still there) and `StaysPut` (a
  window that covers all outputs is not detached). A scene with `"any move"` or
  `"any fullscreen"` has these cases.
* `Scratchpad` walks the list by index while hiding moves its elements to the end, as the
  code does; `jump scratchpad` is modelled up to the overview it opens.
* Columns hold windows, never columns: `workspace_wrap_children`, which `floating` and
  the like call on a workspace that has the focus, is not modelled, and neither is a
  reload with `workspace_layout`. Sticky and pinned containers and sizes are
  left out here (`Desktop` has sticky windows, `Scroller` sizes and pins).
* `Swap` and the drag operations keep the order in which the code changes lists,
  which matters for their indices.

### SeatFocus, LayersAndLock, OutputOps, WindowOps, Desktop

The desktop `d` is what the focus code reads and writes. `SetFocus`, `SetWorkspaceFocus`,
`HandleNodeDestroy` and the like are the functions of `seat.c` with the events they raise;
`EndWorkspace`, `Evacuate` and `Restore` those of `workspace.c` and `tree/output.c`. The
actions of `Desktop` are windows that open and close, the focus, workspace, move and
fullscreen commands, outputs, layer surfaces with their commits, and the session lock.
Animations are off, a surface is destroyed with its window, there is one seat and no
workspace has configuration of its own. Layer surfaces and the lock come together in four
scenes, and in one of them, marked `"grab"`, a layer surface takes the keyboard from the
lock (`NoGrab` leaves that out of the others); there only windows are kept from it. Moving
windows and the lock are in separate scenes, because a move while the focus is elsewhere
leaves an empty workspace (`seat.c:1143` below).

### Launcher, Criteria, ViewOps, Views

`Views` extends `Desktop` with what decides where a window opens and what happens to
it: launcher contexts and activation tokens, rules (`for_window`, `assign`, `no_focus`)
that execute commands and may run each other, urgency with its timer, minimising through
the scratchpad, fullscreen requests, X11 surfaces that are converted to unmanaged ones,
and foreign toplevel managers.
Every tiled window is alone in a column of its own; there is no global fullscreen, no
reload and no `back_and_forth`. The identity of a window (app_id, class, type) is fixed,
its title is not. Closing by a manager or a command is the client's own unmapping.

### IpcServer, Swaybar

A message is two units, header and payload, so that a read or a write may stop in its
middle; `SocketRoom` is the room of a socket and `limit` the 4 MB at which a client is
disconnected. `heard` and `seen` are history: the number of the last event raised for a
client and of the last it read. `Swaybar` runs the server with the repository's own
clients: the bar, which blocks on one socket while events queue on the other, peers that
subscribe, and peers that send a request in two writes and may abort in between. The
bar's frame callbacks, configure events and outputs are modelled; its height is
constant, buffers are always free, `workspace_buttons` is on. A change before the
bar has subscribed is not told to it (`Listening`).

Clients here subscribe once per connection, the ones that send a tick do not subscribe,
and the limit leaves room for the two messages that answer a subscription to ticks
(`ScenesAssumption`; in the code 4 MB against 128 bytes). `ipc_client_handle_command`
goes on with the client after an event or a first answer was sent, and neither case
above can disconnect it there; the proof below shows where each is needed.

### TextInput, Keyboard, Input

Bindings are to keycodes, there is one modifier, and one seat. A keyboard device
may be in a group, and the group's keyboard handles its keys. `told` and `grabbed` are what
clients believe to be pressed. The jump takes over the keyboards through
`key_press_cb`. Virtual keyboards, popup grabs and bindings that detach a keyboard
are excluded; the scenes with a jump hold no other key and keep the focus. A client may
have two text inputs, both of which are then entered; where clients have one each
(`OneEach`) at most one is. Where the focus can go to an empty workspace, a window that is
still typed into may close, and it is not claimed that the method then stops. Five bindings to one key, which differ
in device, group, `--locked` and `--inhibited`, are listed in each of their 120 orders.

### SeatOps, Pointer

`op` is the operation of the seat with its data. Every event of a mouse, a touch
screen, a tablet and a touchpad is an action that ends in the handlers of the operation,
directly or through simulated buttons. Windows close, hide, float, get fullscreen and the
workspace is switched meanwhile. One output, one mouse, one tablet tool; a tiled window is
a column of its own; at most one event per finger between two touch frames; the cursor is
rebased at once; workspaces are never destroyed. Mouse, fingers
and pen come together with two exceptions: a client is never told of a finger and of
a button of the mouse at once (`Apart`), and no second finger goes down beside one that is
simulated (`SecondFinger`, without `"second"` in the scene).

### Strip, ToggleSize, Scroller

Lengths are tenths of a pixel, and positions those after the animation. The vertical
layout is the same code with axes exchanged, so one is modelled. `Strip` has where the
members of a list are put: the code for columns and that for windows in one set of
operators. `entry` is a history field for the property about the overview, and `chosen`
another: for each container and axis, the length that the user chose last and not
temporarily. After a swipe with a pin, the seat's focus goes to the column. `held` is the
window by which the mouse drags the row. Windows open and close and the focus goes to
another workspace during a swipe; commands during it, and the closing of a window of the
floating pin, are not modelled. Scenes say with `"lossy"`, `"stays"`, `"leave"` and
`"dragged"` that they have what guards leave out otherwise: resizing a container that is toggled
(`Permanent`), a swipe along a row whose pin did not float (`PinFloats`), one that ends in
another workspace (`SwipeEnd`), and the closing of the window it is dragged by (`Close`).

### OutputSettings, Configuration

A configuration is a function from the fields it sets. A mode is a number, its load;
the backend (external) accepts what fits in `Capacity`, and a commit that was tested may
fail still. `Attempt` is `apply_output_configs`: the requested states are tested, searched
for if they fail, built and committed, each of which may fail; the answer says whether
what was *asked for* worked. `Unhidden` leaves out that what is stored by identifier
hides what is set by name (without `"hidden"`), and `ManagerTest` that a test cancels a
modeset that waits (without `"forget"`). Custom modes count as modes; position, scale, subpixel order, colour and
tearing are not kept. `said`, `used`, `done`, `ran` and `loads` are history fields.

## Runs

| run | instance | shows |
|---|---|---|
| `transaction_two` | 2 views (one Xwayland), 2 containers, 2 geometries, 2 serials per mapping | through unmap, remap and destruction during queued and pending transactions, with the timer failing: exact references, nothing dangling or leaked (`LifeCycle`); nothing stuck, answers counted once, no update lost, no window left on a saved buffer (`QueueSound`); layouts change atomically (`AtomicUpdates`) |
| `transaction_live` | 1 view, 1 container, 1 workspace, 3 serials | what is committed is shown, dying nodes are freed, and `AtomicLayout`'s fairness is implemented |
| `switch_calm` | 3 workspaces (one created on demand), 3 windows (one floating), 4 commands or further switches, 2 steps | an animated switch has a future, its data lives, the filters are its own, no empty workspace stays but one whose switch was replaced; the focus moves only to where it was asked last, and does |
| `tree_windows` | 3 windows, 2 workspaces; opening, closing, all ways of moving, floating, scratchpad, drops; selections; selections and moves while transactions lag | lists and pointers agree and nothing is accessed that is not there; one window or column moves at a time, or two change places at the end of a row; a drop lands where its edge says; what is selected arrives whole and in order |
| `tree_fullscreen` | 3 windows; fullscreen, global and on request, floating, scratchpad, marks, moves; swaps | fullscreen pointers are exact; hiding uncovers; swaps exchange places and modes |
| `desktop` | 4 windows, 3 workspaces, 2 outputs, 2 layer surfaces, a lock, in 12 scenes | the focus is on something that lives, is seen and is told; outputs keep their workspaces; layer and lock focus; only unlocking ends a lock; windows of other workspaces do not take the focus |
| `views` | 4 surfaces in 18 scenes of contexts, rules, unmanaged surfaces, urgency, minimising, fullscreen, options | urgency, marks, scratchpad and contexts agree with the windows; each lasting rule that matches has run once; a window opens where its launcher was |
| `clients` | the bar with each kind of change, 2 or 3 changes; two slow listeners with a limit of 2 messages; a listener and a client that ticks | streams are whole, in order, complete; the bar shows the present once settled; nobody waits for good |
| `input` | 15 scenes with 2 keyboards, 2 keys and a modifier, 2 windows, 3 text inputs, and 120 orders of five bindings | no stuck key, no dangling keyboard, grab or repeat; the binding that the manual prefers by device, group and lock runs; the method serves the focused input |
| `pointer` | 17 scenes with 3 windows, 2 workspaces, 2 buttons, 2 fingers, pen, gestures | operations end when what began them does and are about what exists; each client is told of its releases |
| `scroller` | 15 scenes with 2 to 4 windows, a row of two columns' length | the active window is in view; chosen sizes and the overview's state come back; moving the focus keeps the row; a swipe ends on a member |
| `configuration` | 3 outputs whose modes do not all fit together, 7 scenes of commands, clients, hotplug, files | what was said last is applied; no configuration that works loses to one that leaves outputs dark; programs run once; an output that appears does not darken others |

Each property has a mutant: a plausible bug in one definition with which TLC finds the
property violated in that very run.

### Bounds

`MaxSerial` bounds the configure events per mapping of a view; when it is
reached no handler that arranges runs for that mapping, while answers, timeouts, unmaps
and remaps go on. Two serials let a view have one configure outstanding and one scheduled
behind it, three also an answered one. There are at most two transactions at any time, so
two containers of one view, one in each, show every overlap of two mappings. `MaxEdits`
bounds the commands of `WorkspaceSwitch`: without it, commits could restart the animation
forever.

The trees of the `tree_` runs are bounded only by their windows: a column with two
windows next to one with one, and a column of three, are there, which is what makes an
index shift or a column become empty. A column exists only while it holds a window, so a
few more columns than windows are enough for what one command creates before it
reaps; a selection can split every column, hence twice as many there.
`VIEW Canonical` names a column by its contents, because nothing else tells columns
apart; windows and workspaces are symmetric.

In the other runs a scene bounds the number of steps or changes (`most`), and of outputs
plugged in (`plugs`): enough for something to begin, something else to interfere, both to
end in either order, and one event after. The scenes of `desktop`
are bounded by their windows and plugs only. `SocketRoom = 2` makes every message
arrive in parts or fill the socket, and `limit = 4` lets the second unread event
disconnect. Because bounds let a system come to rest, only the `transaction_` and `tree_`
runs check deadlock.

### Fairness

`WF(Engine)`: a handler that began runs to its end. `SF(HandleTimeout)`: an
armed timer is dispatched although other events keep coming, because the event loop
polls all its sources; strong, because a handler that is running disables it for a
moment. `WorkspaceSwitch` assumes that queued transactions are applied, which
`transaction_live` shows, and that the animation timer is dispatched. `Swaybar` assumes
`WF(Work)`: the processes poll their sockets. One condition for all of them is enough
because they run out of work when nothing changes. Nothing is assumed of the user, of
what changes, or of other clients. The remaining modules state safety only.

## Disagreements

What the code does differently from what it, a comment or the manual says, and
accesses that go wrong. Most were met while modelling; the scenes of the runs leave the
combination out, which a guard or a comment in the module says. Where a row ends in
"shown by", TLC finds that property violated in an instance that differs from the run of the module
in what is named: a constant, or the scenes `Scenes <- ...` of the MC module.

Transactions, outputs and switching:

| where | what happens |
|---|---|
| `desktop/output.c:513` | an output unplugged while a transaction is queued is marked dirty and destroying without a commit (the modeset is delayed by a timer); the queued transaction completes and frees it while `server.dirty_nodes` has it (`node.h:67`) |
| `tree/workspace.c:807` | an animated switch between workspaces with floating windows only dirties nothing: no transaction, no end of the switch; `scroll.5.scd:1401` "Switches to the specified workspace."; shown by `SwitchCompletes` with `Calm = FALSE`, `Floating = {a, b, f}` |
| `tree/view.c:923` | with `window_open` animations off and those of switches on, a window that opens during a switch replaces the path by one that starts no timer, and the switch is lost; `scroll.5.scd:113` says that one is disabled only "for that operation"; shown by `SwitchCompletes` with `Enabled` without `"window_open"` |
| `tree/workspace.c:818` | asking for the current workspace during a switch away from it does not cancel it: the last tick moves the focus to the one asked for before; `scroll.5.scd:1401`; shown by `FocusFollowsRequest` with `Calm = FALSE` |
| `tree/workspace.c:803` | a switch that replaces one to a workspace created for it leaves that workspace behind, empty and not seen (`skipped`) |
| `tree/workspace.c:618` | a window that closes during a switch is freed and the end of the switch writes to it; shown by `SwitchSound` with `Calm = FALSE` |
| `config.c:317` | a reload resets the animation callbacks but not `root->filters` |

Tree:

| where | what happens |
|---|---|
| `tree/layout.c:631` | a window is moved in mode window to a workspace whose first window is not applied yet: the current focused child is NULL and `layout_container_add_view` follows it (`:512`); the comment at `:628` says "inserting it in the active container (if any), or creating a new one". The same after what was applied has left the workspace or was destroyed, also at `:604`. Shown by `NoBadAccess` with the scene `{"map", "move", "late", "any move"}` |
| `tree/layout.c:636` | a column that holds a fullscreen window is moved to another workspace by its other window: `old_ws->fullscreen` dangles once the window closes; `container.c:611` "The workspace must have the fullscreen pointer cleared so that the seat code can find an appropriate new focus."; shown by `CoversExist` with `{"map", "unmap", "fullscreen", "move", "any move"}` |
| `tree/layout.c:512` | with insertion "before", `pending.focused_inactive_child` of a column has left it and the window is inserted at -1 |
| `tree/container.c:1086` | `floating enable` of a top-level container asks whether its parent, NULL, is selected |
| `commands/move.c:303` | the container with the mark is hidden, its workspace NULL |
| `tree/layout.c:1160` | a lone window moved without mode to an end swaps columns there; `scroll.5.scd:467` says "Movement will only move the active window, leaving its column"; shown by `MovesOnlyTheActive` with `{"map", "nomode"}` |
| `desktop/xdg_shell.c:403` | a tiled window that asks for fullscreen on another output is in that row without a column |
| `tree/container.c:1668` | a container that covers all outputs and is floated or moved loses the global pointer, not the mode, and asking it for fullscreen on its workspace then fails the assertion at `:1315`; shown by `FullscreenObeyed` with `{"map", "fullscreen", "global", "float", "any fullscreen"}` |
| `tree/container.c:2031` | showing a hidden window ends fullscreen before the modes to exchange are read; `scroll.5.scd:722` |
| `commands/scratchpad.c:131` | `scratchpad show` with criteria hides a shown window and shows it again |
| `tree/layout.c:988` | in a vertical layout a row dropped on the right edge of another is put below it, not merged |
| `tree/layout.c:3043` | only floating windows are selected: the focus goes to the item after the last |
| `tree/layout.c:2838` | a window hidden in the scratchpad stays selected; `scroll.5.scd:623` |
| `tree/layout.c:3395` | restoring a space destroys a container that is in the dirty list (spaces are not modelled) |

Focus and desktop:

| where | what happens |
|---|---|
| `input/seat.c:245` | `seat->workspace` is not updated by all that moves the focus, although the comment there says so |
| `desktop/layer_shell.c:190`, `:385` | a layer surface that is exclusive, or has the focus, and is arranged during a lock takes the keyboard from the lock surface (`seat.c:1329`); `Grabbing` allows it in the scene with `"grab"` |
| `input/seat.c:1284` | arranging the layers of another output clears `has_exclusive_layer` |
| `input/seat.c:1143` | a sticky fullscreen window follows the focus and hides the focused view; a window moved to a covered workspace stays activated; a column moved whole leaves an invisible empty workspace; a dropped layer surface keeps the keyboard over an empty workspace |

Views, rules, launchers:

| where | what happens |
|---|---|
| `desktop/launcher.c:142` | a context that has fallen to the root creates a second workspace with the name of an existing one; pids resolve to the furthest ancestor |
| `tree/view.c:926` | `urgent` survives unmapping; hiding or showing an urgent window leaves the old workspace flagged and the new one not |
| `tree/view.c:757` | `scratchpad_minimize` changed between map and unmap leaves a listener; a reload frees criteria that `executed_criteria` still names |
| `tree/view.c:502` | with `fullscreen_movefocus nofollow`, mapping undoes `for_window ... fullscreen enable`; a window that a rule moved away overwrites the fullscreen pointer there |
| `criteria.c` | `__focused__` matches everything when nothing is focused; absent texts never match themselves; `no_focus` acts on the first tiled window although the manual says it has no effect on it |
| `desktop/xwayland.c` | unmapping an unmanaged surface may give the keyboard to a parent that is not mapped; destroying a mapped view leaves a listener |
| `tree/root.c:236` | minimising a background window takes the focus; hiding leaves a forgotten empty workspace |
| `tree/view.c:926` | unmapping the last window of a workspace, without destroying it, leaves the keyboard with it |
| `desktop/xdg_shell.c:403` | a covering floating window that asks for another output covers the focused one there; a focused one keeps the focus while `seat->workspace` stays |

IPC and the bar:

| where | what happens |
|---|---|
| `common/ipc-client.c:103` | a client whose connection is closed in the middle of a payload reads 0 bytes forever, because the loop tests `< 0` only; in a header it aborts (`:92`) |
| `swaybar/render.c` | `assert(output->surface != NULL)` fails for an output that is in use before its surface is there |
| `ipc-server.c` | what changes before the bar has subscribed is not told to it |
| `ipc-server.c:704`, `:811` | a client whose buffer is at the limit, and which sends a tick that it also listens to, or subscribes to `tick`, is freed by the first `ipc_send_reply` and used by the second |
| `swaybar/bar.c` | the old bar of a reload ends only when idle |

Keyboards, pointers, text input:

| where | what happens |
|---|---|
| `input/keyboard.c:563` | the comment on a jump's keys; a second jump overwrites the callback of the first; its labelled key held in a group stays pressed |
| `input/text_input.c:690` | all text inputs of the client are entered; `text_input.h:11` says "at most one will be focused (receiving events) at a time"; shown by `TextAlone` with `TwoTextsScenes` |
| `input/seat.c:1080` | focusing an empty workspace clears the keyboard focus and does not tell the relay: a text input stays entered on the window before; `text_input.h:16` "Text input focus is a subset of keyboard focus"; shown by `TextHasKeyboard` with `WorkspaceScenes` |
| `input/text_input.c:666` | the input method stays active when the window typed into closes while the focus is on a workspace |
| `input/keyboard.c:234` | the binding found first is kept once its locked state is right, before inhibited states are compared: one with `--inhibited` listed first runs without an inhibitor; `scroll.5.scd:880` "The same preference logic as for _--locked_ applies."; shown by `InhibitedPreferred` with `InhibitedScenes` |
| `scroll.5.scd:882` | "repeat when the key is held" against a repeat that stays armed on a group when its member leaves |
| `input/keyboard.c:132` | `held_binding` and `repeat_binding` dangle after `unbindsym` or an overwriting one |
| `input/text_input.c` | a grab never gets a release whose key ran a `--release` binding |
| `input/seatop_move_tiling.c:219` | a workspace destroyed under a drag leaves `target_node` dangling; floating or hiding the container of a tiling operation breaks its assumptions |
| `input/cursor.c:459` | the end of a touch is compared with the finger that went down last: with a second finger down no release ends the simulation, and the drag goes on without a finger; `seatop_default.c:799` "multi touch events don't interfere"; shown by `SimulationEnds` with `FingerScenes` |
| `input/cursor.c:451` | touch and mouse together: a mouse button let go while a finger is down ends the finger's operation and its release is lost; a pen lifted during a resize is swallowed; a tool button ends an operation of another button |
| `tree/layout.c:2707`, `:2720`, `input/seatop_scroll_tiling.c:42` | `gesture.scrolling` stays set, and the pin afloat, when the swipe ends in another workspace, when the pin did not float because the row fits, and when the window it is dragged by closes or another operation takes `swipe_end`; `layout.h:184` "Finish scrolling swipe and return true if scrolling, else false"; shown by `SwipeFinished` with `LeavingScenes`, `StayingScenes` and `DraggedScenes` |

Scrolling and configuration:

| where | what happens |
|---|---|
| `tree/layout.c:3629` | resizing a toggled container makes both its lengths permanent, also the one that was not touched; `scroll.5.scd:802` "saves the sizes of the affected windows when you call the command so you can go back to them"; shown by `SizesKept` with `LossyScenes` |
| `commands/resize.c:381` | `resize set` of a column's width tells the callback of its window only, and a toggled column goes back to its old width, against `scroll.5.scd:772` "unless the user resized it explicitly"; shown by `SizesKept` with `UntoldScenes` |
| `tree/layout.c:212` | `toggle_size all` and reset reach columns only (`:776`, `:802`); `toggle_size this` is always invalid; maximising a single one, toggling and resetting gives size 0 |
| `tree/layout.c:3960` | `layout.toggle_size.container` dangles when its window closes while another workspace has the focus |
| `desktop/transaction.c:433` | the active column is cut by a gap for each column after the third; centering and lazy reordering leave windows outside the overview (`scroll.5.scd:597`) |
| `input/seatop_scroll_tiling.c` | the end of a scroll ignores the position of the workspace; `get_mouse_container` is off by a gap |
| `desktop/output.c:721` | an output management client sets what is stored by identifier: the identifier wins in the commit, `store_output_config` then erases it and the modeset is dropped, so that what is stored is not in use; shown by `StoredInUse` with `HiddenScenes` |
| `desktop/output.c:737` | a successful *test* of an output management request cancels the delayed modeset; `wlr-output-power-management-unstable-v1.xml:87` "The mode change is effective immediately."; shown by `StoredInUse` with `ForgetScenes` |
| `config/output.c:946` | outputs that were degraded to off are sorted as existing and enabled ones |
| `config/output.c:286` | a configuration by identifier stored before one by name while the output is away wins; the comment at `:313` says "supersede it"; shown by `LastWordWins` with `AwayScenes` |
| `config/output.c:283` | a custom mode, its rate and flag stay when a mode without a rate is set |
| `config/output.c` | a failure to build a state returns success with nothing committed, if what was asked for had passed its test; relative commands within the 10 ms of the timer act on what is about to change; the validation of a reload never rejects |

## Proofs

Everything here is proved by TLAPS from the assumptions on constants that the modules
name (`ConstantAssumption`, `SwitchAssumption`, `RoomAssumption`, `ClientsAssumption`,
`NoneAssumption`, `ScenesAssumption`, `NodeAssumption`, `SceneAssumption`,
`FocusAssumption`, `LayerAssumption`), for every value of the constants. `RoomAssumption` to `ScenesAssumption` are about the sockets: they have
room for a unit, the bar has two of them, `None` is no request, and the limit of a scene is
as said under "IpcServer, Swaybar". `NodeAssumption` and `SceneAssumption` are about the
pointer: windows, workspaces, the panel and NULL differ, and a scene puts windows into
workspaces. The last two are about the desktop: nodes, surfaces and NULL differ, windows
and outputs are finitely many, and a client may ask for the levels and wishes that
`layer_shell.c` tells apart.

### The life cycle of nodes and views (`Transaction_proofs`)

    IInv == TypeOK /\ RefsCountTransactions /\ NoDanglingNode /\ NoLeakedNode
            /\ CallInv /\ LinkInv /\ OldContainerInv

is inductive (`InitInv`, one lemma per action, `NextInv`), hence `Invariance`, and from
it `TypeCorrect`, `RefsCorrect`, `NodesSafe`, `ViewsSafe`, `NothingLeaked` and
`LifeCycleCorrect`, which is the invariant `LifeCycle` of the runs.

The strengthening is needed because a step uses facts about other steps' results:
`CallInv` says what holds at each program point (a transaction is queued while it is
applied and destroyed; nothing is left dirty after a commit; the calling surface
commit is that of a mapped view); `LinkInv` says that an allocated
container points to a view that points back to it or to a newer one; `OldContainerInv`
says that a container its view no longer points to is being destroyed. The hard step is
`DestroyTransaction`: that a node is freed only when this transaction holds its only
reference is exactly `RefsCountTransactions`, and that its view can be freed with it
needs the two link invariants.

### The queue (`Transaction_proofs`)

`QueueCorrect` is the invariant `QueueSound`. Its inductive invariant `QInv`, on top of
`IInv`, has five parts. `TimerInv`: whatever waits has a timer or nothing to wait
for, in which case it is about to be applied. `AppliedInv`: while a transaction is
destroyed, what it holds has been shown. `NumWaitingCounts`: the counter is the number
of views that were asked by the queued transaction and did not answer; the hard case
is `Notify` (`AnswerCounted`), where an answer is looked up by its serial among the
instructions of whichever transaction is queued when the call comes. `SavedInv`: a view
has a saved buffer only while a container of its is in the queued or pending transaction.
`NoLostUpdate`: what the state of a node was last committed to is shown, queued, pending
or dirty.

`Refinement` is `AtomicUpdates`: under the mapping above every step of the engine is a
step of `AtomicLayout` or changes nothing of it. `CommitDirty` and the commit in
`Rebase` are `Submit`, `CommitPending` is `Freeze`, an answer that counts is `Answer`, the
timer `GiveUp`, `Apply` is `Apply`, and the freeing of nodes `Forget`; all the rest
stutters. What makes it hard is that the C state lags behind the abstract one: a
transaction that was applied is still queued while it is destroyed, which is why
`frozen` depends on the place in the call, and an answer is an `Answer` only because the
counter is exact (`AnswerCounted`).

### Switches (`WorkspaceSwitch_proofs`)

`SwitchCorrect` (`SwitchSound`) and `FocusCorrect` (`FocusFollowsRequest`) hold under

    Undisturbed == Calm /\ ("workspace_switch" \in Enabled =>
                     {"window_open", "window_move", "window_size"} \subseteq Enabled)

so also when further workspaces are asked for during a switch, whichever windows are
floating, and while windows that are not part of the switch close. Each conjunct excludes
disagreements listed above, in which the code loses the switch or its end uses freed windows;
the configuration of the run satisfies both. The inductive invariant is `SInv`: the switch
under way leads from the focus to what was asked for last, its windows are alive, and
the animation path and the switch are both enabled, which is why its timer gets armed
again by any transaction that is applied meanwhile; and an empty workspace that is not
seen is the one that a switch goes to or one that was skipped.

### The streams of the IPC server (`IpcServer_proofs` to `Swaybar_proofs`)

`StreamsCorrect` is the invariant `StreamsSound`, for any number of clients, any limit and
room of the sockets, and whatever the bar and the compositor do. The functions of the
server have a lemma each, and the actions only combine them:

* `IpcServer_proofs`, first part: what a reply, the next event, a partial write and the reading of a
  message do to a stream of whole messages (`Stream`). A reply leaves its events alone, an
  event adds its number, a prefix is a stream up to an earlier event, and what is left
  after the first message begins after the event it was.
* `IpcServer_proofs`, second part: the invariant of one client, `Sound(s, c, d)`, where `d` says whether
  an event that was raised is still to be written to it. `SendReply` either settles `d` or
  disconnects the client (`Replies`), and never leaves a buffer that is full
  (`GrownEnough`: the doubling ends above what is to be held). The loop of
  `ipc_send_event` has the invariant that exactly the listeners at its index or
  later are still due (`Loop`, `Due`). It holds over a disconnection because the list
  closes its gap and the index stays (`Turned`): with the index advanced, the client
  that moved up would stay due after the loop. The loop is a recursive function of the
  number of turns; that it ends within the length of the list is `SendsEvent`.
* `IpcHandlers_proofs`: one lemma per handler and per call of a client. `Leads` says that
  all clients are sound again and that the others are `Undisturbed`: told of an event,
  or disconnected for it, and not changed at all if they listen to nothing.
* `Swaybar_proofs`: `IInv`, which adds to the soundness of all clients what each may have
  asked (`AsksSound`) and how far a listener has come (`AsksOnce`). This part is what the
  step of `ServerReads` needs: the code answers a subscription to ticks with two messages
  and uses the client after the first, so the first must not disconnect it. That holds
  because a listener asks once and nothing has been written to it before (`Untouched`),
  and because who sends a tick is not among those the tick may disconnect.

`Sound` is stronger than `StreamsSound` where steps need it: a connected client's stream
has an even number of units, so that whole messages can be added, and a client that
is not connected has no buffer, subscription or request left.

### The pointer (`Pointer_proofs`)

`NothingDangles` is the invariant `OpAlive`, for any windows, workspaces, fingers and
bindings, and for any scene: all kinds of events may be mixed, although the runs keep
apart those whose mixture the code does not end well (see `cursor.c:451` above). So the
leftovers listed there never point to a freed window or panel (a dragged window's target
may be a workspace that is gone, `seatop_move_tiling.c:219`).

`Good(q, W)` is the invariant of a pointer `q`, where all that is pointed to exists or is in
`W`. It adds to `OpAlive` what the handlers rely on: a window is in a workspace that
exists, a place in a window is a part of one, and each operation that writes to its
container has one. Every function of `SeatOps` and `Pointer` has a lemma that it
`Leads` from a good pointer to a good one, without a change of what exists (`Chain`
composes them); the pointer is a record, and a handler that looks up the cursor again,
moves the focus and begins an operation is just their composition.

`W` is what makes closing provable. `Close` frees the window in the middle of the
handler: `seatop_unref` has already run (`UnrefLeads`), the focus then moves to another
window with the freed one still under the pointer (`WindowGone`, `W = {w}`; it must not be
reached by `Keeps`), and only then its surface is destroyed, which ends a press on it
(`SurfaceGoneGood`, `Settle`). With `Unref_TargetStays` this is the step that fails.

### The focus, layer surfaces and the lock (`Desktop_proofs`)

`LayerCorrect` is the part `FocusedLayerMapped` of `FocusSound`: the layer surface with the
focus is mapped, which `seat.c:1344` asserts. `LockCorrect` is `LockKeepsKeyboard`: a lock
ends only when its client unlocks, and until then no step gives the keyboard to a window.
Both hold of any scene, so of any number of layer surfaces and outputs during a lock, also
where a layer surface takes the keyboard from the lock (`"grab"`).

The inductive invariant is `Sound`: the types of what these functions read (`Typed`), and
that the surface in focus is mapped. It is needed because a function keeps a pointer to the
surface over calls of others: `seat_set_focus` drops the surface, sets the focus and takes
the surface back (`SetFocusKeeps`), `arrange_layers` takes the topmost of a list
(`TopmostIsMapped`, which needs the list to hold surfaces only), and the destruction of one
surface passes the focus to another of the same client (`DestroyLayerKeeps`). A surface
that is unmapped or destroyed is dropped first, at a moment when `Sound` is false
(`DropLayerKeeps` asks for `Typed` only).

The functions call each other up to fifteen deep, and several of them loop. Each has a lemma
that says from a sound desktop where it leads: `Focuses` (the layer surface in focus,
all surfaces, outputs and the lock stay), `Arranges` (all but the surface in focus), or
`Leads` (a sound desktop, and a lock still holds). Each of them composes with itself and
implies the next, so that the proof of a chain of calls is the list of the lemmas of its
links. That a lock holds is proved link by link: `SendFocusKeeps` (no keyboard for windows
while input is not allowed), `RelockKeeps` (the keyboard goes to the surface of the lock, which
is no window), and `AbandonLockKeeps` (the client goes, surface by surface, and the lock
stays).

Loops are folds of the community modules, and what they do is shown by induction.
`FoldFacts` proves it once: its constants are the step of a fold and the relation it keeps,
and `FoldKeeps` follows from the recursion by which the modules define a fold, since a set of
positions for which the relation fails would have a smallest one. `Desktop_proofs` takes an
instance of it for each of its folds (`KeepFold` to `LockFold`).

What a lock does not promise by itself is that its client has the keyboard when it
begins: `handle_session_lock` clears the focus only if the focus stack says that a window has
it, so that the rest of `LockHolds` rests on the agreement of keyboard and stack
(`KeyboardWithOwner`), which is model-checked.

### Only model-checked

Liveness under fairness and ENABLED are out of the prover's reach: `CommittedIsShown`,
`DestructionEnds`, `AtomicUpdatesComplete` (the refinement with fairness),
`SwitchCompletes`, `NobodyWaits`. So are modules that reach a RECURSIVE operator: the
search of `Configuration` (`Read`) and the rules of `ViewOps` (`Work`), hence everything
about `Configuration` and `Views`. For the others it is a matter
of work, not of principle; nothing is proved yet about `ContainerTree`,
`Input`, `Scroller`, about the rest of `Desktop` (the focus stack is searched with
`SelectSeq`, which the prover cannot expand; the two theorems above do not depend on what it
finds), about what the bar shows (`BarFollows`), and about the ends of the pointer's
operations (`OperationsSound`, `ClientsLetGo`).

## Plan

1. `Pointer`: operations end (`OperationsSound`), under `Apart` and `SecondFinger`.
2. `ContainerTree`: what detaching, inserting and reaping preserve, and from these lemmas
   the agreement of lists and parents.
3. `Desktop`: the focus stack under destruction of nodes (`StackComplete`), after the
   searches of the stack are folds.
4. Nested columns and spaces in the tree; a second seat.

## Not modelled

"components" in `PROJECT.json` says it part by part. For good: the scene graph,
rendering, decorations and titles (geometry, no protocol of their own), the text of
configuration, IPC messages and criteria, the Lua interpreter, what `swaymsg` and
`swaynag` print and draw. wlroots, the backend and foreign clients appear only through
what `src/` assumes of them: configure serials that are sent in order, surface commits,
destruction events, tests and commits of output states. Of the modelled parts, these are
missing: nested columns and `workspace_wrap_children`, spaces and trails, exclusive zones
of layer surfaces, idle inhibition, virtual keyboards, drag icons and cursor images, the
colour and position settings of outputs.
