--------------------------- MODULE WorkspaceSwitch ---------------------------
(***************************************************************************)
(* Switching workspaces on one output (sway/tree/workspace.c) with the     *)
(* animation that shows it (sway/desktop/animation.c).  An animated switch *)
(* does not move the focus: it installs workspace_switch_callback_end() as *)
(* the callback of the global animation and relies on a transaction being  *)
(* applied, which starts the animation timer, whose last tick moves the    *)
(* focus.  Anything else may happen between these three events.            *)
(*                                                                         *)
(* Transactions are abstracted to the sets of nodes they hold; module      *)
(* Transaction shows that a queued one is applied and frees what it held.  *)
(***************************************************************************)
EXTENDS Naturals, FiniteSets

CONSTANTS
  Workspaces,  \* the workspaces of the output
  Windows,     \* containers that hold a view
  Floating,    \* the windows an animated switch ignores: floating ones
  HomeOf,      \* HomeOf[x]: the workspace of window x
  First,       \* the workspace focused at first
  None,        \* NULL
  NSteps,      \* ticks of one animation (duration_ms / frequency_ms)
  Enabled,     \* the animation paths that the configuration enables
  MaxEdits,    \* bound on the commands that only arrange or open windows
  Calm         \* TRUE: nothing closes or is asked for that a switch cannot stand
               \* (MayClose, MaySwitch)

Paths == {"default", "workspace_switch", "window_open", "window_move", "window_size"}

\* struct workspace_switch_data: the switch under way and the windows it moves.
Switching == [from : Workspaces, to : Workspaces, wins : SUBSET Windows]

ASSUME SwitchAssumption ==
  /\ First \in Workspaces /\ Floating \subseteq Windows
  /\ HomeOf \in [Windows -> Workspaces]
  /\ Workspaces \cap Windows = {} /\ None \notin Workspaces \cup Windows \cup Switching
  /\ NSteps \in Nat \ {0} /\ MaxEdits \in Nat
  /\ Enabled \subseteq Paths /\ Calm \in BOOLEAN

VARIABLES
  asked,     \* the workspace the user asked for last
  focus,     \* seat_get_focused_workspace()
  exists,    \* the workspaces that exist
  life,      \* of a window: "none", "live" or "closing" (destroying)
  callback,  \* animation.callbacks: None stands for the default ones, a record
             \* for workspace_switch_callback_end with its workspace_switch_data
  filters,   \* root->filters: None for the default ones, or the same data
  path,      \* animation.path
  timer,     \* is animation.timer armed
  step,      \* animation.step
  pending,   \* the nodes of server.pending_transaction
  queued,    \* the nodes of server.queued_transaction
  skipped,   \* history: the workspaces whose animated switch another one replaced
             \* before it ended, until they get the focus or are destroyed
  edits

vars == <<asked, focus, exists, life, callback, filters, path, timer, step,
          pending, queued, skipped, edits>>

Nodes == Workspaces \cup Windows
On(w) == {x \in Windows : HomeOf[x] = w /\ life[x] = "live"}

Init ==
  /\ asked = First /\ focus = First
  /\ exists = {First} \cup {HomeOf[x] : x \in Windows}
  /\ life = [x \in Windows |-> "live"]
  /\ callback = None /\ filters = None
  /\ path = "default" /\ timer = FALSE /\ step = 0
  /\ pending = {} /\ queued = {} /\ skipped = {} /\ edits = 0

-----------------------------------------------------------------------------
\* transaction_commit_dirty with the nodes D dirty.
Commit(D) ==
  IF queued = {} THEN queued' = D /\ UNCHANGED pending
                 ELSE pending' = pending \cup D /\ UNCHANGED queued

\* workspace_consider_destroy(w), the windows S being left on it and v visible.
Destroyed(w, S, v) == IF S = {} /\ w # v THEN {w} ELSE {}

\* select_visible_containers collects the tiling windows of a workspace.
Selected(w) == IF w \in exists THEN On(w) \ Floating ELSE {}

\* Where the environment is calm, the windows of a switch under way stay open, and
\* so do those of the workspace it goes to.
MayClose(x) ==
  Calm /\ callback # None => x \notin callback.wins /\ HomeOf[x] # callback.to

\* Nor does the user ask for the workspace that has the focus still, or switch
\* between workspaces that exist and have no tiling window.
MaySwitch(w) ==
  Calm => /\ callback # None => w # focus
          /\ w \in exists /\ w # focus => Selected(focus) \cup Selected(w) # {}

\* The workspaces that were asked for and are not switched to, once another is.
Skipped == skipped \cup IF callback = None THEN {} ELSE {callback.to}

\* The workspace command: workspace_create when there is none of that name,
\* then workspace_switch.  Animated, the switch only changes callbacks and
\* filters; the windows it moves (and a new workspace) become dirty.  The data of a
\* switch that is under way is replaced.
AnimatedSwitch_KeepsFirst(w) ==
  LET data == [from |-> focus, to |-> w, wins |-> Selected(focus) \cup Selected(w)]
  IN  /\ w # focus /\ "workspace_switch" \in Enabled
      /\ callback' = IF callback = None THEN data ELSE callback
      /\ filters' = data
      /\ exists' = exists \cup {w}
      /\ skipped' = Skipped \ {w}
      /\ Commit(data.wins \cup ({w} \ exists))
      /\ UNCHANGED focus
AnimatedSwitch(w) ==
  LET data == [from |-> focus, to |-> w, wins |-> Selected(focus) \cup Selected(w)]
  IN  /\ w # focus /\ "workspace_switch" \in Enabled
      /\ callback' = data /\ filters' = data
      /\ exists' = exists \cup {w}
      /\ skipped' = Skipped \ {w}
      /\ Commit(data.wins \cup ({w} \ exists))
      /\ UNCHANGED focus

\* Otherwise the focus moves at once and the workspace is arranged; an animation
\* that is under way keeps its callbacks.
PlainSwitch(w) ==
  /\ w = focus \/ "workspace_switch" \notin Enabled
  /\ focus' = w
  /\ exists' = (exists \cup {w}) \ Destroyed(focus, On(focus), w)
  /\ skipped' = (skipped \cap exists') \ {w}
  /\ Commit({w, focus} \cup On(w))
  /\ UNCHANGED <<callback, filters>>

Switch(w) ==
  /\ MaySwitch(w) /\ edits < MaxEdits
  /\ asked' = w /\ path' = "workspace_switch" /\ edits' = edits + 1
  /\ AnimatedSwitch(w) \/ PlainSwitch(w)
  /\ UNCHANGED <<life, timer, step>>

\* Any command that arranges the focused workspace and commits.  Those that move
\* or resize windows select the animation for it first.
Edit(p) ==
  /\ edits < MaxEdits /\ edits' = edits + 1
  /\ path' = p
  /\ Commit({focus} \cup On(focus))
  /\ UNCHANGED <<asked, focus, exists, life, callback, filters, timer, step, skipped>>

\* view_map: a window opens on the focused workspace.
Open(x) ==
  /\ life[x] = "none" /\ HomeOf[x] = focus
  /\ edits < MaxEdits /\ edits' = edits + 1
  /\ life' = [life EXCEPT ![x] = "live"]
  /\ path' = "window_open"
  /\ Commit({x, focus})
  /\ UNCHANGED <<asked, focus, exists, callback, filters, timer, step, skipped>>

\* view_unmap: a window closes, and with it an empty workspace nobody sees.
Close(x) ==
  LET w == HomeOf[x] IN
  /\ life[x] = "live" /\ MayClose(x)
  /\ life' = [life EXCEPT ![x] = "closing"]
  /\ exists' = exists \ Destroyed(w, On(w) \ {x}, focus)
  /\ skipped' = skipped \cap exists'
  /\ Commit({x, w})
  /\ UNCHANGED <<asked, focus, callback, filters, path, timer, step, edits>>

\* animation_next_key replaces the timer by a new one when the path is enabled.
NextKey_KeepsTimer ==
  IF path \in Enabled /\ step = 0
  THEN step' = 1 /\ timer' = TRUE
  ELSE UNCHANGED <<step, timer>>
NextKey ==
  IF path \in Enabled
  THEN step' = 1 /\ timer' = TRUE
  ELSE UNCHANGED <<step, timer>>

\* transaction_progress: the queued transaction is applied, the animation starts
\* again, the closing windows nothing refers to any more are freed, and the
\* pending transaction becomes the queued one.
Apply ==
  /\ queued # {}
  /\ NextKey
  /\ life' = [x \in Windows |->
                IF life[x] = "closing" /\ x \in queued \ pending THEN "none"
                ELSE life[x]]
  /\ queued' = pending /\ pending' = {}
  /\ UNCHANGED <<asked, focus, exists, callback, filters, path, skipped, edits>>

\* timer_callback counts a step before it looks whether the animation goes on.
MoreSteps == step + 1 <= NSteps

\* timer_callback: an intermediate step.
Tick ==
  /\ timer /\ MoreSteps
  /\ step' = step + 1
  /\ UNCHANGED <<asked, focus, exists, life, callback, filters, path, timer,
                 pending, queued, skipped, edits>>

\* The filters and callbacks after workspace_switch_callback_end.
Reset == callback' = None /\ filters' = None

\* workspace_switch_callback_end: the focus moves to the workspace the data of
\* the callback names.
FocusMoves_Nowhere(data) == data.from
FocusMoves(data) == data.to
SwitchEnd ==
  LET to == FocusMoves(callback) IN
  /\ focus' = to
  /\ exists' = exists \ Destroyed(focus, On(focus), to)
  /\ skipped' = (skipped \cap exists') \ {to}
  /\ Reset
  /\ Commit(callback.wins \cup {callback.from, to})

\* timer_callback: the last step.
Last ==
  /\ timer /\ ~MoreSteps
  /\ timer' = FALSE /\ step' = step + 1
  /\ path' = "default"
  /\ IF callback = None
     THEN UNCHANGED <<focus, exists, callback, filters, pending, queued, skipped>>
     ELSE SwitchEnd
  /\ UNCHANGED <<asked, life, edits>>

Next ==
  \/ \E w \in Workspaces : Switch(w)
  \/ \E p \in {path, "window_move", "window_size"} : Edit(p)
  \/ \E x \in Windows : Open(x) \/ Close(x)
  \/ Apply
  \/ Tick
  \/ Last

Spec == Init /\ [][Next]_vars

\* Transactions are applied (QueuedIsApplied of module Transaction), and the
\* event loop dispatches an armed timer.
Fairness == WF_vars(Apply) /\ WF_vars(Tick \/ Last)
FairSpec == Spec /\ Fairness

-----------------------------------------------------------------------------
(* Properties *)

\* Types, and an armed timer is always within its animation.
TypeOK ==
  /\ asked \in Workspaces /\ focus \in Workspaces
  /\ exists \subseteq Workspaces
  /\ life \in [Windows -> {"none", "live", "closing"}]
  /\ callback \in {None} \cup Switching /\ filters \in {None} \cup Switching
  /\ path \in Paths /\ timer \in BOOLEAN /\ step \in 0 .. NSteps + 1
  /\ timer => step \in 1 .. NSteps
  /\ pending \subseteq Nodes /\ queued \subseteq Nodes /\ skipped \subseteq Workspaces
  /\ edits \in 0 .. MaxEdits

\* The scene is filtered by the data of the switch under way, which is freed at
\* its end: filters left behind would read freed memory and hide every other
\* workspace (root->filters, workspace_switch_callback_end).
FiltersFollowSwitch == filters = callback

\* A switch under way is not forgotten: a transaction that will start the
\* animation is on its way, or the timer that ends it is armed.  Nothing else
\* calls workspace_switch_callback_end.
SwitchHasFuture == callback # None => queued # {} \/ timer

\* The data of the callback refers to nodes that were not freed, whatever closed
\* before the switch or closes on other workspaces (workspace_switch_data,
\* transaction_destroy).
CallbackDataAlive ==
  callback # None =>
    /\ {callback.from, callback.to} \subseteq exists
    /\ \A x \in callback.wins : life[x] # "none"

\* Empty workspaces do not pile up: one that is neither focused nor about to be
\* is destroyed (workspace_consider_destroy), unless it was made for a switch that
\* another one replaced.
EmptyWorkspacesGo ==
  \A w \in exists :
    On(w) # {} \/ w \in skipped \/ w = focus \/ (callback # None /\ w = callback.to)

\* A switch under way is whole: it has its filters, a future, and its data; and it leaves
\* no workspace behind.
SwitchSound ==
  /\ TypeOK /\ FiltersFollowSwitch /\ SwitchHasFuture /\ CallbackDataAlive
  /\ EmptyWorkspacesGo

\* The focus only ever moves to the workspace the user asked for last, also when
\* that was during the switch to another one ("Switches to the specified
\* workspace", scroll.5.scd:1401).
FocusFollowsRequest == [][focus' # focus => focus' = asked']_vars

\* A workspace that is asked for gets the focus, unless another one is asked for
\* ("Switches to the specified workspace", scroll.5.scd).
SwitchCompletes ==
  \A w \in Workspaces : asked = w ~> (focus = w \/ asked # w)
=============================================================================
