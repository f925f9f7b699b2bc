------------------------------ MODULE SeatFocus ------------------------------
(***************************************************************************)
(* Which window, layer surface or lock surface has the keyboard:           *)
(* sway/input/seat.c.  A desktop d is a record of what the focus code      *)
(* reads and writes:                                                       *)
(*   live    the nodes (workspaces and containers) that exist              *)
(*   up      the parent of a node: a window is in a column, or on a        *)
(*           workspace if it floats; a workspace is on an output           *)
(*   full    the fullscreen window of a workspace                          *)
(*   spaces  the workspaces of an output, in order                         *)
(*   homes   the outputs a workspace prefers (output_priority)             *)
(*   outs    the enabled outputs, root->outputs                            *)
(*   stack   seat->focus_stack, focused last first                         *)
(*   has, layer, excl, space   has_focus, focused_layer,                   *)
(*           has_exclusive_layer and workspace of the seat                 *)
(*   kbd     the surface with the keyboard focus (wlr_seat)                *)
(*   active  the windows that were told they are activated                 *)
(*   lock    the session lock, and   shell, order   the layer surfaces     *)
(*   urgent  the urgent windows, oldest first; timed, those whose urgency  *)
(*           a timer ends; flagged, the workspaces that show urgency       *)
(*   popups  popups[p] is the window of the popup p                        *)
(*   ctxs    the launcher contexts (Launcher): of interest here is that a  *)
(*           context follows a workspace that is destroyed to its output   *)
(* There is one seat.  The operators are the functions of seat.c.          *)
(***************************************************************************)
EXTENDS Integers, FiniteSets, SequencesExt

CONSTANTS
  Windows, Columns,
  Workspaces,  \* numbers, which are also their names
  Floating,    \* the windows that open floating
  Sticky,      \* the floating windows that are sticky
  Outputs,
  Fallback,    \* root->fallback_output, never enabled
  Root,        \* &root->node
  None,        \* NULL
  Popups,
  UrgentTimeout  \* config->urgent_timeout > 0

ASSUME FocusAssumption ==
  /\ Windows \cap Columns = {} /\ (Windows \cup Columns) \cap Workspaces = {}
  /\ Workspaces \subseteq Nat
  /\ Sticky \subseteq Floating /\ Floating \subseteq Windows
  /\ Fallback \notin Outputs /\ UrgentTimeout \in BOOLEAN
  /\ {None, Root} \cap (Windows \cup Columns \cup Workspaces \cup Outputs) = {}
  /\ IsFiniteSet(Windows \cup Columns) /\ IsFiniteSet(Outputs)

Containers == Windows \cup Columns
Nodes == Containers \cup Workspaces
AllOutputs == Outputs \cup {Fallback}

-----------------------------------------------------------------------------
(* Reading the tree and the stack.                                          *)

\* node_get_parent
Up(d, n) ==
  IF n \in Nodes THEN d.up[n] ELSE IF n \in AllOutputs THEN Root ELSE None

\* node_has_ancestor: the chain has at most column, workspace, output and root.
Ancestors(d, n) ==
  LET one == Up(d, n)
      two == Up(d, one)
      three == Up(d, two)
  IN  {one, two, three, Up(d, three)} \ {None}

Below(d, a) == {n \in d.live : a \in Ancestors(d, n)}
ViewsOf(d, n) == Windows \cap (Below(d, n) \cup {n})

Only(S) == IF S = {} THEN None ELSE CHOOSE x \in S : TRUE
FirstOf(s) == IF s = <<>> THEN None ELSE Head(s)

\* The elements of the list s that are in S, in their order.
Keep(s, S) == FoldLeft(LAMBDA t, x : IF x \in S THEN Append(t, x) ELSE t, <<>>, s)

WorkspaceOf(d, n) ==
  IF n \in Workspaces THEN n
  ELSE Only(Ancestors(d, n) \cap Workspaces)

\* The first node of the focus stack that is in S.
First(d, S) == FirstOf(SelectSeq(d.stack, LAMBDA n : n \in S))

FocusInactive(d, a) ==
  IF a \in Windows \/ (a \in Workspaces /\ Below(d, a) = {}) THEN a
  ELSE First(d, Below(d, a))

FocusInactiveView(d, a) ==
  IF a \in Windows THEN a ELSE First(d, Below(d, a) \cap Windows)

IsFloating(d, c) == c \in Windows /\ d.up[c] \in Workspaces
OnWorkspace(d, w) == {c \in d.live \cap Containers : WorkspaceOf(d, c) = w}
FocusInactiveTiling(d, w) ==
  First(d, {c \in OnWorkspace(d, w) : ~IsFloating(d, c)})
FocusInactiveFloating(d, w) ==
  First(d, {c \in OnWorkspace(d, w) : IsFloating(d, c)})

ActiveTilingChild(d, p) ==
  IF p \in Windows THEN p
  ELSE First(d, {n \in d.live : d.up[n] = p /\ ~(p \in Workspaces /\ IsFloating(d, n))})

ActiveWorkspace(d, o) ==
  LET w == ActiveTilingChild(d, o) IN IF w # None THEN w ELSE FirstOf(d.spaces[o])

Visible(d, w) == d.up[w] # None /\ ActiveWorkspace(d, d.up[w]) = w

GetFocus(d) == IF d.has \/ d.excl THEN FirstOf(d.stack) ELSE None

FocusedWorkspace(d) == WorkspaceOf(d, FocusInactive(d, Root))

LastKnownWorkspace(d) ==
  WorkspaceOf(d, First(d, {n \in d.live : WorkspaceOf(d, n) # None}))

\* container_obstructing_fullscreen_container
Obstructing(d, c) ==
  LET w == WorkspaceOf(d, c)
  IN  IF w = None \/ d.full[w] \in ViewsOf(d, c) THEN None ELSE d.full[w]

\* No view may have the keyboard during a session lock (seat_is_input_allowed).
InputAllowed(d) == d.lock = None

-----------------------------------------------------------------------------
(* Elementary changes.                                                      *)

\* seat_set_raw_focus
RawFocus(d, n) == [d EXCEPT !.stack = <<n>> \o SelectSeq(@, LAMBDA m : m # n)]

\* handle_new_node: a new node is the last of the stack.
NewNode(d, n, p) ==
  [d EXCEPT !.live = @ \cup {n}, !.up[n] = p, !.stack = Append(@, n)]

\* The seat forgets a node (seat_node_destroy): the last one takes the focus with it.
Forget_KeepsFocus(d, n) == [d EXCEPT !.stack = SelectSeq(@, LAMBDA m : m # n)]

Forget(d, n) == [d EXCEPT !.stack = SelectSeq(@, LAMBDA m : m # n),
                          !.has = @ /\ ToSet(d.stack) # {n}]

\* container_detach, of a container that is destroyed
Detach(d, c) ==
  [d EXCEPT !.live = @ \ {c}, !.up[c] = None, !.active = @ \ {c}]

\* workspace_detach
DetachWorkspace(d, w) ==
  [d EXCEPT !.up[w] = None,
            !.spaces = [o \in AllOutputs |-> Keep(@[o], Workspaces \ {w})]]

\* container_detach and workspace_add_floating, with
\* container_handle_fullscreen_reparent
MoveFloating(d, c, w) ==
  LET v == d.up[c]
      covers == d.full[v] = c
  IN  [d EXCEPT !.up[c] = w,
                !.full = [u \in Workspaces |->
                            IF u = w /\ covers THEN c
                            ELSE IF u = v /\ covers THEN None ELSE @[u]]]

SendFocus(d, n) ==
  IF ~InputAllowed(d) THEN d
  ELSE LET told == IF n \in Workspaces
                   THEN {v \in ViewsOf(d, n) : ~IsFloating(d, v)} ELSE ViewsOf(d, n)
       IN  [d EXCEPT !.active = @ \cup told, !.kbd = IF n \in Windows THEN n ELSE @]

\* view_close_popups
ClosePopups(d, v) ==
  IF v = None THEN d
  ELSE [d EXCEPT !.popups = [p \in Popups |-> IF @[p] = v THEN None ELSE @[p]]]

\* ctx_handle_node_destroy: contexts of the node follow it.
RedirectContexts(d, node, to) ==
  [d EXCEPT !.ctxs = [t \in DOMAIN @ |->
                        IF @[t].node = node THEN [@[t] EXCEPT !.node = to] ELSE @[t]]]

SendUnfocus(d, n) == [d EXCEPT !.active = @ \ ViewsOf(d, n), !.kbd = None]

\* seat_set_focus(seat, NULL) while no layer surface has the focus
ClearFocus(d) ==
  IF GetFocus(d) = None THEN d ELSE [SendUnfocus(d, GetFocus(d)) EXCEPT !.has = FALSE]

\* seat_set_focus_surface(surface, true)
FocusSurface(d, s) ==
  [(IF d.has THEN ClearFocus(d) ELSE d) EXCEPT !.kbd = s]

\* seat_set_focus_surface(lock->focused, false), at the end of seat_set_focus
Relock(d) == IF d.lock = None THEN d ELSE [d EXCEPT !.kbd = d.lock.focused]

-----------------------------------------------------------------------------
(* Urgency.                                                                 *)

IsUrgent(d, v) == v \in ToSet(d.urgent)

\* workspace_detect_urgent
DetectUrgent(d, w) ==
  LET shows == \E v \in OnWorkspace(d, w) : IsUrgent(d, v)
  IN  IF w = None THEN d
      ELSE [d EXCEPT !.flagged = IF shows THEN @ \cup {w} ELSE @ \ {w}]

\* view_set_urgent: a view that has the focus is not made urgent, and the workspace
\* of one that is hidden in the scratchpad is not told.
SetUrgent(d, v, on) ==
  IF IsUrgent(d, v) = on \/ (on /\ GetFocus(d) = v) THEN d
  ELSE DetectUrgent(
         [d EXCEPT !.urgent = SelectSeq(@, LAMBDA u : u # v) \o IF on THEN <<v>> ELSE <<>>,
                   !.timed = @ \ {v}],
         WorkspaceOf(d, v))

\* The node n of the workspace w has got the focus, which was on the workspace from:
\* it is urgent no longer, or, coming from another workspace, for a while only.
Calm(d, n, from, w) ==
  IF ~IsUrgent(d, n) \/ n \in d.timed THEN d
  ELSE IF UrgentTimeout /\ from \notin {None, w} THEN [d EXCEPT !.timed = @ \cup {n}]
  ELSE SetUrgent(d, n, FALSE)

-----------------------------------------------------------------------------
(* Setting the focus.                                                       *)

\* workspace_consider_destroy up to the destruction.
Useless(d, w) ==
  /\ w \in d.live
  /\ OnWorkspace(d, w) = {}
  /\ ~Visible(d, w)
  /\ FocusInactive(d, Root) # w

\* The end of workspace_begin_destroy
WithoutWorkspace(d, w) ==
  LET home == IF d.up[w] = None THEN Root ELSE d.up[w]
  IN  [DetachWorkspace(RedirectContexts(d, w, home), w)
         EXCEPT !.live = @ \ {w}, !.full[w] = None, !.flagged = @ \ {w}]

\* ... of a workspace that is not the one of the seat
ConsiderOther(d, w) ==
  IF w # None /\ Useless(d, w)
  THEN WithoutWorkspace(Forget(d, w), w) ELSE d

MoveAll(d, S, w) == FoldSet(LAMBDA c, e : MoveFloating(e, c, w), d, S)

\* Sticky windows follow the focus to another workspace of the output.
Follow(d, old, w) ==
  IF old \in {None, w} THEN d
  ELSE MoveAll(d, {c \in OnWorkspace(d, old) \cap Sticky : IsFloating(d, c)}, w)

\* The parents go on the stack, then the workspace, then the container.
RaisedTo(d, n, w) ==
  IF n \in Containers THEN SendFocus(RawFocus(RawFocus(d, w), n), n) ELSE RawFocus(d, w)
Raised(d, n, w) ==
  RaisedTo(IF Up(d, n) \in Columns THEN RawFocus(d, Up(d, n)) ELSE d, n, w)

\* seat_set_workspace_focus from the change of the focus on; old is what the output
\* of the workspace w showed, and the workspace that had the focus is considered
\* after it (once, if it is the same: then the second time does nothing).
Enter(d, n, w) ==
  LET old == IF d.up[w] = None THEN None ELSE ActiveWorkspace(d, d.up[w])
      from == FocusedWorkspace(d)
      Focused == [Raised(ClearFocus(d), n, w) EXCEPT !.has = TRUE, !.space = w]
      Popped == ClosePopups(Follow(Focused, old, w), GetFocus(d))
  IN  FoldLeft(ConsiderOther, Calm(Popped, n, from, w), <<old, from>>)

\* seat_set_workspace_focus
SetNodeFocus(d, n) ==
  IF GetFocus(d) = n \/ (n \in Containers /\ Obstructing(d, n) # None) THEN d
  ELSE Enter(d, n, WorkspaceOf(d, n))

\* seat_set_focus while no layer surface has the focus
FocusNode(d, n) ==
  Relock(IF n = None THEN ClearFocus(ClosePopups(d, GetFocus(d))) ELSE SetNodeFocus(d, n))

\* seat_set_focus_layer(NULL): the focus returns to the node that had it.
Layerless(d) == IF d.layer = None THEN d ELSE [d EXCEPT !.layer = None, !.excl = FALSE]
Returning(d) ==
  LET n == FocusInactive(d, Root)
  IN  IF n = None \/ d.layer = None THEN <<>> ELSE <<None, n>>
DropLayer(d) == FoldLeft(FocusNode, Layerless(d), Returning(d))

\* seat_set_focus_layer: an exclusive surface of the two upper layers keeps the
\* focus until it is dropped.
GrabLayer(d, l) ==
  LET s == d.shell[l]
      Kept == [d EXCEPT !.excl = @ \/ (s.level \in {"top", "overlay"} /\ s.wants = "exclusive")]
  IN  IF d.layer = l THEN Kept ELSE [FocusSurface(Kept, l) EXCEPT !.layer = l]

\* seat_set_focus: an exclusive layer surface gets the focus back.
Regrab(d, l) == IF l = None THEN d ELSE GrabLayer(d, l)
SetFocus(d, n) ==
  Relock(Regrab(FoldLeft(FocusNode, Layerless(d), Append(Returning(d), n)),
                IF d.excl THEN d.layer ELSE None))

\* seat_unfocus_unless_client, of a client that has neither windows nor layer
\* surfaces
UnfocusAll(d) ==
  LET Off(e) == IF e.has /\ GetFocus(e) \in Windows THEN Relock(ClearFocus(e)) ELSE e
  IN  Off(DropLayer(d))

-----------------------------------------------------------------------------
(* Destruction of nodes: handle_seat_node_destroy.                          *)

\* The seat leaves the workspace w, which is not in the stack any more.
LeaveWorkspace(d, w) ==
  LET n == FocusInactive(d, Root)
  IN  IF d.space # w THEN d
      ELSE FoldLeft(SetFocus, IF d.stack = <<>> THEN [d EXCEPT !.space = None] ELSE d,
                    IF n = None THEN <<None>> ELSE <<None, n>>)

\* workspace_begin_destroy
DestroyWorkspace(d, w) == WithoutWorkspace(LeaveWorkspace(Forget(d, w), w), w)

\* workspace_consider_destroy
ConsiderDestroy(d, w) == IF w # None /\ Useless(d, w) THEN DestroyWorkspace(d, w) ELSE d

\* Who is next when the container c goes: the last focused view of the closest
\* ancestor that has one, else the workspace.
NextFocus(d, c) ==
  LET In(a) == IF a = None THEN None ELSE FocusInactiveView(d, a)
      w == WorkspaceOf(d, c)
  IN  FirstOf(SelectSeq(<<In(Up(d, c)), In(w), w>>, LAMBDA n : n # None))

\* The focus passes to next, or, if the container did not have it, only the order
\* of the stack changes.
PassFocus(d, next, needed) ==
  LET n == FocusInactive(d, Root)
      w == IF n \in Containers THEN WorkspaceOf(d, n) ELSE None
      Behind == IF w # None THEN RawFocus(RawFocus(d, next), w) ELSE RawFocus(d, next)
  IN  IF next = None \/ (next \in Workspaces /\ ~Visible(d, next)) THEN d
      ELSE IF ~needed THEN RawFocus(Behind, n)
      ELSE IF GetFocus(d) = next THEN SendFocus(d, next)
      ELSE SetFocus(d, next)

ForgetContainer_AlwaysPasses(d, c) ==
  LET e == Forget(d, c)
  IN  PassFocus(e, NextFocus(e, c), GetFocus(d) # None)

ForgetContainer(d, c) ==
  LET e == Forget(d, c)
      focus == GetFocus(d)
  IN  PassFocus(e, NextFocus(e, c), focus # None /\ (focus = c \/ c \in Ancestors(d, focus)))

\* container_begin_destroy
DestroyContainer(d, c) ==
  Detach(ForgetContainer([d EXCEPT !.full = [w \in Workspaces |-> IF @[w] = c THEN None ELSE @[w]]],
                         c), c)

\* container_reap_empty
ReapEmpty(d, k) ==
  IF Below(d, k) # {} THEN d
  ELSE ConsiderDestroy(DestroyContainer(d, k), WorkspaceOf(d, k))

=============================================================================
