---------------------------- MODULE ContainerTree ----------------------------
(***************************************************************************)
(* The container tree of the compositor under commands, window events and  *)
(* drags: sway/tree/container.c, root.c, layout.c and the commands move,   *)
(* floating, fullscreen, scratchpad, swap and selection.  Each action is   *)
(* one command or event, with everything it does to the tree.              *)
(*                                                                         *)
(* Which window a command acts on, which has the focus, the modifiers of   *)
(* the workspaces and the focused workspace change freely in between and   *)
(* are chosen by each action.  What a command reads of the state that the  *)
(* last transaction applied for a workspace, its focused inactive child,   *)
(* is up to date unless the scene is "late", where it is what Applied      *)
(* recorded; that of a column is always taken to be up to date.            *)
(***************************************************************************)
EXTENDS LayoutOps

CONSTANTS
  Scenes,      \* sets of commands and events, one of which is used all along;
               \* "late" among them: commands come before transactions are applied;
               \* "any ...": a guard of that name below does not apply
  Insertions,  \* the insertion positions that workspaces use
  Focuses,     \* what may hold the focus: "view", "column", "workspace"
  MoveFocus,   \* fullscreen_movefocus: "none", "nofollow", "follow"
  MaxLate      \* bound on the windows that are open in a late scene

ASSUME TreeAssumption ==
  /\ None \notin Containers \cup Workspaces /\ Freed \notin Containers \cup {None}
  /\ Views \cap Columns = {} /\ Workspaces \cap Containers = {}
  /\ Insertions \subseteq Positions
  /\ Focuses \subseteq {"view", "column", "workspace"}
  /\ MoveFocus \in {"none", "nofollow", "follow"}
  /\ MaxLate \in Nat /\ Horizontal \in BOOLEAN

VARIABLES
  scene,    \* the member of Scenes in use
  tree,
  did     \* the command just carried out, as far as a property is about it

vars == <<scene, tree, did>>

Init == scene \in Scenes /\ tree = EmptyTree /\ did = <<"other">>

-----------------------------------------------------------------------------
(* What a command may find.                                                 *)

Settled == "late" \notin scene

Mapped == Views \cap tree.live

\* The container a command is for.
Targets == IF "column" \in Focuses THEN tree.live ELSE Mapped

\* current.focused_inactive_child of a workspace
Active(w) ==
  IF ~Settled THEN {tree.current[w]}
  ELSE IF tree.list[Tiling(w)] = <<>> THEN {None}
  ELSE ToSet(tree.list[Tiling(w)])

\* ... and of all columns, a being the window focused last among its siblings
ActiveChild(a) ==
  [k \in Columns |->
     IF tree.list[k] = <<>> THEN None
     ELSE IF Contains(tree.list[k], a) THEN a ELSE Head(tree.list[k])]

\* seat_get_focus_inactive_tiling(w) in the tree t
TilingFocus(t, w) ==
  IF t.list[Tiling(w)] = <<>> THEN {None}
  ELSE {c \in t.live : /\ t.ws[c] = w /\ ~IsFloating(t, Toplevel(t, c))
                       /\ c \in Views \/ "column" \in Focuses}

\* The container next to which a new window of w opens: none if the focus is
\* on the workspace itself.
OpensBeside(w) ==
  TilingFocus(tree, w) \cup (IF "workspace" \in Focuses THEN {None} ELSE {})

\* The exclusions: cases that the code does not handle, each explored by the
\* scenes that name it.
\* A whole column moves with none of its other windows fullscreen on the
\* workspace: the pointer of the workspace it leaves is not cleared.
MovesWhole(c, byOld) ==
  byOld /\ ~IsFloating(tree, c) /\ "any move" \notin scene =>
    \A d \in Below(tree, Toplevel(tree, c)) \ {c} : tree.full[d] # "workspace"

\* The column a that was recorded as the active one of w is still there, and
\* there is one if a window is to join it.
Fresh(c, w, a, byOld, byNew) ==
  tree.ws[c] # w /\ ~IsFloating(tree, c) /\ "any move" \notin scene =>
    IF a = None THEN byOld \/ byNew \/ tree.list[Tiling(w)] = <<>>
                ELSE tree.ws[a] = w

\* What covers all outputs stays in its list: taking it out ends the cover but
\* not the mode.
StaysPut(c) == tree.full[c] = "global" => "any fullscreen" \in scene

-----------------------------------------------------------------------------
(* Composed operations.                                                     *)

\* container_set_floating; ref and what follows say where a container that
\* returns to the tiling is inserted.
Float(t, c) ==
  LET old == t.up[c]
      u == IF SelectionEnabled(t, old) THEN [t EXCEPT !.selected = @ \cup {c}] ELSE t
  IN  IF IsFloating(t, c) THEN t
      ELSE IF old = None THEN Bad(t)
      ELSE ReapEmpty(AddFloating(Detach(u, c), t.ws[c], c), old)

Unfloat(t, c, ref, byColumn, pos) ==
  IF ~IsFloating(t, c) THEN t
  ELSE AddView(Detach(RemoveIfScratch(t, c), c), t.ws[c], ref, c, byColumn, pos)

\* root_scratchpad_add_container(c, NULL)
ScratchpadAdd(t, c) ==
  LET u == IF t.full[c] = "none" THEN t ELSE FullscreenDisable(t, c)
      v == Detach(Float(u, c), c)
      x == ReapIfSet(v, t.up[c])
  IN  IF c \in t.scratch THEN t
      ELSE [x EXCEPT !.scratch = @ \cup {c}, !.pad = Append(@, c)]

\* root_scratchpad_show(c) on the focused workspace w
ScratchpadShow(t, c, w) ==
  LET u == DisableOnWorkspace(t, w)
      v == DisableIfSet(u, u.global)
      top == IF t.ws[c] = None THEN Toplevel(t, c) ELSE c
  IN  AddFloating(IF t.ws[c] = None THEN v ELSE Detach(v, c), w, top)

ScratchpadHide_KeepFullscreen(t, c) ==
  [Detach(t, c) EXCEPT !.pad = SelectSeq(@, LAMBDA d : d # c) \o <<c>>]

ScratchpadHide(t, c) ==
  LET Off(u, d) == IF u.full[d] = "none" THEN u ELSE FullscreenDisable(u, d)
      u == FoldLeft(Off, t, <<c>> \o (IF c \in Columns THEN t.list[c] ELSE <<>>))
  IN  IF t.ws[c] = None
      THEN IF t.full[c] = "global" THEN t ELSE Bad(t)
      ELSE [Detach(u, c) EXCEPT !.pad = SelectSeq(@, LAMBDA d : d # c) \o <<c>>]

\* scratchpad_hide_focused, the container f having the focus
HideFocused(t, f) ==
  LET Visible == SelectSeq(t.pad, LAMBDA d : t.ws[d] # None)
  IN  IF f # None /\ f \in t.scratch THEN ScratchpadHide(t, f)
      ELSE IF Visible = <<>> THEN t ELSE ScratchpadHide(t, Head(Visible))

\* scratchpad_toggle_container, w and f having the focus
ToggleContainer(t, c, w, f) ==
  LET u == HideFocused(t, f)
  IN  IF u.ws[c] = w THEN ScratchpadHide(u, c) ELSE ScratchpadShow(u, c, w)

\* container_move_to_workspace
ToWorkspace(t, c, w, active, byOld, byNew, pos) ==
  LET u == RemoveIfScratch(t, c)
  IN  IF t.ws[c] = w THEN u
      ELSE IF IsFloating(u, c) THEN AddFloating(Detach(u, c), w, c)
      ELSE MoveToWorkspace(u, c, w, active, byOld, byNew, pos)

\* cmd_move_container once the workspace w is known, fw having the focus
MoveContainer(t, c, w, fw, active, byOld, byNew, pos) ==
  LET u == IF t.full[c] = "workspace" THEN SetFullscreen(t, c, "none") ELSE t
      v == IF IsHidden(u, Toplevel(u, c)) THEN ScratchpadShow(Detach(u, c), c, fw)
                                          ELSE u
  IN  ReapIfSet(ToWorkspace(v, c, w, active, byOld, byNew, pos), t.up[c])

\* workspace_add_tiling, with the default workspace_layout
AddTiling(t, w, c) ==
  LET u == ReapIfSet(DetachIfAttached(t, c), t.up[c])
      v == ListInsert(u, Tiling(w), Len(u.list[Tiling(w)]), c)
  IN  FullscreenReparent(SetWorkspace(v, c, w), c)

SwapPlaces_SameIndex(t, c, d) ==
  LET Place(u, x, p, floats, w, i) ==
        IF p # None THEN InsertChild(u, p, x, i)
        ELSE IF floats THEN AddFloating(u, w, x)
        ELSE InsertTiling(DetachIfAttached(u, x), w, x, i)
      Index(u, x) == Find(u.list[Siblings(u, x)], x)
      u == Place(t, c, t.up[d], IsFloating(t, d), t.ws[d], Index(t, d))
  IN  Place(u, d, t.up[c], IsFloating(t, c), t.ws[c], Index(t, d))

\* swap_places
SwapPlaces(t, c, d) ==
  LET Place(u, x, p, floats, w, i) ==
        IF p # None THEN InsertChild(u, p, x, i)
        ELSE IF floats THEN AddFloating(u, w, x)
        ELSE InsertTiling(DetachIfAttached(u, x), w, x, i)
      Index(u, x) == Find(u.list[Siblings(u, x)], x)
      u == Place(t, c, t.up[d], IsFloating(t, d), t.ws[d], Index(t, d))
  IN  Place(u, d, t.up[c], IsFloating(t, c), t.ws[c], Index(t, c))

\* container_swap, the workspace w having the focus
Swap(t, c, d, w) ==
  LET ShowHidden(u, x) == IF IsHidden(u, x) THEN ScratchpadShow(u, x, w) ELSE u
      Out(u, x) == IF x \in t.scratch THEN ScratchpadRemove(ShowHidden(u, x), x)
                                      ELSE u
      NoFull(u, x) == IF u.full[x] = "none" THEN u ELSE FullscreenDisable(u, x)
      out == Out(Out(t, c), d)
      flat == NoFull(NoFull(out, c), d)
      Back(u, x, y) ==  \* y returns to the scratchpad in the place of x
        IF x \notin t.scratch THEN u
        ELSE IF IsHidden(t, x) THEN ScratchpadAdd(u, y)
        ELSE ScratchpadShow(ScratchpadAdd(u, y), y, w)
      Full(u, x, y) ==
        IF out.full[x] = "none" THEN u ELSE SetFullscreen(u, y, out.full[x])
      placed == Back(Back(SwapPlaces(flat, c, d), c, d), d, c)
  IN  Full(Full(placed, c, d), d, c)

-----------------------------------------------------------------------------
(* Actions.                                                                 *)

Enabled(command) == command \in scene /\ ~tree.bad

\* view_map, with the workspace and the sibling chosen; what the window asks
\* for: floats and full.
Map(v) ==
  /\ Enabled("map") /\ v \notin tree.live
  /\ Settled \/ Cardinality(Mapped) < MaxLate
  /\ \E w \in Workspaces, byColumn, floats, full \in BOOLEAN, pos \in Insertions :
     \E a \in OpensBeside(w) :
       /\ floats => "float" \in scene
       /\ full => "fullscreen" \in scene
       /\ tree' =
            LET t == AddView([tree EXCEPT !.live = @ \cup {v}], w, a, v, byColumn, pos)
                u == IF floats THEN Float(t, v) ELSE t
                x == IF full THEN SetFullscreen(u, v, "workspace") ELSE u
            IN  IF full \/ x.covers[w] = None THEN x
                ELSE CASE MoveFocus = "none" -> x
                       [] MoveFocus = "nofollow" -> FullscreenDisable(x, x.covers[w])
                       [] MoveFocus = "follow" -> PassFullscreen(x, x.covers[w], v)

\* view_unmap
Unmap(v) ==
  /\ Enabled("unmap") /\ v \in Mapped
  /\ tree' = ReapIfSet(BeginDestroy(tree, v), tree.up[v])

\* cmd_move_container to a workspace, an output or the workspace of a marked
\* container.  Which workspace has the focus matters only if c is hidden in the
\* scratchpad.
MoveToWs(c, w) ==
  /\ Enabled("move") /\ c \in Targets /\ tree.full[c] # "global"
  /\ \E fw \in IF IsHidden(tree, Toplevel(tree, c)) THEN Workspaces ELSE {w} :
     \E a \in Active(w), byOld, byNew \in BOOLEAN, pos \in Insertions :
       /\ MovesWhole(c, byOld) /\ Fresh(c, w, a, byOld, byNew)
       /\ tree' = MoveContainer(tree, c, w, fw, a, byOld, byNew, pos)

\* ... if the marked container d is hidden in the scratchpad: it has none
MoveToMark(c, d) ==
  /\ Enabled("mark") /\ {c, d} \subseteq Targets /\ tree.full[c] # "global"
  /\ tree.ws[d] = None /\ tree' = Bad(tree)

\* cmd_move_in_direction
MoveInDirection(c) ==
  /\ Enabled("direction") /\ c \in Targets /\ tree.full[c] = "none"
  /\ ~IsFloating(tree, c)
  /\ \E dir \in Directions, byColumn \in BOOLEAN :
       tree' = ReapIfSet(MoveMode(tree, c, dir, byColumn), tree.up[c])

\* ... with the argument nomode
MoveNoModeInDirection(c, dir) ==
  /\ Enabled("nomode") /\ c \in Targets /\ tree.full[c] = "none"
  /\ ~IsFloating(tree, c)
  /\ \E pos \in Insertions, a \in Views :
       tree' = ReapIfSet(MoveNoMode(tree, c, dir, ActiveChild(a), pos), tree.up[c])
  /\ did' = <<"nomode", c, dir>>

\* cmd_floating
FloatingEnable(c) ==
  /\ Enabled("float") /\ c \in Targets /\ ~IsFloating(tree, c) /\ StaysPut(c)
  /\ tree' = Float(tree, c)

FloatingDisable(c) ==
  /\ Enabled("unfloat") /\ c \in Targets /\ IsFloating(tree, c)
  /\ ~IsHidden(tree, c) /\ StaysPut(c)
  /\ \E ref \in TilingFocus(Detach(RemoveIfScratch(tree, c), c), tree.ws[c]),
        byColumn \in BOOLEAN, pos \in Insertions :
       tree' = Unfloat(tree, c, ref, byColumn, pos)

\* cmd_fullscreen
Fullscreen(c) ==
  /\ Enabled("fullscreen") /\ c \in Targets
  /\ \E mode \in Modes :
       /\ mode = "global" => "global" \in scene
       /\ tree' = SetFullscreen(tree, c, mode)

\* handle_request_fullscreen of a floating window for an output whose active
\* workspace is w
FullscreenOnFloating(v, w) ==
  /\ Enabled("request") /\ v \in Mapped /\ IsFloating(tree, v)
  /\ tree.ws[v] \notin {None, w} /\ StaysPut(v)
  /\ tree' = LET t == AddFloating(tree, w, v)
             IN  IF t.full[v] = "none" THEN SetFullscreen(t, v, "workspace") ELSE t

\* ... and of a tiled one
FullscreenOnTiled(v, w) ==
  /\ Enabled("request") /\ v \in Mapped /\ ~IsFloating(tree, v)
  /\ tree.ws[v] \notin {None, w} /\ StaysPut(v)
  /\ tree' = LET t == AddTiling(tree, w, v)
             IN  IF t.full[v] = "none" THEN SetFullscreen(t, v, "workspace") ELSE t

\* cmd_move_to_scratchpad
MoveToScratchpad(c) ==
  /\ Enabled("scratchpad") /\ c \in Targets
  /\ tree' = LET t == IF tree.full[c] = "none" THEN tree
                      ELSE SetFullscreen(tree, c, "none")
             IN  IF c \notin t.scratch THEN ScratchpadAdd(t, c)
                 ELSE IF t.ws[c] # None THEN ScratchpadHide(t, c) ELSE t

\* scratchpad_toggle_auto, f and the workspace w having the focus
ScratchpadToggle ==
  /\ Enabled("scratchpad") /\ tree.pad # <<>>
  /\ \E w \in Workspaces :
     \E f \in {c \in Targets : tree.ws[c] = w} \cup {None} :
       tree' =
         LET Here == SelectSeq(tree.list[Floating(w)],
                               LAMBDA c : c \in tree.scratch /\ c # f)
             Visible == SelectSeq(tree.pad, LAMBDA c : tree.ws[c] # None)
         IN  IF f # None /\ f \in tree.scratch THEN ScratchpadHide(tree, f)
             ELSE IF Here # <<>> THEN ScratchpadShow(tree, Head(Here), w)
             ELSE IF Visible # <<>> THEN ScratchpadShow(tree, Head(Visible), w)
             ELSE ScratchpadShow(tree, Head(tree.pad), w)

\* cmd_scratchpad with criteria, the workspace w having the focus
ScratchpadToggleContainer(c, w) ==
  /\ Enabled("criteria") /\ c \in tree.scratch
  /\ \E f \in {d \in Targets : tree.ws[d] = w} \cup {None} :
       tree' = ToggleContainer(tree, c, w, f)

\* scratchpad_jump: hide what is visible elsewhere, and show the only window.
\* The walk goes by index over a list that root_scratchpad_hide reorders, so
\* the container after one that was hidden is passed over.  With several
\* windows layout_jump_scratchpad follows, which is not modelled: it lends the
\* scratchpad list to the workspace as its floating windows until a key ends it.
ScratchpadJump ==
  /\ Enabled("jump") /\ tree.pad # <<>>
  /\ \E w \in Workspaces :
       tree' =
         LET Hide(t, i) == IF t.ws[t.pad[i]] \in {None, w} THEN t
                           ELSE ScratchpadHide(t, t.pad[i])
             t == FoldLeftDomain(Hide, tree, tree.pad)
         IN  IF Len(t.pad) = 1 THEN ScratchpadShow(t, Head(t.pad), w) ELSE t

\* cmd_swap.  Which workspace has the focus matters only if one of the two is
\* in the scratchpad.
SwapWith(c, d) ==
  /\ Enabled("swap") /\ c # d /\ {c, d} \subseteq Mapped
  /\ \E w \in IF {c, d} \cap tree.scratch = {} THEN {tree.ws[c]} ELSE Workspaces :
       tree' = Swap(tree, c, d, w)
  /\ did' = <<"swap", c, d>>

\* finalize_move of a tiling drag.  What is dragged and what it is dropped on
\* is visible: not behind a fullscreen container.
Seen(c) == /\ tree.ws[c] # None /\ tree.covers[tree.ws[c]] \in {None, c}
           /\ tree.global \in {None, c}

Drag(c, g, edge, byColumn) ==
  /\ Enabled("drag") /\ {c, g} \subseteq Mapped /\ Seen(c) /\ Seen(g)
  /\ tree.full[c] = "none" /\ ~IsFloating(tree, c) /\ ~IsFloating(tree, g)
  /\ tree.ws[g] = tree.ws[c] =>
       Cardinality({v \in Mapped : tree.ws[v] = tree.ws[c] /\ ~IsFloating(tree, v)}) > 1
  /\ tree' = DragToContainer(tree, c, g, edge, byColumn)
  /\ did' = <<"drag", c, g, edge, byColumn>>

DragToWs(c) ==
  /\ Enabled("drag_workspace") /\ c \in Mapped /\ Seen(c)
  /\ tree.full[c] = "none" /\ ~IsFloating(tree, c)
  /\ \E w \in Workspaces, byColumn \in BOOLEAN, pos \in Insertions :
     \E a \in Active(w) :
       /\ tree.global = None /\ tree.covers[w] = None
       /\ tree' = DragToWorkspace(tree, c, w, a, byColumn, pos)

\* cmd_selection
ToggleSelection(c) ==
  /\ Enabled("select") /\ c \in Targets /\ tree.ws[c] # None
  /\ \E byColumn \in BOOLEAN : tree' = SelectionToggle(tree, c, byColumn)

SelectWorkspace(w) == Enabled("select") /\ tree' = SelectionWorkspace(tree, w)

ResetSelection == Enabled("select") /\ tree' = SelectionReset(tree)

MoveSelection ==
  /\ Enabled("selection_move")
  /\ \E w \in Workspaces, pos \in Insertions, order \in SetToSeqs(Workspaces) :
     \E a \in Active(w) :
       tree' \in LET m == SelectionMove(tree, w, a, pos, order)
                 IN  {m.tree, SelectionFocus(m.tree, w, m.index)}
  /\ did' = <<"selection move">>

\* A transaction is applied: apply_workspace_state, apply_container_state.
Applied ==
  /\ ~Settled /\ ~tree.bad
  /\ \E f \in [Workspaces -> (tree.live \ Views) \cup {None}] :
       /\ \A w \in Workspaces :
            LET s == tree.list[Tiling(w)]
            IN  IF s = <<>> THEN f[w] = None ELSE Contains(s, f[w])
       /\ tree' = [tree EXCEPT !.current = f]

\* An empty workspace is destroyed and created again.
Recreate(w) ==
  /\ ~Settled /\ ~tree.bad
  /\ tree.list[Tiling(w)] = <<>> /\ tree.list[Floating(w)] = <<>>
  /\ tree' = [tree EXCEPT !.current[w] = None]

\* After a bad access the model says nothing more.
Crashed == tree.bad /\ UNCHANGED tree

Commanded ==
  \/ \E c \in Targets, dir \in Directions : MoveNoModeInDirection(c, dir)
  \/ \E c, d \in Targets : SwapWith(c, d)
  \/ \E c, g \in Mapped, edge \in Edges, byColumn \in BOOLEAN :
       Drag(c, g, edge, byColumn)
  \/ MoveSelection

Other ==
  \/ \E v \in Views : Map(v) \/ Unmap(v)
  \/ \E c \in Targets :
       \/ MoveInDirection(c)
       \/ FloatingEnable(c) \/ FloatingDisable(c) \/ Fullscreen(c)
       \/ MoveToScratchpad(c) \/ DragToWs(c) \/ ToggleSelection(c)
  \/ \E c \in Targets, w \in Workspaces :
       \/ MoveToWs(c, w) \/ ScratchpadToggleContainer(c, w)
       \/ FullscreenOnFloating(c, w) \/ FullscreenOnTiled(c, w)
  \/ \E c, d \in Targets : MoveToMark(c, d)
  \/ \E w \in Workspaces : SelectWorkspace(w) \/ Recreate(w)
  \/ ScratchpadToggle \/ ScratchpadJump \/ ResetSelection
  \/ Applied \/ Crashed

Next == \/ Commanded /\ UNCHANGED scene
        \/ Other /\ did' = <<"other">> /\ UNCHANGED scene

Spec == Init /\ [][Next]_vars

-----------------------------------------------------------------------------
(* Properties.                                                              *)

\* Every field has its type.
TypeOK == tree \in Trees

\* Lists and pointers agree.  What a list holds is alive, once, and points
\* back to that list; a container on a workspace is in the list its pointers
\* say; what a column holds is on the workspace of the column; and only the
\* containers hidden in the scratchpad, with what is below them, are on no
\* workspace (container_detach, container_insert_child, swap_views, ...).
Linked ==
  /\ \A l \in Lists : LET s == tree.list[l] IN
       /\ IsInjective(s)
       /\ \A c \in ToSet(s) : c \in tree.live /\ Siblings(tree, c) = l
  /\ \A c \in tree.live :
       /\ Siblings(tree, c) # None => Contains(tree.list[Siblings(tree, c)], c)
       /\ tree.up[c] # None => tree.ws[c] = tree.ws[tree.up[c]]
       /\ tree.ws[c] = None => Toplevel(tree, c) \in tree.scratch

\* A workspace is a row of columns, a column holds windows and never nothing:
\* the layout code takes the parent of a tiled window and the first child of
\* a column for granted (container_reap_empty, layout_workspace_add_view).
Shape ==
  /\ \A w \in Workspaces : ToSet(tree.list[Tiling(w)]) \subseteq Columns
  /\ \A k \in Columns : ToSet(tree.list[k]) \subseteq Views
  /\ \A k \in Columns : k \in tree.live <=> tree.list[k] # <<>>

\* workspace->fullscreen points to exactly the container of that workspace whose
\* mode says so, so there is at most one; and root->fullscreen_global to exactly
\* the one whose mode is global (container_set_fullscreen, container_detach, ...).
FullscreenPointers ==
  /\ \A w \in Workspaces, c \in Containers :
       tree.covers[w] = c <=>
         c \in tree.live /\ tree.full[c] = "workspace" /\ tree.ws[c] = w
  /\ \A c \in Containers : tree.global = c <=> tree.full[c] = "global"

\* They never dangle: whatever covers a workspace or all outputs is alive.
CoversExist ==
  /\ tree.global \in tree.live \cup {None}
  /\ \A w \in Workspaces : tree.covers[w] \in tree.live \cup {None}

\* The scratchpad list is the set of containers marked as in the scratchpad,
\* each once, and one that is shown floats (root_scratchpad_add_container,
\* root_scratchpad_remove_container, container_swap).
PadConsistent ==
  /\ IsInjective(tree.pad) /\ ToSet(tree.pad) = tree.scratch
  /\ \A c \in tree.scratch :
       /\ tree.up[c] = None
       /\ tree.ws[c] # None => Contains(tree.list[Floating(tree.ws[c])], c)

\* What hides and what is hidden: fullscreen pointers and scratchpad agree with
\* the modes and marks of the containers.
Covers == FullscreenPointers /\ CoversExist /\ PadConsistent

\* No list is accessed outside its bounds and no NULL pointer is followed.
NoBadAccess == ~tree.bad

\* The tree is well formed after every command and event, and each of them found it so.
WellFormed == TypeOK /\ Linked /\ Shape /\ PadConsistent /\ NoBadAccess

\* The tiled windows of w by column, without the windows of S.
Arrangement(t, w, S) ==
  LET Column(k) == SelectSeq(t.list[k], LAMBDA v : v \notin S)
      row == t.list[Tiling(w)]
  IN  SelectSeq([n \in DOMAIN row |-> Column(row[n])], LAMBDA s : s # <<>>)

\* A command or an event moves one window or one column: all others keep their
\* workspace, the windows they share a column with, and their order.  Swaps,
\* drags, moves without mode and of the selection have a property of their own.
OneMoves ==
  [][did'[1] = "other" =>
       \E c \in Containers :
         LET S == {c} \cup Below(tree, c)
         IN  \A w \in Workspaces :
               Arrangement(tree', w, S) = Arrangement(tree, w, S)]_tree

\* A window that moves without mode goes alone: all others keep workspace,
\* column and order, and along the row it alternates between a column of its
\* own and the neighbouring column (the manual on move nomode).  Only a window
\* alone in its column that goes to an end of the row does not: there the
\* column at that end takes its place, while all columns stay whole and those
\* in between where they are (layout_move_container_nomode).
MovesOnlyTheActive ==
  [][did'[1] = "nomode" =>
       \A w \in Workspaces :
         Arrangement(tree', w, {did'[2]}) = Arrangement(tree, w, {did'[2]})]_tree
NoModeWalks ==
  [][did'[1] = "nomode" =>
       LET c == did'[2]
           dir == did'[3]
           alone == Len(tree.list[tree.up[c]]) = 1
           row == Arrangement(tree, tree.ws[c], {})
           end == IF dir = "begin" THEN 1 ELSE Len(row)
           Alone(s) == s = <<c>>
       IN  /\ dir \in Along => (alone <=> Len(tree'.list[tree'.up[c]]) > 1)
           /\ \A w \in Workspaces :
                Arrangement(tree', w, {c}) =
                  IF w = tree.ws[c] /\ alone /\ dir \in {"begin", "end"}
                  THEN SelectSeq([n \in DOMAIN row |-> IF Alone(row[n]) THEN row[end]
                                                       ELSE IF n = end THEN <<>>
                                                       ELSE row[n]],
                                 LAMBDA s : s # <<>> /\ ~Alone(s))
                  ELSE Arrangement(tree, w, {c})]_tree


\* Hiding a container ends its fullscreen mode, and that of what is in it
\* (root_scratchpad_hide, cmd_move_to_scratchpad), unless it takes the mode over
\* from the hidden one it is swapped with.
HidingUncovers ==
  [][\A c \in Containers :
       c \in tree.live \cap tree'.live /\ tree.ws[c] # None /\ tree'.ws[c] = None =>
         \/ tree'.full[c] = "none"
         \/ \E d \in Containers : /\ tree.full[d] = tree'.full[c]
                                 /\ tree.ws[d] = None /\ tree'.ws[d] # None]_tree

\* Asked for a mode of fullscreen, a container gets it: none of the assertions
\* of container_fullscreen_workspace, _global and _disable fails on the way.
FullscreenObeyed ==
  \A c \in tree.live, mode \in Modes : SetFullscreen(tree, c, mode).full[c] = mode

\* A swap exchanges the places of two windows and nothing else: every list has
\* the one where it had the other, and so has the scratchpad.  Floating lists
\* are stacking orders and compared as sets, and only if neither window is in
\* the scratchpad: what was shown from it is shown again on the focused
\* workspace.  The two also exchange their fullscreen modes and all others keep
\* theirs, provided again that neither is in the scratchpad, and that nothing
\* covers all outputs (container_swap, swap_places, container_set_fullscreen).
Exchange(e, c, d) == IF e = c THEN d ELSE IF e = d THEN c ELSE e
SwapExchanges ==
  [][did'[1] = "swap" =>
       LET c == did'[2]
           d == did'[3]
       IN
       /\ \A l \in {Tiling(w) : w \in Workspaces} \cup Columns :
            tree'.list[l] = [n \in DOMAIN tree.list[l] |->
                               Exchange(tree.list[l][n], c, d)]
       /\ tree'.scratch = {Exchange(e, c, d) : e \in tree.scratch}
       /\ {c, d} \cap tree.scratch = {} =>
            /\ \A w \in Workspaces :
                 ToSet(tree'.list[Floating(w)]) =
                   {Exchange(e, c, d) : e \in ToSet(tree.list[Floating(w)])}
            /\ (\A e \in Containers : tree.full[e] # "global") =>
                 \A e \in Containers : tree'.full[Exchange(e, c, d)] = tree.full[e]
     ]_tree

\* What is dragged lands where its edge says (the comment over
\* layout_drag_container_to_container): on an edge along the column it joins
\* the column of the target, a column with all its windows, on another edge it
\* becomes, or is extracted into, the next column on that side, and in the
\* middle the two trade places.  Windows of other columns are left alone.
DragLands ==
  [][did'[1] = "drag" =>
         LET c == did'[2]
             g == did'[3]
             edge == did'[4]
             byColumn == did'[5]
             k == tree.up[c]
             h == tree.up[g]
             Next2(s, x, y) == IF edge \in Leading THEN <<x, y>> \in SubSeqs(s)
                                                   ELSE <<y, x>> \in SubSeqs(s)
             x == IF byColumn THEN k ELSE c
             y == IF byColumn THEN h ELSE g
             S == ToSet(tree.list[k]) \cup ToSet(tree.list[h])
         IN  /\ CASE edge = "none" ->
                       \A l \in Lists :
                         tree'.list[l] = [n \in DOMAIN tree.list[l] |->
                                            Exchange(tree.list[l][n], x, y)]
                  [] edge \in Parallel ->
                       /\ tree'.up[c] = tree'.up[g]
                       /\ IF byColumn
                          THEN \A v \in ToSet(tree.list[k]) : tree'.up[v] = h
                          ELSE Next2(tree'.list[h], c, g)
                  [] OTHER ->
                       Next2(tree'.list[Tiling(tree.ws[g])], tree'.up[c], tree'.up[g])
             /\ \A w \in Workspaces :
                  Arrangement(tree', w, S) = Arrangement(tree, w, S)]_tree

\* Moving the selection brings what is selected on all workspaces to one and
\* deselects it, except windows inside a selected column.  The columns of each
\* workspace arrive whole and in their order (the manual: "the selection order
\* and column/window configuration will be maintained"), and every window that
\* was not selected keeps its workspace, its column and its order
\* (layout_selection_move).
KeepsOrder(s, t) ==
  \A m, n \in DOMAIN s : m <= n =>
    \E i, j \in DOMAIN t : i <= j /\ t[i] = s[m] /\ t[j] = s[n]
SelectionMoves ==
  [][did'[1] = "selection move" =>
       LET S == {v \in Mapped : SelectionEnabled(tree, v) /\ tree.ws[v] # None}
       IN  /\ \E w \in Workspaces :
                /\ \A v \in S : tree'.ws[v] = w
                /\ \A u \in Workspaces :
                     KeepsOrder(Arrangement(tree, u, Mapped \ S),
                                Arrangement(tree', w, Mapped \ S))
           /\ \A c \in tree.selected :
                tree.ws[c] # None /\ tree.up[c] \notin tree.selected =>
                  c \notin tree'.selected
           /\ \A w \in Workspaces :
                Arrangement(tree', w, S) = Arrangement(tree, w, S)]_tree

=============================================================================
