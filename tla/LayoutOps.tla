------------------------------ MODULE LayoutOps ------------------------------
(***************************************************************************)
(* The part of sway/tree/layout.c that changes the tree: adding windows,   *)
(* moving them between columns and workspaces, dragging, and selections.   *)
(* A parameter byColumn says that the mode of the workspace is its layout  *)
(* type, so that commands act on columns, pos is the insertion position of *)
(* the workspace, and active what the last transaction that was applied    *)
(* recorded as the focused inactive child.                                 *)
(***************************************************************************)
EXTENDS TreeOps

CONSTANT Horizontal   \* layout type: the columns stand side by side

Positions == {"before", "after", "beginning", "end"}
Directions == {"left", "right", "up", "down", "begin", "end"}
Edges == {"left", "right", "top", "bottom", "none"}

\* layout_insert_compute_index
InsertIndex(s, active, pos) ==
  CASE pos = "before" -> Find(s, active)
    [] pos = "after" -> Find(s, active) + 1
    [] pos = "beginning" -> 0
    [] pos = "end" -> Len(s)

\* An identity for a new container; one that is still pointed to is not free.
Unused(t) ==
  {k \in Columns \ t.live : \A w \in Workspaces : t.current[w] # k}
NewColumn(t) == CHOOSE k \in Unused(t) : TRUE

\* layout_wrap_into_container.  The new container is not in any list yet.
Wrap(t, c) ==
  LET k == NewColumn(t)
  IN  [t EXCEPT !.live = @ \cup {k}, !.list[k] = <<c>>, !.up[c] = k,
                !.up[k] = None, !.ws[k] = t.ws[c],
                !.recent[k] = c]

\* Where layout_workspace_add_view and _container put a column: next to the
\* column of active in the workspace of active.  -2 is a NULL dereference.
WorkspaceIndex(t, active, pos) ==
  IF active = None THEN 0
  ELSE IF active = Freed \/ t.ws[active] = None THEN -2
  ELSE InsertIndex(t.list[Tiling(t.ws[active])],
                   IF t.up[active] = None THEN active ELSE t.up[active], pos)

WorkspaceAddView(t, w, active, c, pos) ==
  InsertTiling(Wrap(t, c), w, NewColumn(t), WorkspaceIndex(t, active, pos))

\* layout_container_add_view
ContainerAddView(t, active, c, pos) ==
  IF active \in {None, Freed} THEN Bad(t)
  ELSE LET parent == IF t.up[active] = None THEN active ELSE t.up[active]
           ref == IF parent = active THEN t.recent[parent] ELSE active
       IN  IF parent \in Columns
           THEN InsertChild(t, parent, c, InsertIndex(t.list[parent], ref, pos))
           ELSE Bad(t)

\* layout_add_view
AddView(t, w, active, c, byColumn, pos) ==
  IF byColumn \/ t.list[Tiling(w)] = <<>>
  THEN WorkspaceAddView(t, w, active, c, pos)
  ELSE ContainerAddView(t, active, c, pos)

\* layout_workspace_add_container
WorkspaceAddContainer(t, w, active, k, pos) ==
  InsertTiling(t, w, k, WorkspaceIndex(t, active, pos))

\* list_del(siblings, list_find(siblings, c)), the pointers of c unchanged
Unlist(t, l, c) == ListDel(t, l, Find(t.list[l], c))

\* layout_move_container_to_workspace; by is the mode of the old workspace
\* and then that of the new one.
MoveToWorkspace(t, c, w, active, byOld, byNew, pos) ==
  LET k == IF c \in Views THEN t.up[c] ELSE c
      parent == t.up[c]
  IN  IF byOld
      THEN IF k = None THEN Bad(t)
           ELSE WorkspaceAddContainer(Unlist(t, Tiling(t.ws[c]), k),
                                      w, active, k, pos)
      ELSE IF parent = None THEN Bad(t)
           ELSE AddView(ReapEmpty(Unlist(t, parent, c), parent),
                        w, active, c, byNew, pos)

-----------------------------------------------------------------------------
(* Moving in a direction.                                                   *)

Along == IF Horizontal THEN {"left", "right"} ELSE {"up", "down"}
Forward == {"right", "down"}

\* layout_direction_compute_index
DirectionIndex(s, x, dir, detach) ==
  CASE dir = "begin" -> 0
    [] dir = "end" -> Len(s) - 1
    [] dir \in Forward -> Find(s, x) + 1
    [] OTHER -> IF detach THEN Find(s, x) ELSE Find(s, x) - 1

\* The column of c is not alone in dir: c leaves it for a column of its own.
DetachInto(t, c, dir) ==
  LET row == Tiling(t.ws[c])
      i == DirectionIndex(t.list[row], t.up[c], dir, TRUE)
      u == Wrap(Unlist(t, t.up[c], c), c)
  IN  ListInsert(u, row, IF i < 0 THEN 0 ELSE i, NewColumn(t))

\* The column of c has no other child: c joins the neighbouring column n.
JoinNeighbour(t, c, n, activeChild, pos) ==
  LET k == t.up[c]
      i == InsertIndex(t.list[n], activeChild, pos)
      u == ListInsert(Unlist(Unlist(t, Tiling(t.ws[c]), k), k, c), n, i, c)
  IN  ReapEmpty([u EXCEPT !.up[c] = n, !.ws[c] = u.ws[n], !.recent[n] = c], k)

\* layout_move_container_nomode.  ActiveChild[n] is the current focused
\* inactive child of column n.
MoveNoMode(t, c, dir, ActiveChild, pos) ==
  LET k == t.up[c]
      row == Tiling(t.ws[c])
      single == Len(t.list[k]) = 1
      s == IF single THEN t.list[row] ELSE t.list[k]
      x == IF single THEN k ELSE c
      i == DirectionIndex(s, x, dir, FALSE)
      inside == i \in 0..(Len(s) - 1)
  IN  IF t.full[c] # "none" \/ IsFloating(t, c) THEN t
      ELSE IF k = None THEN Bad(t)
      ELSE IF ~single /\ dir \in Along THEN DetachInto(t, c, dir)
      ELSE IF ~inside \/ s[i + 1] = x THEN t
      ELSE IF ~single THEN [t EXCEPT !.list[k] = ListMoveTo(s, i, c)]
      ELSE IF dir \in {"begin", "end"}
           THEN [t EXCEPT !.list[row] = ListSwap(s, i, Find(s, k))]
           ELSE JoinNeighbour(t, c, s[i + 1], ActiveChild[s[i + 1]], pos)

\* One level of the loop of layout_move_container_mode.
CanMove(t, c, dir, byColumn) ==
  IF dir \in {"begin", "end"} THEN byColumn = (t.up[c] = None)
                              ELSE (dir \in Along) = (t.up[c] = None)
Desired(t, c, dir) ==
  DirectionIndex(t.list[Siblings(t, c)], c, dir, FALSE)
Movable(t, c, dir, byColumn) ==
  /\ CanMove(t, c, dir, byColumn)
  /\ Len(t.list[Siblings(t, c)]) > 1
  /\ Desired(t, c, dir) \in 0..(Len(t.list[Siblings(t, c)]) - 1)
Stuck(t, c) == t.full[c] # "none" \/ IsFloating(t, c)


\* layout_move_container_mode: the innermost container on the way up that can
\* move is moved, unless a fullscreen or floating one comes first.
MoveMode(t, c, dir, byColumn) ==
  LET chain == Chain(t, c)
      Stops == {n \in DOMAIN chain :
                  Stuck(t, chain[n]) \/ Movable(t, chain[n], dir, byColumn)}
      d == chain[CHOOSE n \in Stops : \A m \in Stops : n <= m]
      l == Siblings(t, d)
  IN  IF Stops = {} THEN t
      ELSE IF Stuck(t, d) THEN t
      ELSE [t EXCEPT !.list[l] = ListMoveTo(@, Desired(t, d, dir), d)]

-----------------------------------------------------------------------------
(* Dragging.                                                                *)

\* drag_parent_container_to_workspace
DragColumnTo(t, k, w, active, pos) ==
  LET row == Tiling(t.ws[k])
  IN  WorkspaceAddContainer(IF Contains(t.list[row], k) THEN Unlist(t, row, k)
                            ELSE t, w, active, k, pos)

\* layout_drag_container_to_workspace
DragToWorkspace(t, c, w, active, byColumn, pos) ==
  LET k == t.up[c]
  IN  IF byColumn \/ Len(t.list[k]) = 1 THEN DragColumnTo(t, k, w, active, pos)
      ELSE DragColumnTo(Wrap(Unlist(t, k, c), c), NewColumn(t), w, active, pos)

MoveBeside_OtherSide(t, k, g, offset) ==
  LET from == Tiling(t.ws[k])
      to == Tiling(t.ws[g])
      i == Find(t.list[from], k)
      j == Find(t.list[to], g)
  IN  IF i < 0 \/ j < 0 THEN t
      ELSE IF from # to THEN InsertTiling(ListDel(t, from, i), t.ws[g], k, j + offset)
      ELSE [t EXCEPT !.list[to] =
              ListMoveTo(@, IF i < j THEN j - offset ELSE j + 1 - offset, k)]

\* move_container_before (offset 0) and move_container_after (offset 1)
MoveBeside(t, k, g, offset) ==
  LET from == Tiling(t.ws[k])
      to == Tiling(t.ws[g])
      i == Find(t.list[from], k)
      j == Find(t.list[to], g)
  IN  IF i < 0 \/ j < 0 THEN t
      ELSE IF from # to THEN InsertTiling(ListDel(t, from, i), t.ws[g], k, j + offset)
      ELSE [t EXCEPT !.list[to] =
              ListMoveTo(@, IF i < j THEN j - 1 + offset ELSE j + offset, k)]

\* swap_containers
SwapColumns(t, k, g) ==
  LET from == Tiling(t.ws[k])
      to == Tiling(t.ws[g])
      i == Find(t.list[from], k)
      j == Find(t.list[to], g)
      u == ListDel(ListDel(t, from, i), to, j)
  IN  IF i < 0 \/ j < 0 THEN t
      ELSE IF from # to
           THEN InsertTiling(InsertTiling(u, t.ws[k], g, i), t.ws[g], k, j)
      ELSE [t EXCEPT !.list[to] = ListSwap(@, i, j)]

\* insert_children_before and insert_children_after
MergeColumns(t, k, g, after) ==
  LET S == t.list[k]
      u == Unlist(t, Tiling(t.ws[k]), k)
  IN  ReapEmpty(
        [u EXCEPT
           !.list[k] = <<>>,
           !.list[g] = IF after THEN @ \o S ELSE S \o @,
           !.up = [c \in ToSet(S) |-> g] @@ @,
           !.ws = [c \in ToSet(S) |-> u.ws[g]] @@ @],
        k)

\* extract_view
Extract(t, c) == ReapEmpty(Unlist(t, t.up[c], c), t.up[c])

\* insert_view_before (offset 0) and insert_view_after (offset 1)
InsertViewBeside(t, c, g, offset) ==
  LET u == [Extract(t, c) EXCEPT !.ws[c] = t.ws[g]]
      k == u.up[g]
  IN  [ListInsert(u, k, Find(u.list[k], g) + offset, c) EXCEPT !.up[c] = k]

\* extract_view_and_insert_before (offset 0) and _after (offset 1)
ExtractBeside(t, c, ref, w, offset) ==
  LET u == [Extract(t, c) EXCEPT !.ws[c] = w]
  IN  ListInsert(Wrap(u, c), Tiling(w),
                 Find(u.list[Tiling(w)], ref) + offset, NewColumn(u))

\* swap_views
SwapViews(t, c, g) ==
  LET k == t.up[c]
      h == t.up[g]
      i == Find(t.list[k], c)
      j == Find(t.list[h], g)
  IN  IF k = h THEN [t EXCEPT !.list[k] = ListSwap(@, i, j)]
      ELSE [t EXCEPT !.list[k] = ReplaceAt(@, i + 1, g),
                     !.list[h] = ReplaceAt(@, j + 1, c),
                     !.up[c] = h, !.up[g] = k,
                     !.ws[c] = t.ws[g], !.ws[g] = t.ws[c]]

\* The edges in whose direction the windows of a column follow each other, and
\* the edges before which something is dropped.
Parallel == IF Horizontal THEN {"top", "bottom"} ELSE {"left", "right"}
Leading == {"left", "top"}

\* layout_drag_container_to_container when columns are dragged
DragColumn(t, k, g, edge) ==
  CASE edge = IF Horizontal THEN "top" ELSE "left" -> MergeColumns(t, k, g, FALSE)
    [] edge = "bottom" -> IF Horizontal THEN MergeColumns(t, k, g, TRUE)
                                        ELSE MoveBeside(t, k, g, 1)
    [] edge = IF Horizontal THEN "left" ELSE "top" -> MoveBeside(t, k, g, 0)
    [] edge = "right" -> MoveBeside(t, k, g, 1)
    [] edge = "none" -> SwapColumns(t, k, g)

\* ... and when windows are dragged
DragView(t, c, g, edge) ==
  LET ref == t.up[g]
      offset == IF edge \in Leading THEN 0 ELSE 1
  IN  CASE edge = "none" -> SwapViews(t, c, g)
        [] edge \in Parallel -> InsertViewBeside(t, c, g, offset)
        [] OTHER -> ExtractBeside(t, c, ref, t.ws[g], offset)

DragToContainer(t, c, g, edge, byColumn) ==
  LET target == IF g \in Views THEN t.up[g] ELSE g
  IN  IF byColumn
      THEN IF t.up[c] = target THEN t ELSE DragColumn(t, t.up[c], target, edge)
      ELSE IF c = g THEN t
      ELSE IF t.up[g] = None THEN Bad(t)
      ELSE DragView(t, c, g, edge)

-----------------------------------------------------------------------------
(* Selections.                                                              *)

SelectionToggle(t, c, byColumn) ==
  LET d == IF byColumn /\ t.up[c] # None THEN t.up[c] ELSE c
  IN  [t EXCEPT !.selected = IF d \in @ THEN @ \ {d} ELSE @ \cup {d}]

SelectionWorkspace(t, w) ==
  [t EXCEPT !.selected = @ \cup ToSet(t.list[Tiling(w)])
                           \cup ToSet(t.list[Floating(w)])]

\* What layout_selection_reset reaches: containers on workspaces and the
\* children of those.
SelectionReset(t) ==
  LET Tops == UNION {ToSet(t.list[Tiling(w)]) \cup ToSet(t.list[Floating(w)]) :
                       w \in Workspaces}
  IN  [t EXCEPT !.selected =
         @ \ (Tops \cup UNION {ToSet(t.list[k]) : k \in Tops \cap Columns})]

\* layout_selection_enabled
SelectionEnabled(t, c) == \E d \in ToSet(Chain(t, c)) : d \in t.selected

\* add_selected_children: acc has the tree, the containers to insert on w and
\* those that leave their list.
PickSelected(acc, c, w) ==
  LET t == acc.tree
      S == IF c \in Columns
           THEN SelectSeq(t.list[c], LAMBDA d : d \in t.selected) ELSE <<>>
      k == NewColumn(t)
      u == [t EXCEPT !.selected = @ \ ToSet(S), !.live = @ \cup {k},
                     !.list[k] = S,
                     !.list[c] = SelectSeq(@, LAMBDA d : d \notin t.selected),
                     !.up = (k :> None) @@ [d \in ToSet(S) |-> k] @@ @,
                     !.ws = [d \in ToSet(S) \cup {k} |-> w] @@ @,
                     !.recent[k] = None]
  IN  IF c \in t.selected
      THEN [tree |-> [t EXCEPT !.ws[c] = w, !.selected = @ \ {c}],
            picked |-> Append(acc.picked, c), gone |-> Append(acc.gone, c)]
      ELSE IF S = <<>> THEN acc
      ELSE [tree |-> u, picked |-> Append(acc.picked, k),
            gone |-> IF u.list[c] = <<>> THEN Append(acc.gone, c) ELSE acc.gone]

\* Both lists of one workspace; acc has the tree and what was picked so far
\* from tiling and from floating lists.
PickWorkspace(acc, u, w) ==
  LET Op(a, c) == PickSelected(a, c, w)
      Start(t, picked) == [tree |-> t, picked |-> picked, gone |-> <<>>]
      f == FoldLeft(Op, Start(acc.tree, acc.floating), acc.tree.list[Floating(u)])
      g == FoldLeft(Op, Start(f.tree, acc.tiling), f.tree.list[Tiling(u)])
      Without(s, gone) == SelectSeq(s, LAMBDA c : ~Contains(gone, c))
      t == [g.tree EXCEPT !.list[Floating(u)] = Without(@, f.gone),
                          !.list[Tiling(u)] = Without(@, g.gone)]
  IN  [tree |-> FoldLeft(ReapEmpty, t, f.gone \o g.gone),
       tiling |-> g.picked, floating |-> f.picked]

SelectionMove_Reversed(t, w, active, pos, order) ==
  LET Pick(a, u) == PickWorkspace(a, u, w)
      all == FoldLeft(Pick, [tree |-> t, tiling |-> <<>>, floating |-> <<>>],
                      order)
      i == InsertIndex(all.tree.list[Tiling(w)], active, pos)
      InsertAtIndex(c, u) == InsertTiling(u, w, c, i)
      Float(u, c) == AddFloating(u, w, c)
      u == FoldLeft(Float, FoldRight(InsertAtIndex, Reverse(all.tiling), all.tree),
                    all.floating)
  IN  IF all.tiling = <<>> /\ all.floating = <<>>
      THEN [tree |-> t, index |-> 0] ELSE [tree |-> u, index |-> i]

\* layout_selection_move to w; order is that of the workspaces on the outputs.
SelectionMove(t, w, active, pos, order) ==
  LET Pick(a, u) == PickWorkspace(a, u, w)
      all == FoldLeft(Pick, [tree |-> t, tiling |-> <<>>, floating |-> <<>>],
                      order)
      i == InsertIndex(all.tree.list[Tiling(w)], active, pos)
      InsertAtIndex(c, u) == InsertTiling(u, w, c, i)
      Float(u, c) == AddFloating(u, w, c)
      u == FoldLeft(Float, FoldRight(InsertAtIndex, all.tiling, all.tree),
                    all.floating)
  IN  IF all.tiling = <<>> /\ all.floating = <<>>
      THEN [tree |-> t, index |-> 0] ELSE [tree |-> u, index |-> i]

\* Its end if the modifiers ask for focus: the container at the index gets it.
SelectionFocus(t, w, index) ==
  LET row == t.list[Tiling(w)]
  IN  IF row = <<>> \/ index \in 0..(Len(row) - 1) THEN t ELSE Bad(t)

=============================================================================
