------------------------------- MODULE WindowOps -------------------------------
(***************************************************************************)
(* Windows that are placed, cover their workspace and move to another one: *)
(* parts of sway/tree/view.c, container.c and commands/move.c as operators *)
(* on the desktops of SeatFocus.                                           *)
(***************************************************************************)
EXTENDS OutputOps

\* container_set_fullscreen(v, FULLSCREEN_WORKSPACE)
Fullscreen(e, v) ==
  LET w == WorkspaceOf(e, v)
      Covered == [e EXCEPT !.full[w] = v]
  IN  IF FocusedWorkspace(e) = w THEN SetFocus(Covered, v)
      ELSE RawFocus(RawFocus(Covered, v), FocusInactive(Covered, Root))

\* layout_add_view: v is alone in a new column, or joins the column k.
Placed(e, v, w, k) ==
  IF v \in Floating THEN NewNode(e, v, w)
  ELSE IF k \in e.live THEN NewNode(e, v, k)
  ELSE NewNode([NewNode(e, v, k) EXCEPT !.up[v] = k], k, w)

\* should_focus, without no_focus criteria
ShouldFocus(e, v) ==
  e.full[WorkspaceOf(e, v)] \in {None, v} /\ FocusedWorkspace(e) = WorkspaceOf(e, v)

\* workspace_focus_fullscreen
FocusFullscreen(e, w) ==
  IF e.full[w] = None \/ FocusedWorkspace(e) # w THEN e
  ELSE RawFocus(e, FocusInactive(e, e.full[w]))

\* container_move_to_workspace: a floating window; a column with its windows;
\* or a window that leaves its column for the column k
IntoColumn(e, c, w, k) == [(IF k \in e.live THEN e ELSE NewNode(e, k, w)) EXCEPT !.up[c] = k]

MoveTo(e, c, w, k) ==
  LET column == IF c \in Columns THEN c ELSE e.up[c]
  IN  IF IsFloating(e, c) THEN MoveFloating(e, c, w)
      ELSE IF k = column THEN [e EXCEPT !.up[column] = w]
      ELSE IntoColumn(IF ViewsOf(e, column) # {c} THEN e
                      ELSE ConsiderDestroy(DestroyContainer(e, column), e.up[column]),
                      c, w, k)

\* cmd_move_container, to a workspace: the focus stays where it was; last is the
\* workspace that the other output showed, column the one that c was in.
LeftBehind(e, column, old) ==
  IF column = None THEN ConsiderDestroy(e, old)
  ELSE IF column \in e.live THEN ReapEmpty(e, column) ELSE e

RestoreActive(e, o, last) ==
  IF last \in {None, ActiveWorkspace(e, o)} THEN e ELSE RawFocus(e, FocusInactive(e, last))

NextAfterMove(e, column, old) ==
  LET n == IF column \in e.live THEN FocusInactive(e, column) ELSE None
  IN  IF n # None THEN n ELSE FocusInactive(e, old)

\* The container c is placed on w, and the other output shows again what it showed.
Arrived(e, c, w, k, last) ==
  RestoreActive(FocusFullscreen(DetectUrgent(DetectUrgent(MoveTo(e, c, w, k), WorkspaceOf(e, c)), w),
                                w), e.up[w], last)

Refocused(e, c, column, old, focus) ==
  SetFocus(e, IF focus # c THEN focus
              ELSE NextAfterMove(e, IF column = e.up[c] THEN None ELSE column, old))

MoveFrom(e, c, w, k, column) ==
  LET old == WorkspaceOf(e, c)
      last == IF e.up[w] # e.up[old] THEN ActiveWorkspace(e, e.up[w]) ELSE None
  IN  LeftBehind(Refocused(Arrived(e, c, w, k, last), c, column, old, GetFocus(e)), column, old)

MoveContainer(e, c, w, k) ==
  MoveFrom(Named(e, w), c, w, k, IF e.up[c] \in Columns THEN e.up[c] ELSE None)

=============================================================================
