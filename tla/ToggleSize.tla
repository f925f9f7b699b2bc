------------------------------ MODULE ToggleSize ------------------------------
(***************************************************************************)
(* The sizes of the tiled containers of a workspace: the temporary sizes   *)
(* of toggle_size and maximize_if_single (end of sway/tree/layout.c) and   *)
(* the commands with which the user chooses a size.  A size is a pair of   *)
(* fractions of the workspace, in units of which Whole make 1.0: its       *)
(* length along the row and its length across it.  t is a workspace:       *)
(*   tiling      the columns of the row                                    *)
(*   kids[k]     the windows of column k                                   *)
(*   size[c]     width_fraction and height_fraction of a container         *)
(*   saved[c]    the saved fractions of its toggle_size                    *)
(*   state[c]    its toggle_size state                                     *)
(*   single      the columns whose toggle_size.single is set               *)
(*   toggle      toggle_size of the workspace: mode, size and container    *)
(*   maximize    maximize_if_single of the configuration                   *)
(*   chosen[c]   the length last chosen for c along each axis: that which  *)
(*               it was opened with, or the user's; for a property only    *)
(***************************************************************************)
EXTENDS Strip, FiniteSets, FiniteSetsExt

CONSTANTS Views, Columns, None, Whole, Wrap, Fractions

Containers == Views \cup Columns
Forced == {"none forced", "toggled forced"}
Toggled == {"toggled", "toggled forced"}

Find(list, x) == SelectInSeq(list, LAMBDA y : y = x)
InTiling(t, k) == Find(t.tiling, k) # 0
ColumnOf(t, v) == CHOOSE k \in Columns : Find(t.kids[k], v) # 0

SetSize(t, c, s) == [t EXCEPT !.size[c] = s]
Push(t, c) == [t EXCEPT !.saved[c] = t.size[c]]
Pop(t, c) == [t EXCEPT !.size[c] = t.saved[c]]
InState(t, c, state) == [t EXCEPT !.state[c] = state]

\* Whether an operation that is not the user's asks for the temporary size.
Wanted(t, single, op) ==
  CASE t.toggle.mode = "none" -> single
    [] t.toggle.mode = "active" -> op = "focus"
    [] t.toggle.mode = "all" -> TRUE

\* A variant: the new size is saved instead of the old one.
ApplyUser_SavesNew(t, c, new, op) ==
  IF op = "resize" THEN InState(SetSize(t, c, new), c, "none forced")
  ELSE IF t.state[c] \in Toggled THEN InState(Pop(t, c), c, "none")
  ELSE InState(Push(SetSize(t, c, new), c), c, "toggled forced")

ApplyUser(t, c, new, op) ==
  IF op = "resize" THEN InState(SetSize(t, c, new), c, "none forced")
  ELSE IF t.state[c] \in Toggled THEN InState(Pop(t, c), c, "none")
  ELSE InState(SetSize(Push(t, c), c, new), c,
               IF t.state[c] = "none forced" /\ t.toggle.mode # "none" THEN "toggled"
                                                                       ELSE "toggled forced")

ApplyFocus(t, c, new, wanted) ==
  CASE t.state[c] \in Forced -> t
    [] t.state[c] = "none" -> IF wanted THEN InState(SetSize(Push(t, c), c, new), c, "toggled") ELSE t
    [] t.state[c] = "toggled" -> IF wanted THEN t ELSE InState(Pop(t, c), c, "none")

\* apply_container_sizes.  A window looks at the single of its column.
Apply(t, c, new, op) ==
  IF op \in {"resize", "toggle"} THEN ApplyUser(t, c, new, op)
  ELSE ApplyFocus(t, c, new,
                  Wanted(t, (IF c \in Views THEN ColumnOf(t, c) ELSE c) \in t.single, op))

\* apply_container_and_parent_sizes
ApplyBoth(t, c, new, op) ==
  Apply(IF c \in Views THEN Apply(t, ColumnOf(t, c), new, op) ELSE t, c, new, op)

ApplyAll(t, cs, new, op) == FoldLeft(LAMBDA u, c : Apply(u, c, new, op), t, cs)

\* layout_toggle_size: every column is told, but of their windows only the focused.
LayoutToggleSize(t, v, mode, new) ==
  IF t.toggle.mode = mode /\ mode = "none" THEN t
  ELSE LET u == [t EXCEPT !.toggle = [mode |-> mode, size |-> new, con |-> v]]
       IN  IF mode # "active" THEN ApplyAll(u, t.tiling, new, "focus")
           ELSE IF v = None THEN u ELSE ApplyBoth(u, v, new, "focus")

Zero == <<0, 0>>
Full == <<Whole, Whole>>

\* toggle_size of commands/toggle_size.c: it toggles the mode off only if neither the
\* mode nor one of the fractions changed.
ToggleSizeMode(t, v, mode, new) ==
  LET off == LayoutToggleSize(t, v, "none", Zero)
      other == mode # t.toggle.mode \/ (new[1] # t.toggle.size[1] /\ new[2] # t.toggle.size[2])
  IN  IF mode # "none" /\ other THEN LayoutToggleSize(off, v, mode, new) ELSE off

\* layout_toggle_size_container
ToggleThis(t, v, new) == ApplyBoth(t, v, new, "toggle")

\* layout_tiling_resize_callback
ResizeCallback(t, c) ==
  FoldLeft(LAMBDA u, d : Apply(u, d, t.size[d], "resize"), t,
           <<c>> \o (IF c \in Columns THEN t.kids[c] ELSE <<>>))

\* layout_maximize_if_single
Maximize(t) ==
  IF ~t.maximize THEN t
  ELSE LET alone == Len(t.tiling) = 1
       IN  FoldLeft(LAMBDA u, k :
                      IF k \notin u.single /\ ~alone THEN u
                      ELSE ApplyAll([u EXCEPT !.single = IF alone THEN @ \cup {k} ELSE @ \ {k}],
                                    Append(u.kids[k], k), Full, "focus"),
                    t, t.tiling)

\* layout_toggle_size_change_focus, when last is a window of this workspace or None
ChangeFocus(t, last, v) ==
  LET m == Maximize(t)
      u == IF last = None THEN m ELSE ApplyBoth(m, last, t.toggle.size, "unfocus")
  IN  [ApplyBoth(u, v, t.toggle.size, "focus") EXCEPT !.toggle.con = v]

\* The same, when the focus comes from another workspace: the window that was
\* focused here last is told now.
ComeBack(t, v) ==
  LET old == t.toggle.con
      u == IF old \notin {None, v} THEN ApplyBoth(t, old, t.toggle.size, "unfocus") ELSE t
  IN  [ApplyBoth(Maximize(u), v, t.toggle.size, "focus") EXCEPT !.toggle.con = v]

-----------------------------------------------------------------------------
(* Commands that choose a size.  axis is 1 along the row, 2 across it.      *)

\* A command along the row is about the column of the window.
Target(t, v, axis) == IF axis = 1 THEN ColumnOf(t, v) ELSE v

\* The members of cs get a length, part(c), along an axis.
Stretch(sizes, cs, axis, part(_)) ==
  [c \in Containers |-> IF c \in cs THEN [sizes[c] EXCEPT ![axis] = part(c)] ELSE sizes[c]]

Choose(t, cs, axis, part(_)) ==
  [t EXCEPT !.size = Stretch(@, cs, axis, part), !.chosen = Stretch(@, cs, axis, part)]

\* A length along the row is that of all windows of the column.
Along(t, c, axis) == {c} \cup (IF axis = 1 /\ c \in Columns THEN ToSet(t.kids[c]) ELSE {})
SetLength(t, c, axis, f) == Choose(t, Along(t, c, axis), axis, LAMBDA d : f)

\* get_closest_fraction of commands/cycle_size.c
ClosestFraction(f, next) ==
  LET beyond == {g \in Fractions : IF next THEN g > f ELSE g < f}
  IN  IF beyond # {} THEN IF next THEN Min(beyond) ELSE Max(beyond)
      ELSE IF ~Wrap THEN f
      ELSE IF next THEN Min(Fractions) ELSE Max(Fractions)

\* cycle_size_tiled
CycleSize(t, v, axis, next) ==
  LET c == Target(t, v, axis)
  IN  ResizeCallback(SetLength(t, c, axis, ClosestFraction(t.size[c][axis], next)), c)

\* set_size_tiled
SetSizeTiled(t, v, axis, f) ==
  LET c == Target(t, v, axis) IN ResizeCallback(SetLength(t, c, axis, f), c)

\* resize_adjust_tiled, in per cent of the workspace, for a window without size limits.
\* When the new size is refused, the windows still take the length of the column.
ResizeAdjust(t, v, axis, by) ==
  LET c == Target(t, v, axis)
      f == t.size[c][axis] + by
  IN  IF f =< Whole /\ f >= Whole \div 20 THEN ResizeCallback(SetLength(t, c, axis, f), c)
      ELSE [t EXCEPT !.size = Stretch(@, Along(t, c, axis), axis, LAMBDA d : t.size[c][axis])]

\* resize_set_tiled: the window is told, also when it was its column that was resized.
ResizeSet(t, v, f) ==
  ResizeCallback(SetLength(SetLength(t, ColumnOf(t, v), 1, f[1]), v, 2, f[2]), v)
=============================================================================
