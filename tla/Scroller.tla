------------------------------- MODULE Scroller -------------------------------
(***************************************************************************)
(* A workspace of scroll as its user sees it: where the columns of the row *)
(* and the windows of each column are shown, and what every command,       *)
(* gesture and event does to that (sway/tree/layout.c, sway/tree/arrange.c,*)
(* default_arrange_children of sway/desktop/transaction.c and the commands *)
(* that resize, align, pin and scale).                                     *)
(*                                                                         *)
(* t extends the workspace of ToggleSize:                                  *)
(*   at[c]       pending x of a column, pending y of a window              *)
(*   hist        the windows, the one that had the focus last first        *)
(*   focus       the focused node, None for the workspace                  *)
(*   here        the focus is in this workspace                            *)
(*   pin, pos    the pinned column and its side                            *)
(*   byColumn    the mode is the type of the layout                        *)
(*   insert, reorder, center   the other modifiers                         *)
(*   scale       the scale of the workspace, Off when it has none          *)
(*   overview, memScale, memFull   the overview and what it remembers      *)
(*   full, mark  the fullscreen window, and those marked as fullscreen     *)
(*   entry       the scale and the fullscreen window when it was entered,  *)
(*               unless the user turned that off: kept for a property only *)
(*   swipe, held the fingers of a swipe are down, or the mouse drags the   *)
(*               row by the window held                                    *)
(*   scrolling, gone, floated, side   the gesture                          *)
(* along is the axis of the row and across the other; a vertical layout    *)
(* has the same code with the axes exchanged.  scene holds the             *)
(* configuration and what the environment does.                            *)
(***************************************************************************)
EXTENDS ToggleSize

CONSTANTS Scenes, Gap, Beg, Default

VARIABLES t, scene, budget, did
vars == <<t, scene, budget, did>>

Off == <<0, 1>>
One == <<1, 1>>
Enabled(u) == u.scale # Off
ScaleOf(u) == IF Enabled(u) THEN u.scale ELSE One
Raise(list, x) == <<x>> \o SelectSeq(list, LAMBDA y : y # x)
Without(list, x) == SelectSeq(list, LAMBDA y : y # x)

-----------------------------------------------------------------------------
(* The arrangement *)

\* apply_horiz_layout and apply_vert_layout
Length(u, c, axis) == (u.size[c][axis] * u.area[axis]) \div Whole - 2 * Gap

RowStrip(u) ==
  NewStrip(Beg, u.area[1], Gap, ScaleOf(u), [i \in 1..Len(u.tiling) |-> Length(u, u.tiling[i], 1)])
ColumnStrip(u, k) ==
  NewStrip(0, u.area[2], Gap, ScaleOf(u), [i \in 1..Len(u.kids[k]) |-> Length(u, u.kids[k][i], 2)])

\* focused_inactive_child of the workspace and of a column
ActiveWindow(u, k) == Head(SelectSeq(u.hist, LAMBDA v : Find(u.kids[k], v) # 0))
ActiveColumn(u) ==
  LET vs == SelectSeq(u.hist, LAMBDA v : InTiling(u, ColumnOf(u, v)))
  IN  ColumnOf(u, Head(vs))

PinEnabled(u) == u.pin # None /\ InTiling(u, u.pin)

\* default_arrange_children, for a list with active member a at x
Offset(u, s, a, x, center, p) ==
  IF u.scrolling \/ u.reorder = "lazy" THEN [at |-> x, by |-> 0]
  ELSE ActiveOffset(s, a, x, center, p, u.pos)

Place(u, list, at) == [u EXCEPT !.at = [c \in Containers |->
  IF Find(list, c) # 0 THEN at[Find(list, c)] ELSE u.at[c]]]

ArrangeRow(u) ==
  LET active == ActiveColumn(u)
      p == IF PinEnabled(u) THEN Find(u.tiling, u.pin) ELSE 0
      o == Offset(u, RowStrip(u), Find(u.tiling, active), u.at[active], u.center[1], p)
      moved == [u EXCEPT !.tiling = IF p = 0 THEN @ ELSE BringPin(@, p, u.pos, o.by),
                         !.pin = IF PinEnabled(u) THEN @ ELSE None]
  IN  Place(moved, moved.tiling, Lay(RowStrip(moved), Find(moved.tiling, active), o.at))

ArrangeColumn(u, k) ==
  LET s == ColumnStrip(u, k)
      v == ActiveWindow(u, k)
      a == Find(u.kids[k], v)
  IN  Place(u, u.kids[k], Lay(s, a, Offset(u, s, a, u.at[v], u.center[2], 0).at))

\* layout_overview_recompute_scale, with the overview of the tiled windows
Recompute(u) ==
  [u EXCEPT !.scale = OverviewScale(u.area[1], u.area[2], Gap, RowStrip(u).sizes,
     [i \in 1..Len(u.tiling) |-> ColumnStrip(u, u.tiling[i]).sizes])]

\* arrange_workspace and the transaction that follows
Settle(u) ==
  IF u.full # None THEN [u EXCEPT !.at[u.full] = 0]
  ELSE IF u.tiling = <<>> THEN u
  ELSE FoldLeft(ArrangeColumn, ArrangeRow(IF u.overview THEN Recompute(u) ELSE u), u.tiling)

-----------------------------------------------------------------------------
(* Focus and fullscreen *)

\* seat_set_focus of a window, or of a column after a gesture with a pin
Focus(u, c) ==
  IF (u.here /\ u.focus = c) \/ u.full \notin {None, c} THEN u
  ELSE LET v == IF c \in Views THEN c ELSE ActiveWindow(u, c)
           raised == [u EXCEPT !.hist = Raise(@, v), !.focus = c, !.here = TRUE,
                        !.reorder = IF u.here /\ scene.reset THEN "auto" ELSE @]
       IN  IF u.here THEN ChangeFocus(raised, u.focus, c) ELSE ComeBack(raised, c)

\* container_fullscreen_disable, which keeps the mark
Uncover(u) == [u EXCEPT !.full = None]

\* container_set_fullscreen, and container_pass_fullscreen
Cover(u, v) == Focus([u EXCEPT !.full = v, !.mark = @ \cup {v}], v)

\* What the focus command does with the fullscreen windows (focus.c)
MoveFullscreen(u, from, v) ==
  LET off == IF u.full = from THEN Uncover(u) ELSE u
  IN  CASE scene.movefocus = "follow" -> IF u.full = from THEN Cover(off, v) ELSE u
        [] scene.movefocus = "nofollow" -> IF v \in u.mark THEN Cover(off, v) ELSE off

-----------------------------------------------------------------------------
(* Windows *)

\* layout_insert_compute_index, with indices that begin with 1
InsertIndex(u, list, active) ==
  CASE u.insert = "before" -> Find(list, active)
    [] u.insert = "after" -> Find(list, active) + 1
    [] u.insert = "beginning" -> 1
    [] u.insert = "end" -> Len(list) + 1

\* position_new_container: list has both the old active member and the new one.
NewPosition(u, list, active, c, axis) ==
  IF Find(list, c) < Find(list, active)
  THEN u.at[active] - (u.size[c][axis] * u.area[axis]) \div Whole
  ELSE u.at[active] + Length(u, active, axis)

\* layout_workspace_add_view: a column k of its own
AddColumn(u, v, k) ==
  LET active == IF u.hist = <<>> THEN None ELSE ColumnOf(u, Head(u.hist))
      idx == IF active = None THEN 1 ELSE InsertIndex(u, u.tiling, active)
      w == [u EXCEPT !.tiling = InsertAt(@, idx, k), !.kids[k] = <<v>>, !.reorder = "auto",
              !.size = [c \in Containers |-> IF c \in {v, k} THEN Default ELSE @[c]],
              !.chosen = [c \in Containers |-> IF c \in {v, k} THEN Default ELSE @[c]],
              !.state = [c \in Containers |-> IF c \in {v, k} THEN "none" ELSE @[c]],
              !.single = @ \ {k}, !.at[v] = 0, !.at[k] = 0]
  IN  IF active = None THEN w ELSE [w EXCEPT !.at[k] = NewPosition(w, w.tiling, active, k, 1)]

\* layout_container_add_view: into the column of the active window
AddToColumn(u, v) ==
  LET active == Head(u.hist)
      k == ColumnOf(u, active)
      idx == InsertIndex(u, u.kids[k], active)
      w == [u EXCEPT !.kids[k] = InsertAt(@, idx, v), !.size[v] = u.size[k], !.saved[v] = u.saved[k],
                     !.state[v] = u.state[k],
                     !.chosen[v] = IF u.state[k] \in Toggled THEN u.saved[k] ELSE u.size[k]]
  IN  [w EXCEPT !.at[v] = NewPosition(w, w.kids[k], active, v, 2)]

Used(u) == ToSet(u.hist)
FreeColumn(u) == CHOOSE k \in Columns : ~InTiling(u, k) /\ k # u.floated

\* view_map
OpenWindow(u, v) ==
  LET added == IF u.byColumn \/ u.tiling = <<>> THEN AddColumn(u, v, FreeColumn(u)) ELSE AddToColumn(u, v)
      known == [added EXCEPT !.hist = Append(@, v)]
      shown == CASE u.full = None \/ scene.movefocus = "none" -> known
                 [] u.full # None /\ scene.movefocus = "nofollow" -> Uncover(known)
                 [] u.full # None /\ scene.movefocus = "follow" -> Cover(Uncover(known), v)
  IN  IF shown.full \notin {None, v} THEN shown ELSE Focus(shown, v)

\* handle_seat_node_destroy: the next of the same column, or of the workspace, takes
\* the focus or, when it does not need it, the second place.
NextFocus(u, v) ==
  LET rest == Without(u.hist, v)
      same == SelectSeq(rest, LAMBDA x : Find(u.kids[ColumnOf(u, v)], x) # 0)
  IN  IF same # <<>> THEN Head(same) ELSE IF rest # <<>> THEN Head(rest) ELSE None

LoseFocus(u, v) ==
  LET next == NextFocus(u, v)
      rest == Without(u.hist, v)
      gone == [u EXCEPT !.hist = rest]
  IN  IF next = None THEN [gone EXCEPT !.focus = None]
      ELSE IF u.here /\ u.focus = v
      THEN ChangeFocus([gone EXCEPT !.hist = Raise(rest, next), !.focus = next,
                                    !.reorder = IF scene.reset THEN "auto" ELSE @], None, next)
      ELSE IF ~u.here THEN [gone EXCEPT !.hist = Raise(rest, next)]
      ELSE [gone EXCEPT !.hist = <<Head(rest)>> \o Without(Raise(Tail(rest), next), Head(rest))]

\* view_unmap and container_reap_empty
CloseWindow(u, v) ==
  LET k == ColumnOf(u, v)
      lost == LoseFocus([u EXCEPT !.full = IF @ = v THEN None ELSE @, !.mark = @ \ {v}], v)
      left == Without(lost.kids[k], v)
  IN  Maximize([lost EXCEPT !.kids[k] = left,
                            !.tiling = IF left = <<>> THEN Without(@, k) ELSE @,
                            !.pin = IF left = <<>> /\ @ = k THEN None ELSE @])

-----------------------------------------------------------------------------
(* Commands on the workspace *)

\* layout_pin_set: the same place again removes the pin.
PinSet(u, k, pos) ==
  [u EXCEPT !.pin = IF u.pin = k /\ u.pos = pos THEN None ELSE k, !.pos = pos]

\* fit_size_workspace (axis 1) and fit_size_container (axis 2)
FitRange(u, s, a, x, group) ==
  CASE group = "active" -> <<a, a>>
    [] group = "all" -> <<1, Size(s)>>
    [] group = "toend" -> <<a, Size(s)>>
    [] group = "tobeg" -> <<1, a>>
    [] group = "visible" ->
         LET seen == Visible(s, a, x) IN IF seen = {} THEN <<Size(s) + 1, 0>> ELSE <<Min(seen), Max(seen)>>

FitSize(u, v, axis, group, equal) ==
  LET k == ColumnOf(u, v)
      list == IF axis = 1 THEN u.tiling ELSE u.kids[k]
      active == IF axis = 1 THEN ActiveColumn(u) ELSE ActiveWindow(u, k)
      s == IF axis = 1 THEN RowStrip(u) ELSE ColumnStrip(u, k)
      a == Find(list, active)
      r == FitRange(u, s, a, u.at[active], group)
      n == r[2] - r[1] + 1
      members == {list[i] : i \in r[1]..r[2]}
      total == FoldLeft(LAMBDA sum, i : sum + s.sizes[i], 0, Upward(r[1], r[2]))
      share == u.area[axis] - 2 * n * Gap
      part(c) == IF equal THEN Whole \div n
                 ELSE (((Length(u, c, axis) * share) \div total + 2 * Gap) * Whole) \div u.area[axis]
      fitted == Choose(u, members, axis, part)
      after == IF axis = 1 THEN RowStrip(fitted) ELSE ColumnStrip(fitted, k)
      placed == [fitted EXCEPT !.at[active] = FromPosition(after, r[1], a)]
  IN  IF axis = 2 THEN ResizeCallback(placed, k)
      ELSE FoldLeft(ResizeCallback, placed, SubSeq(list, r[1], r[2]))

\* cmd_align: the column along the row, the window across it
AlignTo(u, c, axis, where) ==
  LET beg == IF axis = 1 THEN Beg ELSE 0
      len == Length(u, c, axis)
  IN  [u EXCEPT !.reorder = "lazy", !.at[c] =
         CASE where = "beginning" -> beg + Times(ScaleOf(u), Gap)
           [] where = "end" -> beg + u.area[axis] - Times(ScaleOf(u), len + Gap)
           [] where = "center" -> beg + (u.area[axis] - Times(ScaleOf(u), len)) \div 2]

\* layout_overview_toggle
OverviewToggle(u) ==
  IF ~u.overview
  THEN LET in == [u EXCEPT !.overview = TRUE, !.memScale = u.scale, !.memFull = u.full, !.full = None,
                           !.entry = <<u.scale, u.full>>]
       IN  IF u.tiling = <<>> THEN in ELSE Recompute(in)
  ELSE LET out == [u EXCEPT !.overview = FALSE, !.scale = u.memScale]
       IN  IF u.focus = None THEN out
           ELSE CASE scene.movefocus = "follow" /\ u.memFull # None -> Cover(out, u.focus)
                  [] scene.movefocus = "none" /\ u.memFull = u.focus -> Cover(out, u.focus)
                  [] scene.movefocus = "nofollow" /\ u.focus \in u.mark -> Cover(out, u.focus)
                  [] OTHER -> out

-----------------------------------------------------------------------------
(* Scrolling with the fingers *)

TooLong(u) == Total(RowStrip(u)) > u.area[1]
TooTall(u) == \E k \in ToSet(u.tiling) : Total(ColumnStrip(u, k)) > u.area[2]

\* layout_scroll_begin: a pinned column floats above the row while it is scrolled.
ScrollBegin(u) ==
  LET p == Find(u.tiling, u.pin)
      shift == Times(ScaleOf(u), 2 * Gap + Length(u, u.pin, 1))
      by(c) == CASE u.pos = "beginning" /\ Find(u.tiling, c) \in 1..(p - 1) -> shift
                 [] u.pos = "end" /\ Find(u.tiling, c) > p -> 0 - shift
                 [] OTHER -> 0
      began == [u EXCEPT !.scrolling = TRUE, !.gone = <<0, 0>>, !.floated = None]
  IN  IF ~TooLong(u) /\ ~TooTall(u) THEN u
      ELSE IF ~PinEnabled(u) THEN began
      ELSE IF ~TooLong(u) THEN [began EXCEPT !.floated = u.pin]
      ELSE [began EXCEPT !.floated = u.pin, !.side = u.pos, !.pin = None, !.tiling = Without(@, u.pin),
              !.at = [c \in Containers |-> IF InTiling(u, c) THEN @[c] + by(c) ELSE @[c]]]

\* layout_scroll_update: the row, or the windows of the column under the cursor
ScrollRow(u, by) ==
  [u EXCEPT !.gone[1] = @ + by,
            !.at = [c \in Containers |-> IF InTiling(u, c) THEN @[c] + by ELSE @[c]]]
ScrollColumn(u, k, by) ==
  [u EXCEPT !.gone[2] = @ + by,
            !.at = [c \in Containers |-> IF Find(u.kids[k], c) # 0 THEN @[c] + by ELSE @[c]]]

\* A variant: the early return of scroll_end forgets that the gesture is over.
UnfloatPin_StillScrolling(u) ==
  PinSet([u EXCEPT !.floated = None, !.tiling = Append(@, u.floated)], u.floated, u.side)

\* layout_scroll_unfloat_pinned_container: the gesture ends with the pin in the row, and
\* the focus goes to the column.
UnfloatPin(u) ==
  LET pin == u.floated
      edge == u.at[pin] + IF u.side = "beginning" THEN Times(ScaleOf(u), Length(u, pin, 1)) ELSE 0
      f == Unfloat(RowStrip(u), [i \in 1..Len(u.tiling) |-> u.at[u.tiling[i]]], edge)
      in == [u EXCEPT !.floated = None,
               !.tiling = IF f.by = 0 THEN Append(@, pin) ELSE InsertAt(@, IF f.before THEN f.by ELSE f.by + 1, pin)]
      to == IF f.by # 0 /\ (f.before = (u.side = "beginning")) THEN u.tiling[f.by] ELSE pin
  IN  [Settle(PinSet(Focus(in, to), pin, u.side)) EXCEPT !.scrolling = FALSE]

\* scroll_end_horizontal and scroll_end_vertical
FocusSeen(u, axis, k) ==
  LET list == IF axis = 1 THEN u.tiling ELSE u.kids[k]
      active == IF axis = 1 THEN ActiveColumn(u) ELSE ActiveWindow(u, k)
      s == IF axis = 1 THEN RowStrip(u) ELSE ColumnStrip(u, k)
      to == list[ScrollTarget(s, Find(list, active), u.at[active], u.gone[axis] =< 0)]
  IN  Focus(u, IF to \in Columns THEN ActiveWindow(u, to) ELSE to)

\* layout_scroll_end, with the cursor over column k
ScrollEnd(u, k) ==
  LET axis == IF AbsDiff(u.gone[1], 0) > AbsDiff(u.gone[2], 0) THEN 1 ELSE 2
      back == IF u.floated = None \/ InTiling(u, u.floated) THEN u ELSE UnfloatPin(u)
  IN  IF ~u.scrolling THEN u
      ELSE IF u.floated # None /\ axis = 1 THEN back
      ELSE FocusSeen([back EXCEPT !.scrolling = FALSE], axis, k)

-----------------------------------------------------------------------------
(* The workspace *)

Empty ==
  [tiling |-> <<>>, kids |-> [k \in Columns |-> <<>>], size |-> [c \in Containers |-> Default],
   saved |-> [c \in Containers |-> Zero], state |-> [c \in Containers |-> "none"], single |-> {},
   toggle |-> [mode |-> "none", size |-> Zero, con |-> None], chosen |-> [c \in Containers |-> Default],
   at |-> [c \in Containers |-> 0], hist |-> <<>>, focus |-> None, here |-> TRUE,
   pin |-> None, pos |-> "beginning", byColumn |-> TRUE, insert |-> "after", reorder |-> "auto",
   center |-> <<FALSE, FALSE>>, scale |-> Off, overview |-> FALSE, memScale |-> Off, memFull |-> None,
   entry |-> <<Off, None>>, full |-> None, mark |-> {}, swipe |-> FALSE, held |-> None, scrolling |-> FALSE, gone |-> <<0, 0>>,
   floated |-> None, side |-> "beginning", maximize |-> scene.maximize,
   area |-> CHOOSE a \in scene.areas : TRUE]

Init ==
  /\ scene \in Scenes
  /\ t = FoldLeft(LAMBDA u, v : Settle(OpenWindow(u, v)), Empty, scene.start)
  /\ budget = scene.most
  /\ did = <<"start">>

Step(kind) == kind \in scene.acts /\ budget > 0 /\ budget' = budget - 1 /\ UNCHANGED scene
Do(what, u) == t' = Settle(u) /\ did' = what
\* A modifier is only stored: nothing is marked dirty.
Store(what, u) == t' = u /\ did' = what

\* A tiled window has the focus and no gesture goes on.
Commands == t.here /\ t.focus \in Views /\ ~t.swipe
Shown == t.full = None /\ ~t.overview

Open ==
  /\ Step("open") /\ t.here /\ t.focus \notin Columns /\ t.floated = None
  /\ LET new == Views \ (Used(t) \cup {t.memFull})
     IN  new # {} /\ LET v == CHOOSE v \in new : TRUE IN Do(<<"open", v>>, OpenWindow(t, v))

\* In another workspace's focus, the window of toggle_size closes last: it would be
\* left in layout.toggle_size.  The end of the window by which the mouse drags the row
\* aborts the drag (handle_unref of seatop_scroll_tiling.c) and leaves the row scrolling:
\* it is left out without "dragged" (see the README).
Close ==
  /\ Step("close") /\ t.focus \notin Columns
  /\ \E v \in Used(t) :
       /\ ColumnOf(t, v) # t.floated /\ (v = t.held => "dragged" \in scene.acts)
       /\ t.here \/ (v # t.toggle.con /\ NextFocus(t, v) = Head(Without(t.hist, v)))
       /\ LET u == CloseWindow(t, v)
          IN  Do(<<"close", v>>, IF v = t.held THEN [u EXCEPT !.swipe = FALSE, !.held = None] ELSE u)

Neighbours(u, v) ==
  LET k == ColumnOf(u, v)
      near(list, x) == {list[i] : i \in {Find(list, x) - 1, Find(list, x) + 1} \cap 1..Len(list)}
  IN  near(u.kids[k], v) \cup {ActiveWindow(u, l) : l \in near(u.tiling, k)}

\* cmd_focus in a direction
FocusDirection ==
  /\ Step("focus") /\ Commands /\ (t.full = None \/ scene.movefocus # "none")
  /\ \E v \in Neighbours(t, t.focus) :
       Do(<<"focus", v>>, Focus(IF scene.movefocus = "none" THEN t ELSE MoveFullscreen(t, t.focus, v), v))

\* The mouse, or a command on another window, also from another workspace
FocusWindow ==
  /\ Step("mouse") /\ t.full = None
  /\ \E v \in Used(t) \ {t.focus} :
       ColumnOf(t, v) # t.floated /\ Do(<<IF t.here THEN "focus" ELSE "return", v>>, Focus(t, v))

FocusOther ==
  /\ Step("away") /\ t.here /\ t.hist # <<>>
  /\ Do(<<"away">>, [t EXCEPT !.here = FALSE, !.focus = None])

FullscreenToggle ==
  /\ Step("full") /\ Commands
  /\ Do(<<"fullscreen">>, IF t.full = t.focus
                         THEN [Uncover(t) EXCEPT !.mark = @ \ {t.focus}, !.entry[2] = IF @ = t.focus THEN None ELSE @]
                         ELSE Cover(Uncover(t), t.focus))

Pin ==
  /\ Step("pin") /\ Commands
  /\ \E pos \in {"beginning", "end"} : Do(<<"pin">>, PinSet(t, ColumnOf(t, t.focus), pos))

\* A command that chooses a length along one axis makes what is temporary along the
\* other one permanent, for the containers that are told of it; one that is not told
\* loses the choice.  Both are left out without "lossy" (see the README): none of
\* cs has a temporary size.
Permanent(cs) == "lossy" \in scene.acts \/ \A c \in cs : t.state[c] \notin Toggled
Kids(ks) == UNION {ToSet(t.kids[k]) : k \in ks}

Resize ==
  /\ Step("resize") /\ Commands
  /\ \E axis \in scene.axes :
     /\ axis = 1 => Permanent(Kids({ColumnOf(t, t.focus)}))
     /\ \/ \E next \in BOOLEAN : Do(<<"resize">>, CycleSize(t, t.focus, axis, next))
        \/ \E f \in scene.sizes : Do(<<"resize">>, SetSizeTiled(t, t.focus, axis, f))
        \/ \E by \in scene.by : Do(<<"resize">>, ResizeAdjust(t, t.focus, axis, by))

\* The column is not told.
ResizeTo ==
  /\ Step("set") /\ Commands /\ Permanent({ColumnOf(t, t.focus)})
  /\ \E f \in scene.sizes : Do(<<"resize">>, ResizeSet(t, t.focus, <<f, f>>))

Fit ==
  /\ Step("fit") /\ Commands /\ Shown
  /\ \E axis \in scene.axes, group \in {"active", "visible", "all", "toend", "tobeg"}, equal \in BOOLEAN :
       /\ Permanent(Kids(ToSet(t.tiling)) \cup ToSet(t.tiling))
       /\ Do(<<"fit">>, FitSize(t, t.focus, axis, group, equal))

Align ==
  /\ Step("align") /\ Commands /\ Shown
  /\ \E axis \in scene.axes, where \in {"beginning", "center", "end"} :
       Do(<<"align">>, AlignTo(t, Target(t, t.focus, axis), axis, where))

Toggle ==
  /\ Step("toggle") /\ Commands
  /\ \/ \E mode \in {"active", "all", "none"}, f \in scene.sizes :
          Do(<<"toggle">>, ToggleSizeMode(t, t.focus, mode, <<f, f>>))
     \/ \E f \in scene.sizes : Do(<<"toggle">>, ToggleThis(t, t.focus, <<f, f>>))

\* scale_workspace: a scale is between 0.2 and 1.
ScaleWorkspace ==
  /\ Step("scale") /\ t.here
  /\ \E tenths \in scene.scales :
       Do(<<"scale">>, [t EXCEPT !.scale = IF tenths = 0 THEN Off ELSE <<Max({2, Min({tenths, 10})}), 10>>])

ToggleOverview ==
  /\ Step("overview") /\ t.here /\ ~t.swipe
  /\ ~(t.overview /\ scene.movefocus = "follow" /\ t.memFull # None /\ t.focus = None)
  /\ Do(<<IF t.overview THEN "leave" ELSE "enter">>, OverviewToggle(t))

\* set_mode, and align reset
SetMode ==
  /\ Step("mode") /\ t.here
  /\ \/ Store(<<"modifier">>, [t EXCEPT !.byColumn = ~@])
     \/ \E i \in {"before", "after", "beginning", "end"} : Store(<<"modifier">>, [t EXCEPT !.insert = i])
     \/ \E axis \in scene.axes : Store(<<"modifier">>, [t EXCEPT !.center[axis] = ~@])
     \/ \E r \in {"auto", "lazy"} : Store(<<"modifier">>, [t EXCEPT !.reorder = r])

ChangeArea == Step("area") /\ \E a \in scene.areas \ {t.area} : Do(<<"area">>, [t EXCEPT !.area = a])

\* The fingers of a touchpad, or the mouse that drags the row by a window: that does not
\* begin where all fits (seatop_begin_scroll_tiling).
SwipeBegin ==
  /\ Step("swipe") /\ Commands /\ t.full = None
  /\ \E held \in {None} \cup Used(t) :
       /\ held # None => TooLong(t) \/ TooTall(t)
       /\ Do(<<"begin">>, ScrollBegin([t EXCEPT !.swipe = TRUE, !.held = held]))

\* A pin in a row that fits, which did not float: a gesture along the row would not end,
\* and is left out without "stays" (see the README).
PinFloats == t.floated # None /\ InTiling(t, t.floated) => "stays" \in scene.acts

\* layout_scroll_update of the workspace that has the focus
SwipeUpdate ==
  /\ Step("swipe") /\ t.swipe /\ t.here /\ t.tiling # <<>>
  /\ \E by \in scene.swipes :
       \/ PinFloats /\ Do(<<"update">>, ScrollRow(t, Times(ScaleOf(t), by)))
       \/ \E k \in ToSet(t.tiling) \cup ({t.floated} \ {None}) :
            Do(<<"update">>, ScrollColumn(t, k, Times(ScaleOf(t), by)))

\* layout_scroll_end of the workspace that has the focus: another one would be left
\* scrolling, which is left out without "leave" (see the README).
SwipeEnd ==
  /\ t.swipe /\ (~t.here => "leave" \in scene.acts) /\ UNCHANGED <<scene, budget>>
  /\ LET over == [t EXCEPT !.swipe = FALSE, !.held = None]
         under == IF t.here THEN ToSet(t.tiling) \cup ({t.floated} \ {None}) ELSE {}
     IN  IF under = {} THEN Do(<<"end">>, [over EXCEPT !.scrolling = @ /\ ~t.here])
         ELSE \E k \in under : Do(<<"end">>, ScrollEnd(over, k))

Next ==
  \/ Open \/ Close \/ FocusDirection \/ FocusWindow \/ FocusOther \/ FullscreenToggle \/ Pin
  \/ Resize \/ ResizeTo \/ Fit \/ Align \/ Toggle \/ ScaleWorkspace \/ ToggleOverview \/ SetMode
  \/ ChangeArea \/ SwipeBegin \/ SwipeUpdate \/ SwipeEnd

Spec == Init /\ [][Next]_vars

-----------------------------------------------------------------------------
(* Properties *)

TypeOK ==
  /\ t.tiling \in Seq(Columns) /\ \A k \in Columns : t.kids[k] \in Seq(Views)
  /\ t.hist \in Seq(Views) /\ t.focus \in Containers \cup {None}
  /\ t.at \in [Containers -> Int]

\* The rounding of the lengths, and the one pixel that the code allows for it
Tolerance == Pixel + Cardinality(Views) * 2

\* The last step arranged the row and nothing keeps it where it is.
Aligned(u, what) ==
  /\ u.full = None /\ u.tiling # <<>> /\ ~u.scrolling /\ ~u.swipe /\ what[1] # "modifier"
  /\ u.reorder = "auto" /\ ~u.center[1]

Left(u, k) == u.at[k] - Times(ScaleOf(u), Gap)
Right(u, k) == u.at[k] + Times(ScaleOf(u), Length(u, k, 1) + Gap)
Fits(u, k) == Left(u, k) >= Beg - Tolerance /\ Right(u, k) =< Beg + u.area[1] + Tolerance
\* It does not fit, next to the pin if there is one.
Wide(u, k) ==
  LET beside == (IF PinEnabled(u) THEN {u.pin} ELSE {}) \cup {k}
  IN  MapThenSumSet(LAMBDA c : Times(ScaleOf(u), Length(u, c, 1) + 2 * Gap), beside) > u.area[1]

\* A row that is arranged is shown as well as it can be: all of it when it fits, and
\* otherwise the active column, with no empty space at either end.  The fits of the code
\* count a single gap between neighbours, so that the active column may be cut by a gap
\* for every column after the third (get_active_position of transaction.c).
RowShown ==
  Aligned(t, did) =>
    LET first == Head(t.tiling)
        last == Last(t.tiling)
        slack == Tolerance + Times(ScaleOf(t), Gap) * Max({0, Len(t.tiling) - 3})
    IN  IF Total(RowStrip(t)) =< t.area[1] + Pixel THEN \A k \in ToSet(t.tiling) : Fits(t, k)
        ELSE /\ LET k == ActiveColumn(t)
                    x == t.at[k]
                IN  Wide(t, k) \/ (/\ x >= Beg - slack
                                   /\ x + Times(ScaleOf(t), Length(t, k, 1)) =< Beg + t.area[1] + slack)
             /\ ~PinEnabled(t) => /\ Left(t, first) =< Beg + Tolerance
                                  /\ Right(t, last) >= Beg + t.area[1] - Tolerance

\* A pinned column is at its edge of the viewport whenever the row is longer than that,
\* whichever column is active and whatever moved (get_active_position_pin).
PinAtEdge ==
  Aligned(t, did) /\ PinEnabled(t) /\ Total(RowStrip(t)) > t.area[1] + Pixel =>
    IF t.pos = "beginning" THEN AbsDiff(Left(t, t.pin), Beg) =< Tolerance
    ELSE AbsDiff(Right(t, t.pin), Beg + t.area[1]) =< Tolerance

\* transaction.c: the row and its pin are where the user can see them.
RowInView == RowShown /\ PinAtEdge

\* Focusing a window of a column that is wholly in view scrolls nothing, unless the
\* arrangement itself asks for it: the place nearest to the current one is where it is
\* (get_active_position, position_new_container).
Quiet(u) == ~u.overview /\ ~PinEnabled(u) /\ u.toggle.mode = "none"
FocusKeepsRow ==
  [][/\ did'[1] = "focus" /\ Aligned(t, did) /\ Aligned(t', did') /\ Quiet(t)
     /\ Fits(t, ColumnOf(t, did'[2]))
     => \A k \in ToSet(t.tiling) : t'.at[k] = t.at[k]]_vars

\* The length that was last chosen for a window or a column is not lost to the temporary
\* sizes that they take, but for the commands that Permanent leaves out: it is what they
\* have, or what they will have again (apply_container_sizes).
Kept(c, axis) ==
  t.chosen[c][axis] = IF t.state[c] \in Toggled THEN t.saved[c][axis] ELSE t.size[c][axis]
SizesKept == \A v \in Used(t) : Kept(v, 2) /\ Kept(ColumnOf(t, v), 1)

\* The workspace is after the overview what it was before it: the same scale, and the
\* window that was fullscreen is so again if it has the focus (layout_overview_toggle).
OverviewRestores ==
  did[1] = "leave" => /\ t.scale = t.entry[1]
                      /\ t.entry[2] # None /\ t.focus = t.entry[2] => t.full = t.focus
                      /\ t.full \in {None, t.focus}

\* layout.c: what the user chose survives whatever is temporary.
ChoicesKept == SizesKept /\ OverviewRestores

\* The row scrolls only while fingers are down or the mouse drags it: layout_scroll_end is
\* to "finish scrolling swipe" (layout.h).
SwipeFinished == t.scrolling => t.swipe

\* A swipe ends, also one in which windows close or the focus leaves the workspace and
\* comes back: the row is not left scrolling, and a pin that floated above it is pinned to
\* its side again (layout_scroll_end).
SwipeEnds ==
  [][/\ SwipeFinished'
     /\ did'[1] = "end" /\ t.scrolling /\ t.floated # None /\ ~InTiling(t, t.floated) =>
          t'.pin = t.floated /\ t'.pos = t.side /\ PinEnabled(t')]_vars

=============================================================================
