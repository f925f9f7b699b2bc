-------------------------------- MODULE SeatOps --------------------------------
(***************************************************************************)
(* The operations of a seat: what a button, a finger or a pen does from    *)
(* its press to its release (sway/input/seatop_*.c).  The state p of the   *)
(* pointer is one record, and every C function is a function of it.        *)
(*                                                                         *)
(*   win      every window: on, at (tiled, floating, hidden in the         *)
(*            scratchpad), ws, full, resizing (container->is_resizing)     *)
(*   spaces, shown   workspaces that exist, and the visible one            *)
(*   panel    the layer surface is there                                   *)
(*   kbd      the node, or the panel, that seat_set_focus was last for     *)
(*   spot     where the cursor is                                          *)
(*   mod      the floating modifier is pressed                             *)
(*   op       seat->seatop_impl with seatop_data                           *)
(*   pressed, prev, track   pressed_buttons, previous_node and the type    *)
(*            of gestures of seatop_default_event                          *)
(*   focus    pointer_state.focused_surface of the wlr_seat; told: the     *)
(*            buttons that its client believes to be pressed               *)
(*   last     the surface that last_button_serial was sent to, for a press *)
(*   points   the surface that was told of each finger                     *)
(*   count    cursor->pressed_button_count                                 *)
(*   scrolling, pin, grip   gesture.scrolling, layout.pin.container and    *)
(*            gesture.pin of the workspaces                                *)
(*   constraints, active    surfaces with a pointer constraint, and        *)
(*            active_constraint                                            *)
(*                                                                         *)
(* There is one output, and a tiled window is a column of its own.         *)
(***************************************************************************)
EXTENDS Integers, SequencesExt, FiniteSetsExt, TLC

CONSTANTS
  Windows, Spaces, Panel, Fingers,
  Left, Right, Middle,  \* buttons, in the order of their codes
  Accepts,              \* what each surface handles itself: touch, tablet
  Cap,                  \* SWAY_CURSOR_PRESSED_BUTTONS_CAP
  None

ASSUME ButtonAssumption == Left < Right /\ Right < Middle /\ Cap \in Nat \ {0}

\* Windows, workspaces, the panel and NULL are told apart.
ASSUME NodeAssumption ==
  /\ Windows \cap Spaces = {} /\ Panel \notin Windows \cup Spaces
  /\ None \notin Windows \cup Spaces \cup {Panel}

\* One C function after another: Op applied to the state that v is.
Then(v, Op(_)) == CHOOSE r \in {Op(x) : x \in {v}} : TRUE

NewWindow == [on |-> TRUE, at |-> "tiled", ws |-> None, full |-> FALSE, resizing |-> FALSE]

On(p, ws) == {w \in Windows : p.win[w].on /\ p.win[w].ws = ws /\ p.win[w].at # "hidden"}

Tiled(p, ws) == {w \in On(p, ws) : p.win[w].at = "tiled"}

Visible(p, w) ==
  w \in On(p, p.shown) /\ \A v \in On(p, p.shown) \ {w} : ~p.win[v].full \/ p.win[w].full

\* node_at_coords: the node and the surface at a place of the layout, and which part
\* of a container it is
NodeAt(p, spot) ==
  LET window == spot.x \in Windows /\ Visible(p, spot.x)
      part == IF window /\ p.win[spot.x].full THEN "contents" ELSE spot.part
  IN  IF spot.x = Panel /\ p.panel THEN [part |-> "panel", node |-> None, surface |-> Panel]
      ELSE IF window THEN [part |-> part, node |-> spot.x,
                           surface |-> IF part = "contents" THEN spot.x ELSE None]
      ELSE [part |-> "workspace", node |-> p.shown, surface |-> None]

-----------------------------------------------------------------------------
(* What clients hear.                                                       *)

\* wlr_seat_pointer_notify_enter and wlr_seat_pointer_notify_clear_focus
PointerEnter(p, surface) == IF p.focus = surface THEN p ELSE [p EXCEPT !.focus = surface, !.told = {}]

PointerClear(p) == PointerEnter(p, None)

\* seat_pointer_notify_button
NotifyButton(p, b, press) ==
  IF p.focus = None THEN [p EXCEPT !.last = None]
  ELSE [p EXCEPT !.told = IF press THEN @ \cup {b} ELSE @ \ {b},
                 !.last = IF press THEN p.focus ELSE None]

\* The rebase of the default operation
DefaultRebase(p) ==
  LET n == NodeAt(p, p.spot) IN [PointerEnter(p, n.surface) EXCEPT !.prev = n.node]

NewOp(kind, con) ==
  [kind |-> kind, con |-> con, surface |-> None, target |-> None, started |-> FALSE, points |-> {}]

NoOp == NewOp("default", None)

\* cursor_rebase: no other operation has a rebase.
Rebase(p) == IF p.op.kind = "default" THEN DefaultRebase(p) ELSE p

\* sway_cursor_constrain and check_constraint_region: the cursor comes into the region.
Constrain(p, surface) ==
  LET new == [p EXCEPT !.active = surface]
  IN  IF p.active = surface THEN p
      ELSE IF surface = None \/ p.spot = [part |-> "contents", x |-> surface] THEN new
      ELSE Rebase([new EXCEPT !.spot = [part |-> "contents", x |-> surface]])

\* seat_set_focus: the workspace of the node is shown; one that is left empty goes.
SetFocus(p, node) ==
  LET ws == IF node \in Windows THEN p.win[node].ws ELSE node
      left == IF ws # p.shown /\ On(p, p.shown) = {} THEN {p.shown} ELSE {}
  IN  IF p.kbd = node THEN p
      ELSE Constrain([p EXCEPT !.kbd = node, !.shown = ws, !.spaces = (@ \ left) \cup {ws}],
                     IF node \in p.constraints THEN node ELSE None)

\* seat_set_focus_layer
SetFocusLayer(p) == Constrain([p EXCEPT !.kbd = Panel], None)

-----------------------------------------------------------------------------
(* Operations begin and end.                                                *)

\* seatop_end: the data of the operation is freed, and so is what the default one
\* knew of buttons and gestures.
Begin(p, op) == [p EXCEPT !.op = op, !.pressed = <<>>, !.track = None, !.prev = None]

\* seatop_begin_default
BeginDefault(p) == DefaultRebase(Begin(p, NoOp))

\* seatop_begin_down_on_surface and seatop_begin_down
BeginDown(p, surface, con) == Begin(p, [NewOp("down", con) EXCEPT !.surface = surface])

BeginMoveFloating(p, w) == PointerClear(Begin(p, NewOp("move_floating", w)))

\* seatop_begin_resize_tiling and seatop_begin_resize_floating
BeginResize(p, w, kind) == PointerClear([Begin(p, NewOp(kind, w)) EXCEPT !.win[w].resizing = TRUE])

\* seatop_begin_move_tiling_threshold, and seatop_begin_move_tiling which has started
BeginMoveTiling(p, w, started) ==
  PointerClear(Begin(p, [NewOp("move_tiling", w) EXCEPT !.started = started]))

\* layout_scroll_begin: there is more than fits; the pinned container is floated.
CanScroll(p) == Cardinality(Tiled(p, p.shown)) > 1

PinEnabled(p) == p.pin # None /\ p.pin \in Tiled(p, p.shown)

ScrollBegin(p) ==
  LET scrolling == [p EXCEPT !.scrolling = @ \cup {p.shown}, !.grip[p.shown] = None]
  IN  IF ~PinEnabled(p) THEN scrolling
      ELSE [scrolling EXCEPT !.grip[p.shown] = p.pin, !.win[p.pin].at = "floating", !.pin = None]

\* layout_scroll_unfloat_pinned_container
UnfloatPinned(p) ==
  LET w == p.grip[p.shown]
  IN  IF w \notin On(p, p.shown) \ Tiled(p, p.shown) THEN p
      ELSE [SetFocus(p, w) EXCEPT !.win[w].at = "tiled", !.pin = w, !.scrolling = @ \ {p.shown}]

\* layout_scroll_end: along says that the scrolling was in the direction of the layout.
Scrolling(p) == p.shown \in p.scrolling

ScrollEnd(p, along) ==
  LET stopped(q) == [q EXCEPT !.scrolling = @ \ {q.shown}]
      next == Tiled(p, p.shown)
      focused(q) == IF next = {} THEN q ELSE SetFocus(q, CHOOSE w \in next : TRUE)
  IN  IF p.grip[p.shown] = None THEN focused(stopped(p))
      ELSE IF along THEN UnfloatPinned(p)
      ELSE Then(stopped(UnfloatPinned(p)), focused)

\* seatop_begin_scroll_tiling
BeginScroll(p, w) ==
  IF CanScroll(p) THEN PointerClear(ScrollBegin(Begin(p, NewOp("scroll_tiling", w))))
  ELSE BeginDefault(p)

-----------------------------------------------------------------------------
(* Buttons in the default operation.                                        *)

EraseButton(p, b) == [p EXCEPT !.pressed = SelectSeq(@, LAMBDA x : x # b)]

AddButton(p, b) ==
  IF Len(p.pressed) >= Cap THEN p ELSE [p EXCEPT !.pressed = SortSeq(Append(@, b), <)]

\* get_active_mouse_binding: a binding that names the device, or the last that fits
ActiveMouseBinding(p, list, n, device, release) ==
  LET all == {"titlebar", "border", "contents"}
      region == IF n.part = "workspace" THEN all ELSE {n.part}
      Fits(b) == /\ b.mod = p.mod /\ b.keys = p.pressed /\ b.release = release
                 /\ b.on \cap region \cap all # {}
                 /\ n.part = "workspace" => b.on = all
                 /\ b.input \in {device, "*"}
      found == SelectSeq(list, Fits)
      exact == SelectSeq(found, LAMBDA b : b.input = device)
  IN  IF exact # <<>> THEN Head(exact) ELSE IF found = <<>> THEN None ELSE Last(found)

\* seat_execute_command; the cursor is rebased when the transaction is applied.
Execute(p, cmd) ==
  IF cmd \in Spaces
  THEN Rebase(SetFocus(p, IF On(p, cmd) = {} THEN cmd ELSE CHOOSE w \in On(p, cmd) : TRUE))
  ELSE p

\* A press in a window: what it does comes first that fits.
PressWindow(p, b, n) ==
  LET w == n.node
      floating == p.win[w].at = "floating"
      full == p.win[w].full
      move == b = Left /\ (p.mod \/ n.part = "titlebar")
      f == SetFocus(p, w)
  IN  IF ~floating /\ ((n.part = "border" /\ b = Left) \/ (p.mod /\ b = Right))
      THEN BeginResize(f, w, "resize_tiling")
      ELSE IF floating /\ ~full /\ move THEN BeginMoveFloating(f, w)
      ELSE IF floating /\ ~full /\ ((n.part = "border" /\ b = Left) \/ (p.mod /\ b = Right))
      THEN BeginResize(f, w, "resize_floating")
      ELSE IF ~floating /\ ~full /\ move THEN BeginMoveTiling(f, w, p.mod)
      ELSE IF ~floating /\ ~full /\ p.mod /\ b = Middle THEN BeginScroll(f, w)
      ELSE IF n.part = "contents" THEN NotifyButton(BeginDown(f, w, w), b, TRUE)
      ELSE NotifyButton(f, b, TRUE)

\* What handle_button does when no binding took the button
ClickDefault(p, b, press, n) ==
  CASE n.part = "workspace" -> NotifyButton(IF press THEN SetFocus(p, n.node) ELSE p, b, press)
    [] n.part = "panel" ->
         NotifyButton(IF press THEN BeginDown(SetFocusLayer(p), Panel, None) ELSE SetFocusLayer(p), b, press)
    [] OTHER -> IF press THEN PressWindow(p, b, n) ELSE NotifyButton(p, b, FALSE)

\* trigger_pointer_button_binding and handle_button; touch and tablet run no bindings.
ButtonDefault(p, list, device, b, press) ==
  LET n == NodeAt(p, p.spot)
      added == IF press THEN AddButton(p, b) ELSE p
      found == ActiveMouseBinding(added, list, n, device, ~press)
      known == IF press THEN added ELSE EraseButton(p, b)
  IN  IF device \in {"touch", "tablet"} THEN ClickDefault(p, b, press, n)
      ELSE IF found = None THEN ClickDefault(known, b, press, n)
      ELSE Execute(known, found.cmd)

\* handle_pointer_axis: a wheel is a button that is pressed and let go.
AxisDefault(p, list, device, b) ==
  LET n == NodeAt(p, p.spot)
      added == AddButton(p, b)
      pressed == ActiveMouseBinding(added, list, n, device, FALSE)
      released(q) == ActiveMouseBinding(q, list, n, device, TRUE)
      first == IF pressed # None THEN Execute(added, pressed.cmd)
               ELSE IF n.part = "titlebar" THEN SetFocus(added, n.node) ELSE added
      Second(q) == IF released(q) = None THEN EraseButton(q, b)
                   ELSE Execute(EraseButton(q, b), released(q).cmd)
  IN  Then(first, Second)

-----------------------------------------------------------------------------
(* Buttons in the other operations.                                         *)

\* finalize_move of a tiled container
FinalizeMoveTiling(p) ==
  LET t == p.op.target
      ws == IF t \in Windows THEN p.win[t].ws ELSE t
      moved == SetFocus([p EXCEPT !.win[p.op.con].ws = ws], p.op.con)
  IN  IF t = None THEN BeginDefault(p) ELSE BeginDefault(moved)

Released_StillResizing(p, along) == IF p.op.kind = "move_tiling" THEN FinalizeMoveTiling(p) ELSE BeginDefault(p)

\* What an operation does when all buttons are released
Released(p, along) ==
  CASE p.op.kind = "move_tiling" -> FinalizeMoveTiling(p)
    [] p.op.kind \in {"resize_tiling", "resize_floating"} ->
         BeginDefault([p EXCEPT !.win[p.op.con].resizing = FALSE])
    [] p.op.kind = "scroll_tiling" -> BeginDefault(IF Scrolling(p) THEN ScrollEnd(p, along) ELSE p)
    [] OTHER -> BeginDefault(p)

\* seatop_button
SeatopButton(p, list, device, b, press, along) ==
  IF p.op.kind = "default" THEN ButtonDefault(p, list, device, b, press)
  ELSE LET heard == IF p.op.kind = "down" THEN NotifyButton(p, b, press) ELSE p
       IN  IF p.count = 0 THEN Released(heard, along) ELSE heard

\* seatop_unref: a container goes.
Unref_TargetStays(p, w) == IF p.op.con = w THEN BeginDefault(p) ELSE p

Unref(p, w) ==
  LET dropped == IF p.op.target = w THEN [p EXCEPT !.op.target = None] ELSE p
  IN  IF p.op.con = w THEN BeginDefault(dropped) ELSE dropped

\* handle_destroy of the surface of a down operation
SurfaceGone(p, surface) ==
  LET left == IF p.focus = surface THEN PointerClear(p) ELSE p
  IN  IF p.op.surface = surface THEN BeginDefault(left) ELSE left

-----------------------------------------------------------------------------
(* Motion.                                                                  *)

\* check_focus_follows_mouse
FocusFollows(p, n, follows) ==
  IF follows = "no" \/ n.part = "workspace" THEN p
  ELSE IF n.part = "panel" THEN SetFocusLayer(p)
  ELSE IF n.node # p.prev \/ follows = "always" THEN SetFocus(p, n.node) ELSE p

MotionDefault(p, follows) ==
  LET n == NodeAt(p, p.spot)
      Enter(q) == [PointerEnter(q, n.surface) EXCEPT !.prev = n.node]
  IN  Then(FocusFollows(p, n, follows), Enter)

\* handle_motion_postthreshold
DragTarget(p) ==
  LET n == NodeAt(p, p.spot)
      con == p.win[p.op.con]
      onWindow == n.node \in Windows
      alone == onWindow /\ p.win[n.node].ws = con.ws /\ Cardinality(Tiled(p, con.ws)) = 1
  IN  IF onWindow /\ p.win[n.node].at = "tiled" /\ ~alone
      THEN SetFocus([p EXCEPT !.op.target = n.node], n.node)
      ELSE [p EXCEPT !.op.target = IF n.part = "workspace" THEN n.node ELSE None]

\* seatop_pointer_motion: far says that the threshold of a drag is reached.
SeatopMotion(p, follows, far) ==
  CASE p.op.kind = "default" -> MotionDefault(p, follows)
    [] p.op.kind = "move_tiling" -> IF p.op.started THEN DragTarget(p) ELSE [p EXCEPT !.op.started = far]
    [] OTHER -> p

=============================================================================
