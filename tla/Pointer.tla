-------------------------------- MODULE Pointer --------------------------------
(***************************************************************************)
(* The cursor of a seat (sway/input/cursor.c): mice, touch screens and     *)
(* tablets, whose events reach the operation of the seat as they are or as *)
(* simulated buttons, with the gestures of a touchpad, the requests of     *)
(* clients, and what happens to the windows meanwhile.  Every action is    *)
(* one event of the compositor's loop.  The record p of SeatOps also has   *)
(*                                                                         *)
(*   held, ipc  buttons that are held on the mouse, or by the command      *)
(*              "seat cursor press"                                        *)
(*   fingers    where each finger is that is down                          *)
(*   touchid    seat->touch_id                                             *)
(*   simtouch, simid, up   simulating_pointer_from_touch, pointer_touch_id *)
(*              and pointer_touch_up                                       *)
(*   due        fingers with an event since the last touch frame           *)
(*   tip, simtip, penTold  the tip is down, simulating_pointer_from_tool_  *)
(*              tip, and the surface that was told of the tip              *)
(*   tool, simtool, toolTold   tool_buttons, simulating_pointer_from_tool_ *)
(*              button, and the surface that was told of a tool button     *)
(*   gesture    the gesture that the fingers on the touchpad make          *)
(*   hidden     cursor->hidden                                             *)
(***************************************************************************)
EXTENDS SeatOps

CONSTANT Scenes   \* what is explored together

\* A scene is about windows in workspaces, and places in them.
ASSUME SceneAssumption ==
  \A s \in Scenes :
    /\ s.home \in [Windows -> Spaces] /\ s.at \in [Windows -> {"tiled", "floating"}]
    /\ s.shown \in Spaces /\ s.pin \in Windows \cup {None}
    /\ s.over \subseteq Windows /\ s.parts \subseteq {"contents", "titlebar", "border"}
    /\ s.fingers \subseteq Fingers

VARIABLES p, steps, scene

vars == <<p, steps, scene>>

-----------------------------------------------------------------------------
(* cursor.c.                                                                *)

\* cursor_hide
Hide(q) == PointerClear([q EXCEPT !.hidden = TRUE])

\* cursor_handle_activity_from_idle_source and cursor_unhide
Activity(q) == IF q.hidden THEN Rebase([q EXCEPT !.hidden = FALSE]) ELSE q

\* dispatch_cursor_button
Dispatch(q, device, b, press) == SeatopButton(q, scene.bindings, device, b, press, scene.along)

\* pressed_button_count as handle_pointer_button counts
Count(q, b, press) ==
  [q EXCEPT !.held = IF press THEN @ \cup {b} ELSE @ \ {b}, !.count = IF press THEN @ + 1 ELSE @ - 1]

\* handle_pointer_button
PointerButton(q, b, press) == Then(Activity(Count(q, b, press)), LAMBDA r : Dispatch(r, "mouse", b, press))

\* pointer_motion: a constraint only binds the mouse, and only over its surface.
Motion(q, spot, mouse, far) ==
  LET bound == mouse /\ q.active # None
      over == NodeAt(q, q.spot).surface = q.active
      Move(r) == SeatopMotion(r, scene.follows, far)
  IN  IF bound /\ ~over THEN q
      ELSE Move(IF bound THEN q ELSE [q EXCEPT !.spot = spot])

NotifyTouch(q, finger, surface) == [q EXCEPT !.points[finger] = surface]

\* handle_touch_down of the down operation
TouchDownDown(q, finger, spot) ==
  LET n == NodeAt(q, spot)
      told == NotifyTouch([q EXCEPT !.op.points = @ \cup {finger}], finger,
                          IF "touch" \in Accepts[n.surface] THEN n.surface ELSE None)
  IN  IF n.surface = None \/ n.surface # q.op.surface THEN q
      ELSE IF n.node # None THEN SetFocus(told, n.node) ELSE told

SimulateTouch(q, finger, spot) ==
  Then(Motion([q EXCEPT !.simtouch = TRUE, !.simid = finger], spot, FALSE, FALSE),
       LAMBDA r : Dispatch(r, "touch", Left, TRUE))

\* handle_touch_down of the default operation
TouchDownDefault(q, finger, spot) ==
  LET n == NodeAt(q, spot)
  IN  IF n.surface # None /\ "touch" \in Accepts[n.surface]
      THEN TouchDownDown(BeginDown([q EXCEPT !.simtouch = FALSE], n.surface, None), finger, spot)
      ELSE IF q.simtouch THEN q ELSE SimulateTouch(q, finger, spot)

\* handle_touch_down: the cursor is hidden while a finger is used.
TouchDown(q, finger, spot) ==
  LET Down(r) == CASE r.op.kind = "default" -> TouchDownDefault(r, finger, spot)
                   [] r.op.kind = "down" -> TouchDownDown(r, finger, spot)
                   [] OTHER -> r
  IN  Then(Hide([q EXCEPT !.fingers = (finger :> spot) @@ @, !.touchid = finger, !.due = @ \cup {finger}]), Down)

\* An operation that ends with the first finger that is lifted
TouchUpDown_FirstEnds(q, finger) == BeginDefault(NotifyTouch([q EXCEPT !.op.points = @ \ {finger}], finger, None))

\* handle_touch_up and handle_touch_cancel of the down operation
TouchUpDown(q, finger) ==
  LET left == NotifyTouch([q EXCEPT !.op.points = @ \ {finger}], finger, None)
  IN  IF left.op.points = {} THEN BeginDefault(left) ELSE left

Lift(q, finger) == [q EXCEPT !.fingers = Restrict(@, DOMAIN @ \ {finger}), !.due = @ \cup {finger}]

\* handle_touch_up and handle_touch_cancel: the finger that is compared is the last that
\* went down, not the one that is lifted.
TouchUp(q, finger) ==
  LET r == Lift(q, finger)
  IN  IF r.simtouch
      THEN IF r.simid = r.touchid THEN Dispatch([r EXCEPT !.up = TRUE], "touch", Left, FALSE) ELSE r
      ELSE IF r.op.kind = "down" THEN TouchUpDown(r, finger) ELSE r

\* handle_touch_motion: only the finger that is simulated moves the cursor.
TouchMotion(q, finger, spot, far) ==
  LET r == [q EXCEPT !.fingers[finger] = spot, !.due = @ \cup {finger}]
  IN  IF r.simtouch /\ r.simid = r.touchid THEN Motion(r, spot, FALSE, far) ELSE r

\* handle_touch_frame
TouchFrame(q) ==
  LET framed == [q EXCEPT !.due = {}]
  IN  IF q.simtouch /\ q.up THEN [framed EXCEPT !.up = FALSE, !.simtouch = FALSE] ELSE framed

\* The surface under the cursor handles a tablet.
OnTablet(q) == LET s == NodeAt(q, q.spot).surface IN s # None /\ "tablet" \in Accepts[s]

\* handle_tablet_tool_position
ToolPosition(q, spot, far) ==
  LET r == [q EXCEPT !.spot = spot]
  IN  IF ~r.simtip /\ (OnTablet(r) \/ r.penTold # None)
      THEN IF r.op.kind = "default" THEN [FocusFollows(r, NodeAt(r, spot), scene.follows)
                                            EXCEPT !.prev = NodeAt(r, spot).node]
           ELSE IF r.op.kind = "down" THEN r ELSE SeatopMotion(r, scene.follows, far)
      ELSE Motion(r, spot, FALSE, far)

TellPen(q, surface) == [q EXCEPT !.penTold = surface]

\* handle_tablet_tool_tip of the default operation
TipDefault(q, down) ==
  LET n == NodeAt(q, q.spot)
      w == n.node
      floating == w \in Windows /\ q.win[w].at = "floating"
      full == w \in Windows /\ q.win[w].full
  IN  IF ~down THEN TellPen(q, None)
      ELSE IF n.part = "panel" THEN TellPen(SetFocusLayer(q), Panel)
      ELSE IF floating /\ ~full /\ q.mod THEN BeginMoveFloating(SetFocus(q, w), w)
      ELSE IF ~floating /\ ~full /\ q.mod THEN BeginMoveTiling(q, w, TRUE)
      ELSE TellPen(BeginDown(SetFocus(q, w), w, w), w)

\* seatop_tablet_tool_tip: a tip that is lifted ends a move, but no resize.
SeatopTip(q, down) ==
  CASE q.op.kind = "default" -> TipDefault(q, down)
    [] q.op.kind = "down" /\ ~down -> BeginDefault(TellPen(q, None))
    [] q.op.kind \in {"move_tiling", "move_floating"} /\ ~down -> Released(q, scene.along)
    [] OTHER -> q

\* handle_tool_tip
ToolTip(q, down) ==
  LET r == [Activity(q) EXCEPT !.tip = down]
  IN  IF r.simtip /\ ~down THEN Dispatch([r EXCEPT !.simtip = FALSE], "tablet", Left, FALSE)
      ELSE IF OnTablet(r) \/ ~down THEN SeatopTip(r, down)
      ELSE Dispatch([r EXCEPT !.simtip = TRUE], "tablet", Left, TRUE)

\* handle_tool_button: as long as one is held they are all simulated, or none is.
ToolButton(q, press) ==
  LET r == Activity(q)
      simulate == (r.tool > 0 /\ r.simtool) \/ (r.tool = 0 /\ (r.mod \/ ~OnTablet(r)))
      sim == [r EXCEPT !.simtool = TRUE]
      surface == NodeAt(r, r.spot).surface
      told == [r EXCEPT !.simtool = FALSE,
                        !.toolTold = IF ~press /\ r.tool = 1 THEN None ELSE IF press /\ @ = None THEN surface ELSE @]
      now == IF ~simulate THEN told
             ELSE IF press /\ r.tool = 0 THEN Dispatch(sim, "tablet", Right, TRUE)
             ELSE IF ~press /\ r.tool <= 1 THEN Dispatch(sim, "tablet", Right, FALSE) ELSE sim
  IN  [now EXCEPT !.tool = IF press THEN @ + 1 ELSE @ - 1]

\* handle_hold_begin, handle_pinch_begin and handle_swipe_begin; operations other than
\* the default one hear of no gesture.
GestureBegin(q, type) ==
  LET r == [Activity(q) EXCEPT !.gesture = type]
  IN  IF r.op.kind # "default" THEN r
      ELSE IF type \in scene.gestures THEN [r EXCEPT !.track = type]
      ELSE IF type = "swipe" /\ CanScroll(r) THEN ScrollBegin(r) ELSE r

\* handle_hold_end, handle_pinch_end and handle_swipe_end
GestureEnd(q, type, cancelled) ==
  LET r == [Activity(q) EXCEPT !.gesture = None]
      bound == r.track = type
  IN  IF r.op.kind # "default" THEN r
      ELSE IF type = "swipe" /\ Scrolling(r) THEN ScrollEnd(r, scene.along)
      ELSE IF bound /\ ~cancelled THEN Execute([r EXCEPT !.track = None], scene.swipeTo)
      ELSE IF bound THEN [r EXCEPT !.track = None] ELSE r

-----------------------------------------------------------------------------
Start ==
  [win |-> [w \in Windows |-> [NewWindow EXCEPT !.ws = scene.home[w], !.at = scene.at[w]]],
   spaces |-> {scene.shown} \cup {scene.home[w] : w \in Windows}, shown |-> scene.shown,
   panel |-> TRUE, kbd |-> scene.shown, spot |-> [part |-> "workspace", x |-> None], mod |-> FALSE,
   op |-> NoOp, pressed |-> <<>>, prev |-> None, track |-> None, focus |-> None, told |-> {},
   last |-> None, points |-> [f \in Fingers |-> None], count |-> 0,
   scrolling |-> {}, pin |-> scene.pin, grip |-> [ws \in Spaces |-> None],
   constraints |-> {}, active |-> None, held |-> {}, ipc |-> {},
   fingers |-> <<>>, touchid |-> None, simtouch |-> FALSE, simid |-> None, up |-> FALSE, due |-> {},
   tip |-> FALSE, simtip |-> FALSE, penTold |-> None, tool |-> 0, simtool |-> FALSE, toolTold |-> None,
   gesture |-> None, hidden |-> FALSE]

Init ==
  /\ scene \in Scenes
  /\ steps = 0
  /\ p = BeginDefault(Start)

Buttons == {Left, Right, Middle}

\* Places that the scene uses: parts of a window, the panel, and the workspace
Spots == [part : scene.parts, x : scene.over] \cup {[part |-> "workspace", x |-> None] : i \in scene.bare}
           \cup {[part |-> "panel", x |-> Panel] : i \in scene.acts \cap {"panel"}}

\* A button of the mouse that is let go ends the operation of a finger, whose release is
\* then lost: no scene has one held while a client is told of the other.
Apart(new) == new.held # {} => \A f \in Fingers : new.points[f] = None

\* An event of kind act, which the scene allows
Event(act, new) ==
  /\ act \in scene.acts /\ steps < scene.most /\ Apart(new)
  /\ steps' = steps + 1
  /\ p' = new
  /\ UNCHANGED scene

\* What can always happen: something that is held is let go.
LetGo(new) == p' = new /\ UNCHANGED <<steps, scene>>

\* The mouse
Press(b) == b \in scene.buttons \ p.held /\ Event("mouse", PointerButton(p, b, TRUE))
Release(b) == b \in p.held /\ LetGo(PointerButton(p, b, FALSE))
Move(spot, far) ==
  Event("move", Then(Activity(p), LAMBDA q : Motion(q, spot, TRUE, far)))
Wheel == Event("wheel", IF p.op.kind = "default" THEN AxisDefault(Activity(p), scene.bindings, "mouse", Middle + 1)
                        ELSE Activity(p))
Modifier == Event("mod", [p EXCEPT !.mod = ~@])

\* press_or_release of the command "seat cursor", and hide_notify or a key that is typed
CursorPress(b) ==
  b \notin p.ipc /\ Event("ipc", Activity(Dispatch([p EXCEPT !.ipc = @ \cup {b}], "*", b, TRUE)))
CursorRelease(b) ==
  b \in p.ipc /\ LetGo(Activity(Dispatch([p EXCEPT !.ipc = @ \ {b}], "*", b, FALSE)))
HideCursor == ~p.hidden /\ Event("hide", Hide(p))

\* The simulation of a pointer ends with the finger that went down last; without "second"
\* no other one goes down beside one that is simulated.
SecondFinger == p.simtouch => "second" \in scene.acts

\* A touch screen: a frame comes before a finger is down anew.
FingerDown(f, spot) ==
  /\ f \in scene.fingers \ (DOMAIN p.fingers \cup p.due) /\ SecondFinger
  /\ Event("touch", TouchDown(p, f, spot))
FingerMove(f, spot, far) ==
  f \in DOMAIN p.fingers \ p.due /\ Event("touch", TouchMotion(p, f, spot, far))
FingerUp(f) == f \in DOMAIN p.fingers \ p.due /\ LetGo(TouchUp(p, f))
Frame == p.due # {} /\ LetGo(TouchFrame(p))

\* A tablet
PenMove(spot, far) == Event("pen", ToolPosition(Activity(p), spot, far))
PenDown == ~p.tip /\ Event("pen", ToolTip(p, TRUE))
PenUp == p.tip /\ LetGo(ToolTip(p, FALSE))
ToolPress == p.tool < 2 /\ Event("tool", ToolButton(p, TRUE))
ToolRelease == p.tool > 0 /\ LetGo(ToolButton(p, FALSE))

\* A touchpad
FingersBegin(type) == p.gesture = None /\ Event("gesture", GestureBegin(p, type))
FingersEnd(cancelled) == p.gesture # None /\ LetGo(GestureEnd(p, p.gesture, cancelled))

\* handle_request_move and handle_request_resize: a client answers a press, once.
Request(w, kind) ==
  /\ p.last = w /\ p.win[w].on /\ p.win[w].at = "floating"
  /\ kind = "move_floating" => ~p.win[w].full
  /\ LET q == [p EXCEPT !.last = None]
     IN  Event("request", IF kind = "move_floating" THEN BeginMoveFloating(q, w)
                          ELSE BeginResize(q, w, "resize_floating"))

\* handle_pointer_constraint and handle_constraint_destroy
NewConstraint(w) ==
  LET new == [p EXCEPT !.constraints = @ \cup {w}]
  IN  p.win[w].on /\ w \notin p.constraints /\ Event("constraint", IF p.kbd = w THEN Constrain(new, w) ELSE new)
DropConstraint(w) ==
  /\ w \in p.constraints
  /\ Event("constraint", [p EXCEPT !.constraints = @ \ {w}, !.active = IF @ = w THEN None ELSE @])

\* A window is unmapped and destroyed; another one, or the workspace, has the focus.
Close(w) ==
  LET Out(x) == IF x = w THEN None ELSE x
      Gone(q) == [q EXCEPT !.win[w].on = FALSE, !.constraints = @ \ {w}, !.active = Out(@),
                           !.penTold = Out(@), !.toolTold = Out(@), !.last = Out(@),
                           !.points = [f \in Fingers |-> Out(@[f])]]
      Next1(q) == IF q.kbd # w THEN q
                  ELSE SetFocus(q, IF On(q, q.shown) = {} THEN q.shown ELSE CHOOSE v \in On(q, q.shown) : TRUE)
      Leave(q) == SurfaceGone(Next1(Gone(q)), w)
  IN  p.win[w].on /\ Event("close", Then(Then(Unref(p, w), Leave), Rebase))

\* Commands: focus, workspace, fullscreen, floating toggle and move scratchpad
FocusWindow(w) == p.win[w].on /\ p.win[w].at # "hidden" /\ p.kbd # w /\ Event("focus", Rebase(SetFocus(p, w)))
Switch(ws) == ws # p.shown /\ Event("switch", Execute(p, ws))
Fullscreen(w) ==
  /\ w \in On(p, p.shown) /\ \A v \in On(p, p.shown) \ {w} : ~p.win[v].full
  /\ Event("full", Rebase(SetFocus([p EXCEPT !.win[w].full = ~@], w)))
Float(w) ==
  \* what a drag or a resize is about is not floated under it
  /\ p.op.con = w => p.op.kind = "down"
  /\ w \in On(p, p.shown) /\ ~p.win[w].full
  /\ Event("float", Rebase([p EXCEPT !.win[w].at = IF @ = "tiled" THEN "floating" ELSE "tiled"]))

\* The layer surface is destroyed.
PanelGone ==
  LET Out(x) == IF x = Panel THEN None ELSE x
      gone == [p EXCEPT !.panel = FALSE, !.penTold = Out(@), !.toolTold = Out(@), !.last = Out(@),
                        !.points = [f \in Fingers |-> Out(@[f])]]
  IN  p.panel /\ Event("panel", Rebase(SurfaceGone(gone, Panel)))

Next ==
  \/ \E b \in Buttons : Press(b) \/ Release(b) \/ CursorPress(b) \/ CursorRelease(b)
  \/ \E s \in Spots, far \in BOOLEAN :
       Move(s, far) \/ PenMove(s, far) \/ \E f \in Fingers : FingerMove(f, s, far)
  \/ \E f \in Fingers : FingerUp(f) \/ \E s \in Spots : FingerDown(f, s)
  \/ Wheel \/ Modifier \/ HideCursor \/ Frame \/ PenDown \/ PenUp \/ ToolPress \/ ToolRelease \/ PanelGone
  \/ \E t \in {"hold", "pinch", "swipe"} : FingersBegin(t)
  \/ \E cancelled \in BOOLEAN : FingersEnd(cancelled)
  \/ \E w \in Windows : \/ \E kind \in {"move_floating", "resize_floating"} : Request(w, kind)
                        \/ NewConstraint(w) \/ DropConstraint(w) \/ Close(w)
                        \/ FocusWindow(w) \/ Fullscreen(w) \/ Float(w)
  \/ \E ws \in Spaces : Switch(ws)

Spec == Init /\ [][Next]_vars

-----------------------------------------------------------------------------
(* What is promised.                                                        *)

\* A button that is held down on the mouse, by a command, a finger or a pen
Pressing(b) ==
  \/ b \in p.held \cup p.ipc
  \/ b = Left /\ (p.tip \/ DOMAIN p.fingers # {})
  \/ b = Right /\ p.tool > 0

\* The simulation of buttons by a finger ends with the fingers: "multi touch events don't
\* interfere" (the comment of handle_touch_down, seatop_default.c).
SimulationEnds == p.simtouch => DOMAIN p.fingers # {} \/ p.due # {}

\* An operation lasts no longer than what it was begun with: it ends, in whatever
\* order buttons of the mouse, simulated ones, fingers and the pen are let go, but for
\* a finger beside one that is simulated (SecondFinger), and what it has switched on is
\* switched off: the resizing state of a container, the scrolling of a workspace, the
\* simulation of buttons.
NothingLeftOn ==
  /\ p.op.kind # "default" => (\E b \in Buttons : Pressing(b))
  /\ \A w \in Windows : p.win[w].on /\ p.win[w].resizing =>
                          p.op.con = w /\ p.op.kind \in {"resize_tiling", "resize_floating"}
  /\ p.scrolling # {} => p.op.kind = "scroll_tiling" \/ p.gesture = "swipe"
  /\ SimulationEnds
  /\ p.track # None => p.track = p.gesture

\* What an operation is about is as its handlers take it to be: a tiled container in a
\* workspace, or a floating one, which another one that is floated meanwhile is not.
OpFits ==
  /\ p.op.kind \in {"move_tiling", "resize_tiling"} => p.win[p.op.con].at = "tiled"
  /\ p.op.kind \in {"move_floating", "resize_floating"} => p.win[p.op.con].at = "floating"

\* Operations end and are about what they were begun for.  (seatop_*.c, cursor.c)
OperationsSound == NothingLeftOn /\ OpFits

\* No window or panel that the seat points to is gone: the container, the surface and
\* the drop target of the operation, the surfaces that the pointer, the fingers, the pen
\* and its buttons are on, the one that may ask for a move, and the one the mouse is bound
\* to, whatever closes while an operation goes on.  (seatop_unref, handle_destroy)
Exists(x) == (x \in Windows => p.win[x].on) /\ (x = Panel => p.panel)

OpAlive ==
  /\ \A x \in {p.op.con, p.op.surface, p.op.target} : Exists(x)
  /\ \A x \in {p.focus, p.last, p.penTold, p.toolTold} : Exists(x)
  /\ \A f \in Fingers : Exists(p.points[f])
  /\ p.op.kind \notin {"default", "down", "scroll_tiling"} => p.op.con \in Windows
  /\ p.active # None => p.active \in p.constraints
  /\ \A w \in p.constraints : Exists(w)

\* No button, finger or pen stays down for a client: what the surface under the
\* pointer was told of is held, each finger that a surface was told of is down, and so
\* are the tip and the buttons of the pen.
ClientsLetGo ==
  /\ \A b \in p.told : Pressing(b)
  /\ \A f \in Fingers : p.points[f] # None => f \in DOMAIN p.fingers
  /\ p.penTold # None => p.tip
  /\ p.toolTold # None => p.tool > 0
  /\ p.told # {} => p.focus # None

=============================================================================
