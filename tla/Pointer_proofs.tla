---------------------------- MODULE Pointer_proofs ----------------------------
(***************************************************************************)
(* Whatever closes, and in whatever order buttons, fingers and pens are    *)
(* pressed and let go, no window that the seat points to is gone: OpAlive, *)
(* in every scene.  Each function of the seat has a lemma, that it leads   *)
(* from a sound pointer to a sound one; the actions combine them.          *)
(***************************************************************************)
EXTENDS Pointer, TLAPS

-----------------------------------------------------------------------------
(* What is invariant.                                                       *)

Fields == {"win", "shown", "panel", "spot", "op", "focus", "last", "points", "constraints",
           "active", "penTold", "toolTold"}
OpFields == {"kind", "con", "surface", "target"}

\* A place in a window is a part of the window.
PlaceOk(spot) == spot.x \in Windows => spot.part \notin {"workspace", "panel"}

\* The fields are there and what they hold is of the right kind.
Shaped(q) ==
  /\ Fields \subseteq DOMAIN q
  /\ DOMAIN q.win = Windows
  /\ \A w \in Windows : {"on", "ws"} \subseteq DOMAIN q.win[w] /\ q.win[w].ws \in Spaces
  /\ Fingers \subseteq DOMAIN q.points
  /\ q.shown \in Spaces
  /\ PlaceOk(q.spot)

\* x is there, or is one of those that are just going, W.
There(q, x, W) == x \in W \/ ((x \in Windows => q.win[x].on) /\ (x = Panel => q.panel))

\* An operation that may be begun.
OpOk(q, op, W) ==
  /\ OpFields \subseteq DOMAIN op
  /\ op.con \in Windows \cup {None} /\ op.target \in Windows \cup Spaces \cup {None}
  /\ There(q, op.con, W) /\ There(q, op.surface, W) /\ There(q, op.target, W)
  /\ op.kind \notin {"default", "down", "scroll_tiling"} => op.con \in Windows

\* What clients were told of is there.
ClientsOk(q, W) ==
  /\ There(q, q.focus, W) /\ There(q, q.last, W) /\ There(q, q.penTold, W) /\ There(q, q.toolTold, W)
  /\ \A f \in Fingers : There(q, q.points[f], W)

ConstraintsOk(q) ==
  /\ q.active # None => q.active \in q.constraints
  /\ \A w \in q.constraints : w \in Windows /\ There(q, w, {})

Good(q, W) == Shaped(q) /\ OpOk(q, q.op, W) /\ ClientsOk(q, W) /\ ConstraintsOk(q)

\* The pointer is still sound, and no window or panel has come or gone.
Leads(q, r, W) ==
  /\ Good(r, W)
  /\ \A w \in Windows : r.win[w].on = q.win[w].on
  /\ r.panel = q.panel /\ r.constraints = q.constraints

\* The inductive invariant.
IInv == Good(p, {}) /\ scene \in Scenes

-----------------------------------------------------------------------------
(* How lemmas are combined.                                                 *)

\* Then applies its operator to the state.
LEMMA ThenIs == ASSUME NEW v, NEW Op(_) PROVE Then(v, Op) = Op(v)
<1>1. {Op(x) : x \in {v}} = {Op(v)} OBVIOUS
<1> QED BY <1>1 DEF Then

\* A function that does nothing leads on.
LEMMA Stay == ASSUME NEW W, NEW q, Good(q, W) PROVE Leads(q, q, W)
BY DEF Leads

\* One function after another leads on.
LEMMA Chain ==
  ASSUME NEW W, NEW q, NEW r, NEW s, Leads(q, r, W), Leads(r, s, W) PROVE Leads(q, s, W)
BY DEF Leads

\* It leads to a sound pointer.
LEMMA Sound == ASSUME NEW W, NEW q, NEW r, Leads(q, r, W) PROVE Good(r, W)
BY DEF Leads

\* What was there still is.
LEMMA Remains ==
  ASSUME NEW W, NEW V, NEW q, NEW r, Leads(q, r, W), NEW x, There(q, x, V) PROVE There(r, x, V)
BY DEF Leads, There

\* What the seat knows of windows and clients is unchanged.
Alike(q, r) ==
  /\ Fields \subseteq DOMAIN r
  /\ r.win = q.win /\ r.panel = q.panel /\ r.shown = q.shown /\ r.spot = q.spot /\ r.op = q.op
  /\ r.constraints = q.constraints /\ r.active = q.active
  /\ r.focus = q.focus /\ r.last = q.last /\ r.points = q.points
  /\ r.penTold = q.penTold /\ r.toolTold = q.toolTold

\* A change of anything else leads on.
LEMMA Elsewhere == ASSUME NEW W, NEW q, NEW r, Good(q, W), Alike(q, r) PROVE Leads(q, r, W)
BY DEF Alike, Leads, Good, Shaped, OpOk, ClientsOk, ConstraintsOk, There

-----------------------------------------------------------------------------
(* Places, and what clients hear.                                           *)

\* What node_at_coords may return.
Node(q, n) ==
  /\ There(q, n.surface, {}) /\ There(q, n.node, {})
  /\ \/ n.part = "workspace" /\ n.node \in Spaces /\ n.surface = None
     \/ n.part = "panel" /\ n.node = None /\ n.surface = Panel
     \/ n.part \notin {"workspace", "panel"} /\ n.node \in Windows /\ n.surface \in {n.node, None}

\* It returns nothing else.
LEMMA NodeIs ==
  ASSUME NEW W, NEW q, Good(q, W), NEW spot, PlaceOk(spot) PROVE Node(q, NodeAt(q, spot))
<1>1. CASE spot.x = Panel /\ q.panel BY <1>1, NodeAssumption DEF NodeAt, Node, There
<1>2. CASE ~(spot.x = Panel /\ q.panel) /\ ~(spot.x \in Windows /\ Visible(q, spot.x))
  BY <1>2, NodeAssumption DEF NodeAt, Node, There, Good, Shaped
<1>3. CASE ~(spot.x = Panel /\ q.panel) /\ spot.x \in Windows /\ Visible(q, spot.x)
  <2>1. q.win[spot.x].on BY <1>3 DEF Visible, On
  <2> QED BY <1>3, <2>1, NodeAssumption DEF NodeAt, Node, PlaceOk, There
<1> QED BY <1>1, <1>2, <1>3

\* What it returns is there.
LEMMA NodeThere ==
  ASSUME NEW q, NEW n, Node(q, n), NEW V PROVE There(q, n.surface, V) /\ There(q, n.node, V)
BY DEF Node, There

\* It still is, later.
LEMMA NodeStays ==
  ASSUME NEW W, NEW q, NEW r, Leads(q, r, W), NEW n, Node(q, n) PROVE Node(r, n)
BY Remains DEF Node

\* The node under the cursor.
LEMMA NodeHere == ASSUME NEW W, NEW q, Good(q, W) PROVE Node(q, NodeAt(q, q.spot))
<1>1. PlaceOk(q.spot) BY DEF Good, Shaped
<1> QED BY <1>1, NodeIs

\* There is always nothing.
LEMMA NoneThere == ASSUME NEW q, NEW V PROVE There(q, None, V)
BY NodeAssumption DEF There

\* A client is entered.
LEMMA EnterLeads ==
  ASSUME NEW W, NEW q, Good(q, W), NEW s, There(q, s, W) PROVE Leads(q, PointerEnter(q, s), W)
<1>1. CASE q.focus = s BY <1>1, Stay DEF PointerEnter
<1>2. CASE q.focus # s
  <2> DEFINE r == [q EXCEPT !.focus = s, !.told = {}]
  <2>1. Good(r, W) BY DEF Good, Shaped, OpOk, ClientsOk, ConstraintsOk, There, Fields
  <2>2. Leads(q, r, W) BY <2>1 DEF Leads, Good, Shaped, Fields
  <2> QED BY <1>2, <2>2 DEF PointerEnter
<1> QED BY <1>1, <1>2

\* No client is.
LEMMA ClearLeads == ASSUME NEW W, NEW q, Good(q, W) PROVE Leads(q, PointerClear(q), W)
BY NoneThere, EnterLeads DEF PointerClear

\* A button is told.
LEMMA ButtonLeads ==
  ASSUME NEW W, NEW q, Good(q, W), NEW b, NEW press PROVE Leads(q, NotifyButton(q, b, press), W)
<1> DEFINE told == IF press THEN q.told \cup {b} ELSE q.told \ {b}
           l == IF press THEN q.focus ELSE None
           r == [q EXCEPT !.last = None]
           s == [q EXCEPT !.told = told, !.last = l]
<1>1. There(q, l, W) /\ There(q, None, W) BY NoneThere DEF Good, ClientsOk
<1> HIDE DEF l, told
<1>2. Good(r, W) BY <1>1 DEF Good, Shaped, OpOk, ClientsOk, ConstraintsOk, There, Fields
<1>3. Leads(q, r, W) BY <1>2 DEF Leads, Good, Shaped, Fields
<1>4. Good(s, W) BY <1>1 DEF Good, Shaped, OpOk, ClientsOk, ConstraintsOk, There, Fields
<1>5. Leads(q, s, W) BY <1>4 DEF Leads, Good, Shaped, Fields
<1>6. NotifyButton(q, b, press) = IF q.focus = None THEN r ELSE s BY DEF NotifyButton, told, l
<1> QED BY <1>3, <1>5, <1>6

\* previous_node is changed.
LEMMA PrevLeads == ASSUME NEW W, NEW q, Good(q, W), NEW x PROVE Leads(q, [q EXCEPT !.prev = x], W)
<1>1. Alike(q, [q EXCEPT !.prev = x]) BY DEF Alike, Good, Shaped, Fields
<1> QED BY <1>1, Elsewhere

\* The pointer is rebased.
LEMMA DefaultRebaseLeads == ASSUME NEW W, NEW q, Good(q, W) PROVE Leads(q, DefaultRebase(q), W)
<1> DEFINE n == NodeAt(q, q.spot)
           e == PointerEnter(q, n.surface)
<1>1. There(q, n.surface, W) BY NodeHere, NodeThere
<1>2. Leads(q, e, W) BY <1>1, EnterLeads
<1>3. Leads(e, [e EXCEPT !.prev = n.node], W) BY <1>2, Sound, PrevLeads
<1>4. DefaultRebase(q) = [e EXCEPT !.prev = n.node] BY DEF DefaultRebase
<1> HIDE DEF e, n
<1> QED BY <1>2, <1>3, <1>4, Chain

\* So is the cursor.
LEMMA RebaseLeads == ASSUME NEW W, NEW q, Good(q, W) PROVE Leads(q, Rebase(q), W)
BY DefaultRebaseLeads, Stay DEF Rebase

\* A constraint becomes the active one.
LEMMA ConstrainLeads ==
  ASSUME NEW W, NEW q, Good(q, W), NEW s \in q.constraints \cup {None}
  PROVE  Leads(q, Constrain(q, s), W)
<1> DEFINE new == [q EXCEPT !.active = s]
           here == [new EXCEPT !.spot = [part |-> "contents", x |-> s]]
<1>1. Good(new, W) BY DEF Good, Shaped, OpOk, ClientsOk, ConstraintsOk, There, Fields
<1>2. Leads(q, new, W) BY <1>1 DEF Leads, Good, Shaped, Fields
<1>3. Good(here, W)
  BY <1>1 DEF Good, Shaped, OpOk, ClientsOk, ConstraintsOk, There, Fields, PlaceOk
<1>4. Leads(q, here, W) BY <1>3 DEF Leads, Good, Shaped, Fields
<1>5. Leads(q, Rebase(here), W) BY <1>3, <1>4, RebaseLeads, Chain
<1> HIDE DEF here
<1>6. Constrain(q, s) \in {q, new, Rebase(here)} BY DEF Constrain, here
<1> QED BY <1>2, <1>5, <1>6, Stay

\* What seat_set_focus leaves as it is.
Keeps(q, r) ==
  /\ r.op = q.op /\ r.last = q.last /\ r.points = q.points /\ r.penTold = q.penTold /\ r.toolTold = q.toolTold

\* The cursor is rebased, which tells the client under it.
LEMMA RebaseKeeps == ASSUME NEW W, NEW q, Good(q, W) PROVE Keeps(q, Rebase(q))
<1> DEFINE n == NodeAt(q, q.spot)
           e == PointerEnter(q, n.surface)
<1>1. Keeps(q, e) /\ Good(e, W)
  <2>1. Good(e, W) BY NodeHere, NodeThere, EnterLeads, Sound
  <2> HIDE DEF n
  <2>2. Keeps(q, e) BY DEF PointerEnter, Keeps
  <2> QED BY <2>1, <2>2
<1> HIDE DEF e
<1>2. Keeps(q, [e EXCEPT !.prev = n.node])
  <2> HIDE DEF n
  <2> QED BY <1>1 DEF Keeps, Good, Shaped, Fields
<1>3. DefaultRebase(q) = [e EXCEPT !.prev = n.node] BY DEF DefaultRebase, e
<1>4. Keeps(q, q) BY DEF Keeps
<1> HIDE DEF n
<1> QED BY <1>2, <1>3, <1>4 DEF Rebase

\* A constraint becomes the active one.
LEMMA ConstrainKeeps ==
  ASSUME NEW W, NEW q, Good(q, W), NEW s \in q.constraints \cup {None}
  PROVE  Keeps(q, Constrain(q, s))
<1> DEFINE new == [q EXCEPT !.active = s]
           here == [new EXCEPT !.spot = [part |-> "contents", x |-> s]]
<1>1. Good(new, W) /\ Keeps(q, new)
  BY DEF Good, Shaped, OpOk, ClientsOk, ConstraintsOk, There, Fields, Keeps
<1>2. Good(here, W) /\ Keeps(q, here)
  BY <1>1 DEF Good, Shaped, OpOk, ClientsOk, ConstraintsOk, There, Fields, PlaceOk, Keeps
<1> HIDE DEF here
<1>3. Keeps(here, Rebase(here)) BY <1>2, RebaseKeeps
<1>4. Keeps(q, Rebase(here)) BY <1>2, <1>3 DEF Keeps
<1>5. Constrain(q, s) \in {q, new, Rebase(here)} BY DEF Constrain, here
<1> QED BY <1>1, <1>4, <1>5 DEF Keeps

\* The focus of the keyboard goes to a window or a workspace.
LEMMA SetFocusLeads ==
  ASSUME NEW W, NEW q, Good(q, W), NEW node \in Windows \cup Spaces
  PROVE  Leads(q, SetFocus(q, node), W) /\ Keeps(q, SetFocus(q, node))
<1> DEFINE ws == IF node \in Windows THEN q.win[node].ws ELSE node
           left == IF ws # q.shown /\ On(q, q.shown) = {} THEN {q.shown} ELSE {}
           spaces == (q.spaces \ left) \cup {ws}
           r == [q EXCEPT !.kbd = node, !.shown = ws, !.spaces = (@ \ left) \cup {ws}]
           s == IF node \in q.constraints THEN node ELSE None
<1>1. ws \in Spaces BY DEF Good, Shaped
<1>2. SetFocus(q, node) \in {q, Constrain(r, s)} BY DEF SetFocus
<1> HIDE DEF ws, left
<1>3. Good(r, W) /\ r.constraints = q.constraints
  BY <1>1 DEF Good, Shaped, OpOk, ClientsOk, ConstraintsOk, There, Fields
<1>4. Leads(q, r, W) BY <1>3 DEF Leads, Good, Shaped, Fields
<1>5. Keeps(q, r) BY DEF Keeps, Good, Shaped, Fields
<1>6. s \in r.constraints \cup {None} BY <1>3
<1> HIDE DEF r, s
<1>7. Leads(q, Constrain(r, s), W) BY <1>3, <1>4, <1>6, ConstrainLeads, Chain
<1>8. Keeps(q, Constrain(r, s)) BY <1>3, <1>5, <1>6, ConstrainKeeps DEF Keeps
<1> QED BY <1>2, <1>7, <1>8, Stay DEF Keeps

\* The focus of the keyboard goes to the panel.
LEMMA LayerLeads == ASSUME NEW W, NEW q, Good(q, W) PROVE Leads(q, SetFocusLayer(q), W)
<1> DEFINE r == [q EXCEPT !.kbd = Panel]
<1>1. Alike(q, r) BY DEF Alike, Good, Shaped, Fields
<1>2. Leads(q, r, W) BY <1>1, Elsewhere
<1> HIDE DEF r
<1>3. Leads(r, Constrain(r, None), W) BY <1>2, Sound, ConstrainLeads
<1> QED BY <1>2, <1>3, Chain DEF SetFocusLayer, r

-----------------------------------------------------------------------------
(* Operations begin.                                                        *)

\* An operation that is sound begins.
LEMMA BeginLeads ==
  ASSUME NEW W, NEW q, Good(q, W), NEW op, OpOk(q, op, W)
  PROVE  Leads(q, Begin(q, op), W) /\ Begin(q, op).op = op
<1>1. Begin(q, op).op = op BY DEF Begin, Good, Shaped, Fields
<1>2. Good(Begin(q, op), W)
  BY DEF Begin, Good, Shaped, OpOk, ClientsOk, ConstraintsOk, There, Fields
<1>3. Leads(q, Begin(q, op), W) BY <1>2 DEF Begin, Leads, Good, Shaped, Fields
<1> QED BY <1>1, <1>3

\* What an operation that has just begun is about.
LEMMA NewIsOk ==
  ASSUME NEW W, NEW q, NEW kind, NEW con \in Windows \cup {None}, There(q, con, W),
         kind \notin {"default", "down", "scroll_tiling"} => con \in Windows
  PROVE  OpOk(q, NewOp(kind, con), W)
BY NoneThere DEF NewOp, OpOk, OpFields

\* The default operation begins.
LEMMA BeginDefaultLeads == ASSUME NEW W, NEW q, Good(q, W) PROVE Leads(q, BeginDefault(q), W)
<1>1. OpOk(q, NoOp, W) BY NoneThere, NewIsOk DEF NoOp
<1>2. Leads(q, Begin(q, NoOp), W) BY <1>1, BeginLeads
<1> QED BY <1>2, Sound, DefaultRebaseLeads, Chain DEF BeginDefault

\* It is about nothing.
LEMMA BeginDefaultOp == ASSUME NEW W, NEW q, Good(q, W) PROVE BeginDefault(q).op = NoOp
<1> DEFINE r == Begin(q, NoOp)
<1>1. OpOk(q, NoOp, W) BY NoneThere, NewIsOk DEF NoOp
<1>2. Good(r, W) /\ r.op = NoOp BY <1>1, BeginLeads, Sound
<1>3. DefaultRebase(r) = Rebase(r) BY <1>2 DEF Rebase, NoOp, NewOp
<1> HIDE DEF r
<1>4. Keeps(r, Rebase(r)) BY <1>2, RebaseKeeps
<1> QED BY <1>2, <1>3, <1>4 DEF BeginDefault, Keeps, r

\* A press on a surface begins.
LEMMA BeginDownLeads ==
  ASSUME NEW W, NEW q, Good(q, W), NEW s, There(q, s, W), NEW con \in Windows \cup {None},
         There(q, con, W)
  PROVE  Leads(q, BeginDown(q, s, con), W)
<1>1. OpOk(q, [NewOp("down", con) EXCEPT !.surface = s], W)
  BY NoneThere DEF NewOp, OpOk, OpFields
<1> QED BY <1>1, BeginLeads DEF BeginDown

\* A floating window begins to be moved.
LEMMA BeginMoveFloatingLeads ==
  ASSUME NEW W, NEW q, Good(q, W), NEW w \in Windows, There(q, w, W)
  PROVE  Leads(q, BeginMoveFloating(q, w), W)
<1>1. OpOk(q, NewOp("move_floating", w), W) BY NewIsOk
<1> QED BY <1>1, BeginLeads, Sound, ClearLeads, Chain DEF BeginMoveFloating

\* So does a tiled one.
LEMMA BeginMoveTilingLeads ==
  ASSUME NEW W, NEW q, Good(q, W), NEW w \in Windows, There(q, w, W), NEW started
  PROVE  Leads(q, BeginMoveTiling(q, w, started), W)
<1>1. OpOk(q, [NewOp("move_tiling", w) EXCEPT !.started = started], W)
  BY NoneThere DEF NewOp, OpOk, OpFields
<1> QED BY <1>1, BeginLeads, Sound, ClearLeads, Chain DEF BeginMoveTiling

\* A change of a window's place or size leads on.
LEMMA WindowLeads ==
  ASSUME NEW W, NEW q, Good(q, W), NEW w \in Windows, NEW x,
         {"on", "ws"} \subseteq DOMAIN x, x.on = q.win[w].on, x.ws \in Spaces
  PROVE  Leads(q, [q EXCEPT !.win[w] = x], W)
<1> DEFINE r == [q EXCEPT !.win[w] = x]
<1>1. \A v \in Windows : r.win[v] = (IF v = w THEN x ELSE q.win[v]) BY DEF Good, Shaped, Fields
<1>2. \A v \in Windows : r.win[v].on = q.win[v].on BY <1>1
<1>3. \A f \in Fields \ {"win"} : r[f] = q[f] BY DEF Good, Shaped, Fields
<1>4. Good(r, W)
  BY <1>1, <1>2 DEF Good, Shaped, OpOk, ClientsOk, ConstraintsOk, There, Fields
<1> QED BY <1>2, <1>4 DEF Leads, Good, Shaped, Fields

\* A window begins to be resized.
LEMMA BeginResizeLeads ==
  ASSUME NEW W, NEW q, Good(q, W), NEW w \in Windows, There(q, w, W), NEW kind
  PROVE  Leads(q, BeginResize(q, w, kind), W)
<1> DEFINE b == Begin(q, NewOp(kind, w))
           x == [b.win[w] EXCEPT !.resizing = TRUE]
<1>1. OpOk(q, NewOp(kind, w), W) BY NewIsOk
<1>2. Leads(q, b, W) BY <1>1, BeginLeads
<1> HIDE DEF b
<1>3. {"on", "ws"} \subseteq DOMAIN x /\ x.on = b.win[w].on /\ x.ws \in Spaces
  BY <1>2 DEF Leads, Good, Shaped
<1>4. Leads(b, [b EXCEPT !.win[w] = x], W) BY <1>2, <1>3, Sound, WindowLeads
<1>5. [b EXCEPT !.win[w] = x] = [b EXCEPT !.win[w].resizing = TRUE] OBVIOUS
<1> QED BY <1>2, <1>4, <1>5, Chain, Sound, ClearLeads DEF BeginResize, b

\* A change of a window, and of nothing else that matters here, leads on.
LEMMA WindowAndMore ==
  ASSUME NEW W, NEW q, Good(q, W), NEW w \in Windows, NEW x,
         {"on", "ws"} \subseteq DOMAIN x, x.on = q.win[w].on, x.ws \in Spaces,
         NEW r, Alike([q EXCEPT !.win[w] = x], r)
  PROVE  Leads(q, r, W)
BY WindowLeads, Sound, Elsewhere, Chain

-----------------------------------------------------------------------------
(* Scrolling.                                                               *)

\* Scrolling begins, which floats the pinned window.
LEMMA ScrollBeginLeads == ASSUME NEW W, NEW q, Good(q, W) PROVE Leads(q, ScrollBegin(q), W)
<1> DEFINE s == [q EXCEPT !.scrolling = @ \cup {q.shown}, !.grip[q.shown] = None]
           x == [s.win[q.pin] EXCEPT !.at = "floating"]
           r == [s EXCEPT !.grip[q.shown] = q.pin, !.win[q.pin].at = "floating", !.pin = None]
<1>1. Alike(q, s) BY DEF Alike, Good, Shaped, Fields
<1>2. Leads(q, s, W) BY <1>1, Elsewhere
<1> HIDE DEF s
<1>3. CASE ~PinEnabled(q) BY <1>2, <1>3 DEF ScrollBegin, s
<1>4. CASE PinEnabled(q)
  <2>1. q.pin \in Windows BY <1>4 DEF PinEnabled, Tiled, On
  <2>2. {"on", "ws"} \subseteq DOMAIN x /\ x.on = s.win[q.pin].on /\ x.ws \in Spaces
    BY <1>2, <2>1 DEF Leads, Good, Shaped
  <2>3. Alike([s EXCEPT !.win[q.pin] = x], r)
    BY <1>2 DEF Alike, Leads, Good, Shaped, Fields
  <2> HIDE DEF x, r
  <2>4. Leads(s, r, W) BY <1>2, <2>1, <2>2, <2>3, Sound, WindowAndMore
  <2> QED BY <1>2, <1>4, <2>4, Chain DEF ScrollBegin, s, r
<1> QED BY <1>3, <1>4

\* The pinned window is tiled again.
LEMMA UnfloatLeads == ASSUME NEW W, NEW q, Good(q, W) PROVE Leads(q, UnfloatPinned(q), W)
<1> DEFINE w == q.grip[q.shown]
           f == SetFocus(q, w)
           x == [f.win[w] EXCEPT !.at = "tiled"]
           r == [f EXCEPT !.win[w].at = "tiled", !.pin = w, !.scrolling = @ \ {q.shown}]
<1>1. CASE w \notin On(q, q.shown) \ Tiled(q, q.shown) BY <1>1, Stay DEF UnfloatPinned
<1>2. CASE w \in On(q, q.shown) \ Tiled(q, q.shown)
  <2>1. w \in Windows BY <1>2 DEF On
  <2>2. UnfloatPinned(q) = r BY <1>2 DEF UnfloatPinned
  <2> HIDE DEF w
  <2>3. Leads(q, f, W) BY <2>1, SetFocusLeads
  <2> HIDE DEF f
  <2>4. {"on", "ws"} \subseteq DOMAIN x /\ x.on = f.win[w].on /\ x.ws \in Spaces
    BY <2>1, <2>3 DEF Leads, Good, Shaped
  <2>5. Alike([f EXCEPT !.win[w] = x], r) BY <2>3 DEF Alike, Leads, Good, Shaped, Fields
  <2> HIDE DEF x, r
  <2>6. Leads(f, r, W) BY <2>1, <2>3, <2>4, <2>5, Sound, WindowAndMore
  <2> QED BY <2>2, <2>3, <2>6, Chain
<1> QED BY <1>1, <1>2

\* Scrolling ends: the window that it has come to has the focus.
LEMMA ScrollEndLeads ==
  ASSUME NEW W, NEW q, Good(q, W), NEW along PROVE Leads(q, ScrollEnd(q, along), W)
<1> DEFINE stopped(r) == [r EXCEPT !.scrolling = @ \ {r.shown}]
           next == Tiled(q, q.shown)
           focused(r) == IF next = {} THEN r ELSE SetFocus(r, CHOOSE w \in next : TRUE)
           u == UnfloatPinned(q)
<1>1. \A r : Good(r, W) => Leads(r, stopped(r), W)
  <2> TAKE r
  <2> HAVE Good(r, W)
  <2>1. Alike(r, stopped(r)) BY DEF Alike, Good, Shaped, Fields
  <2> QED BY <2>1, Elsewhere
<1>2. \A r : Good(r, W) => Leads(r, focused(r), W)
  <2> TAKE r
  <2> HAVE Good(r, W)
  <2>1. CASE next = {} BY <2>1, Stay
  <2>2. CASE next # {}
    <3>1. (CHOOSE w \in next : TRUE) \in Windows BY <2>2 DEF Tiled, On
    <3> HIDE DEF next
    <3> QED BY <2>2, <3>1, SetFocusLeads
  <2> QED BY <2>1, <2>2
<1>3. Leads(q, u, W) BY UnfloatLeads
<1>4. Then(stopped(u), focused) = focused(stopped(u))
  <2> HIDE DEF focused, stopped
  <2> QED BY ThenIs, Zenon
<1>5. ScrollEnd(q, along) \in {focused(stopped(q)), u, focused(stopped(u))}
  <2> HIDE DEF u
  <2>1. ScrollEnd(q, along) \in {focused(stopped(q)), u, Then(stopped(u), focused)}
    BY DEF ScrollEnd, u
  <2> QED BY <1>4, <2>1
<1> HIDE DEF u, focused, stopped
<1>6. Leads(q, focused(stopped(q)), W)
  <2>1. Leads(q, stopped(q), W) BY <1>1
  <2>2. Leads(stopped(q), focused(stopped(q)), W) BY <2>1, <1>2, Sound
  <2> QED BY <2>1, <2>2, Chain
<1>7. Leads(q, focused(stopped(u)), W)
  <2>1. Leads(u, stopped(u), W) BY <1>1, <1>3, Sound
  <2>2. Leads(stopped(u), focused(stopped(u)), W) BY <2>1, <1>2, Sound
  <2> QED BY <1>3, <2>1, <2>2, Chain
<1> QED BY <1>3, <1>5, <1>6, <1>7

\* A drag with the middle button begins to scroll.
LEMMA BeginScrollLeads ==
  ASSUME NEW W, NEW q, Good(q, W), NEW w \in Windows, There(q, w, W)
  PROVE  Leads(q, BeginScroll(q, w), W)
<1> DEFINE b == Begin(q, NewOp("scroll_tiling", w))
<1>1. OpOk(q, NewOp("scroll_tiling", w), W) BY NewIsOk
<1>2. Leads(q, b, W) BY <1>1, BeginLeads
<1> HIDE DEF b
<1>3. Leads(b, ScrollBegin(b), W) BY <1>2, Sound, ScrollBeginLeads
<1>4. Leads(q, PointerClear(ScrollBegin(b)), W) BY <1>2, <1>3, Chain, Sound, ClearLeads
<1> QED BY <1>4, BeginDefaultLeads DEF BeginScroll, b

-----------------------------------------------------------------------------
(* Buttons.                                                                 *)

\* The buttons that the default operation knows change.
LEMMA KnownLeads ==
  ASSUME NEW W, NEW q, Good(q, W), NEW b
  PROVE  Leads(q, EraseButton(q, b), W) /\ Leads(q, AddButton(q, b), W)
<1>1. \A x : Alike(q, [q EXCEPT !.pressed = x]) BY DEF Alike, Good, Shaped, Fields
<1>2. \A x : Leads(q, [q EXCEPT !.pressed = x], W) BY <1>1, Elsewhere
<1>3. Leads(q, EraseButton(q, b), W) BY <1>2 DEF EraseButton
<1>4. Leads(q, AddButton(q, b), W) BY <1>2, Stay, Zenon DEF AddButton
<1> QED BY <1>3, <1>4

\* A command is executed.
LEMMA ExecuteLeads == ASSUME NEW W, NEW q, Good(q, W), NEW cmd PROVE Leads(q, Execute(q, cmd), W)
<1> DEFINE node == IF On(q, cmd) = {} THEN cmd ELSE CHOOSE w \in On(q, cmd) : TRUE
<1>1. CASE cmd \notin Spaces BY <1>1, Stay DEF Execute
<1>2. CASE cmd \in Spaces
  <2>1. node \in Windows \cup Spaces BY <1>2 DEF On
  <2>2. Execute(q, cmd) = Rebase(SetFocus(q, node)) BY <1>2 DEF Execute
  <2> HIDE DEF node
  <2> QED BY <2>1, <2>2, SetFocusLeads, Sound, RebaseLeads, Chain
<1> QED BY <1>1, <1>2

\* A button is pressed in a window.
LEMMA PressWindowLeads ==
  ASSUME NEW W, NEW q, Good(q, W), NEW b, NEW n, n.node \in Windows, There(q, n.node, W)
  PROVE  Leads(q, PressWindow(q, b, n), W)
<1> DEFINE w == n.node
           f == SetFocus(q, w)
           d == BeginDown(f, w, w)
<1>1. Leads(q, f, W) /\ Good(f, W) /\ There(f, w, W) BY SetFocusLeads, Sound, Remains
<1> HIDE DEF w, f
<1>2. w \in Windows BY DEF w
<1>3. \A kind : Leads(q, BeginResize(f, w, kind), W) BY <1>1, <1>2, BeginResizeLeads, Chain
<1>4. Leads(q, BeginMoveFloating(f, w), W) BY <1>1, <1>2, BeginMoveFloatingLeads, Chain
<1>5. \A s : Leads(q, BeginMoveTiling(f, w, s), W) BY <1>1, <1>2, BeginMoveTilingLeads, Chain
<1>6. Leads(q, BeginScroll(f, w), W) BY <1>1, <1>2, BeginScrollLeads, Chain
<1>7. Leads(q, NotifyButton(d, b, TRUE), W)
  <2>1. Leads(q, d, W) BY <1>1, <1>2, BeginDownLeads, Chain
  <2> HIDE DEF d
  <2> QED BY <2>1, Sound, ButtonLeads, Chain
<1>8. Leads(q, NotifyButton(f, b, TRUE), W) BY <1>1, ButtonLeads, Chain
<1>9. \/ \E kind : PressWindow(q, b, n) = BeginResize(f, w, kind)
      \/ PressWindow(q, b, n) = BeginMoveFloating(f, w)
      \/ \E s : PressWindow(q, b, n) = BeginMoveTiling(f, w, s)
      \/ PressWindow(q, b, n) = BeginScroll(f, w)
      \/ PressWindow(q, b, n) = NotifyButton(d, b, TRUE)
      \/ PressWindow(q, b, n) = NotifyButton(f, b, TRUE)
  BY DEF PressWindow, w, f
<1> QED BY <1>3, <1>4, <1>5, <1>6, <1>7, <1>8, <1>9

\* A button that no binding has taken.
LEMMA ClickLeads ==
  ASSUME NEW W, NEW q, Good(q, W), NEW b, NEW press, NEW n, Node(q, n)
  PROVE  Leads(q, ClickDefault(q, b, press, n), W)
<1> DEFINE l == SetFocusLayer(q)
           d == BeginDown(l, Panel, None)
<1>1. CASE n.part = "workspace"
  <2>1. n.node \in Windows \cup Spaces BY <1>1 DEF Node
  <2>2. Leads(q, SetFocus(q, n.node), W) BY <2>1, SetFocusLeads
  <2>3. \A r \in {q, SetFocus(q, n.node)} : Leads(q, NotifyButton(r, b, press), W)
    BY <2>2, Stay, Sound, ButtonLeads, Chain
  <2> QED BY <1>1, <2>3 DEF ClickDefault
<1>2. CASE n.part = "panel"
  <2>1. There(q, Panel, W) BY <1>2, NodeThere DEF Node
  <2>2. Leads(q, l, W) /\ There(l, Panel, W) BY <2>1, LayerLeads, Remains
  <2> HIDE DEF l
  <2>3. Leads(q, d, W) BY <2>2, NoneThere, Sound, BeginDownLeads, Chain
  <2> HIDE DEF d
  <2>4. \A r \in {l, d} : Leads(q, NotifyButton(r, b, press), W)
    BY <2>2, <2>3, Sound, ButtonLeads, Chain
  <2> QED BY <1>2, <2>4 DEF ClickDefault, l, d
<1>3. CASE n.part \notin {"workspace", "panel"}
  <2>1. n.node \in Windows /\ There(q, n.node, W) BY <1>3, NodeThere DEF Node
  <2>2. Leads(q, PressWindow(q, b, n), W) BY <2>1, PressWindowLeads
  <2>3. Leads(q, NotifyButton(q, b, FALSE), W) BY ButtonLeads, Zenon
  <2> QED BY <1>3, <2>2, <2>3 DEF ClickDefault
<1> QED BY <1>1, <1>2, <1>3

\* A button in the default operation.
LEMMA ButtonDefaultLeads ==
  ASSUME NEW W, NEW q, Good(q, W), NEW list, NEW device, NEW b, NEW press
  PROVE  Leads(q, ButtonDefault(q, list, device, b, press), W)
<1> DEFINE n == NodeAt(q, q.spot)
           added == IF press THEN AddButton(q, b) ELSE q
           found == ActiveMouseBinding(added, list, n, device, ~press)
           known == IF press THEN added ELSE EraseButton(q, b)
<1>1. Node(q, n) BY NodeHere
<1>2. Leads(q, known, W) BY KnownLeads
<1> HIDE DEF n, known
<1>3. Leads(q, ClickDefault(q, b, press, n), W) BY <1>1, ClickLeads
<1>4. Leads(q, ClickDefault(known, b, press, n), W)
  <2>1. Node(known, n) BY <1>1, <1>2, NodeStays
  <2>2. Leads(known, ClickDefault(known, b, press, n), W) BY <1>2, <2>1, Sound, ClickLeads
  <2> QED BY <1>2, <2>2, Chain
<1>5. Leads(q, Execute(known, found.cmd), W)
  <2>1. Leads(known, Execute(known, found.cmd), W) BY <1>2, Sound, ExecuteLeads
  <2> QED BY <1>2, <2>1, Chain
<1>6. ButtonDefault(q, list, device, b, press)
        \in {ClickDefault(q, b, press, n), ClickDefault(known, b, press, n), Execute(known, found.cmd)}
  BY DEF ButtonDefault, n, known
<1> QED BY <1>3, <1>4, <1>5, <1>6

\* The wheel is turned.
LEMMA AxisLeads ==
  ASSUME NEW W, NEW q, Good(q, W), NEW list, NEW device, NEW b
  PROVE  Leads(q, AxisDefault(q, list, device, b), W)
<1> DEFINE n == NodeAt(q, q.spot)
           added == AddButton(q, b)
           pressed == ActiveMouseBinding(added, list, n, device, FALSE)
           released(r) == ActiveMouseBinding(r, list, n, device, TRUE)
           first == IF pressed # None THEN Execute(added, pressed.cmd)
                    ELSE IF n.part = "titlebar" THEN SetFocus(added, n.node) ELSE added
           Second(r) == IF released(r) = None THEN EraseButton(r, b)
                        ELSE Execute(EraseButton(r, b), released(r).cmd)
<1>1. AxisDefault(q, list, device, b) = Second(first)
  <2>1. AxisDefault(q, list, device, b) = Then(first, Second) BY DEF AxisDefault
  <2> HIDE DEF first, Second
  <2>2. Then(first, Second) = Second(first) BY ThenIs, Zenon
  <2> QED BY <2>1, <2>2
<1>2. Node(q, n) BY NodeHere
<1>3. Leads(q, added, W) BY KnownLeads
<1> HIDE DEF n, added
<1>4. Leads(added, first, W)
  <2>1. n.part = "titlebar" => n.node \in Windows \cup Spaces BY <1>2 DEF Node
  <2>2. n.part = "titlebar" => Leads(added, SetFocus(added, n.node), W)
    BY <1>3, <2>1, Sound, SetFocusLeads
  <2>3. \A cmd : Leads(added, Execute(added, cmd), W) BY <1>3, Sound, ExecuteLeads
  <2>4. Leads(added, added, W) BY <1>3, Sound, Stay
  <2> HIDE DEF pressed
  <2> QED BY <2>2, <2>3, <2>4
<1> HIDE DEF first
<1>5. Leads(first, Second(first), W)
  <2> DEFINE e == EraseButton(first, b)
  <2>1. Leads(first, e, W) BY <1>4, Sound, KnownLeads
  <2> HIDE DEF e
  <2>2. \A cmd : Leads(first, Execute(e, cmd), W) BY <2>1, Sound, ExecuteLeads, Chain
  <2>3. Second(first) = IF released(first) = None THEN e ELSE Execute(e, released(first).cmd)
    BY DEF e
  <2> HIDE DEF released
  <2> QED BY <2>1, <2>2, <2>3
<1> HIDE DEF Second
<1> QED BY <1>1, <1>3, <1>4, <1>5, Chain

\* A tiled container is dropped.
LEMMA FinalizeLeads ==
  ASSUME NEW W, NEW q, Good(q, W), q.op.kind = "move_tiling"
  PROVE  Leads(q, FinalizeMoveTiling(q), W)
<1> DEFINE t == q.op.target
           c == q.op.con
           ws == IF t \in Windows THEN q.win[t].ws ELSE t
           x == [q.win[c] EXCEPT !.ws = ws]
           m == [q EXCEPT !.win[c] = x]
           moved == SetFocus(m, c)
<1>1. CASE t = None BY <1>1, BeginDefaultLeads DEF FinalizeMoveTiling
<1>2. CASE t # None
  <2>1. ws \in Spaces /\ c \in Windows BY <1>2 DEF Good, OpOk, Shaped
  <2>2. FinalizeMoveTiling(q) = BeginDefault(moved) BY <1>2 DEF FinalizeMoveTiling
  <2> HIDE DEF ws, c
  <2>3. {"on", "ws"} \subseteq DOMAIN x /\ x.on = q.win[c].on /\ x.ws \in Spaces
    BY <2>1 DEF Good, Shaped
  <2> HIDE DEF x
  <2>4. Leads(q, m, W) BY <2>1, <2>3, WindowLeads
  <2> HIDE DEF m
  <2>5. Leads(q, moved, W) BY <2>1, <2>4, Sound, SetFocusLeads, Chain
  <2> HIDE DEF moved
  <2> QED BY <2>2, <2>5, Sound, BeginDefaultLeads, Chain
<1> QED BY <1>1, <1>2

\* All buttons are released.
LEMMA ReleasedLeads ==
  ASSUME NEW W, NEW q, Good(q, W), NEW along PROVE Leads(q, Released(q, along), W)
<1>1. CASE q.op.kind = "move_tiling" BY <1>1, FinalizeLeads DEF Released
<1>2. CASE q.op.kind \in {"resize_tiling", "resize_floating"}
  <2> DEFINE c == q.op.con
             x == [q.win[c] EXCEPT !.resizing = FALSE]
             r == [q EXCEPT !.win[c] = x]
  <2>1. c \in Windows BY <1>2 DEF Good, OpOk
  <2>2. Released(q, along) = BeginDefault(r) BY <1>2 DEF Released
  <2> HIDE DEF c
  <2>3. {"on", "ws"} \subseteq DOMAIN x /\ x.on = q.win[c].on /\ x.ws \in Spaces
    BY <2>1 DEF Good, Shaped
  <2> HIDE DEF x
  <2>4. Leads(q, r, W) BY <2>1, <2>3, WindowLeads
  <2> HIDE DEF r
  <2> QED BY <2>2, <2>4, Sound, BeginDefaultLeads, Chain
<1>3. CASE q.op.kind = "scroll_tiling"
  <2> DEFINE r == IF Scrolling(q) THEN ScrollEnd(q, along) ELSE q
  <2>1. Leads(q, r, W) BY ScrollEndLeads, Stay
  <2>2. Released(q, along) = BeginDefault(r) BY <1>3 DEF Released
  <2> HIDE DEF r
  <2> QED BY <2>1, <2>2, Sound, BeginDefaultLeads, Chain
<1>4. CASE q.op.kind \notin {"move_tiling", "resize_tiling", "resize_floating", "scroll_tiling"}
  BY <1>4, BeginDefaultLeads DEF Released
<1> QED BY <1>1, <1>2, <1>3, <1>4

\* A button in any operation.
LEMMA SeatopButtonLeads ==
  ASSUME NEW W, NEW q, Good(q, W), NEW list, NEW device, NEW b, NEW press, NEW along
  PROVE  Leads(q, SeatopButton(q, list, device, b, press, along), W)
<1> DEFINE heard == IF q.op.kind = "down" THEN NotifyButton(q, b, press) ELSE q
<1>1. Leads(q, heard, W) BY ButtonLeads, Stay
<1>2. SeatopButton(q, list, device, b, press, along)
        \in {ButtonDefault(q, list, device, b, press), Released(heard, along), heard}
  BY DEF SeatopButton
<1> HIDE DEF heard
<1>3. Leads(q, Released(heard, along), W) BY <1>1, Sound, ReleasedLeads, Chain
<1> QED BY <1>1, <1>2, <1>3, ButtonDefaultLeads

-----------------------------------------------------------------------------
(* Motion.                                                                  *)

\* The focus follows the mouse.
LEMMA FollowsLeads ==
  ASSUME NEW W, NEW q, Good(q, W), NEW n, Node(q, n), NEW follows
  PROVE  Leads(q, FocusFollows(q, n, follows), W)
<1>1. CASE n.part \notin {"workspace", "panel"}
  <2>1. Leads(q, SetFocus(q, n.node), W) BY <1>1, SetFocusLeads DEF Node
  <2> QED BY <1>1, <2>1, Stay DEF FocusFollows
<1>2. CASE n.part \in {"workspace", "panel"} BY <1>2, Stay, LayerLeads DEF FocusFollows
<1> QED BY <1>1, <1>2

\* Motion in the default operation.
LEMMA MotionDefaultLeads ==
  ASSUME NEW W, NEW q, Good(q, W), NEW follows PROVE Leads(q, MotionDefault(q, follows), W)
<1> DEFINE n == NodeAt(q, q.spot)
           Enter(r) == [PointerEnter(r, n.surface) EXCEPT !.prev = n.node]
           f == FocusFollows(q, n, follows)
           e == PointerEnter(f, n.surface)
<1>1. MotionDefault(q, follows) = Enter(f)
  <2>1. MotionDefault(q, follows) = Then(f, Enter) BY DEF MotionDefault
  <2> HIDE DEF f, Enter
  <2>2. Then(f, Enter) = Enter(f) BY ThenIs, Zenon
  <2> QED BY <2>1, <2>2
<1>2. Node(q, n) BY NodeHere
<1> HIDE DEF n
<1>3. Leads(q, f, W) BY <1>2, FollowsLeads
<1>4. There(f, n.surface, W) BY <1>2, <1>3, NodeThere, Remains
<1> HIDE DEF f
<1>5. Leads(q, e, W) BY <1>3, <1>4, Sound, EnterLeads, Chain
<1>6. Enter(f) = [e EXCEPT !.prev = n.node] OBVIOUS
<1> HIDE DEF e, Enter
<1> QED BY <1>1, <1>5, <1>6, Sound, PrevLeads, Chain

\* A drop is aimed at a window, at a workspace or at nothing.
LEMMA TargetLeads ==
  ASSUME NEW W, NEW q, Good(q, W), NEW x \in Windows \cup Spaces \cup {None}, There(q, x, W)
  PROVE  Leads(q, [q EXCEPT !.op.target = x], W)
<1> DEFINE r == [q EXCEPT !.op.target = x]
<1>1. OpOk(q, r.op, W) BY DEF Good, Shaped, Fields, OpOk, OpFields
<1>2. Good(r, W) BY <1>1 DEF Good, Shaped, OpOk, ClientsOk, ConstraintsOk, There, Fields
<1> QED BY <1>2 DEF Leads, Good, Shaped, Fields

\* A tiled container is dragged.
LEMMA DragLeads == ASSUME NEW W, NEW q, Good(q, W) PROVE Leads(q, DragTarget(q), W)
<1> DEFINE n == NodeAt(q, q.spot)
           r == [q EXCEPT !.op.target = n.node]
           s == [q EXCEPT !.op.target = IF n.part = "workspace" THEN n.node ELSE None]
<1>1. Node(q, n) /\ There(q, n.node, W) BY NodeHere, NodeThere
<1>2. DragTarget(q) = s \/ (n.node \in Windows /\ DragTarget(q) = SetFocus(r, n.node))
  BY DEF DragTarget
<1> HIDE DEF n
<1>3. Leads(q, s, W)
  <2>1. CASE n.part = "workspace" BY <1>1, <2>1, TargetLeads DEF Node
  <2>2. CASE n.part # "workspace" BY <2>2, NoneThere, TargetLeads
  <2> QED BY <2>1, <2>2
<1>4. ASSUME n.node \in Windows PROVE Leads(q, SetFocus(r, n.node), W)
  <2>1. Leads(q, r, W) BY <1>1, <1>4, TargetLeads
  <2> HIDE DEF r
  <2> QED BY <1>4, <2>1, Sound, SetFocusLeads, Chain
<1> QED BY <1>2, <1>3, <1>4

\* Motion in any operation.
LEMMA SeatopMotionLeads ==
  ASSUME NEW W, NEW q, Good(q, W), NEW follows, NEW far
  PROVE  Leads(q, SeatopMotion(q, follows, far), W)
<1> DEFINE r == [q EXCEPT !.op.started = far]
<1>1. Leads(q, r, W)
  <2>1. OpOk(q, r.op, W) BY DEF Good, Shaped, Fields, OpOk, OpFields
  <2>2. Good(r, W) BY <2>1 DEF Good, Shaped, OpOk, ClientsOk, ConstraintsOk, There, Fields
  <2> QED BY <2>2 DEF Leads, Good, Shaped, Fields
<1>2. SeatopMotion(q, follows, far) \in {MotionDefault(q, follows), DragTarget(q), r, q}
  BY DEF SeatopMotion
<1> QED BY <1>1, <1>2, MotionDefaultLeads, DragLeads, Stay

-----------------------------------------------------------------------------
(* The cursor, and the mouse.                                               *)

\* The cursor is hidden, or shown.
LEMMA HideLeads ==
  ASSUME NEW W, NEW q, Good(q, W) PROVE Leads(q, Hide(q), W) /\ Leads(q, Activity(q), W)
<1>1. \A x : Alike(q, [q EXCEPT !.hidden = x]) BY DEF Alike, Good, Shaped, Fields
<1>2. \A x : Leads(q, [q EXCEPT !.hidden = x], W) BY <1>1, Elsewhere
<1>3. Leads(q, Hide(q), W) BY <1>2, Sound, ClearLeads, Chain DEF Hide
<1>4. Leads(q, Activity(q), W) BY <1>2, Sound, RebaseLeads, Stay, Chain DEF Activity
<1> QED BY <1>3, <1>4

\* A button is dispatched.
LEMMA DispatchLeads ==
  ASSUME NEW W, NEW q, Good(q, W), NEW device, NEW b, NEW press
  PROVE  Leads(q, Dispatch(q, device, b, press), W)
BY SeatopButtonLeads DEF Dispatch

\* So is one of the mouse.
LEMMA PointerButtonLeads ==
  ASSUME NEW W, NEW q, Good(q, W), NEW b, NEW press PROVE Leads(q, PointerButton(q, b, press), W)
<1> DEFINE c == Count(q, b, press)
           a == Activity(c)
           D(r) == Dispatch(r, "mouse", b, press)
<1>1. PointerButton(q, b, press) = D(a)
  <2>1. PointerButton(q, b, press) = Then(a, D) BY DEF PointerButton
  <2> HIDE DEF a, D
  <2>2. Then(a, D) = D(a) BY ThenIs, Zenon
  <2> QED BY <2>1, <2>2
<1>2. Alike(q, c) BY DEF Count, Alike, Good, Shaped, Fields
<1> HIDE DEF c
<1>3. Leads(q, a, W) BY <1>2, Elsewhere, Sound, HideLeads, Chain
<1> HIDE DEF a
<1>4. Leads(a, D(a), W) BY <1>3, Sound, DispatchLeads
<1> QED BY <1>1, <1>3, <1>4, Chain

\* The cursor comes to a place.
LEMMA SpotLeads ==
  ASSUME NEW W, NEW q, Good(q, W), NEW spot, PlaceOk(spot)
  PROVE  Leads(q, [q EXCEPT !.spot = spot], W)
<1> DEFINE r == [q EXCEPT !.spot = spot]
<1>1. Good(r, W) BY DEF Good, Shaped, OpOk, ClientsOk, ConstraintsOk, There, Fields
<1> QED BY <1>1 DEF Leads, Good, Shaped, Fields

\* The cursor is moved.
LEMMA MotionLeads ==
  ASSUME NEW W, NEW q, Good(q, W), NEW spot, PlaceOk(spot), NEW mouse, NEW far
  PROVE  Leads(q, Motion(q, spot, mouse, far), W)
<1> DEFINE m == [q EXCEPT !.spot = spot]
<1>1. Motion(q, spot, mouse, far)
        \in {q, SeatopMotion(q, scene.follows, far), SeatopMotion(m, scene.follows, far)}
  BY DEF Motion
<1>2. Leads(q, m, W) BY SpotLeads
<1> HIDE DEF m
<1>3. Leads(q, SeatopMotion(m, scene.follows, far), W) BY <1>2, Sound, SeatopMotionLeads, Chain
<1> QED BY <1>1, <1>3, SeatopMotionLeads, Stay

-----------------------------------------------------------------------------
(* Touch screens.                                                           *)

\* A surface is told of a finger.
LEMMA TellTouchLeads ==
  ASSUME NEW W, NEW q, Good(q, W), NEW f \in Fingers, NEW s, There(q, s, W)
  PROVE  Leads(q, NotifyTouch(q, f, s), W)
<1> DEFINE r == NotifyTouch(q, f, s)
<1>1. \A g \in Fingers : r.points[g] = (IF g = f THEN s ELSE q.points[g])
  BY DEF NotifyTouch, Good, Shaped, Fields
<1>2. Fingers \subseteq DOMAIN r.points BY DEF NotifyTouch, Good, Shaped, Fields
<1>3. Good(r, W)
  BY <1>1, <1>2 DEF NotifyTouch, Good, Shaped, OpOk, ClientsOk, ConstraintsOk, There, Fields
<1> QED BY <1>3 DEF NotifyTouch, Leads, Good, Shaped, Fields

\* The operation counts its fingers.
LEMMA FingersLeads ==
  ASSUME NEW W, NEW q, Good(q, W), NEW x PROVE Leads(q, [q EXCEPT !.op.points = x], W)
<1> DEFINE r == [q EXCEPT !.op.points = x]
<1>1. OpOk(q, r.op, W) BY DEF Good, Shaped, Fields, OpOk, OpFields
<1>2. Good(r, W) BY <1>1 DEF Good, Shaped, OpOk, ClientsOk, ConstraintsOk, There, Fields
<1> QED BY <1>2 DEF Leads, Good, Shaped, Fields

\* A finger that goes down in an operation of touch.
LEMMA TouchDownDownLeads ==
  ASSUME NEW W, NEW q, Good(q, W), NEW f \in Fingers, NEW spot, PlaceOk(spot)
  PROVE  Leads(q, TouchDownDown(q, f, spot), W)
<1> DEFINE n == NodeAt(q, spot)
           o == [q EXCEPT !.op.points = @ \cup {f}]
           s == IF "touch" \in Accepts[n.surface] THEN n.surface ELSE None
           told == NotifyTouch(o, f, s)
<1>1. Node(q, n) BY NodeIs
<1>2. n.node \in Windows \cup Spaces \cup {None} /\ There(q, n.surface, W) BY <1>1, NodeThere DEF Node
<1>3. TouchDownDown(q, f, spot) \in {q, told}
         \/ (n.node # None /\ TouchDownDown(q, f, spot) = SetFocus(told, n.node))
  BY DEF TouchDownDown
<1> HIDE DEF n
<1>4. Leads(q, o, W) BY FingersLeads
<1> HIDE DEF o
<1>5. There(o, s, W) BY <1>2, <1>4, NoneThere, Remains
<1> HIDE DEF s
<1>6. Leads(q, told, W) BY <1>4, <1>5, Sound, TellTouchLeads, Chain
<1> HIDE DEF told
<1>7. ASSUME n.node # None PROVE Leads(q, SetFocus(told, n.node), W)
  BY <1>2, <1>6, <1>7, Sound, SetFocusLeads, Chain
<1> QED BY <1>3, <1>6, <1>7, Stay

\* A finger that simulates the pointer, or not any more.
LEMMA SimulatesLeads ==
  ASSUME NEW W, NEW q, Good(q, W), NEW x, NEW f
  PROVE  /\ Leads(q, [q EXCEPT !.simtouch = x], W)
         /\ Leads(q, [q EXCEPT !.simtouch = x, !.simid = f], W)
         /\ Leads(q, [q EXCEPT !.up = x], W)
<1>1. Alike(q, [q EXCEPT !.simtouch = x]) /\ Alike(q, [q EXCEPT !.simtouch = x, !.simid = f])
  BY DEF Alike, Good, Shaped, Fields
<1>2. Alike(q, [q EXCEPT !.up = x]) BY DEF Alike, Good, Shaped, Fields
<1> QED BY <1>1, <1>2, Elsewhere

\* A finger that goes down is simulated.
LEMMA SimulateTouchLeads ==
  ASSUME NEW W, NEW q, Good(q, W), NEW f, NEW spot, PlaceOk(spot)
  PROVE  Leads(q, SimulateTouch(q, f, spot), W)
<1> DEFINE o == [q EXCEPT !.simtouch = TRUE, !.simid = f]
           m == Motion(o, spot, FALSE, FALSE)
           D(r) == Dispatch(r, "touch", Left, TRUE)
<1>1. SimulateTouch(q, f, spot) = D(m)
  <2>1. SimulateTouch(q, f, spot) = Then(m, D) BY DEF SimulateTouch
  <2> HIDE DEF m, D
  <2>2. Then(m, D) = D(m) BY ThenIs, Zenon
  <2> QED BY <2>1, <2>2
<1>2. Leads(q, o, W) BY SimulatesLeads, Zenon
<1> HIDE DEF o
<1>3. Leads(q, m, W) BY <1>2, Sound, MotionLeads, Chain, Zenon
<1> HIDE DEF m
<1>4. Leads(m, D(m), W) BY <1>3, Sound, DispatchLeads, Zenon
<1> QED BY <1>1, <1>3, <1>4, Chain, Zenon

\* A finger that goes down in the default operation.
LEMMA TouchDownDefaultLeads ==
  ASSUME NEW W, NEW q, Good(q, W), NEW f \in Fingers, NEW spot, PlaceOk(spot)
  PROVE  Leads(q, TouchDownDefault(q, f, spot), W)
<1> DEFINE n == NodeAt(q, spot)
           o == [q EXCEPT !.simtouch = FALSE]
           d == BeginDown(o, n.surface, None)
<1>1. There(q, n.surface, W) BY NodeIs, NodeThere
<1>2. TouchDownDefault(q, f, spot) \in {TouchDownDown(d, f, spot), q, SimulateTouch(q, f, spot)}
  BY DEF TouchDownDefault
<1> HIDE DEF n
<1>3. Leads(q, o, W) BY SimulatesLeads, Zenon
<1> HIDE DEF o
<1>4. There(o, n.surface, W) /\ There(o, None, W) BY <1>1, <1>3, NoneThere, Remains
<1>5. Leads(q, d, W) BY <1>3, <1>4, Sound, BeginDownLeads, Chain
<1> HIDE DEF d
<1>6. Leads(q, TouchDownDown(d, f, spot), W) BY <1>5, Sound, TouchDownDownLeads, Chain
<1> QED BY <1>2, <1>6, SimulateTouchLeads, Stay

\* A finger that goes down.
LEMMA TouchDownLeads ==
  ASSUME NEW W, NEW q, Good(q, W), NEW f \in Fingers, NEW spot, PlaceOk(spot)
  PROVE  Leads(q, TouchDown(q, f, spot), W)
<1> DEFINE o == [q EXCEPT !.fingers = (f :> spot) @@ @, !.touchid = f, !.due = @ \cup {f}]
           h == Hide(o)
           Down(r) == CASE r.op.kind = "default" -> TouchDownDefault(r, f, spot)
                        [] r.op.kind = "down" -> TouchDownDown(r, f, spot)
                        [] OTHER -> r
<1>1. TouchDown(q, f, spot) = Down(h)
  <2>1. TouchDown(q, f, spot) = Then(h, Down) BY DEF TouchDown
  <2> HIDE DEF h, Down
  <2>2. Then(h, Down) = Down(h) BY ThenIs, Zenon
  <2> QED BY <2>1, <2>2
<1>2. Alike(q, o)
  <2> DEFINE v == (f :> spot) @@ q.fingers
  <2>1. o = [q EXCEPT !.fingers = v, !.touchid = f, !.due = @ \cup {f}] OBVIOUS
  <2> HIDE DEF v
  <2>2. Alike(q, [q EXCEPT !.fingers = v, !.touchid = f, !.due = @ \cup {f}])
    BY DEF Alike, Good, Shaped, Fields
  <2> QED BY <2>1, <2>2
<1> HIDE DEF o
<1>3. Leads(q, h, W) BY <1>2, Elsewhere, Sound, HideLeads, Chain
<1> HIDE DEF h
<1>4. Down(h) \in {TouchDownDefault(h, f, spot), TouchDownDown(h, f, spot), h} OBVIOUS
<1> HIDE DEF Down
<1>5. Leads(h, TouchDownDefault(h, f, spot), W) BY <1>3, Sound, TouchDownDefaultLeads
<1>6. Leads(h, TouchDownDown(h, f, spot), W) BY <1>3, Sound, TouchDownDownLeads
<1> QED BY <1>1, <1>3, <1>4, <1>5, <1>6, Chain

\* A finger is lifted from a surface.
LEMMA TouchUpDownLeads ==
  ASSUME NEW W, NEW q, Good(q, W), NEW f \in Fingers PROVE Leads(q, TouchUpDown(q, f), W)
<1> DEFINE o == [q EXCEPT !.op.points = @ \ {f}]
           left == NotifyTouch(o, f, None)
<1>1. Leads(q, o, W) BY FingersLeads
<1>2. TouchUpDown(q, f) \in {BeginDefault(left), left} BY DEF TouchUpDown
<1> HIDE DEF o
<1>3. Leads(q, left, W) BY <1>1, NoneThere, Sound, TellTouchLeads, Chain
<1> HIDE DEF left
<1> QED BY <1>2, <1>3, Sound, BeginDefaultLeads, Chain

\* A finger is lifted.
LEMMA TouchUpLeads ==
  ASSUME NEW W, NEW q, Good(q, W), NEW f \in Fingers PROVE Leads(q, TouchUp(q, f), W)
<1> DEFINE r == Lift(q, f)
           u == [r EXCEPT !.up = TRUE]
<1>1. Alike(q, r)
  <2> DEFINE v == Restrict(q.fingers, DOMAIN q.fingers \ {f})
  <2>1. r = [q EXCEPT !.fingers = v, !.due = @ \cup {f}] BY DEF Lift
  <2> HIDE DEF v
  <2>2. Alike(q, [q EXCEPT !.fingers = v, !.due = @ \cup {f}])
    BY DEF Alike, Good, Shaped, Fields
  <2> QED BY <2>1, <2>2
<1>2. Leads(q, r, W) BY <1>1, Elsewhere
<1>3. TouchUp(q, f) \in {Dispatch(u, "touch", Left, FALSE), TouchUpDown(r, f), r} BY DEF TouchUp
<1> HIDE DEF r
<1>4. Leads(q, u, W) BY <1>2, Sound, SimulatesLeads, Chain, Zenon
<1> HIDE DEF u
<1>5. Leads(q, Dispatch(u, "touch", Left, FALSE), W) BY <1>4, Sound, DispatchLeads, Chain
<1>6. Leads(q, TouchUpDown(r, f), W) BY <1>2, Sound, TouchUpDownLeads, Chain
<1> QED BY <1>2, <1>3, <1>5, <1>6

\* A finger moves.
LEMMA TouchMotionLeads ==
  ASSUME NEW W, NEW q, Good(q, W), NEW f, NEW spot, PlaceOk(spot), NEW far
  PROVE  Leads(q, TouchMotion(q, f, spot, far), W)
<1> DEFINE r == [q EXCEPT !.fingers[f] = spot, !.due = @ \cup {f}]
<1>1. Alike(q, r) BY DEF Alike, Good, Shaped, Fields
<1>2. Leads(q, r, W) BY <1>1, Elsewhere
<1>3. TouchMotion(q, f, spot, far) \in {r, Motion(r, spot, FALSE, far)} BY DEF TouchMotion
<1> HIDE DEF r
<1>4. Leads(q, Motion(r, spot, FALSE, far), W) BY <1>2, Sound, MotionLeads, Chain, Zenon
<1> QED BY <1>2, <1>3, <1>4, Zenon

\* A frame ends a group of events.
LEMMA TouchFrameLeads == ASSUME NEW W, NEW q, Good(q, W) PROVE Leads(q, TouchFrame(q), W)
<1>1. Alike(q, TouchFrame(q)) BY DEF TouchFrame, Alike, Good, Shaped, Fields
<1> QED BY <1>1, Elsewhere

-----------------------------------------------------------------------------
(* Tablets.                                                                 *)

\* A node that a pen may press: a window or the panel.
Pressable(q, n, W) ==
  \/ n.part = "panel" /\ There(q, Panel, W)
  \/ n.part \notin {"workspace", "panel"} /\ n.node \in Windows /\ There(q, n.node, W)

\* A surface under the cursor that handles a tablet is of such a node.
LEMMA TabletNode ==
  ASSUME NEW W, NEW q, Good(q, W), OnTablet(q) PROVE Pressable(q, NodeAt(q, q.spot), W)
<1> DEFINE n == NodeAt(q, q.spot)
<1>1. Node(q, n) /\ There(q, n.surface, W) /\ There(q, n.node, W) BY NodeHere, NodeThere
<1>2. n.surface # None BY DEF OnTablet
<1> HIDE DEF n
<1>3. Pressable(q, n, W) BY <1>1, <1>2 DEF Node, Pressable
<1> QED BY <1>3 DEF n

\* The pen moves.
LEMMA ToolPositionLeads ==
  ASSUME NEW W, NEW q, Good(q, W), NEW spot, PlaceOk(spot), NEW far
  PROVE  Leads(q, ToolPosition(q, spot, far), W)
<1> DEFINE r == [q EXCEPT !.spot = spot]
           n == NodeAt(r, spot)
           f == FocusFollows(r, n, scene.follows)
           e == [f EXCEPT !.prev = n.node]
<1>1. ToolPosition(q, spot, far)
        \in {e, r, SeatopMotion(r, scene.follows, far), Motion(r, spot, FALSE, far)}
  BY DEF ToolPosition
<1>2. Leads(q, r, W) BY SpotLeads
<1> HIDE DEF r
<1>3. Node(r, n) BY <1>2, Sound, NodeIs
<1> HIDE DEF n
<1>4. Leads(q, f, W) BY <1>2, <1>3, Sound, FollowsLeads, Chain
<1> HIDE DEF f
<1>5. Leads(q, e, W) BY <1>4, Sound, PrevLeads, Chain
<1>6. Leads(q, SeatopMotion(r, scene.follows, far), W) BY <1>2, Sound, SeatopMotionLeads, Chain
<1>7. Leads(q, Motion(r, spot, FALSE, far), W) BY <1>2, Sound, MotionLeads, Chain, Zenon
<1> HIDE DEF e
<1> QED BY <1>1, <1>2, <1>5, <1>6, <1>7

\* A surface is told of the tip.
LEMMA TellPenLeads ==
  ASSUME NEW W, NEW q, Good(q, W), NEW s, There(q, s, W) PROVE Leads(q, TellPen(q, s), W)
<1> DEFINE r == [q EXCEPT !.penTold = s]
<1>1. Good(r, W) BY DEF Good, Shaped, OpOk, ClientsOk, ConstraintsOk, There, Fields
<1> QED BY <1>1 DEF TellPen, Leads, Good, Shaped, Fields

\* The tip in the default operation.
LEMMA TipDefaultLeads ==
  ASSUME NEW W, NEW q, Good(q, W), NEW down, ~down \/ OnTablet(q)
  PROVE  Leads(q, TipDefault(q, down), W)
<1> DEFINE n == NodeAt(q, q.spot)
           w == n.node
           l == SetFocusLayer(q)
           f == SetFocus(q, w)
           d == BeginDown(f, w, w)
<1>1. CASE ~down BY <1>1, NoneThere, TellPenLeads DEF TipDefault
<1>2. CASE down /\ n.part = "panel"
  <2>1. There(q, Panel, W)
    <3>1. Pressable(q, n, W) BY <1>2, TabletNode
    <3> HIDE DEF n
    <3> QED BY <1>2, <3>1 DEF Pressable
  <2>2. TipDefault(q, down) = TellPen(l, Panel) BY <1>2 DEF TipDefault
  <2>3. Leads(q, l, W) BY LayerLeads
  <2> HIDE DEF l
  <2> QED BY <2>1, <2>2, <2>3, Sound, Remains, TellPenLeads, Chain
<1>3. CASE down /\ n.part # "panel"
  <2>1. w \in Windows /\ There(q, w, W)
    <3>1. Pressable(q, n, W) BY <1>3, TabletNode
    <3> HIDE DEF n
    <3> QED BY <1>3, <3>1 DEF Pressable
  <2>2. TipDefault(q, down)
          \in {BeginMoveFloating(f, w), BeginMoveTiling(q, w, TRUE), TellPen(d, w)}
    BY <1>3 DEF TipDefault
  <2> HIDE DEF w
  <2>3. Leads(q, f, W) /\ There(f, w, W) BY <2>1, SetFocusLeads, Remains
  <2> HIDE DEF f
  <2>4. Leads(q, BeginMoveFloating(f, w), W) BY <2>1, <2>3, Sound, BeginMoveFloatingLeads, Chain
  <2>5. Leads(q, BeginMoveTiling(q, w, TRUE), W) BY <2>1, BeginMoveTilingLeads
  <2>6. Leads(q, d, W) /\ There(d, w, W) BY <2>1, <2>3, Sound, BeginDownLeads, Chain, Remains
  <2> HIDE DEF d
  <2>7. Leads(q, TellPen(d, w), W) BY <2>6, Sound, TellPenLeads, Chain
  <2> QED BY <2>2, <2>4, <2>5, <2>7, Zenon
<1> QED BY <1>1, <1>2, <1>3

\* The tip in any operation.
LEMMA SeatopTipLeads ==
  ASSUME NEW W, NEW q, Good(q, W), NEW down, ~down \/ OnTablet(q)
  PROVE  Leads(q, SeatopTip(q, down), W)
<1> DEFINE t == TellPen(q, None)
<1>1. SeatopTip(q, down) \in {TipDefault(q, down), BeginDefault(t), Released(q, scene.along), q}
  BY DEF SeatopTip
<1>2. Leads(q, t, W) BY NoneThere, TellPenLeads
<1> HIDE DEF t
<1>3. Leads(q, BeginDefault(t), W) BY <1>2, Sound, BeginDefaultLeads, Chain
<1> QED BY <1>1, <1>3, TipDefaultLeads, ReleasedLeads, Stay

\* The tip.
LEMMA ToolTipLeads ==
  ASSUME NEW W, NEW q, Good(q, W), NEW down PROVE Leads(q, ToolTip(q, down), W)
<1> DEFINE a == Activity(q)
           r == [a EXCEPT !.tip = down]
           off == [r EXCEPT !.simtip = FALSE]
           on == [r EXCEPT !.simtip = TRUE]
<1>1. Leads(q, a, W) BY HideLeads
<1>2. \/ ToolTip(q, down) = Dispatch(off, "tablet", Left, FALSE)
      \/ (~down \/ OnTablet(r)) /\ ToolTip(q, down) = SeatopTip(r, down)
      \/ ToolTip(q, down) = Dispatch(on, "tablet", Left, TRUE)
  BY DEF ToolTip
<1> HIDE DEF a
<1>3. Alike(a, r) BY <1>1 DEF Alike, Leads, Good, Shaped, Fields
<1>4. Leads(q, r, W) BY <1>1, <1>3, Sound, Elsewhere, Chain
<1> HIDE DEF r
<1>5. Alike(r, off) /\ Alike(r, on) BY <1>4 DEF Alike, Leads, Good, Shaped, Fields
<1>6. Leads(q, off, W) /\ Leads(q, on, W) BY <1>4, <1>5, Sound, Elsewhere, Chain
<1> HIDE DEF off, on
<1>7. Leads(q, Dispatch(off, "tablet", Left, FALSE), W) BY <1>6, Sound, DispatchLeads, Chain, Zenon
<1>8. Leads(q, Dispatch(on, "tablet", Left, TRUE), W) BY <1>6, Sound, DispatchLeads, Chain, Zenon
<1>9. ASSUME ~down \/ OnTablet(r) PROVE Leads(q, SeatopTip(r, down), W)
  BY <1>4, <1>9, Sound, SeatopTipLeads, Chain
<1> QED BY <1>2, <1>7, <1>8, <1>9, Zenon

\* A button of the pen.
LEMMA ToolButtonLeads ==
  ASSUME NEW W, NEW q, Good(q, W), NEW press PROVE Leads(q, ToolButton(q, press), W)
<1> DEFINE r == Activity(q)
           simulate == (r.tool > 0 /\ r.simtool) \/ (r.tool = 0 /\ (r.mod \/ ~OnTablet(r)))
           sim == [r EXCEPT !.simtool = TRUE]
           surface == NodeAt(r, r.spot).surface
           x == IF ~press /\ r.tool = 1 THEN None
                ELSE IF press /\ r.toolTold = None THEN surface ELSE r.toolTold
           told == [r EXCEPT !.simtool = FALSE, !.toolTold = x]
           now == IF ~simulate THEN told
                  ELSE IF press /\ r.tool = 0 THEN Dispatch(sim, "tablet", Right, TRUE)
                  ELSE IF ~press /\ r.tool <= 1 THEN Dispatch(sim, "tablet", Right, FALSE) ELSE sim
           v == IF press THEN now.tool + 1 ELSE now.tool - 1
           end == [now EXCEPT !.tool = v]
<1>1. ToolButton(q, press) = end BY DEF ToolButton
<1>2. Leads(q, r, W) BY HideLeads
<1> HIDE DEF r
<1>3. Alike(r, sim) BY <1>2 DEF Alike, Leads, Good, Shaped, Fields
<1>4. Leads(q, sim, W) BY <1>2, <1>3, Sound, Elsewhere, Chain
<1> HIDE DEF sim
<1>5. \A press1 : Leads(q, Dispatch(sim, "tablet", Right, press1), W)
  BY <1>4, Sound, DispatchLeads, Chain
<1>6. There(r, x, W)
  <2>1. There(r, surface, W) BY <1>2, Sound, NodeHere, NodeThere
  <2>2. There(r, r.toolTold, W) BY <1>2 DEF Leads, Good, ClientsOk
  <2> HIDE DEF surface
  <2> QED BY <2>1, <2>2, NoneThere
<1> HIDE DEF x
<1>7. Leads(q, told, W)
  <2>1. Good(told, W)
    BY <1>2, <1>6 DEF Leads, Good, Shaped, OpOk, ClientsOk, ConstraintsOk, There, Fields
  <2>2. Leads(r, told, W) BY <1>2, <2>1 DEF Leads, Good, Shaped, Fields
  <2> QED BY <1>2, <2>2, Chain
<1> HIDE DEF told, simulate
<1>8. Leads(q, now, W) BY <1>4, <1>5, <1>7
<1> HIDE DEF now
<1>9. Alike(now, end)
  <2> HIDE DEF v
  <2> QED BY <1>8 DEF Alike, Leads, Good, Shaped, Fields
<1>10. Leads(now, end, W) BY <1>8, <1>9, Sound, Elsewhere
<1> HIDE DEF end
<1> QED BY <1>1, <1>8, <1>10, Chain

-----------------------------------------------------------------------------
(* Touchpads.                                                               *)

\* A gesture is recognised, or followed.
LEMMA GestureIs ==
  ASSUME NEW W, NEW q, Good(q, W), NEW x
  PROVE  Leads(q, [q EXCEPT !.gesture = x], W) /\ Leads(q, [q EXCEPT !.track = x], W)
<1>1. Alike(q, [q EXCEPT !.gesture = x]) BY DEF Alike, Good, Shaped, Fields
<1>2. Alike(q, [q EXCEPT !.track = x]) BY DEF Alike, Good, Shaped, Fields
<1> QED BY <1>1, <1>2, Elsewhere

\* A gesture begins.
LEMMA GestureBeginLeads ==
  ASSUME NEW W, NEW q, Good(q, W), NEW type PROVE Leads(q, GestureBegin(q, type), W)
<1> DEFINE a == Activity(q)
           r == [a EXCEPT !.gesture = type]
           t == [r EXCEPT !.track = type]
<1>1. Leads(q, a, W) BY HideLeads
<1>2. GestureBegin(q, type) \in {r, t, ScrollBegin(r)} BY DEF GestureBegin
<1> HIDE DEF a
<1>3. Leads(q, r, W) BY <1>1, Sound, GestureIs, Chain
<1> HIDE DEF r
<1>4. Leads(q, t, W) /\ Leads(q, ScrollBegin(r), W)
  BY <1>3, Sound, GestureIs, ScrollBeginLeads, Chain
<1> HIDE DEF t
<1> QED BY <1>2, <1>3, <1>4

\* A gesture ends.
LEMMA GestureEndLeads ==
  ASSUME NEW W, NEW q, Good(q, W), NEW type, NEW cancelled
  PROVE  Leads(q, GestureEnd(q, type, cancelled), W)
<1> DEFINE a == Activity(q)
           r == [a EXCEPT !.gesture = None]
           t == [r EXCEPT !.track = None]
<1>1. Leads(q, a, W) BY HideLeads
<1>2. GestureEnd(q, type, cancelled)
        \in {r, t, ScrollEnd(r, scene.along), Execute(t, scene.swipeTo)}
  BY DEF GestureEnd
<1> HIDE DEF a
<1>3. Leads(q, r, W) BY <1>1, Sound, GestureIs, Chain
<1> HIDE DEF r
<1>4. Leads(q, t, W) /\ Leads(q, ScrollEnd(r, scene.along), W)
  BY <1>3, Sound, GestureIs, ScrollEndLeads, Chain
<1> HIDE DEF t
<1>5. Leads(q, Execute(t, scene.swipeTo), W) BY <1>4, Sound, ExecuteLeads, Chain
<1> QED BY <1>2, <1>3, <1>4, <1>5

-----------------------------------------------------------------------------
(* What closes.                                                             *)

\* The operation is not about x, apart from its surface.
OpWithout(q, x) == q.op.con # x /\ q.op.target # x

\* No client was told of anything on x, apart from the pointer that is on it.
Untold(q, x) ==
  /\ q.last # x /\ q.penTold # x /\ q.toolTold # x
  /\ \A f \in Fingers : q.points[f] # x

\* When nothing points to x then all that is pointed to is there.
LEMMA Settle ==
  ASSUME NEW x, NEW q, Good(q, {x}), OpWithout(q, x), Untold(q, x), q.op.surface # x, q.focus # x
  PROVE  Good(q, {})
BY DEF Good, OpOk, ClientsOk, OpWithout, Untold, There

\* The pointer leaves a surface that is destroyed, and so does a press on it.
LEMMA SurfaceGoneGood ==
  ASSUME NEW x, x # None, NEW q, Good(q, {x}), OpWithout(q, x), Untold(q, x)
  PROVE  Good(SurfaceGone(q, x), {})
<1> DEFINE left == IF q.focus = x THEN PointerClear(q) ELSE q
           b == Begin(left, NoOp)
<1>1. Good(left, {x}) BY ClearLeads, Sound
<1>2. /\ left.focus # x /\ left.op = q.op
      /\ left.last = q.last /\ left.penTold = q.penTold /\ left.toolTold = q.toolTold
      /\ left.points = q.points
  BY DEF PointerClear, PointerEnter, Good, Shaped, Fields
<1>3. SurfaceGone(q, x) = IF q.op.surface = x THEN BeginDefault(left) ELSE left
  BY DEF SurfaceGone
<1> HIDE DEF left
<1>4. OpWithout(left, x) /\ Untold(left, x) BY <1>2 DEF OpWithout, Untold
<1>5. CASE q.op.surface # x BY <1>1, <1>2, <1>3, <1>4, <1>5, Settle
<1>6. CASE q.op.surface = x
  <2>1. OpOk(left, NoOp, {x}) BY NoneThere, NewIsOk DEF NoOp
  <2>2. Good(b, {x}) /\ b.op = NoOp BY <1>1, <2>1, BeginLeads, Sound
  <2>3. NoOp.con = None /\ NoOp.target = None /\ NoOp.surface = None BY DEF NoOp, NewOp
  <2>4. b.focus # x /\ OpWithout(b, x) /\ Untold(b, x)
    <3>1. b.focus = left.focus /\ b.last = left.last /\ b.penTold = left.penTold
            /\ b.toolTold = left.toolTold /\ b.points = left.points
      BY <1>1 DEF Begin, Good, Shaped, Fields
    <3> HIDE DEF b
    <3> QED BY <1>2, <1>4, <2>2, <2>3, <3>1 DEF OpWithout, Untold
  <2>5. BeginDefault(left) = DefaultRebase(b) BY DEF BeginDefault
  <2> HIDE DEF b
  <2>6. Good(b, {}) BY <2>2, <2>3, <2>4, Settle
  <2> QED BY <1>3, <1>6, <2>5, <2>6, DefaultRebaseLeads, Sound
<1> QED BY <1>5, <1>6

\* The operation lets a container go.
LEMMA UnrefLeads ==
  ASSUME NEW q, Good(q, {}), NEW w \in Windows
  PROVE  Leads(q, Unref(q, w), {}) /\ OpWithout(Unref(q, w), w)
<1> DEFINE e == [q EXCEPT !.op.target = None]
           d == IF q.op.target = w THEN e ELSE q
<1>1. w # None BY NodeAssumption
<1>2. Leads(q, e, {}) /\ e.op.con = q.op.con /\ e.op.target = None
  <2>1. Leads(q, e, {}) BY NoneThere, TargetLeads
  <2>2. e.op.con = q.op.con /\ e.op.target = None
    BY DEF Good, Shaped, Fields, OpOk, OpFields
  <2> QED BY <2>1, <2>2
<1>3. Unref(q, w) = IF q.op.con = w THEN BeginDefault(d) ELSE d BY DEF Unref
<1> HIDE DEF e
<1>4. Leads(q, d, {}) /\ d.op.target # w /\ d.op.con = q.op.con BY <1>1, <1>2, Stay
<1> HIDE DEF d
<1>5. CASE q.op.con # w BY <1>3, <1>4, <1>5 DEF OpWithout
<1>6. CASE q.op.con = w
  <2>1. Leads(q, BeginDefault(d), {}) BY <1>4, Sound, BeginDefaultLeads, Chain
  <2>2. BeginDefault(d).op = NoOp BY <1>4, Sound, BeginDefaultOp
  <2>3. NoOp.con = None /\ NoOp.target = None BY DEF NoOp, NewOp
  <2> QED BY <1>1, <1>3, <1>6, <2>1, <2>2, <2>3 DEF OpWithout
<1> QED BY <1>5, <1>6

\* Nothing, when x goes.
Without(y, x) == IF y = x THEN None ELSE y

\* A window that the operation has let go of goes.
LEMMA WindowGone ==
  ASSUME NEW q, Good(q, {}), NEW w \in Windows, OpWithout(q, w), NEW r,
         r = [q EXCEPT !.win[w].on = FALSE, !.constraints = @ \ {w}, !.active = Without(@, w),
                       !.penTold = Without(@, w), !.toolTold = Without(@, w), !.last = Without(@, w),
                       !.points = [f \in Fingers |-> Without(@[f], w)]]
  PROVE  Good(r, {w}) /\ OpWithout(r, w) /\ Untold(r, w)
<1>1. w # None BY NodeAssumption
<1>2. /\ Fields \subseteq DOMAIN r /\ DOMAIN r.win = Windows
      /\ r.op = q.op /\ r.shown = q.shown /\ r.spot = q.spot /\ r.panel = q.panel /\ r.focus = q.focus
      /\ r.constraints = q.constraints \ {w} /\ r.active = Without(q.active, w)
      /\ r.penTold = Without(q.penTold, w) /\ r.toolTold = Without(q.toolTold, w)
      /\ r.last = Without(q.last, w)
      /\ r.points = [f \in Fingers |-> Without(q.points[f], w)]
  BY DEF Good, Shaped, Fields
<1>3. \A v \in Windows : v # w => r.win[v] = q.win[v]
  BY DEF Good, Shaped, Fields
<1>4. {"on", "ws"} \subseteq DOMAIN r.win[w] /\ r.win[w].ws = q.win[w].ws
  <2>1. r.win = [q.win EXCEPT ![w] = [q.win[w] EXCEPT !.on = FALSE]] BY DEF Good, Shaped, Fields
  <2> QED BY <2>1 DEF Good, Shaped
<1>5. Shaped(r) BY <1>2, <1>3, <1>4 DEF Good, Shaped, Fields
<1>6. \A x : There(q, x, {}) => There(r, x, {w}) /\ (x # w => There(r, x, {}))
  BY <1>2, <1>3 DEF There
<1>7. OpOk(r, r.op, {w}) BY <1>2, <1>6, Zenon DEF Good, OpOk
<1>8. \A x : There(q, x, {}) => There(r, Without(x, w), {w})
  <2>1. There(r, None, {w}) BY NoneThere
  <2> QED BY <1>6, <2>1, Zenon DEF Without
<1>9. ClientsOk(r, {w})
  <2>1. ClientsOk(q, {}) BY DEF Good
  <2>2. There(r, r.focus, {w}) BY <1>2, <1>6, <2>1, Zenon DEF ClientsOk
  <2>3. There(r, r.last, {w}) /\ There(r, r.penTold, {w}) /\ There(r, r.toolTold, {w})
    BY <1>2, <1>8, <2>1, Zenon DEF ClientsOk
  <2>4. \A f \in Fingers : r.points[f] = Without(q.points[f], w) BY <1>2
  <2>5. \A f \in Fingers : There(r, r.points[f], {w}) BY <1>8, <2>1, <2>4, Zenon DEF ClientsOk
  <2> QED BY <2>2, <2>3, <2>5, Zenon DEF ClientsOk
<1>10. ConstraintsOk(r) BY <1>1, <1>2, <1>6, Zenon DEF Good, ConstraintsOk, Without
<1>11. Good(r, {w}) BY <1>5, <1>7, <1>9, <1>10 DEF Good
<1> QED BY <1>1, <1>2, <1>11 DEF OpWithout, Untold, Without

-----------------------------------------------------------------------------
(* The steps.                                                               *)

\* Places that a scene uses are places.
LEMMA SpotsOk == ASSUME scene \in Scenes, NEW spot \in Spots PROVE PlaceOk(spot)
BY NodeAssumption, SceneAssumption DEF Spots, PlaceOk

\* An event, or a release, whose handler leads on is a step of a sound pointer.
LEMMA EventIs ==
  ASSUME NEW new, Leads(p, new, {}), NEW act, Event(act, new) \/ LetGo(new)
  PROVE  Good(p', {}) /\ scene' = scene
BY Sound DEF Event, LetGo

\* The mouse
LEMMA MouseStep ==
  ASSUME IInv, NEW b,
         \/ Press(b) \/ Release(b) \/ CursorPress(b) \/ CursorRelease(b)
         \/ Wheel \/ Modifier \/ HideCursor
         \/ \E spot \in Spots, far \in BOOLEAN : Move(spot, far)
  PROVE  Good(p', {}) /\ scene' = scene
<1>1. Good(p, {}) /\ scene \in Scenes BY DEF IInv
<1>2. ASSUME NEW press PROVE Leads(p, PointerButton(p, b, press), {}) BY <1>1, PointerButtonLeads
<1>3. CASE Press(b) BY <1>2, <1>3, EventIs DEF Press
<1>4. CASE Release(b) BY <1>2, <1>4, EventIs DEF Release
<1>5. ASSUME NEW x, NEW press
      PROVE  Leads(p, Activity(Dispatch([p EXCEPT !.ipc = x], "*", b, press)), {})
  <2> DEFINE r == [p EXCEPT !.ipc = x]
             d == Dispatch(r, "*", b, press)
  <2>1. Alike(p, r) BY <1>1 DEF Alike, Good, Shaped, Fields
  <2>2. Leads(p, r, {}) BY <1>1, <2>1, Elsewhere
  <2> HIDE DEF r
  <2>3. Leads(p, d, {}) BY <2>2, Sound, DispatchLeads, Chain
  <2> HIDE DEF d
  <2>4. Leads(p, Activity(d), {}) BY <2>3, Sound, HideLeads, Chain
  <2> QED BY <2>4 DEF d, r
<1>6. CASE CursorPress(b) BY <1>5, <1>6, EventIs DEF CursorPress
<1>7. CASE CursorRelease(b) BY <1>5, <1>7, EventIs DEF CursorRelease
<1>8. Leads(p, Activity(p), {}) BY <1>1, HideLeads
<1>9. CASE Wheel
  <2> DEFINE a == Activity(p)
             x == AxisDefault(a, scene.bindings, "mouse", Middle + 1)
             new == IF p.op.kind = "default" THEN x ELSE a
  <2>1. Event("wheel", new) BY <1>9 DEF Wheel
  <2> HIDE DEF a
  <2>2. Leads(p, a, {}) BY <1>8 DEF a
  <2>3. Leads(p, x, {}) BY <2>2, Sound, AxisLeads, Chain
  <2> HIDE DEF x
  <2>4. Leads(p, new, {}) BY <2>2, <2>3
  <2> HIDE DEF new
  <2> QED BY <2>1, <2>4, EventIs
<1>10. CASE Modifier
  <2> DEFINE new == [p EXCEPT !.mod = ~@]
  <2>1. Event("mod", new) BY <1>10 DEF Modifier
  <2>2. Alike(p, new) BY <1>1 DEF Alike, Good, Shaped, Fields
  <2> HIDE DEF new
  <2> QED BY <1>1, <2>1, <2>2, Elsewhere, EventIs
<1>11. CASE HideCursor BY <1>1, <1>11, HideLeads, EventIs DEF HideCursor
<1>12. ASSUME NEW spot \in Spots, NEW far \in BOOLEAN, Move(spot, far)
       PROVE  Good(p', {}) /\ scene' = scene
  <2> DEFINE a == Activity(p)
             M(q) == Motion(q, spot, TRUE, far)
  <2>1. Event("move", Then(a, M)) BY <1>12 DEF Move
  <2>2. PlaceOk(spot) BY <1>1, SpotsOk
  <2>3. Leads(p, a, {}) BY <1>8
  <2> HIDE DEF a
  <2>4. Leads(p, M(a), {}) BY <2>2, <2>3, Sound, MotionLeads, Chain
  <2> HIDE DEF M
  <2>5. Then(a, M) = M(a) BY ThenIs, Zenon
  <2> QED BY <2>1, <2>4, <2>5, EventIs
<1> QED BY <1>3, <1>4, <1>6, <1>7, <1>9, <1>10, <1>11, <1>12

\* A touch screen
LEMMA TouchStep ==
  ASSUME IInv, NEW f \in Fingers,
         \/ FingerUp(f) \/ Frame
         \/ \E spot \in Spots : FingerDown(f, spot) \/ \E far \in BOOLEAN : FingerMove(f, spot, far)
  PROVE  Good(p', {}) /\ scene' = scene
<1>1. Good(p, {}) /\ scene \in Scenes BY DEF IInv
<1>2. CASE FingerUp(f) BY <1>1, <1>2, TouchUpLeads, EventIs DEF FingerUp
<1>3. CASE Frame BY <1>1, <1>3, TouchFrameLeads, EventIs DEF Frame
<1>4. ASSUME NEW spot \in Spots, FingerDown(f, spot) PROVE Good(p', {}) /\ scene' = scene
  <2>1. Leads(p, TouchDown(p, f, spot), {}) BY <1>1, SpotsOk, TouchDownLeads
  <2> QED BY <1>4, <2>1, EventIs DEF FingerDown
<1>5. ASSUME NEW spot \in Spots, NEW far \in BOOLEAN, FingerMove(f, spot, far)
      PROVE  Good(p', {}) /\ scene' = scene
  <2>1. Leads(p, TouchMotion(p, f, spot, far), {}) BY <1>1, SpotsOk, TouchMotionLeads
  <2> QED BY <1>5, <2>1, EventIs DEF FingerMove
<1> QED BY <1>2, <1>3, <1>4, <1>5

\* A tablet
LEMMA TabletStep ==
  ASSUME IInv, \/ PenDown \/ PenUp \/ ToolPress \/ ToolRelease
               \/ \E spot \in Spots, far \in BOOLEAN : PenMove(spot, far)
  PROVE  Good(p', {}) /\ scene' = scene
<1>1. Good(p, {}) /\ scene \in Scenes BY DEF IInv
<1>2. CASE PenDown BY <1>1, <1>2, ToolTipLeads, EventIs DEF PenDown
<1>3. CASE PenUp BY <1>1, <1>3, ToolTipLeads, EventIs DEF PenUp
<1>4. CASE ToolPress BY <1>1, <1>4, ToolButtonLeads, EventIs DEF ToolPress
<1>5. CASE ToolRelease BY <1>1, <1>5, ToolButtonLeads, EventIs DEF ToolRelease
<1>6. ASSUME NEW spot \in Spots, NEW far \in BOOLEAN, PenMove(spot, far)
      PROVE  Good(p', {}) /\ scene' = scene
  <2> DEFINE a == Activity(p)
  <2>1. Leads(p, a, {}) BY <1>1, HideLeads
  <2>2. Event("pen", ToolPosition(a, spot, far)) BY <1>6 DEF PenMove
  <2> HIDE DEF a
  <2>3. Leads(p, ToolPosition(a, spot, far), {})
    BY <1>1, <2>1, Sound, SpotsOk, ToolPositionLeads, Chain
  <2> QED BY <2>2, <2>3, EventIs
<1> QED BY <1>2, <1>3, <1>4, <1>5, <1>6

\* A touchpad
LEMMA TouchpadStep ==
  ASSUME IInv, (\E type : FingersBegin(type)) \/ (\E cancelled : FingersEnd(cancelled))
  PROVE  Good(p', {}) /\ scene' = scene
<1>1. Good(p, {}) BY DEF IInv
<1>2. ASSUME NEW type, FingersBegin(type) PROVE Good(p', {}) /\ scene' = scene
  BY <1>1, <1>2, GestureBeginLeads, EventIs DEF FingersBegin
<1>3. ASSUME NEW cancelled, FingersEnd(cancelled) PROVE Good(p', {}) /\ scene' = scene
  BY <1>1, <1>3, GestureEndLeads, EventIs DEF FingersEnd
<1> QED BY <1>2, <1>3

\* Requests of clients
LEMMA RequestStep ==
  ASSUME IInv, NEW w \in Windows,
         \/ \E kind \in {"move_floating", "resize_floating"} : Request(w, kind)
         \/ NewConstraint(w) \/ DropConstraint(w)
  PROVE  Good(p', {}) /\ scene' = scene
<1>1. Good(p, {}) BY DEF IInv
<1>2. ASSUME NEW kind, Request(w, kind) PROVE Good(p', {}) /\ scene' = scene
  <2> DEFINE q == [p EXCEPT !.last = None]
             m == BeginMoveFloating(q, w)
             z == BeginResize(q, w, "resize_floating")
  <2>1. Event("request", IF kind = "move_floating" THEN m ELSE z) BY <1>2 DEF Request
  <2>2. Good(q, {})
    BY <1>1, NoneThere DEF Good, Shaped, OpOk, ClientsOk, ConstraintsOk, There, Fields
  <2>3. Leads(p, q, {}) BY <1>1, <2>2 DEF Leads, Good, Shaped, Fields
  <2>4. There(q, w, {})
    <3>1. There(p, w, {}) BY <1>2, NodeAssumption DEF Request, There
    <3> HIDE DEF q
    <3> QED BY <2>3, <3>1, Remains
  <2> HIDE DEF q
  <2>5. Leads(p, m, {}) /\ Leads(p, z, {})
    BY <2>2, <2>3, <2>4, BeginMoveFloatingLeads, BeginResizeLeads, Chain
  <2> HIDE DEF m, z
  <2>6. CASE kind = "move_floating" BY <2>1, <2>5, <2>6, EventIs
  <2>7. CASE kind # "move_floating" BY <2>1, <2>5, <2>7, EventIs
  <2> QED BY <2>6, <2>7
<1>3. CASE NewConstraint(w)
  <2> DEFINE new == [p EXCEPT !.constraints = @ \cup {w}]
  <2>1. p.win[w].on /\ Event("constraint", IF p.kbd = w THEN Constrain(new, w) ELSE new)
    BY <1>3 DEF NewConstraint
  <2>2. There(p, w, {}) BY <2>1, NodeAssumption DEF There
  <2>3. Good(new, {}) /\ w \in new.constraints
    BY <1>1, <2>2 DEF Good, Shaped, OpOk, ClientsOk, ConstraintsOk, There, Fields
  <2> HIDE DEF new
  <2>4. Good(Constrain(new, w), {}) BY <2>3, ConstrainLeads, Sound
  <2>5. p' \in {Constrain(new, w), new} /\ scene' = scene BY <2>1 DEF Event
  <2> QED BY <2>3, <2>4, <2>5
<1>4. CASE DropConstraint(w)
  <2> DEFINE a == IF p.active = w THEN None ELSE p.active
             new == [p EXCEPT !.constraints = @ \ {w}, !.active = a]
  <2>1. p' = new /\ scene' = scene BY <1>4 DEF DropConstraint, Event
  <2>2. a # None => a \in p.constraints \ {w} BY <1>1 DEF Good, ConstraintsOk
  <2> HIDE DEF a
  <2>3. Good(new, {})
    BY <1>1, <2>2 DEF Good, Shaped, OpOk, ClientsOk, ConstraintsOk, There, Fields
  <2> QED BY <2>1, <2>3
<1> QED BY <1>2, <1>3, <1>4

\* Commands
LEMMA CommandStep ==
  ASSUME IInv,
         \/ \E ws \in Spaces : Switch(ws)
         \/ \E w \in Windows : FocusWindow(w) \/ Fullscreen(w) \/ Float(w)
  PROVE  Good(p', {}) /\ scene' = scene
<1>1. Good(p, {}) BY DEF IInv
<1>2. ASSUME NEW ws \in Spaces, Switch(ws) PROVE Good(p', {}) /\ scene' = scene
  BY <1>1, <1>2, ExecuteLeads, EventIs DEF Switch
<1>3. ASSUME NEW q, Leads(p, q, {}) PROVE Leads(p, Rebase(q), {})
  BY <1>3, Sound, RebaseLeads, Chain
<1>4. ASSUME NEW w \in Windows, FocusWindow(w) PROVE Good(p', {}) /\ scene' = scene
  <2>1. Leads(p, Rebase(SetFocus(p, w)), {}) BY <1>1, <1>3, SetFocusLeads
  <2> QED BY <1>4, <2>1, EventIs DEF FocusWindow
<1>5. ASSUME NEW w \in Windows, NEW x, x.on = p.win[w].on, {"on", "ws"} \subseteq DOMAIN x,
             x.ws = p.win[w].ws
      PROVE  Leads(p, [p EXCEPT !.win[w] = x], {})
  <2>1. x.ws \in Spaces BY <1>1, <1>5 DEF Good, Shaped
  <2> QED BY <1>1, <1>5, <2>1, WindowLeads
<1>6. ASSUME NEW w \in Windows, Fullscreen(w) PROVE Good(p', {}) /\ scene' = scene
  <2> DEFINE x == [p.win[w] EXCEPT !.full = ~@]
             q == [p EXCEPT !.win[w] = x]
  <2>1. Event("full", Rebase(SetFocus(q, w))) BY <1>6 DEF Fullscreen
  <2>2. x.on = p.win[w].on /\ {"on", "ws"} \subseteq DOMAIN x /\ x.ws = p.win[w].ws
    BY <1>1 DEF Good, Shaped
  <2> HIDE DEF x
  <2>3. Leads(p, q, {}) BY <1>5, <2>2
  <2> HIDE DEF q
  <2>4. Leads(p, SetFocus(q, w), {}) BY <2>3, Sound, SetFocusLeads, Chain
  <2> QED BY <1>3, <2>1, <2>4, EventIs
<1>7. ASSUME NEW w \in Windows, Float(w) PROVE Good(p', {}) /\ scene' = scene
  <2> DEFINE at == IF p.win[w].at = "tiled" THEN "floating" ELSE "tiled"
             x == [p.win[w] EXCEPT !.at = at]
             q == [p EXCEPT !.win[w] = x]
  <2>1. Event("float", Rebase(q)) BY <1>7 DEF Float
  <2> HIDE DEF at
  <2>2. x.on = p.win[w].on /\ {"on", "ws"} \subseteq DOMAIN x /\ x.ws = p.win[w].ws
    BY <1>1 DEF Good, Shaped
  <2> HIDE DEF x
  <2>3. Leads(p, q, {}) BY <1>5, <2>2
  <2> HIDE DEF q
  <2> QED BY <1>3, <2>1, <2>3, EventIs
<1> QED BY <1>2, <1>4, <1>6, <1>7

\* A window closes.
LEMMA CloseStep ==
  ASSUME IInv, NEW w \in Windows, Close(w) PROVE Good(p', {}) /\ scene' = scene
<1> DEFINE u == Unref(p, w)
           Gone(q) == [q EXCEPT !.win[w].on = FALSE, !.constraints = @ \ {w},
                                !.active = Without(@, w), !.penTold = Without(@, w),
                                !.toolTold = Without(@, w), !.last = Without(@, w),
                                !.points = [f \in Fingers |-> Without(@[f], w)]]
           node(q) == IF On(q, q.shown) = {} THEN q.shown ELSE CHOOSE v \in On(q, q.shown) : TRUE
           Next1(q) == IF q.kbd # w THEN q ELSE SetFocus(q, node(q))
           Leave(q) == SurfaceGone(Next1(Gone(q)), w)
           g == Gone(u)
           n == Next1(g)
<1>1. Good(p, {}) BY DEF IInv
<1>2. Event("close", Then(Then(u, Leave), Rebase)) BY Zenon DEF Close, Without
<1>3. Leads(p, u, {}) /\ OpWithout(u, w) BY <1>1, UnrefLeads
<1> HIDE DEF u
<1>4. Good(g, {w}) /\ OpWithout(g, w) /\ Untold(g, w) BY <1>3, Sound, WindowGone, Zenon
<1>5. Good(n, {w}) /\ OpWithout(n, w) /\ Untold(n, w)
  <2> HIDE DEF g
  <2>1. node(g) \in Windows \cup Spaces BY <1>4 DEF On, Good, Shaped
  <2>2. n \in {g, SetFocus(g, node(g))} OBVIOUS
  <2> HIDE DEF node, n
  <2>3. Leads(g, SetFocus(g, node(g)), {w}) /\ Keeps(g, SetFocus(g, node(g)))
    BY <1>4, <2>1, SetFocusLeads
  <2>4. OpWithout(SetFocus(g, node(g)), w) /\ Untold(SetFocus(g, node(g)), w)
    BY <1>4, <2>3 DEF Keeps, OpWithout, Untold
  <2> QED BY <1>4, <2>2, <2>3, <2>4, Sound
<1>6. Leave(u) = SurfaceGone(n, w) OBVIOUS
<1> HIDE DEF n, Leave
<1>7. Good(Leave(u), {})
  <2>1. w # None BY NodeAssumption
  <2> QED BY <1>5, <1>6, <2>1, SurfaceGoneGood
<1>8. Then(u, Leave) = Leave(u) BY ThenIs, Zenon
<1>9. Then(Leave(u), Rebase) = Rebase(Leave(u)) BY ThenIs, Zenon
<1>10. p' = Rebase(Leave(u)) /\ scene' = scene BY <1>2, <1>8, <1>9 DEF Event
<1> QED BY <1>7, <1>10, RebaseLeads, Sound

\* The panel closes.
LEMMA PanelStep == ASSUME IInv, PanelGone PROVE Good(p', {}) /\ scene' = scene
<1> DEFINE r == [p EXCEPT !.panel = FALSE, !.penTold = Without(@, Panel),
                          !.toolTold = Without(@, Panel), !.last = Without(@, Panel),
                          !.points = [f \in Fingers |-> Without(@[f], Panel)]]
<1>1. Good(p, {}) BY DEF IInv
<1>2. p' = Rebase(SurfaceGone(r, Panel)) /\ scene' = scene BY DEF PanelGone, Event, Without
<1>3. /\ Fields \subseteq DOMAIN r
      /\ r.win = p.win /\ r.op = p.op /\ r.shown = p.shown /\ r.spot = p.spot /\ r.focus = p.focus
      /\ r.constraints = p.constraints /\ r.active = p.active
      /\ r.penTold = Without(p.penTold, Panel) /\ r.toolTold = Without(p.toolTold, Panel)
      /\ r.last = Without(p.last, Panel)
      /\ r.points = [f \in Fingers |-> Without(p.points[f], Panel)]
  BY <1>1 DEF Good, Shaped, Fields
<1> HIDE DEF r
<1>4. Panel # None /\ Panel \notin Windows /\ Panel \notin Spaces BY NodeAssumption
<1>5. Shaped(r) BY <1>1, <1>3 DEF Good, Shaped, Fields
<1>6. \A x : There(p, x, {}) => There(r, x, {Panel}) /\ (x # Panel => There(r, x, {}))
  BY <1>3 DEF There
<1>7. OpOk(r, r.op, {Panel}) BY <1>1, <1>3, <1>6 DEF Good, OpOk
<1>8. \A x : There(p, x, {}) => There(r, Without(x, Panel), {Panel})
  <2>1. There(r, None, {Panel}) BY NoneThere
  <2> QED BY <1>6, <2>1 DEF Without
<1>9. ClientsOk(r, {Panel})
  <2>1. ClientsOk(p, {}) BY <1>1 DEF Good
  <2>2. There(r, r.focus, {Panel}) BY <1>3, <1>6, <2>1 DEF ClientsOk
  <2>3. There(r, r.last, {Panel}) /\ There(r, r.penTold, {Panel}) /\ There(r, r.toolTold, {Panel})
    BY <1>3, <1>8, <2>1 DEF ClientsOk
  <2>4. \A f \in Fingers : r.points[f] = Without(p.points[f], Panel) BY <1>3
  <2>5. \A f \in Fingers : There(r, r.points[f], {Panel}) BY <1>8, <2>1, <2>4 DEF ClientsOk
  <2> QED BY <2>2, <2>3, <2>5 DEF ClientsOk
<1>10. ConstraintsOk(r)
  <2>1. \A w \in p.constraints : w \in Windows /\ There(r, w, {})
    BY <1>1, <1>4, <1>6 DEF Good, ConstraintsOk
  <2> QED BY <1>1, <1>3, <2>1 DEF Good, ConstraintsOk
<1>11. Good(r, {Panel}) BY <1>5, <1>7, <1>9, <1>10 DEF Good
<1>12. OpWithout(r, Panel) /\ Untold(r, Panel)
  BY <1>1, <1>3, <1>4 DEF Good, OpOk, OpWithout, Untold, Without
<1>13. Good(SurfaceGone(r, Panel), {}) BY <1>4, <1>11, <1>12, SurfaceGoneGood
<1> QED BY <1>2, <1>13, RebaseLeads, Sound

-----------------------------------------------------------------------------
(* The theorem.                                                             *)

\* The pointer is sound at first, in every scene.
LEMMA InitGood == Init => IInv
<1> SUFFICES ASSUME Init PROVE Good(p, {}) /\ scene \in Scenes BY DEF IInv
<1>1. scene \in Scenes /\ p = BeginDefault(Start) BY DEF Init
<1>2. /\ scene.home \in [Windows -> Spaces] /\ scene.shown \in Spaces BY <1>1, SceneAssumption
<1>3. Start.win = [w \in Windows |-> [NewWindow EXCEPT !.ws = scene.home[w], !.at = scene.at[w]]]
  BY Zenon DEF Start
<1>4. Start.shown = scene.shown /\ Start.spot = [part |-> "workspace", x |-> None] BY Zenon DEF Start
<1>5. Start.op = NoOp /\ Start.focus = None /\ Start.last = None BY Zenon DEF Start
<1>6. Start.points = [f \in Fingers |-> None] /\ Start.constraints = {} /\ Start.active = None
  BY Zenon DEF Start
<1>7. Start.penTold = None /\ Start.toolTold = None BY Zenon DEF Start
<1>8. Fields \subseteq DOMAIN Start BY SMTT(60) DEF Start, Fields
<1> HIDE DEF Start
<1>9. ASSUME NEW w \in Windows
      PROVE  {"on", "ws"} \subseteq DOMAIN Start.win[w] /\ Start.win[w].ws \in Spaces
  <2>1. Start.win[w] = [NewWindow EXCEPT !.ws = scene.home[w], !.at = scene.at[w]] BY <1>3, Zenon
  <2>2. scene.home[w] \in Spaces BY <1>2
  <2> QED BY <2>1, <2>2 DEF NewWindow
<1>10. DOMAIN Start.win = Windows BY <1>3, Zenon
<1>11. Fingers \subseteq DOMAIN Start.points BY <1>6
<1>12. PlaceOk(Start.spot) BY <1>4, NodeAssumption DEF PlaceOk
<1>13. Start.shown \in Spaces BY <1>2, <1>4
<1>14. Shaped(Start) BY <1>8, <1>9, <1>10, <1>11, <1>12, <1>13 DEF Shaped
<1>15. OpOk(Start, Start.op, {}) BY <1>5, NoneThere, NewIsOk DEF NoOp
<1>16. There(Start, None, {}) BY NoneThere
<1>17. \A f \in Fingers : Start.points[f] = None BY <1>6
<1>18. ClientsOk(Start, {}) BY <1>5, <1>7, <1>16, <1>17 DEF ClientsOk
<1>19. ConstraintsOk(Start) BY <1>6 DEF ConstraintsOk
<1>20. Good(Start, {}) BY <1>14, <1>15, <1>18, <1>19 DEF Good
<1> QED BY <1>1, <1>20, BeginDefaultLeads, Sound

\* Every step keeps it so.
LEMMA NextGood == IInv /\ [Next]_vars => IInv'
<1> SUFFICES ASSUME IInv, [Next]_vars PROVE IInv' OBVIOUS
<1>1. scene \in Scenes BY DEF IInv
<1>2. CASE Next
  <2>1. Good(p', {}) /\ scene' = scene
    <3>1. CASE \E b \in Buttons : Press(b) \/ Release(b) \/ CursorPress(b) \/ CursorRelease(b)
      BY <3>1, MouseStep
    <3>2. ASSUME NEW s \in Spots, NEW far \in BOOLEAN,
                 Move(s, far) \/ PenMove(s, far) \/ \E f \in Fingers : FingerMove(f, s, far)
          PROVE  Good(p', {}) /\ scene' = scene
      <4>1. CASE Move(s, far) BY <4>1, MouseStep
      <4>2. CASE PenMove(s, far) BY <4>2, TabletStep
      <4>3. CASE \E f \in Fingers : FingerMove(f, s, far) BY <4>3, TouchStep
      <4> QED BY <3>2, <4>1, <4>2, <4>3
    <3>3. CASE \E f \in Fingers : FingerUp(f) \/ \E s \in Spots : FingerDown(f, s)
      BY <3>3, TouchStep
    <3>4. CASE Wheel \/ Modifier \/ HideCursor BY <3>4, MouseStep
    <3>5. CASE Frame
      <4>1. Leads(p, TouchFrame(p), {}) BY TouchFrameLeads DEF IInv
      <4> QED BY <3>5, <4>1, EventIs DEF Frame
    <3>6. CASE PenDown \/ PenUp \/ ToolPress \/ ToolRelease BY <3>6, TabletStep
    <3>7. CASE PanelGone BY <3>7, PanelStep
    <3>8. CASE \/ \E t \in {"hold", "pinch", "swipe"} : FingersBegin(t)
               \/ \E cancelled \in BOOLEAN : FingersEnd(cancelled)
      BY <3>8, TouchpadStep
    <3>9. ASSUME NEW w \in Windows,
                 \/ \E kind \in {"move_floating", "resize_floating"} : Request(w, kind)
                 \/ NewConstraint(w) \/ DropConstraint(w) \/ Close(w)
                 \/ FocusWindow(w) \/ Fullscreen(w) \/ Float(w)
          PROVE  Good(p', {}) /\ scene' = scene
      BY <3>9, RequestStep, CloseStep, CommandStep
    <3>10. CASE \E ws \in Spaces : Switch(ws) BY <3>10, CommandStep
    <3> QED BY <1>2, <3>1, <3>2, <3>3, <3>4, <3>5, <3>6, <3>7, <3>8, <3>9, <3>10, Zenon DEF Next
  <2> QED BY <1>1, <2>1 DEF IInv
<1>3. CASE UNCHANGED vars BY <1>3 DEF vars, IInv, Good, Shaped, OpOk, ClientsOk, ConstraintsOk, There
<1> QED BY <1>2, <1>3

\* Nothing that a sound pointer points to is gone.
LEMMA GoodAlive == IInv => OpAlive
BY DEF IInv, Good, OpOk, ClientsOk, ConstraintsOk, There, OpAlive, Exists

\* No window or panel that the seat points to is gone, whatever closes, whatever is
\* pressed and whatever clients ask for meanwhile: the container, the surface and the drop
\* target of the operation, the surfaces that the pointer, fingers and the pen are on, the
\* one that may ask for a move, and the one the mouse is bound to.  (seatop_unref,
\* handle_destroy)
THEOREM NothingDangles == Spec => []OpAlive
<1>1. Spec => []IInv BY InitGood, NextGood, PTL DEF Spec
<1> QED BY <1>1, GoodAlive, PTL

=============================================================================
