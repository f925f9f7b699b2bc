------------------------------- MODULE Swaybar -------------------------------
(***************************************************************************)
(* A status bar (swaybar/bar.c, ipc.c, render.c) composed with the IPC     *)
(* server, the part of the compositor that it shows, and other clients.    *)
(* The bar is a process of its own: it asks on the socket Ctl and blocks   *)
(* for the answer, and hears of changes on the socket Evt; between two     *)
(* handlers the compositor and the wire take any number of steps.          *)
(*                                                                         *)
(*   desk  what the compositor holds: the workspaces of each output and    *)
(*         the scroller state as values, the binding mode, the bar_config, *)
(*         visible_by_modifier and whether the modifier is held, and the   *)
(*         outputs that are plugged in; kept is whether the bar that was   *)
(*         launched last is still the one to run                           *)
(*   bar   struct swaybar, with its outputs as sets: place is the list an  *)
(*         output is in, surface, layer and sized are those with a         *)
(*         surface, a layer_surface and a width; scheduled and dirty are   *)
(*         frame_scheduled and dirty.  drawn is what was last drawn.       *)
(*         asked are the outputs whose configure event is to come, frames  *)
(*         counts their frame callbacks to come                            *)
(*   peer  what every other client does                                    *)
(*   told  changes so far; a scene bounds them                             *)
(*                                                                         *)
(* The height of the bar is constant, and it finds a free buffer whenever  *)
(* it draws.                                                               *)
(***************************************************************************)
EXTENDS IpcServer

CONSTANTS
  Ctl, Evt,     \* ipc_socketfd and ipc_event_socketfd of the bar
  Outputs,
  Values,       \* what the workspaces of an output can be; "urgent" is one of them
  Scenes        \* what is explored together

ASSUME ClientsAssumption == Ctl \in Clients /\ Evt \in Clients /\ Ctl # Evt

ASSUME NoneAssumption == None \notin Requests

\* A new buffer is within the limit, and the two messages that answer a subscription to
\* ticks fit: 128 bytes and 4 MB in the code.
ASSUME ScenesAssumption ==
  \A s \in Scenes : /\ s.limit \in Nat /\ s.limit >= InitialSize
                    /\ s.events \subseteq EventTypes
                    /\ "tick" \in s.events => s.limit >= 4 * InitialSize

VARIABLES ipc, desk, bar, peer, told, scene

vars == <<ipc, desk, bar, peer, told, scene>>

Peers == Clients \ {Ctl, Evt}

DefaultConfig == [mode |-> "dock", hidden |-> "hide", outputs |-> {}]

NoBar ==
  [pc |-> "off", cfg |-> DefaultConfig, mode |-> "default", byMod |-> FALSE, byMode |-> FALSE,
   urgent |-> FALSE, visible |-> TRUE, moving |-> FALSE, spaces |-> [o \in Outputs |-> None],
   scroller |-> None, place |-> [o \in Outputs |-> "none"], surface |-> {}, layer |-> {},
   sized |-> {}, scheduled |-> {}, dirty |-> {}, drawn |-> [o \in Outputs |-> None],
   asked |-> {}, frames |-> [o \in Outputs |-> 0], failed |-> FALSE]

Init ==
  /\ scene \in Scenes
  /\ ipc = NoServer(scene.limit)
  /\ desk = [spaces |-> [o \in Outputs |-> "idle"], scroller |-> "idle", mode |-> "default",
             cfg |-> scene.cfg, byMod |-> FALSE, held |-> FALSE,
             plugged |-> scene.outputs, kept |-> FALSE]
  /\ bar = NoBar
  /\ peer = [c \in Peers |-> "out"]
  /\ told = 0

-----------------------------------------------------------------------------
(* Drawing: render.c and bar.c.                                             *)

Used(b) == {o \in Outputs : b.place[o] = "used"}

\* What render_to_cairo draws
Content(b, o) ==
  [spaces |-> b.spaces[o], scroller |-> b.scroller, mode |-> b.mode, cfg |-> b.cfg]

\* render_frame: without a size the surface asks for one, else it draws.
RenderFrame(b, o) ==
  IF o \notin b.surface THEN [b EXCEPT !.failed = TRUE]
  ELSE IF o \notin b.layer THEN b
  ELSE IF o \notin b.sized THEN [b EXCEPT !.asked = @ \cup {o}]
  ELSE [b EXCEPT !.drawn[o] = Content(b, o), !.frames[o] = @ + 1, !.scheduled = @ \cup {o}]

SetOutputDirty(b, o) ==
  IF o \in b.scheduled THEN [b EXCEPT !.dirty = @ \cup {o}]
  ELSE IF o \in b.surface THEN RenderFrame(b, o) ELSE b

SetBarDirty(b) ==
  FoldSet(LAMBDA o, e : Then(e, LAMBDA f : SetOutputDirty(f, o)), b, Used(b))

DestroyLayerSurfaces_StayScheduled(b, out) ==
  LET gone == out \cap b.layer
  IN  [b EXCEPT !.layer = @ \ gone, !.sized = @ \ gone,
                !.asked = @ \ gone, !.drawn = [o \in Outputs |-> IF o \in gone THEN None ELSE @[o]]]

DestroyLayerSurfaces(b, out) ==
  LET gone == out \cap b.layer
  IN  [b EXCEPT !.layer = @ \ gone, !.sized = @ \ gone, !.scheduled = @ \ gone,
                !.asked = @ \ gone, !.drawn = [o \in Outputs |-> IF o \in gone THEN None ELSE @[o]]]

\* add_layer_surface, for every output in use; it cannot do without a surface.
AddLayerSurfaces(b) ==
  [b EXCEPT !.layer = @ \cup Used(b), !.failed = @ \/ ~(Used(b) \subseteq b.surface)]

Shown(b) ==
  /\ b.cfg.mode # "invisible"
  /\ b.cfg.mode = b.cfg.hidden => b.byMod \/ b.urgent \/ b.byMode

DetermineBarVisibility(b, moving) ==
  LET Kept(e) == IF Shown(b) /\ ~moving THEN e ELSE DestroyLayerSurfaces(e, Used(b))
      Added(e) == IF Shown(b) THEN AddLayerSurfaces(e) ELSE e
  IN  Then(Then(Then([b EXCEPT !.visible = Shown(b)], Kept), Added), SetBarDirty)

Redetermine(b) == DetermineBarVisibility(b, FALSE)

FrameHandleDone_StaysDirty(b, o) ==
  LET Again(e) == IF o \in e.dirty THEN RenderFrame(e, o) ELSE e
  IN  Then([b EXCEPT !.frames[o] = @ - 1, !.scheduled = @ \ {o}], Again)

\* output_frame_handle_done
FrameHandleDone(b, o) ==
  LET Again(e) == IF o \in e.dirty THEN [RenderFrame(e, o) EXCEPT !.dirty = @ \ {o}] ELSE e
  IN  Then([b EXCEPT !.frames[o] = @ - 1, !.scheduled = @ \ {o}], Again)

-----------------------------------------------------------------------------
(* Outputs of the bar.                                                      *)

BarUsesOutput(cfg, o) == cfg.outputs = {} \/ o \in cfg.outputs

\* xdg_output_handle_done
OutputDone(b, o) ==
  IF BarUsesOutput(b.cfg, o)
  THEN Then([b EXCEPT !.place[o] = "used", !.surface = @ \cup {o}], Redetermine)
  ELSE [b EXCEPT !.place[o] = "unused"]

\* swaybar_output_free
OutputFree(b, o) ==
  [DestroyLayerSurfaces(b, {o}) EXCEPT !.place[o] = "none", !.surface = @ \ {o},
     !.dirty = @ \ {o}, !.spaces[o] = None, !.frames[o] = 0]

-----------------------------------------------------------------------------
(* The bar's side of IPC.                                                   *)

\* What the compositor answers
Answering(r) ==
  CASE r.type = "workspaces" -> desk.spaces
    [] r.type = "scroller" -> desk.scroller
    [] r.type = "config" -> desk.cfg
    [] OTHER -> TRUE

Asks == [config |-> Request("config", {}, TRUE, FALSE),
         subscribe |-> Request("subscribe", {"config", "state", "mode", "workspace", "scroller"}, TRUE, FALSE),
         workspaces |-> Request("workspaces", {}, TRUE, TRUE),
         scroller |-> Request("scroller", {}, TRUE, TRUE)]

\* The bar sends a request and blocks; pc says what it goes on with.
Ask(request, b, pc) ==
  /\ ipc' = SendRequest(ipc, IF request = "subscribe" THEN Evt ELSE Ctl, Asks[request])
  /\ bar' = [b EXCEPT !.pc = pc]

\* ipc_get_workspaces, once it has the answer: workspaces of outputs in use
TakeWorkspaces(b, spaces) ==
  LET used == Used(b)
      taken == [b EXCEPT !.spaces = [o \in Outputs |-> IF o \in used THEN spaces[o] ELSE @[o]],
                         !.urgent = \E o \in used : spaces[o] = "urgent"]
  IN  Then(taken, Redetermine)

TakeScroller(b, scroller) == Then([b EXCEPT !.scroller = scroller], Redetermine)

\* handle_barconfig_update, up to its question about workspaces.  The outputs that
\* are not in the new configuration lose their layer surface and are put aside.
TakeConfig(b, cfg) ==
  LET leaving == {o \in Used(b) : ~BarUsesOutput(cfg, o)}
      joining == {o \in Outputs : b.place[o] = "unused" /\ BarUsesOutput(cfg, o)}
  IN  [DestroyLayerSurfaces(b, leaving) EXCEPT !.cfg = cfg,
         !.place = [o \in Outputs |-> IF o \in leaving THEN "unused"
                                      ELSE IF o \in joining THEN "used" ELSE @[o]],
         !.moving = cfg.mode # b.cfg.mode]

\* handle_bar_state_update
TakeState(b, on) ==
  LET taken == [b EXCEPT !.byMod = on, !.byMode = @ /\ ~on, !.urgent = @ /\ ~on]
  IN  Then(taken, Redetermine)

\* handle_ipc_readable, IPC_EVENT_MODE
TakeMode(b, mode) ==
  LET taken == [b EXCEPT !.mode = mode, !.byMode = mode # "default"]
  IN  Then(Then(taken, Redetermine), SetBarDirty)

-----------------------------------------------------------------------------
(* The compositor.                                                          *)

\* The bar has subscribed.  A change of its configuration, of the mode or of the
\* modifier before that is not told to it.
Listening == ipc.sub[Evt] # {}

Tell(type, val) == ipc' = SendEvent(ipc, type, val)

Changes(kind) == kind \in scene.changes /\ told < scene.most /\ told' = told + 1

\* Anything that raises a workspace event
WorkspaceChanges(o, v) ==
  /\ Changes("workspace")
  /\ v # desk.spaces[o] /\ o \in desk.plugged
  /\ desk' = [desk EXCEPT !.spaces[o] = v]
  /\ Tell("workspace", None)
  /\ UNCHANGED <<bar, peer, scene>>

ScrollerChanges(v) ==
  /\ Changes("scroller")
  /\ v # desk.scroller
  /\ desk' = [desk EXCEPT !.scroller = v]
  /\ Tell("scroller", None)
  /\ UNCHANGED <<bar, peer, scene>>

\* cmd_mode
ModeChanges(m) ==
  /\ Changes("mode") /\ Listening
  /\ desk' = [desk EXCEPT !.mode = m]
  /\ Tell("mode", m)
  /\ UNCHANGED <<bar, peer, scene>>

\* bar_set_mode, bar_set_hidden_state, bar_cmd_output; cmd_bar tells of every
\* command that names the bar, the others of changes only.
ConfigChanges(cfg, named) ==
  /\ Changes("config") /\ Listening
  /\ desk' = [desk EXCEPT !.cfg = cfg]
  /\ IF named \/ cfg # desk.cfg THEN Tell("config", cfg) ELSE UNCHANGED ipc
  /\ UNCHANGED <<bar, peer, scene>>

BarSetMode(mode, named) == ConfigChanges([desk.cfg EXCEPT !.mode = mode], named)

BarSetHiddenState(hidden, named) == ConfigChanges([desk.cfg EXCEPT !.hidden = hidden], named)

BarSetOutput(o) ==
  /\ "outputs" \in scene.changes
  /\ ConfigChanges([desk.cfg EXCEPT !.outputs = @ \cup {o}], TRUE)

\* determine_bar_visibility of keyboard.c
Modifier ==
  /\ Changes("modifier") /\ Listening
  /\ LET held == ~desk.held
         says == /\ desk.byMod # held
                 /\ desk.byMod \/ desk.cfg.mode = desk.cfg.hidden
     IN  /\ desk' = [desk EXCEPT !.held = held, !.byMod = IF says THEN held ELSE @]
         /\ IF says THEN Tell("state", held) ELSE UNCHANGED ipc
  /\ UNCHANGED <<bar, peer, scene>>

\* do_reload: another configuration and mode; the bar is closed and, once it is
\* gone, started anew by LaunchBar.
Reload ==
  /\ Changes("reload") /\ desk.kept
  /\ desk' = [desk EXCEPT !.cfg = scene.cfg, !.mode = "default", !.byMod = FALSE, !.kept = FALSE]
  /\ ipc' = Then(SendEvent(ipc, "workspace", None), LAMBDA s : SendEvent(s, "config", scene.cfg))
  /\ UNCHANGED <<bar, peer, scene>>

OutputPlugged(o) ==
  /\ Changes("output")
  /\ o \notin desk.plugged /\ bar.place[o] = "none"
  /\ desk' = [desk EXCEPT !.plugged = @ \cup {o}]
  /\ UNCHANGED <<ipc, bar, peer, scene>>

OutputUnplugged(o) ==
  /\ Changes("output")
  /\ o \in desk.plugged
  /\ desk' = [desk EXCEPT !.plugged = @ \ {o}]
  /\ UNCHANGED <<ipc, bar, peer, scene>>

-----------------------------------------------------------------------------
(* The server's handlers.                                                   *)

ServerReads(c) ==
  /\ Readable(ipc, c)
  /\ ipc' = HandleReadable(ipc, c, Answering)
  /\ UNCHANGED <<desk, bar, peer, told, scene>>

ServerWrites(c) ==
  /\ \E n \in Writable(ipc, c) : ipc' = HandleWritable(ipc, c, n)
  /\ UNCHANGED <<desk, bar, peer, told, scene>>

-----------------------------------------------------------------------------
(* The bar.                                                                 *)

BarStep == UNCHANGED <<desk, peer, told, scene>>

\* load_swaybar, invoke_swaybar and the beginning of bar_setup
LaunchBar ==
  /\ scene.bar /\ bar.pc = "off" /\ ~desk.kept
  /\ Vacant(ipc, Ctl) /\ Vacant(ipc, Evt)
  /\ desk' = [desk EXCEPT !.kept = TRUE]
  /\ LET Both(s) == HandleConnection(HandleConnection(s, Ctl), Evt)
     IN  ipc' = Then(Both(ipc), LAMBDA s : SendRequest(s, Ctl, Asks.config))
  /\ bar' = [NoBar EXCEPT !.pc = "config"]
  /\ UNCHANGED <<peer, told, scene>>

\* The answer that the bar blocks for: the head of what it can read
Answer1(socket) == Head(ipc.net[socket]).m.val

BarReceives(pc, socket) == bar.pc = pc /\ Arrived(ipc, socket)

\* ipc_initialize
BarConfigured ==
  /\ BarReceives("config", Ctl)
  /\ ipc' = SendRequest(RecvResponse(ipc, Ctl), Evt, Asks.subscribe)
  /\ bar' = [bar EXCEPT !.cfg = Answer1(Ctl), !.pc = "subscribe"]
  /\ BarStep

\* bar_setup: the outputs of the registry, then the first questions
BarSubscribed ==
  /\ BarReceives("subscribe", Evt)
  /\ ipc' = SendRequest(RecvResponse(ipc, Evt), Ctl, Asks.workspaces)
  /\ bar' = [FoldSet(LAMBDA o, b : Then(b, LAMBDA e : OutputDone(e, o)), bar, desk.plugged) EXCEPT !.pc = "setup"]
  /\ BarStep

BarGotWorkspaces ==
  /\ BarReceives("setup", Ctl)
  /\ ipc' = SendRequest(RecvResponse(ipc, Ctl), Ctl, Asks.scroller)
  /\ bar' = [TakeWorkspaces(bar, Answer1(Ctl)) EXCEPT !.pc = "scroller"]
  /\ BarStep

BarGotScroller ==
  /\ BarReceives("scroller", Ctl)
  /\ ipc' = RecvResponse(ipc, Ctl)
  /\ bar' = [Then(TakeScroller(bar, Answer1(Ctl)), SetBarDirty) EXCEPT !.pc = "idle"]
  /\ BarStep

\* The answer to a question of an event handler or of a new output
BarRefreshed ==
  /\ BarReceives("workspaces", Ctl)
  /\ ipc' = RecvResponse(ipc, Ctl)
  /\ LET Moving(b) == DetermineBarVisibility(b, b.moving)
         taken == TakeWorkspaces(bar, Answer1(Ctl))
     IN  bar' = [Then(Then(taken, Moving), SetBarDirty) EXCEPT !.pc = "idle", !.moving = FALSE]
  /\ BarStep

\* handle_ipc_readable
BarHears ==
  /\ BarReceives("idle", Evt)
  /\ desk.kept
  /\ LET m == Head(ipc.net[Evt]).m
         read == RecvResponse(ipc, Evt)
         question == IF m.type = "scroller" THEN "scroller" ELSE "workspaces"
         configured == IF m.type = "config" THEN TakeConfig(bar, m.val) ELSE bar
     IN  \/ /\ m.type \in {"workspace", "scroller", "config"}
            /\ ipc' = Then(read, LAMBDA s : SendRequest(s, Ctl, Asks[question]))
            /\ bar' = [configured EXCEPT !.pc = question]
         \/ /\ m.type = "mode"
            /\ ipc' = read
            /\ bar' = TakeMode(bar, m.val)
         \/ /\ m.type = "state"
            /\ ipc' = read
            /\ bar' = Then(TakeState(bar, m.val), SetBarDirty)
  /\ BarStep

\* handle_global and the events of xdg_output
BarOutputAppears(o) ==
  /\ bar.pc = "idle" /\ desk.kept
  /\ o \in desk.plugged /\ bar.place[o] = "none"
  /\ LET done == OutputDone(bar, o)
     IN  IF done.place[o] = "used"
         THEN /\ ipc' = SendRequest(ipc, Ctl, Asks.workspaces)
              /\ bar' = [done EXCEPT !.pc = "workspaces"]
         ELSE bar' = done /\ UNCHANGED ipc
  /\ BarStep

\* layer_surface_closed, handle_global_remove
BarOutputGone(o) ==
  /\ bar.pc = "idle" /\ desk.kept
  /\ o \notin desk.plugged /\ bar.place[o] # "none"
  /\ bar' = OutputFree(bar, o)
  /\ UNCHANGED ipc
  /\ BarStep

\* layer_surface_configure
BarConfigure(o) ==
  /\ bar.pc = "idle" /\ desk.kept
  /\ o \in bar.asked
  /\ bar' = Then([bar EXCEPT !.asked = @ \ {o}, !.sized = @ \cup {o}], LAMBDA b : SetOutputDirty(b, o))
  /\ UNCHANGED ipc
  /\ BarStep

\* The compositor has shown what was drawn.
BarFrame(o) ==
  /\ bar.pc = "idle" /\ desk.kept
  /\ bar.frames[o] > 0 /\ o \in bar.layer /\ bar.drawn[o] # None
  /\ bar' = FrameHandleDone(bar, o)
  /\ UNCHANGED ipc
  /\ BarStep

\* The bar was closed by the compositor, or its socket was: display_in, ipc_in,
\* ipc_recv_response; bar_teardown.
BarEnds ==
  /\ \/ bar.pc = "idle" /\ (~desk.kept \/ ~Connected(ipc, Evt))
     \/ bar.pc \in {"config", "setup", "workspaces", "scroller"} /\ Lost(ipc, Ctl)
     \/ bar.pc = "subscribe" /\ Lost(ipc, Evt)
  /\ ipc' = CloseSocket(CloseSocket(ipc, Ctl), Evt)
  /\ bar' = NoBar
  /\ BarStep

-----------------------------------------------------------------------------
(* Other clients: one that subscribes and listens, one that sends a tick    *)
(* and waits (swaymsg).                                                     *)

PeerRequest(c) ==
  IF c \in scene.listeners THEN Request("subscribe", scene.events, TRUE, FALSE)
  ELSE Request("tick", {}, TRUE, FALSE)

PeerStep(c, pc) ==
  /\ peer' = [peer EXCEPT ![c] = pc]
  /\ UNCHANGED <<desk, bar, told, scene>>

PeerConnects(c) ==
  /\ c \in scene.peers /\ peer[c] = "out" /\ Vacant(ipc, c)
  /\ told < scene.most
  /\ ipc' = HandleConnection(ipc, c)
  /\ peer' = [peer EXCEPT ![c] = "in"] /\ told' = told + 1
  /\ UNCHANGED <<desk, bar, scene>>

PeerSendsHeader(c) ==
  /\ peer[c] = "in"
  /\ ipc' = SendUnit(ipc, c, PeerRequest(c), "header")
  /\ PeerStep(c, "payload")

PeerSendsPayload(c) ==
  /\ peer[c] = "payload"
  /\ ipc' = SendUnit(ipc, c, PeerRequest(c), "payload")
  /\ PeerStep(c, "waiting")

PeerReceives(c) ==
  /\ peer[c] \in {"waiting", "listening"} /\ Arrived(ipc, c)
  /\ ipc' = RecvResponse(ipc, c)
  /\ PeerStep(c, IF c \in scene.listeners THEN "listening" ELSE "done")

\* It has its answer, gives up, or aborts because the server has closed.
PeerCloses(c) ==
  /\ c \in ipc.open /\ peer[c] # "out"
  /\ ipc' = CloseSocket(ipc, c)
  /\ PeerStep(c, "out")

PeerAborts(c) ==
  /\ peer[c] \in {"payload", "waiting", "listening"} /\ Lost(ipc, c)
  /\ ipc' = CloseSocket(ipc, c)
  /\ PeerStep(c, "out")

-----------------------------------------------------------------------------
Compositor ==
  \/ \E o \in Outputs : \/ OutputPlugged(o) \/ OutputUnplugged(o) \/ BarSetOutput(o)
                        \/ \E v \in Values : WorkspaceChanges(o, v)
  \/ \E v \in Values : ScrollerChanges(v)
  \/ \E m \in {"default", "resize"} : ModeChanges(m)
  \/ \E named \in BOOLEAN :
       \/ \E mode \in {"dock", "hide", "overlay", "invisible"} : BarSetMode(mode, named)
       \/ \E hidden \in {"hide", "show"} : BarSetHiddenState(hidden, named)
  \/ Modifier \/ Reload

BarWorks ==
  \/ LaunchBar \/ BarConfigured \/ BarSubscribed \/ BarGotWorkspaces \/ BarGotScroller
  \/ BarRefreshed \/ BarHears \/ BarEnds
  \/ \E o \in Outputs : BarOutputAppears(o) \/ BarOutputGone(o) \/ BarConfigure(o) \/ BarFrame(o)

PeerWorks(c) == PeerSendsHeader(c) \/ PeerSendsPayload(c) \/ PeerReceives(c) \/ PeerAborts(c)

\* Every process polls all its sockets.  One condition for all is enough, because
\* they run out of work when nothing changes; nothing is assumed of what changes.
Work ==
  \/ BarWorks
  \/ \E c \in Clients : ServerReads(c) \/ ServerWrites(c)
  \/ \E c \in Peers : PeerWorks(c)

Fairness == WF_vars(Work)

Next ==
  \/ Work \/ Compositor
  \/ \E c \in Peers : PeerConnects(c) \/ PeerCloses(c)

Spec == Init /\ [][Next]_vars /\ Fairness

-----------------------------------------------------------------------------
(* Properties.                                                              *)

\* ipc-server.c: whatever is written at a time, and whoever is disconnected while an
\* event is sent to everybody, each client reads whole messages in order and misses
\* none of its events, and is watched until everything is written.
StreamsSound ==
  /\ Watched(ipc)
  /\ \A c \in ipc.open : Whole(Unread(ipc, c)) /\ InOrder(ipc, c)

\* Nothing is on its way to the bar or from it.
Settled ==
  /\ bar.pc = "idle" /\ desk.kept
  /\ \A c \in {Ctl, Evt} : /\ Connected(ipc, c)
                           /\ ipc.buf[c] = <<>> /\ ipc.net[c] = <<>> /\ ipc.inbox[c] = <<>>
  /\ bar.asked = {}
  /\ \A o \in Outputs : o \in desk.plugged <=> bar.place[o] # "none"
  /\ \A o \in bar.layer : bar.frames[o] = 0

\* swaybar: once settled, whatever was told in which order and while whatever was
\* drawn, the bar shows the workspaces, the scroller state, the binding mode and the
\* configuration that the compositor has, on the outputs that are there and no other.
BarFollows ==
  /\ ~bar.failed
  /\ Settled =>
       /\ bar.byMod = desk.byMod
       /\ Used(bar) = {o \in desk.plugged : BarUsesOutput(desk.cfg, o)}
       /\ bar.layer = IF Shown(bar) THEN Used(bar) ELSE {}
       /\ \A o \in bar.layer :
            bar.drawn[o] = [spaces |-> desk.spaces[o], scroller |-> desk.scroller,
                            mode |-> desk.mode, cfg |-> desk.cfg]

\* The bar never waits for good: it settles after the last change, unless the server
\* has closed its connection.
BarSettles == []<>(scene.bar => Settled \/ (bar.pc = "off" /\ desk.kept))

\* A client that waits for an answer gets it unless the server closes the connection.
RequestsAnswered ==
  \A c \in Peers : peer[c] = "waiting" ~> peer[c] # "waiting" \/ ~Connected(ipc, c)

\* Whoever waits for the compositor is served, or told that it is gone.
NobodyWaits == BarSettles /\ RequestsAnswered

=============================================================================
