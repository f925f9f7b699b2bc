------------------------------- MODULE Desktop -------------------------------
(***************************************************************************)
(* The desktop of one seat: windows that open and close, the focus,        *)
(* workspace and fullscreen commands, outputs that come and go, layer      *)
(* surfaces, and the session lock.  Each action is one handler or command. *)
(* The state d is the record of SeatFocus; no animation is running and no  *)
(* window covers all outputs (WorkspaceSwitch and ContainerTree have those *)
(* cases).  plugged is root->all_outputs.                                  *)
(*                                                                         *)
(* A scene says what is explored together: acts are kinds of actions; only *)
(* these windows, outputs and layer surfaces appear; names are the numbers *)
(* that commands give to workspaces; and at most plugs outputs are plugged *)
(* in during a behaviour, the first of them always the same.               *)
(***************************************************************************)
EXTENDS WindowOps

CONSTANTS
  Scenes

VARIABLES d, plugged, plugs, scene

vars == <<d, plugged, plugs, scene>>

Boot ==
  [live |-> {}, up |-> [n \in Nodes |-> None], full |-> [w \in Workspaces |-> None],
   spaces |-> [o \in AllOutputs |-> <<>>], homes |-> [w \in Workspaces |-> <<>>],
   outs |-> <<>>, stack |-> <<>>, has |-> FALSE, layer |-> None, excl |-> FALSE,
   space |-> None, kbd |-> None, active |-> {}, lock |-> None,
   shell |-> [l \in Layers |-> NoSurface], order |-> <<>>,
   urgent |-> <<>>, timed |-> {}, flagged |-> {}, ctxs |-> <<>>,
   popups |-> [p \in Popups |-> None]]

Init == d = Boot /\ plugged = {} /\ plugs = 0 /\ scene \in Scenes

\* A command works on the focused node (config->handler_context).
Here == FocusInactive(d, Root)

\* A name is left for every output that could need a new workspace.
Room == Unused(d) # {}

\* Layer surfaces take the focus during a session lock in scenes that say so:
\* arrange_layers and handle_map do not ask whether there is one.
NoGrab(e) ==
  e.lock # None /\ "grab" \notin scene.acts => e.layer \in {None, d.layer}

Do(name, e) == /\ name \in scene.acts /\ NoGrab(e)
               /\ d' = e
               /\ UNCHANGED <<plugged, plugs, scene>>

-----------------------------------------------------------------------------
(* Windows.                                                                 *)

FreeColumn == Only(Columns \ d.live)

\* Sticky windows and windows that cover their workspace meet only in scenes that
\* say so.
Apart(v, covers) ==
  \/ "sticky" \in scene.acts
  \/ IF covers THEN Sticky \cap (d.live \cup {v}) = {}
     ELSE v \in Sticky => \A w \in Workspaces : d.full[w] = None

\* view_map on the workspace w that select_workspace chose
Open(v, w, k, fullscreen) ==
  /\ v \in scene.windows \ d.live /\ w \in d.live
  /\ k = FreeColumn \/ (v \notin Floating /\ k \in d.live /\ d.up[k] = w)
  /\ Apart(v, fullscreen)
  /\ fullscreen => d.full[w] = None
  /\ LET Covering(e) == IF fullscreen THEN Fullscreen(e, v) ELSE e
         Focused(e) == IF ShouldFocus(e, v) THEN SetFocus(e, v) ELSE e
     IN  Do("window", Focused(Covering(Placed(d, v, w, k))))

\* view_unmap, of a window whose surface is destroyed
Close(v) ==
  /\ v \in d.live
  /\ LET Reap(e) == IF d.up[v] \in Columns THEN ReapEmpty(e, d.up[v])
                    ELSE ConsiderDestroy(e, d.up[v])
     IN  Do("window", SurfaceGone(Reap(DestroyContainer(d, v)), v))

\* fullscreen enable, disable
ToggleFullscreen(v) ==
  LET w == WorkspaceOf(d, v)
  IN  /\ v \in d.live
      /\ d.full[w] \in {None, v} /\ Apart(v, TRUE)
      /\ Do("fullscreen", IF d.full[w] = v THEN [d EXCEPT !.full[w] = None] ELSE Fullscreen(d, v))

-----------------------------------------------------------------------------
(* Focus: commands/focus.c.                                                 *)

\* [con_id=v] focus
FocusWindow(v) ==
  /\ v \in d.live
  /\ d.outs # <<>>
  /\ LET w == WorkspaceOf(d, v)
     IN  Do("focus", SetFocus(IF Obstructing(d, v) = None THEN d ELSE [d EXCEPT !.full[w] = None], v))

\* focus parent
FocusParent ==
  /\ Here \in Containers /\ d.outs # <<>>
  /\ d.full[WorkspaceOf(d, Here)] # Here
  /\ Do("focus", SetFocus(d, d.up[Here]))

\* focus child
FocusChild ==
  /\ Here # None /\ d.outs # <<>>
  /\ ActiveTilingChild(d, Here) # None
  /\ Do("focus", SetFocus(d, ActiveTilingChild(d, Here)))

\* focus mode_toggle
FocusMode ==
  LET w == FocusedWorkspace(d)
      c == IF Here \in Containers /\ IsFloating(d, Here)
           THEN FocusInactiveTiling(d, w) ELSE FocusInactiveFloating(d, w)
      Or(v) == IF v = None THEN c ELSE v
  IN  /\ Here # None /\ d.outs # <<>> /\ c # None
      /\ Do("focus", SetFocus(d, Or(FocusInactiveView(d, c))))

\* focus output
FocusOutput(o) ==
  /\ o \in ToSet(d.outs)
  /\ Do("output", SetFocus(d, FocusInactive(d, o)))

-----------------------------------------------------------------------------
(* Workspaces.                                                              *)

\* workspace w
Switch(w) ==
  /\ FocusedWorkspace(d) # None /\ w \in scene.names \ {FocusedWorkspace(d)}
  /\ d.outs # <<>>
  /\ Do("switch", SwitchTo(d, w))

\* move container to workspace w, of the focused container
Move(c, w, k) ==
  LET old == WorkspaceOf(d, c)
      shown == IF d.full[old] = c THEN [d EXCEPT !.full[old] = None] ELSE d
      column == IF c \in Columns THEN c ELSE d.up[c]
  IN  /\ d.outs # <<>>
      /\ c = Here /\ c \in Containers /\ w \in scene.names \ {old}
      /\ c \in Columns => d.full[old] \notin ViewsOf(d, c)
      /\ \/ IsFloating(d, c) /\ k = None
         \/ ~IsFloating(d, c) /\ k = column
         \/ /\ ~IsFloating(d, c) /\ c \in Windows
            /\ (k = FreeColumn /\ k # None) \/ (k \in d.live \cap Columns /\ d.up[k] = w)
      /\ d.full[w] = None \/ "covered" \in scene.acts
      /\ c \in Sticky => Named(d, w).up[w] # d.up[old]
      /\ Do("move", MoveContainer(shown, c, w, k))

\* move workspace to output o
MoveWorkspaceTo(o) ==
  LET w == FocusedWorkspace(d)
  IN  /\ w # None /\ o \in ToSet(d.outs) /\ d.up[w] # o
      /\ Room
      /\ Do("output", MoveWorkspace(d, w, o))

-----------------------------------------------------------------------------
(* Outputs.                                                                 *)

Plug(o) ==
  /\ o \in scene.outputs \ plugged /\ plugs < scene.plugs
  /\ plugs = 0 => o = CHOOSE p \in scene.outputs : TRUE
  /\ Cardinality(Unused(d)) > 1
  /\ NoGrab(PlugOutput(d, o))
  /\ d' = PlugOutput(d, o)
  /\ plugged' = plugged \cup {o} /\ plugs' = plugs + 1
  /\ UNCHANGED scene

Unplug(o) ==
  /\ o \in plugged
  /\ NoGrab(UnplugOutput(d, o))
  /\ d' = UnplugOutput(d, o)
  /\ plugged' = plugged \ {o}
  /\ "output" \in scene.acts
  /\ UNCHANGED <<plugs, scene>>

-----------------------------------------------------------------------------
(* Layer surfaces and the session lock.                                     *)

LayerOpens(l, o) ==
  /\ l \in scene.layers /\ d.shell[l].at = None /\ o \in ToSet(d.outs)
  /\ Do("layer", NewLayer(d, l, o))

LayerMaps(l, level, wants) ==
  /\ d.shell[l].at # None /\ ~d.shell[l].mapped
  /\ Do("layer", MapLayer(d, l, level, wants))

LayerCommits(l, level, wants) ==
  /\ d.shell[l].mapped
  /\ <<level, wants>> # <<d.shell[l].level, d.shell[l].wants>>
  /\ Do("commit", CommitLayer(d, l, level, wants))

LayerUnmaps(l) == d.shell[l].mapped /\ Do("layer", UnmapLayer(d, l))

LayerCloses(l) == d.shell[l].at # None /\ Do("layer", DestroyLayer(d, l, FALSE))

\* handle_session_lock
Lock ==
  /\ IF d.lock = None THEN TRUE ELSE d.lock.abandoned
  /\ Do("lock", GrantLock(d, plugged))

LockSurfaceMaps(o) ==
  /\ IF d.lock = None THEN FALSE ELSE ~d.lock.abandoned /\ d.lock.surface[o] = "none"
  /\ Do("lock", MapLockSurface(d, o))

LockSurfaceCloses(o) ==
  /\ IF d.lock = None THEN FALSE ELSE d.lock.surface[o] = "mapped"
  /\ Do("lock", DestroyLockSurface(d, o))

LockClientExits ==
  /\ IF d.lock = None THEN FALSE ELSE ~d.lock.abandoned
  /\ Do("lock", AbandonLock(d))

UnlockSession ==
  /\ IF d.lock = None THEN FALSE ELSE ~d.lock.abandoned
  /\ Do("lock", Unlock(d))

-----------------------------------------------------------------------------
Next ==
  \/ \E v \in Windows, w \in Workspaces, k \in Columns, f \in BOOLEAN : Open(v, w, k, f)
  \/ \E v \in Windows : Close(v) \/ ToggleFullscreen(v) \/ FocusWindow(v)
  \/ FocusParent \/ FocusChild \/ FocusMode
  \/ \E w \in Workspaces : Switch(w)
  \/ \E c \in Containers, w \in Workspaces, k \in Columns \cup {None} : Move(c, w, k)
  \/ \E o \in Outputs : FocusOutput(o) \/ MoveWorkspaceTo(o) \/ Plug(o) \/ Unplug(o)
  \/ \E l \in Layers, o \in Outputs : LayerOpens(l, o)
  \/ \E l \in Layers, level \in Levels, wants \in Wants :
       LayerMaps(l, level, wants) \/ LayerCommits(l, level, wants)
  \/ \E l \in Layers : LayerUnmaps(l) \/ LayerCloses(l)
  \/ Lock \/ LockClientExits \/ UnlockSession
  \/ \E o \in Outputs : LockSurfaceMaps(o) \/ LockSurfaceCloses(o)

Spec == Init /\ [][Next]_vars

-----------------------------------------------------------------------------
(* Properties.                                                              *)

TypeOK ==
  /\ d.live \subseteq Nodes
  /\ \A w \in Workspaces : d.up[w] \in AllOutputs \cup {None}
  /\ d.full \in [Workspaces -> Windows \cup {None}]
  /\ d.layer \in Layers \cup {None} /\ d.space \in Workspaces \cup {None}
  /\ d.active \subseteq Windows

Focus == GetFocus(d)

\* The focus stack lists every node that lives, once, and is not empty when
\* seat_get_focus takes its head.
StackComplete ==
  /\ ToSet(d.stack) = d.live /\ Len(d.stack) = Cardinality(d.live)
  /\ d.has \/ d.excl => d.stack # <<>>

\* What has the focus is on a workspace that is shown, is not behind a window
\* that covers it, and its workspace is the one of the seat (seat->workspace).
FocusShown ==
  d.has =>
    /\ Visible(d, WorkspaceOf(d, Focus))
    /\ (Focus \in Containers => Obstructing(d, Focus) = None)
    /\ d.space = WorkspaceOf(d, Focus)

\* The surface that should have the keyboard
Owner ==
  IF d.lock # None THEN d.lock.focused
  ELSE IF d.layer # None THEN d.layer
  ELSE IF d.has /\ Focus \in Windows THEN Focus ELSE None

\* A layer surface may have taken the keyboard from the lock (NoGrab).
Grabbing == d.lock # None /\ "grab" \in scene.acts

\* The keyboard is with its owner.  Setting the focus to a workspace takes it from
\* nobody, so that a layer surface that was dropped keeps it until the next focus.
KeyboardWithOwner == d.kbd = Owner \/ (Owner = None /\ d.kbd \in Layers) \/ Grabbing

\* Only windows that have the focus, or are in the column that has it, were told
\* that they are activated.
ActivatedHaveFocus ==
  d.active \subseteq (IF Focus = None THEN {} ELSE ViewsOf(d, Focus))

\* seat->workspace is a workspace that lives: handle_seat_node_destroy moves it when
\* the workspace goes, so that set_workspace may read its name.
SeatWorkspaceLives == d.space \in d.live \cup {None}

\* The layer surface that has the focus is mapped: seat_set_focus_layer asserts it, and
\* seat_set_focus passes it the surface that had the focus before.
FocusedLayerMapped == d.layer # None => d.shell[d.layer].mapped

\* A lock has the keyboard: no window does, and while any of its surfaces is mapped
\* one of them does, unless a layer surface grabs it.
LockHolds ==
  d.lock # None =>
    /\ d.kbd \notin Windows
    /\ (\E o \in Outputs : d.lock.surface[o] = "mapped") =>
         d.kbd \in LockSurfaces \/ Grabbing

\* seat.c, layer_shell.c and lock.c, over the orders of commands, windows, outputs,
\* layer and lock surfaces that the scenes allow: the focus is never left on what is
\* hidden or gone, and the stack, the keyboard, the activated windows, the layer
\* surface, the lock and the workspace of the seat tell the same story, except that a
\* layer surface that is arranged during a lock may take its keyboard.
FocusSound ==
  /\ StackComplete /\ FocusShown /\ KeyboardWithOwner /\ ActivatedHaveFocus
  /\ SeatWorkspaceLives /\ FocusedLayerMapped /\ LockHolds

\* Every workspace that lives is listed by its output and by no other, an enabled
\* output has a workspace, and the fallback output has one only without outputs.
SpacesListed ==
  /\ \A o \in ToSet(d.outs) : d.spaces[o] # <<>>
  /\ \A w \in Workspaces :
       {o \in AllOutputs : w \in ToSet(d.spaces[o])} = {d.up[w]} \ {None}
  /\ \A w \in Workspaces : w \in d.live <=> d.up[w] # None
  /\ d.outs # <<>> => d.spaces[Fallback] = <<>>

\* An empty workspace is shown or has the focus, else it was destroyed.
NoneForgotten ==
  \A w \in d.live \cap Workspaces :
    OnWorkspace(d, w) = {} /\ d.outs # <<>> => Visible(d, w) \/ FocusInactive(d, Root) = w

\* A workspace is on the output it prefers among those that are enabled: it leaves
\* with an output that is unplugged and comes back with it.
AtHome ==
  \A w \in d.live \cap Workspaces : Highest(d, w) \in {None, d.up[w]}

\* output.c and workspace.c, over every order of plugging and unplugging
OutputsSound ==
  TypeOK /\ SpacesListed /\ NoneForgotten /\ AtHome

\* view_unmap, handle_seat_node_destroy: a window that goes takes the focus from
\* nothing but itself and the column it leaves.
OthersKeepFocus ==
  [][LET gone == (d.live \ d'.live) \cap Windows
     IN  gone # {} /\ Focus # None /\ Focus \in d'.live => GetFocus(d') = Focus]_d

\* lock.c, and whatever else moves the focus: only its client, unlocking, ends a lock,
\* and not by going away; while it lasts nothing gives the keyboard back to a window.
\* (A new lock, after one whose client went away, takes it from whoever has it.)
LockKeepsKeyboard ==
  [][d.lock # None =>
       \/ UnlockSession
       \/ d'.lock # None /\ (d.kbd \notin Windows => d'.kbd \notin Windows \/ Lock)]_vars

=============================================================================
