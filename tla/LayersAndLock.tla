---------------------------- MODULE LayersAndLock ----------------------------
(***************************************************************************)
(* Layer surfaces (sway/desktop/layer_shell.c) and the session lock        *)
(* (sway/lock.c), as operators on the desktops of SeatFocus.               *)
(*                                                                         *)
(* d.shell[l] is a layer surface: its output (None if there is no such     *)
(* surface), its level, whether it wants the keyboard, and if it is        *)
(* mapped; d.order lists them, the topmost of a level last.  d.lock is     *)
(* None or the lock: the surface it focuses, the state of its surface on   *)
(* every output, and whether its client is gone.                           *)
(***************************************************************************)
EXTENDS SeatFocus

CONSTANTS
  Layers,      \* layer surfaces
  Levels, Wants,  \* what they may ask for
  ClientOf     \* ClientOf[l]: the client of layer surface l

NoSurface == [at |-> None, level |-> "bottom", wants |-> "none", mapped |-> FALSE]

LockSurface(o) == <<"lock", o>>
LockSurfaces == {LockSurface(o) : o \in Outputs}

Locks == [focused : LockSurfaces \cup {None}, abandoned : BOOLEAN,
          surface : [Outputs -> {"no output", "none", "mapped"}]]

ASSUME LayerAssumption ==
  /\ Levels \subseteq {"bottom", "top", "overlay"}
  /\ Wants \subseteq {"none", "exclusive", "on_demand"}
  /\ Windows \cap (Layers \cup LockSurfaces) = {} /\ None \notin Layers \cup Locks

-----------------------------------------------------------------------------
(* Layer surfaces.                                                          *)

Mapped(d) == {l \in Layers : d.shell[l].mapped}

\* The topmost mapped exclusive surface of a level of the output o.
TopmostOf(d, o, level) ==
  Keep(d.order, {l \in Mapped(d) : /\ d.shell[l].at = o /\ d.shell[l].level = level
                                   /\ d.shell[l].wants = "exclusive"})
Topmost(d, o) ==
  LET LastOf(s) == IF s = <<>> THEN None ELSE Last(s)
  IN  LastOf(TopmostOf(d, o, "top") \o TopmostOf(d, o, "overlay"))

\* arrange_layers, the part after the geometry
ArrangeLayers(d, o) ==
  LET top == Topmost(d, o)
      Open == [d EXCEPT !.excl = FALSE]
  IN  IF top # None THEN GrabLayer(Open, top)
      ELSE IF d.layer # None /\ d.shell[d.layer].wants # "exclusive" THEN DropLayer(Open)
      ELSE Open

\* handle_layer_shell_surface
NewLayer(d, l, o) ==
  [d EXCEPT !.shell[l] = [NoSurface EXCEPT !.at = o], !.order = Append(@, l)]

\* sway_scene_node_reparent of handle_surface_commit
Restacked(d, l, level) ==
  IF d.shell[l].level = level THEN d
  ELSE [d EXCEPT !.order = Keep(@, Layers \ {l}) \o <<l>>]

\* A commit that changes the state of l: handle_surface_commit.
CommitLayer(d, l, level, wants) ==
  ArrangeLayers([Restacked(d, l, level) EXCEPT !.shell[l].level = level,
                                               !.shell[l].wants = wants], d.shell[l].at)

Rank(level) == CASE level = "bottom" -> 1 [] level = "top" -> 2 [] level = "overlay" -> 3

\* A commit that maps l: handle_map, then handle_surface_commit.
MapLayer(d, l, level, wants) ==
  LET first == d.layer = None \/ Rank(d.shell[d.layer].level) >= Rank(level)
      asks == wants # "none" /\ level # "bottom"
      Grabbed(e) == IF first /\ asks THEN GrabLayer(e, l) ELSE e
      o == d.shell[l].at
  IN  FoldLeft(ArrangeLayers,
               Grabbed([Restacked(d, l, level) EXCEPT
                 !.shell[l] = [@ EXCEPT !.level = level, !.wants = wants, !.mapped = TRUE]]),
               IF asks THEN <<o, o>> ELSE <<o>>)

\* handle_unmap
Unmapped(d, l) ==
  LET Hidden == [d EXCEPT !.shell[l].mapped = FALSE]
  IN  IF d.layer = l THEN DropLayer(Hidden) ELSE Hidden

\* A commit that unmaps l
UnmapLayer(d, l) == ArrangeLayers(Unmapped(d, l), d.shell[l].at)

\* wlr_seat lets go of a surface that is destroyed.
SurfaceGone(d, s) == IF d.kbd = s THEN [d EXCEPT !.kbd = None] ELSE d

\* find_mapped_layer_by_client
OthersOfClient(d, l, ignored) ==
  {k \in Mapped(d) \ {l} : /\ ClientOf[k] = ClientOf[l] /\ d.shell[k].level = "overlay"
                           /\ d.shell[k].at \in ToSet(d.outs) \ {ignored}}

\* handle_node_destroy; disabled: its output went away (handle_output_destroy)
WithoutLayer(d, l) ==
  [Unmapped(d, l) EXCEPT !.shell[l] = NoSurface, !.order = Keep(@, Layers \ {l})]

GrabOther(d, others) ==
  IF others = {} \/ d.lock # None THEN d ELSE GrabLayer(d, CHOOSE k \in others : TRUE)

DestroyLayer(d, l, disabled) ==
  LET o == d.shell[l].at
      others == OthersOfClient(d, l, IF disabled THEN None ELSE o)
  IN  SurfaceGone(FoldLeft(ArrangeLayers, GrabOther(WithoutLayer(d, l), others),
                           IF disabled THEN <<>> ELSE <<o>>), l)

-----------------------------------------------------------------------------
(* The session lock.                                                        *)

NewLockOn(outputs) ==
  [focused |-> None, abandoned |-> FALSE,
   surface |-> [o \in Outputs |-> IF o \in outputs THEN "none" ELSE "no output"]]

\* handle_session_lock, granted; plugged: root->all_outputs
GrantLock(d, plugged) ==
  [UnfocusAll([d EXCEPT !.lock = None]) EXCEPT !.lock = NewLockOn(plugged)]

\* focus_surface
FocusLock(d, s) == [d EXCEPT !.lock.focused = s, !.kbd = s]

\* handle_surface_map
MapLockSurface(d, o) ==
  LET Focused(e) == IF d.lock.focused = None THEN FocusLock(e, LockSurface(o)) ELSE e
  IN  Focused([d EXCEPT !.lock.surface[o] = "mapped"])

\* handle_surface_destroy: refocus_output
DestroyLockSurface(d, o) ==
  LET others == {LockSurface(p) : p \in {p \in Outputs \ {o} : d.lock.surface[p] = "mapped"}}
      Focused(e) == IF d.lock.focused = LockSurface(o) THEN FocusLock(e, Only(others)) ELSE e
  IN  SurfaceGone(Focused([d EXCEPT !.lock.surface[o] = "none"]), LockSurface(o))

DestroyLockSurfaces(d, S) == FoldSet(LAMBDA o, e : DestroyLockSurface(e, o), d, S)

LockSurfacesGone(d) == DestroyLockSurfaces(d, {o \in Outputs : d.lock.surface[o] = "mapped"})

\* handle_abandon, after the surfaces of the lock are gone
AbandonLock_Unlocks(d) == [LockSurfacesGone(d) EXCEPT !.lock = None]

AbandonLock(d) == [LockSurfacesGone(d) EXCEPT !.lock.abandoned = TRUE]

\* handle_unlock
Unlock(d) ==
  LET last == FocusInactive(d, Root)
      again == IF last = None THEN <<>> ELSE <<None, last>>
  IN  FoldLeft(ArrangeLayers,
               FoldLeft(SetFocus, [d EXCEPT !.lock = None, !.kbd = None], again), d.outs)

=============================================================================
