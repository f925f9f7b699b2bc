-------------------------------- MODULE ViewOps --------------------------------
(***************************************************************************)
(* What happens to a view that is mapped, unmapped, minimised or named by  *)
(* a command: sway/tree/view.c, the scratchpad of sway/tree/root.c, and    *)
(* the commands a rule may run.  A desktop has besides the fields of       *)
(* SeatFocus                                                               *)
(*   role      "view", "unmanaged" (an X11 surface that places itself)     *)
(*   assoc     the X11 surfaces that have a wl_surface                     *)
(*   shown     the surfaces that are mapped                                *)
(*   title, parent, marks                                                  *)
(*   deny      the views for which allow_request_urgent is off             *)
(*   pad       root->scratchpad; a window of it may be hidden, which is a  *)
(*             window that lives and has no parent                         *)
(*   rules     config->criteria                                            *)
(*   executed  executed_criteria, the places of rules                      *)
(*   ran       for the properties: the rules that ran since a window was   *)
(*             mapped                                                      *)
(*   cfg       focus_on_window_activation, fullscreen_movefocus,           *)
(*             xdg_activation_force and popup_during_fullscreen leave      *)
(* Every tiled window is alone in a column, always the same.               *)
(***************************************************************************)
EXTENDS WindowOps, Launcher, Criteria

CONSTANTS
  ColumnOf,
  ParentOf,       \* the parent a window asks for; parents have none themselves
  WantsFloating,  \* the windows of fixed size, and the X11 dialogs
  InputNone,      \* the X11 windows that take no keyboard input
  WantsFocus      \* the unmanaged surfaces that do

RECURSIVE Work(_, _)

-----------------------------------------------------------------------------
(* Tiling, floating, fullscreen.                                            *)

\* layout_add_view, into a column of its own
NewColumn(d, v, w) == NewNode([d EXCEPT !.up[v] = ColumnOf[v]], ColumnOf[v], w)

\* container_fullscreen_disable of what covers the workspace
Uncover(d, w) == [d EXCEPT !.full[w] = None]

\* container_set_fullscreen, and container_handle_fullscreen_request with the
\* default fullscreen_application
SetFullscreen(d, v, on) ==
  LET w == WorkspaceOf(d, v)
  IN  IF (d.full[w] = v) = on THEN d
      ELSE IF on THEN Fullscreen(Uncover(d, w), v) ELSE Uncover(d, w)

\* container_set_floating(con, true)
Float(d, v) ==
  LET k == d.up[v]
      Out == [d EXCEPT !.up[v] = WorkspaceOf(d, v)]
  IN  IF Floats(d, v) THEN d
      ELSE ReapEmpty(IF GetFocus(d) = v THEN RawFocus(RawFocus(Out, k), v) ELSE Out, k)

\* root_scratchpad_remove_container
TakeFromPad(d, v) == [d EXCEPT !.pad = SelectSeq(@, LAMBDA u : u # v)]

\* container_set_floating(con, false)
Tile(d, v) ==
  IF ~Floats(d, v) THEN d ELSE NewColumn(TakeFromPad(d, v), v, WorkspaceOf(d, v))

-----------------------------------------------------------------------------
(* The scratchpad.                                                          *)

\* root_scratchpad_add_container without a workspace: the focus goes to the
\* workspace the window was on, wherever it was before.
Uncovered(d, v) == IF d.full[WorkspaceOf(d, v)] = v THEN Uncover(d, WorkspaceOf(d, v)) ELSE d

AddToPad(d, v) ==
  FocusIn([Float(Uncovered(d, v), v) EXCEPT !.up[v] = None, !.pad = Append(@, v)], WorkspaceOf(d, v))

\* root_scratchpad_hide: the window becomes the last of the scratchpad.
Hide(d, v) ==
  LET Out == [Uncovered(TakeFromPad(d, v), v) EXCEPT !.up[v] = None, !.pad = Append(@, v)]
  IN  IF FocusInactive(d, Root) = v THEN FocusIn(Out, WorkspaceOf(d, v)) ELSE Out

\* root_scratchpad_show
Show(d, v) ==
  LET w == FocusedWorkspace(d)
      old == WorkspaceOf(d, v)
      open == Uncover(d, w)
      behind == FocusInactive([open EXCEPT !.up[v] = None], old)
      Placing == IF old = None THEN [open EXCEPT !.up[v] = w]
                 ELSE RawFocus(MoveFloating(open, v, w), behind)
  IN  IF w = None THEN d ELSE ConsiderDestroy(SetFocus(Placing, v), old)

\* cmd_move_to_scratchpad, and the minimize request of a window that is not hidden
ToScratchpad(d, v) ==
  IF v \notin ToSet(d.pad) THEN AddToPad(d, v)
  ELSE IF Hidden(d, v) THEN d ELSE Hide(d, v)

-----------------------------------------------------------------------------
(* Commands that work on a window, and rules that run them.                 *)

\* cmd_focus without arguments
Unobstructed(d, v) == IF Obstructing(d, v) = None THEN d ELSE Uncover(d, WorkspaceOf(d, v))

FocusCommand(d, v) ==
  SetFocus(Unobstructed(IF Hidden(d, v) THEN Show(d, v) ELSE d, v), v)

\* move to workspace w; container_move_to_workspace takes a window from the
\* scratchpad.
MoveCommand(d, v, w) ==
  IF w = WorkspaceOf(d, v) THEN d
  ELSE TakeFromPad(MoveContainer(Uncovered(d, v), v, w, IF IsFloating(d, v) THEN None ELSE d.up[v]), v)

\* container_find_and_unmark
Unmark(d, m) == [d EXCEPT !.marks = [u \in Windows |-> @[u] \ {m}]]

Mark_Shares(d, v, m, add, toggle) ==
  LET had == m \in d.marks[v]
      Cleared == IF add THEN d ELSE [d EXCEPT !.marks[v] = {}]
  IN  IF toggle /\ had THEN Unmark(Cleared, m) ELSE [Cleared EXCEPT !.marks[v] = @ \cup {m}]

\* cmd_mark up to the rules
Mark(d, v, m, add, toggle) ==
  LET had == m \in d.marks[v]
      Cleared == IF add THEN d ELSE [d EXCEPT !.marks[v] = {}]
      Free == Unmark(Cleared, m)
  IN  IF toggle /\ had THEN Free ELSE [Free EXCEPT !.marks[v] = @ \cup {m}]

\* cmd_unmark, of a window that was named
UnmarkCommand(d, v, m) == IF m \in d.marks[v] THEN Unmark(d, m) ELSE d

\* cmd_urgent
UrgentCommand(d, v, arg) ==
  CASE arg = "allow" -> [d EXCEPT !.deny = @ \ {v}]
    [] arg = "deny" -> [d EXCEPT !.deny = @ \cup {v}]
    [] OTHER -> SetUrgent(d, v, arg = "enable")

\* The handler of the command with v in config->handler_context.  Fullscreen and move
\* are not given to hidden windows.
Run(d, v, cmd) ==
  CASE cmd[1] = "mark" -> Mark(d, v, cmd[2], cmd[3], cmd[4])
    [] cmd[1] = "unmark" -> UnmarkCommand(d, v, cmd[2])
    [] cmd[1] = "urgent" -> UrgentCommand(d, v, cmd[2])
    [] cmd[1] = "floating" -> IF cmd[2] THEN Float(d, v) ELSE Tile(d, v)
    [] cmd[1] = "fullscreen" -> SetFullscreen(d, v, cmd[2])
    [] cmd[1] = "move" -> MoveCommand(d, v, cmd[2])
    [] cmd[1] = "scratchpad" -> ToScratchpad(d, v)
    [] cmd[1] = "focus" -> FocusCommand(d, v)

\* A job is a command for a window, of the given rule or, if that is None, of a user.
Jobs(d, v) ==
  LET Job(i) == [rule |-> i, at |-> v, what |-> d.rules[i].what]
      places == RulesFor(d, v, "for_window")
  IN  [k \in DOMAIN places |-> Job(places[k])]

\* ... after a job: a window that got a mark has its rules run first.
Continue(d, job, rest) ==
  Work(d, (IF job.what[1] = "mark" THEN Jobs(d, job.at) ELSE <<>>) \o rest)

\* The jobs in their order.  A command that is CMD_INVALID ends those of a user, not the
\* rules.
Work(d, todo) ==
  LET job == Head(todo)
      v == job.at
      skipped == job.rule \in d.executed[v]
      invalid == job.what[1] = "floating" /\ Hidden(d, v)
      rest == IF invalid /\ job.rule = None THEN <<>> ELSE Tail(todo)
      Noted == IF job.rule = None THEN d
               ELSE [d EXCEPT !.executed[v] = @ \cup {job.rule}, !.ran[v] = Append(@, job.rule)]
  IN  IF todo = <<>> THEN d
      ELSE IF skipped THEN Work(d, rest)
      ELSE Continue(IF invalid THEN Noted ELSE Run(Noted, v, job.what), job, rest)

\* view_execute_criteria: the rules are those that matched at the beginning.
Execute(d, v) == Work(d, Jobs(d, v))

\* execute_command: the command for every window of the list
ExecuteCommand(d, vs, cmd) ==
  Work(d, [k \in DOMAIN vs |-> [rule |-> None, at |-> vs[k], what |-> cmd]])

-----------------------------------------------------------------------------
(* Activation.                                                              *)

\* view_request_activate
RequestActivate(d, v) ==
  LET visible == IF d.up[v] = None THEN FALSE ELSE Visible(d, WorkspaceOf(d, v))
  IN  CASE d.cfg.activation = "none" -> d
        [] d.cfg.activation = "focus" ->
             IF Hidden(d, v) THEN Show(d, v) ELSE SetFocus(d, v)
        [] d.cfg.activation = "smart" /\ visible -> SetFocus(d, v)
        [] OTHER -> SetUrgent(d, v, TRUE)

\* view_request_urgent
RequestUrgent(d, v) == IF d.cfg.activation = "none" THEN d ELSE SetUrgent(d, v, TRUE)

\* xdg_activation_v1_handle_request_activate; a token is gone when it was used.
ActivateWithToken(d, t, v) ==
  LET known == t \in Pending(d)
      Asked == IF d.ctxs[t].trusted \/ d.cfg.force THEN RequestActivate(d, v)
               ELSE RequestUrgent(d, v)
  IN  IF ~known THEN d
      ELSE IF v \notin d.shown THEN AssignContext(d, v, t)
      ELSE DestroyContexts(Asked, {t})

-----------------------------------------------------------------------------
(* Mapping: view_map.                                                       *)

\* The context of the process, if the view has none yet
FindContext(d, v) ==
  IF OwnContexts(d, v) # {} \/ FindPid(d, v) = None THEN d
  ELSE AssignContext(d, v, FindPid(d, v))

\* The first assignment that can be followed
Assignment(d, v) ==
  LET usable == SelectSeq(RulesFor(d, v, "assign"),
                          LAMBDA i : LET to == d.rules[i].what
                                     IN  to[1] = "workspace" \/ to[2] \in ToSet(d.outs))
  IN  IF usable = <<>> THEN None ELSE d.rules[Head(usable)].what

\* select_workspace: the workspace that is assigned, the one of the context, or the
\* one that has the focus
Selected(d, v) ==
  LET to == Assignment(d, v)
      t == Only(OwnContexts(d, v))
  IN  IF to # None THEN IF to[1] = "output" THEN ActiveWorkspace(d, to[2]) ELSE to[2]
      ELSE IF t # None THEN d.ctxs[t].name ELSE FocusedWorkspace(d)

\* It is made if it is not there, and the context is used up.
WithWorkspace(d, v, w) ==
  LET output == IF Assignment(d, v) = None THEN ContextOutput(d, Only(OwnContexts(d, v)))
                ELSE InitialOutput(d)
  IN  AssignContext(IF w \in d.live THEN d ELSE CreateWorkspace(d, w, output), v, None)

\* container_pass_fullscreen, from what covers the workspace w
PassFullscreen(d, w, v) == IF d.full[w] = v THEN d ELSE Fullscreen(Uncover(d, w), v)

\* fullscreen_movefocus, for a window that is mapped on a covered workspace
MoveFullscreen(d, w, v, fullscreen) ==
  IF fullscreen \/ d.full[w] = None \/ d.cfg.movefocus = "none" THEN d
  ELSE IF d.cfg.movefocus = "nofollow" THEN Uncover(d, w)
  ELSE PassFullscreen(d, w, v)

\* should_focus, and the X11 windows that take no input
TakesFocus(d, v) ==
  LET w == WorkspaceOf(d, v)
      first == /\ d.up[v] = w /\ GetFocus(d) \notin Containers
               /\ OnWorkspace(d, w) = {v}
  IN  /\ v \notin InputNone
      /\ w # None
      /\ IF d.full[w] # None THEN d.cfg.movefocus # "none"
         ELSE /\ FocusedWorkspace(d) = w
              /\ first \/ RulesFor(d, v, "no_focus") = <<>>

\* The parts of view_map: where the window is, what it covers, the rules and the focus.
Shaped(d, v) ==
  IF v \in WantsFloating \/ (v \notin X11 /\ d.parent[v] # None) THEN Float(d, v) ELSE d

Left(d, v, w) ==
  IF d.cfg.leave /\ d.full[w] # None /\ d.full[w] = d.parent[v] THEN Uncover(d, w) ELSE d

Covering(d, v, fullscreen) == IF fullscreen THEN SetFullscreen(d, v, TRUE) ELSE d

Opened(d, v, w, fullscreen) ==
  MoveFullscreen(Execute(Covering(Left(Shaped(d, v), v, w), v, fullscreen), v), w, v, fullscreen)

FocusNew(d, v) == IF TakesFocus(d, v) THEN SetFocus(d, v) ELSE d

MapOn(d, v, w, fullscreen) == FocusNew(Opened(NewColumn(d, v, w), v, w, fullscreen), v)

\* view_map; o is the output that a window asks to cover, or None.
Map(d, v, fullscreen, o) ==
  LET parent == IF ParentOf[v] \in d.live THEN ParentOf[v] ELSE None
      Found == FindContext(NewNode([d EXCEPT !.shown = @ \cup {v}, !.ran[v] = <<>>,
                                             !.parent[v] = parent], v, None), v)
  IN  MapOn(IF o = None THEN WithWorkspace(Found, v, Selected(Found, v)) ELSE Found, v,
            IF o = None THEN Selected(Found, v) ELSE ActiveWorkspace(d, o), fullscreen)

WithoutView(d, v) == TakeFromPad([DestroyContainer(d, v) EXCEPT !.marks[v] = {}], v)
LeftEmpty(d, p) == IF p \in Columns THEN ReapEmpty(d, p) ELSE ConsiderDestroy(d, p)
Told(d, w) == IF w \in d.live THEN DetectUrgent(d, w) ELSE d

Unmap_KeepsExecuted(d, v) ==
  [ClosePopups(LeftEmpty(WithoutView([d EXCEPT !.timed = @ \ {v}], v), d.up[v]), v)
     EXCEPT !.shown = @ \ {v}]

\* view_unmap.  The children of a toplevel lose their parent.
Unmap(d, v) ==
  LET w == WorkspaceOf(d, v)
      Quiet == [d EXCEPT !.executed[v] = {}, !.timed = @ \ {v}]
  IN  [ClosePopups(Told(LeftEmpty(WithoutView(Quiet, v), d.up[v]), w), v) EXCEPT
         !.shown = @ \ {v},
         !.parent = [u \in Windows |-> IF @[u] = v THEN None ELSE @[u]]]

\* view_begin_destroy, of a view that is not mapped
DestroyView(d, v) ==
  [SurfaceGone(AssignContext(d, v, None), v) EXCEPT
     !.role[v] = None, !.title[v] = None, !.deny = @ \ {v}, !.parent[v] = None,
     !.urgent = SelectSeq(@, LAMBDA u : u # v)]

-----------------------------------------------------------------------------
(* Unmanaged X11 surfaces: the keyboard focus alone is theirs.              *)

\* seat_set_focus_surface(seat, surface, false)
KeyboardTo(d, s) == [d EXCEPT !.kbd = s]

\* unmanaged_handle_map
MapSurface(d, v) ==
  KeyboardTo([d EXCEPT !.shown = @ \cup {v}], IF v \in WantsFocus THEN v ELSE d.kbd)

\* unmanaged_handle_unmap: the keyboard goes to the parent surface, or back to what
\* had the focus.
UnmapSurface(d, v) ==
  LET p == ParentOf[v]
      NotShown == [d EXCEPT !.shown = @ \ {v}]
      previous == FocusInactive(d, Root)
  IN  IF d.kbd # v THEN NotShown
      ELSE IF p \in d.assoc \cap WantsFocus THEN KeyboardTo(NotShown, p)
      ELSE IF previous = None THEN NotShown
      ELSE SetFocus(SetFocus(NotShown, None), previous)

\* unmanaged_handle_request_activate
ActivateSurface(d, v) ==
  IF FocusedView(d) # None /\ Pid[FocusedView(d)] # Pid[v] THEN d ELSE KeyboardTo(d, v)

\* handle_override_redirect: the view becomes an unmanaged surface.
Turned(d, v, role) == [d EXCEPT !.role[v] = role]

BecomeUnmanaged(d, v) ==
  IF v \in d.shown THEN MapSurface(Turned(DestroyView(Unmap(d, v), v), v, "unmanaged"), v)
  ELSE Turned(DestroyView(d, v), v, "unmanaged")

\* unmanaged_handle_override_redirect: the surface becomes a view, and is mapped again
\* if it was.
BecomeView(d, v) == Turned(IF v \in d.shown THEN UnmapSurface(d, v) ELSE d, v, "view")

=============================================================================
