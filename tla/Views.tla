--------------------------------- MODULE Views ---------------------------------
(***************************************************************************)
(* Where a window opens, what the rules of the configuration do to it, who *)
(* is told that it is urgent, and what remains when it goes: the handlers  *)
(* of sway/desktop/xdg_shell.c, xwayland.c and xdg_activation_v1.c, of     *)
(* foreign toplevel managers and of commands, over the operators of        *)
(* ViewOps.  A scene has, besides what Desktop's scenes have, the texts    *)
(* that clients use as titles, the rules at the start and those that       *)
(* commands add, the commands with their written criteria, the processes   *)
(* that are launched, and the options.                                     *)
(***************************************************************************)
EXTENDS Desktop, ViewOps

ViewsInit ==
  \E s \in Scenes :
    /\ scene = s /\ plugged = {} /\ plugs = 0
    /\ LET Bare == Boot @@
             [role |-> [v \in Windows |-> None], assoc |-> {}, shown |-> {},
              title |-> [v \in Windows |-> None], parent |-> [v \in Windows |-> None],
              marks |-> [v \in Windows |-> {}], deny |-> {}, pad |-> <<>>, rules |-> <<>>,
              executed |-> [v \in Windows |-> {}], ran |-> [v \in Windows |-> <<>>],
              cfg |-> s.cfg]
       IN  d = FoldLeft(LAMBDA e, r : AddRule(e, r[1], r[2], r[3]), Bare, s.rules)

IsView(v) == d.role[v] = "view"
IsMapped(v) == IsView(v) /\ v \in d.shown
Unmanaged(v) == d.role[v] = "unmanaged"

-----------------------------------------------------------------------------
(* Surfaces that come and go.                                               *)

\* handle_xdg_shell_toplevel, handle_xwayland_surface
NewSurface(v, redirect) ==
  /\ v \in scene.windows /\ d.role[v] = None
  /\ redirect => v \in X11 /\ "unmanaged" \in scene.acts
  /\ Do("client", [d EXCEPT !.role[v] = IF redirect THEN "unmanaged" ELSE "view"])

\* handle_associate, unmanaged_handle_associate
Associate(v) ==
  /\ v \in X11 \ d.assoc /\ d.role[v] # None
  /\ Do("client", [d EXCEPT !.assoc = @ \cup {v}])

\* handle_dissociate, unmanaged_handle_dissociate: the wl_surface goes.
Dissociate(v) ==
  /\ v \in d.assoc \ d.shown
  /\ Do("client", SurfaceGone([d EXCEPT !.assoc = @ \ {v}], v))

\* The context that would place the window
ContextOf(v) == Only(OwnContexts(FindContext(d, v), v))

\* Two workspaces of one name, and a view that was urgent when it was unmapped, are
\* left out.
Mappable(v) ==
  /\ IsView(v) /\ v \notin d.shown
  /\ v \in X11 => v \in d.assoc
  /\ FocusedWorkspace(d) # None
  /\ ~IsUrgent(d, v)
  /\ LET t == ContextOf(v)
     IN  IF t = None THEN TRUE
         ELSE LET c == FindContext(d, v).ctxs[t] IN c.node = Root => c.name \notin d.live

\* unmanaged_handle_override_redirect, when the surface is mapped
Convertible(v) ==
  /\ Unmanaged(v) /\ v \in d.shown /\ "unmanaged" \in scene.acts
  /\ FocusedWorkspace(d) # None
  /\ ParentOf[v] \in d.assoc => ParentOf[v] \in d.shown

\* handle_map of either shell, or the surface was mapped before it became a view; only
\* xdg toplevels name an output to cover.
MapView(v, fullscreen, o) ==
  /\ Mappable(v) \/ (Convertible(v) /\ ~fullscreen)
  /\ fullscreen => "fullscreen" \in scene.acts
  /\ o # None => fullscreen /\ v \notin X11 /\ o \in ToSet(d.outs)
  /\ Do("client", Map(IF Unmanaged(v) THEN BecomeView(d, v) ELSE d, v, fullscreen, o))

\* handle_unmap
UnmapView(v) == IsMapped(v) /\ Do("client", Unmap(d, v))

\* handle_destroy, unmanaged_handle_destroy
DestroySurface(v) ==
  /\ v \notin d.shown \cup d.assoc
  /\ \/ IsView(v) /\ Do("client", DestroyView(d, v))
     \/ Unmanaged(v) /\ Do("client", [d EXCEPT !.role[v] = None])

\* unmanaged_handle_map, unmanaged_handle_unmap.  A parent surface that is not mapped
\* while it has a wl_surface is left out.
MapUnmanaged(v) ==
  /\ Unmanaged(v) /\ v \in d.assoc \ d.shown
  /\ Do("client", MapSurface(d, v))

UnmapUnmanaged(v) ==
  /\ Unmanaged(v) /\ v \in d.shown
  /\ ParentOf[v] \in d.assoc => ParentOf[v] \in d.shown
  /\ Do("client", UnmapSurface(d, v))

\* unmanaged_handle_request_activate
ActivateUnmanaged(v) ==
  /\ Unmanaged(v) /\ v \in d.shown
  /\ Do("activate", ActivateSurface(d, v))

\* handle_override_redirect
Redirect(v) == v \in X11 /\ IsView(v) /\ Do("unmanaged", BecomeUnmanaged(d, v))

\* unmanaged_handle_override_redirect, when it is not
Unredirect(v) ==
  /\ Unmanaged(v) /\ v \notin d.shown
  /\ Do("unmanaged", BecomeView(d, v))

-----------------------------------------------------------------------------
(* What clients say of their windows.                                       *)

\* handle_set_title, or handle_set_app_id, handle_set_class, handle_set_role,
\* handle_set_window_type of a client that says again what it said before
SetProperty(v, t) ==
  /\ IsView(v) /\ t \in scene.titles
  /\ LET Titled == [d EXCEPT !.title[v] = t]
     IN  Do("title", IF IsMapped(v) THEN Execute(Titled, v) ELSE Titled)

\* handle_set_hints
SetHints(v, urgent) ==
  /\ IsMapped(v) /\ v \in X11
  /\ urgent \/ v \notin d.timed
  /\ v \notin d.deny
  /\ Do("hints", SetUrgent(d, v, urgent))

\* handle_urgent_timeout
UrgentTimesOut(v) ==
  /\ v \in d.timed
  /\ Do("hints", SetUrgent(d, v, FALSE))

\* handle_new_popup and the end of a popup
OpenPopup(p, v) ==
  /\ d.popups[p] = None /\ IsMapped(v) /\ v \notin X11
  /\ Do("popup", [d EXCEPT !.popups[p] = v])

DestroyPopup(p) == d.popups[p] # None /\ Do("popup", [d EXCEPT !.popups[p] = None])

\* handle_request_fullscreen, handle_foreign_fullscreen_request: o is the output to
\* cover, or None; a window that is tiled, urgent, covers its workspace or has the
\* focus stays on its output.
RequestFullscreen(v, on, o) ==
  /\ IsMapped(v) /\ ~Hidden(d, v)
  /\ o # None => on /\ o \in ToSet(d.outs)
  /\ LET to == IF o = None THEN WorkspaceOf(d, v) ELSE ActiveWorkspace(d, o)
         There == IF to = WorkspaceOf(d, v) THEN d ELSE MoveFloating(d, v, to)
     IN  /\ to # WorkspaceOf(d, v) =>
              Floats(d, v) /\ ~IsUrgent(d, v) /\ d.full[WorkspaceOf(d, v)] # v /\ Here # v
         /\ Do("fullscreen", SetFullscreen(There, v, on))

\* handle_request_minimize of either shell, with scratchpad_minimize; xdg toplevels
\* only ask to be minimised.  Urgent windows are not moved to and from the scratchpad.
RequestMinimize(v, on) ==
  /\ IsMapped(v) /\ ~Hidden(d, v) /\ ~IsUrgent(d, v)
  /\ on \/ v \in X11
  /\ Do("minimize", IF on THEN ToScratchpad(d, v)
                    ELSE IF v \in ToSet(d.pad) THEN Show(d, v) ELSE d)

\* handle_foreign_activate_request
ForeignActivate(v) ==
  /\ IsMapped(v)
  /\ Hidden(d, v) => ~IsUrgent(d, v)
  /\ Do("activate", SetFocus(IF Hidden(d, v) THEN Show(d, v) ELSE d, v))

\* handle_request_activate of an X11 view
RequestActivation(v) ==
  /\ IsMapped(v) /\ v \in X11
  /\ Do("activate", RequestActivate(d, v))

-----------------------------------------------------------------------------
(* Launching.                                                               *)

NewToken == Only({t \in Tokens : t \notin DOMAIN d.ctxs})

\* exec_process: a process has one context.
Launch(p) ==
  /\ p \in scene.pids /\ NewToken # None
  /\ \A t \in DOMAIN d.ctxs : d.ctxs[t].pid # p
  /\ Do("launch", CreateContext(d, NewToken, p, TRUE))

\* xdg_activation_v1_handle_new_token: a client asks for a token.
ClientToken(trusted) ==
  /\ NewToken # None
  /\ Do("token", CreateContext(d, NewToken, None, trusted))

\* The token of a pending context times out: token_handle_destroy
TokenExpires(t) ==
  /\ t \in Pending(d)
  /\ Do("expire", DestroyContexts(d, {t}))

\* xdg_activation_v1_handle_request_activate, with the token
ActivateView(t, v) ==
  /\ t \in Pending(d) /\ IsView(v) /\ v \notin X11
  /\ Do("token", ActivateWithToken(d, t, v))

\* handle_set_startup_id
SetStartupId(t, v) ==
  /\ t \in Pending(d) /\ IsView(v) /\ v \in X11
  /\ Do("token", AssignContext(d, v, t))

-----------------------------------------------------------------------------
(* Commands and rules.                                                      *)

\* execute_command: the windows that match the criteria, in some order of the tree;
\* without criteria, the window that has the focus.
Command(raw, cmd) ==
  /\ d.outs # <<>>
  /\ LET crit == IF raw = <<>> THEN None ELSE Parse(d, raw)
         named == IF raw = <<>> THEN {Here} \cap Windows
                  ELSE IF crit = None THEN {} ELSE GetContainers(d, crit)
     IN  /\ named # {}
         /\ cmd[1] \in {"fullscreen", "move"} => \A v \in named : ~Hidden(d, v)
         /\ \E vs \in SetToAllKPermutations(named) :
              Len(vs) = Cardinality(named) /\ Do("command", ExecuteCommand(d, vs, cmd))

\* for_window, assign and no_focus while windows are open
NewRule(r) ==
  /\ \A i \in DOMAIN d.rules : <<d.rules[i].type, d.rules[i].raw>> # <<r[1], r[2]>>
  /\ Do("rule", AddRule(d, r[1], r[2], r[3]))

-----------------------------------------------------------------------------
ViewsNext ==
  \/ \E v \in scene.windows :
       \/ \E b \in BOOLEAN :
            NewSurface(v, b) \/ SetHints(v, b) \/ RequestMinimize(v, b)
       \/ \E b \in BOOLEAN, o \in scene.outputs \cup {None} :
            MapView(v, b, o) \/ RequestFullscreen(v, b, o)
       \/ UnmapView(v) \/ DestroySurface(v)
       \/ Associate(v) \/ Dissociate(v)
       \/ MapUnmanaged(v) \/ UnmapUnmanaged(v) \/ ActivateUnmanaged(v)
       \/ Redirect(v) \/ Unredirect(v)
       \/ \E t \in scene.titles : SetProperty(v, t)
       \/ UrgentTimesOut(v)
       \/ ForeignActivate(v) \/ RequestActivation(v)
       \/ \E p \in Popups : OpenPopup(p, v)
       \/ \E t \in Tokens : ActivateView(t, v) \/ SetStartupId(t, v)
  \/ \E p \in Popups : DestroyPopup(p)
  \/ \E p \in scene.pids : Launch(p)
  \/ \E b \in BOOLEAN : ClientToken(b)
  \/ \E t \in Tokens : TokenExpires(t)
  \/ \E c \in scene.commands : Command(c[1], c[2])
  \/ \E r \in scene.later : NewRule(r)
  \/ \E w \in scene.names : Switch(w)
  \/ \E o \in scene.outputs : Plug(o) \/ Unplug(o) \/ FocusOutput(o)

ViewsSpec == ViewsInit /\ [][ViewsNext]_vars

-----------------------------------------------------------------------------
(* Properties.                                                              *)

\* A for_window rule whose match does not depend on the focus, the urgency or the place
Lasting(r) ==
  /\ r.type = "for_window"
  /\ DOMAIN r.crit \subseteq Texts \cup {"pid", "id", "window_type", "all", "con_mark"}
  /\ \A name \in Texts \cap DOMAIN r.crit : r.crit[name] # Focused

\* view.c, criteria.c: when a window is mapped, gets another title or gets a mark, the
\* rules that match it have run, none of them twice since it was mapped, although one
\* rule may run the others through the mark it gives.
RulesApplied ==
  [][\A v \in d'.live \cap Windows :
       v \notin d.live \/ d'.title[v] # d.title[v] \/ ~(d'.marks[v] \subseteq d.marks[v])
       => /\ \A i \in DOMAIN d'.rules :
               Lasting(d'.rules[i]) /\ ViewMatches(d', d'.rules[i].crit, v)
               => i \in ToSet(d'.ran[v])
          /\ IsInjective(d'.ran[v])]_d

\* launcher.c, view.c: the first window of a command that was launched opens on the
\* workspace that had the focus then, also if that workspace has gone since, unless
\* a rule or the window itself says where.
OpensWhereLaunched ==
  [][\A v \in (d'.live \cap Windows) \ d.live :
       LET own == OwnContexts(d, v)
           claims == IF own # {} THEN own
                     ELSE {t \in Pending(d) : d.ctxs[t].pid \in ToSet(Lineage[v])}
       IN  /\ claims # {} /\ RulesFor(d, v, "assign") = <<>> /\ d'.ran[v] = <<>>
           /\ \A w \in Workspaces : d'.full[w] # v
           => \E t \in claims : d.ctxs[t].name = WorkspaceOf(d', v)]_d

\* launcher.c: a context refers to a node that lives, and a view that exists has at
\* most one; a context that was consumed has a view that will free it.
ContextsSound ==
  /\ \A t \in DOMAIN d.ctxs :
       /\ d.ctxs[t].node \in d.live \cup plugged \cup {Root}
       /\ d.ctxs[t].owner # None => IsView(d.ctxs[t].owner)
  /\ \A v \in Windows : Cardinality(OwnContexts(d, v)) <= 1

\* view.c, seat.c: a workspace with an urgent window shows it, the focused window is
\* urgent only until its timer fires, and a timer belongs to a mapped, urgent window.
UrgencySound ==
  /\ \A v \in d.live : IsUrgent(d, v) => WorkspaceOf(d, v) \in d.flagged \cup {None}
  /\ d.flagged \subseteq d.live
  /\ d.timed \subseteq ToSet(d.urgent) \cap d.live
  /\ d.has /\ IsUrgent(d, Focus) => Focus \in d.timed

\* Hidden windows are those of the scratchpad that have no workspace, marks are unique,
\* a window that covers a workspace is there.
PlacesSound ==
  /\ \A v \in d.live \cap Windows : d.up[v] = None => v \in ToSet(d.pad)
  /\ IsInjective(d.pad) /\ ToSet(d.pad) \subseteq d.live
  /\ \A v \in ToSet(d.pad) : d.up[v] \in Workspaces \cup {None}
  /\ \A u, v \in Windows : u # v => d.marks[u] \cap d.marks[v] = {}
  /\ \A w \in Workspaces : d.full[w] # None => WorkspaceOf(d, d.full[w]) = w

\* view.c, xwayland.c, root.c: a container lives while its view is mapped; the keyboard
\* is with a mapped surface, or stays where it was when only a workspace is left to
\* have the focus; and what the focus, the tree, the scratchpad, the launcher contexts
\* and the urgency timers say agrees, whatever rules, requests and commands do to
\* windows that are just opening.
ViewsSound ==
  /\ d.live \cap Windows = {v \in Windows : IsMapped(v)}
  /\ d.kbd \in d.shown \cup {None} \/ Focus \notin Windows
  /\ StackComplete /\ FocusShown /\ SpacesListed /\ PlacesSound
  /\ ContextsSound /\ UrgencySound

=============================================================================
