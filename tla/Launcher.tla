------------------------------- MODULE Launcher -------------------------------
(***************************************************************************)
(* Launcher contexts: sway/desktop/launcher.c.  A command that is launched *)
(* leaves a context, with an activation token, on the workspace that had   *)
(* the focus.  The first window of the command opens there, found by its   *)
(* token or by its process.  ctxs[t] is the context of the token t:        *)
(*   pid       the process, None for a token that a client asked for       *)
(*   node      the workspace, and later its output or the root             *)
(*   name      fallback_name, the name of the workspace                    *)
(*   trusted   made by the compositor itself, or by a client that had the  *)
(*             focus (ctx->seat, ctx->had_focused_surface)                 *)
(*   owner     the view that consumed the context, None while it is        *)
(*             pending                                                     *)
(* The operators work on the desktops of SeatFocus.  A token is consumed   *)
(* when it is first used, so that no context is activated twice.           *)
(***************************************************************************)
EXTENDS OutputOps

CONSTANTS
  Tokens,
  Lineage   \* the process of a window's client, its parent, ..., down to pid 2

Pending(d) == {t \in DOMAIN d.ctxs : d.ctxs[t].owner = None}

\* launcher_ctx_create, launcher_ctx_create_internal
CreateContext(d, t, pid, trusted) ==
  LET On(w) == [d EXCEPT !.ctxs = (t :> [pid |-> pid, node |-> w, name |-> w,
                                         trusted |-> trusted, owner |-> None]) @@ @]
  IN  IF FocusedWorkspace(d) = None THEN d ELSE On(FocusedWorkspace(d))

\* launcher_ctx_destroy, of the contexts of the tokens ts; token_handle_destroy
DestroyContexts(d, ts) == [d EXCEPT !.ctxs = Restrict(@, DOMAIN @ \ ts)]

\* launcher_ctx_consume: nobody else may match the context.
Consume(d, t, v) == [d EXCEPT !.ctxs[t].owner = v]

OwnContexts(d, v) == {t \in DOMAIN d.ctxs : d.ctxs[t].owner = v}

\* view_assign_ctx: the view forgets the context it had; t may be None.
AssignContext(d, v, t) ==
  LET Freed == DestroyContexts(d, OwnContexts(d, v))
  IN  IF t = None THEN Freed ELSE Consume(Freed, t, v)

FindPid_Self(d, v) ==
  LET own == {t \in Pending(d) : Lineage[v] # <<>> /\ d.ctxs[t].pid = Head(Lineage[v])}
  IN  IF own = {} THEN None ELSE Only(own)

\* launcher_ctx_find_pid: of the processes above the client's, the last that has a
\* context.
FindPid(d, v) ==
  LET Of(p) == {t \in Pending(d) : d.ctxs[t].pid = p}
      known == SelectSeq(Lineage[v], LAMBDA p : Of(p) # {})
  IN  IF known = <<>> THEN None ELSE Only(Of(Last(known)))

\* launcher_ctx_get_workspace: a workspace that is not there any more is made again on
\* its output, or, if that is disabled or gone, where any new workspace would be.
ContextOutput(d, t) ==
  IF d.ctxs[t].node \in ToSet(d.outs) THEN d.ctxs[t].node ELSE InitialOutput(d)

=============================================================================
