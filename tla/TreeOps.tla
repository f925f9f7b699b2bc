------------------------------- MODULE TreeOps -------------------------------
(***************************************************************************)
(* The operations on the container tree (sway/tree/container.c, root.c,    *)
(* workspace.c and the tree-changing part of layout.c) as functions from   *)
(* trees to trees.  A tree is the pending state of all workspaces and      *)
(* containers.  Handlers run to completion, so a command is a composition  *)
(* of these functions; module ContainerTree makes actions of them.         *)
(*                                                                         *)
(* Scroll keeps the windows of a workspace in a row of columns: a          *)
(* workspace lists columns and floating containers, a column lists views.  *)
(* For a workspace of vertical type read "row" for "column".               *)
(***************************************************************************)
EXTENDS Integers, FiniteSets, SequencesExt

CONSTANTS
  Views,       \* containers that hold a view
  Columns,     \* identities for containers that hold other containers
  Workspaces,
  None,        \* NULL
  Freed        \* a pointer to a container that is no more

Containers == Views \cup Columns
Tiling(w) == <<"tiling", w>>
Floating(w) == <<"floating", w>>
Lists == UNION {{Tiling(w), Floating(w)} : w \in Workspaces} \cup Columns
Modes == {"none", "workspace", "global"}

Trees ==
  [live : SUBSET Containers,              \* attached or in the scratchpad
   list : [Lists -> Seq(Containers)],     \* tiling, floating, children
   up : [Containers -> Columns \cup {None}],           \* pending.parent
   ws : [Containers -> Workspaces \cup {None}],        \* pending.workspace
   full : [Containers -> Modes],                       \* fullscreen_mode
   covers : [Workspaces -> Containers \cup {None, Freed}], \* ws->fullscreen
   global : Containers \cup {None, Freed},             \* fullscreen_global
   pad : Seq(Containers),                              \* root->scratchpad
   scratch : SUBSET Containers,                        \* con->scratchpad
   selected : SUBSET Containers,
   recent : [Columns -> Containers \cup {None, Freed}],
                                     \* pending.focused_inactive_child
   current : [Workspaces -> Containers \cup {None, Freed}],
                                     \* current.focused_inactive_child
   bad : BOOLEAN]      \* a list or a NULL pointer was accessed out of bounds

EmptyTree ==
  [live |-> {}, list |-> [l \in Lists |-> <<>>],
   up |-> [c \in Containers |-> None], ws |-> [c \in Containers |-> None],
   full |-> [c \in Containers |-> "none"],
   covers |-> [w \in Workspaces |-> None], global |-> None,
   pad |-> <<>>, scratch |-> {}, selected |-> {},
   recent |-> [k \in Columns |-> None],
   current |-> [w \in Workspaces |-> None], bad |-> FALSE]

-----------------------------------------------------------------------------
(* Lists (common/list.c): indices start at 0, nothing checks them.          *)

Bad(t) == [t EXCEPT !.bad = TRUE]

Find(s, x) == IF Contains(s, x) THEN (CHOOSE i \in DOMAIN s : s[i] = x) - 1
                                ELSE -1

ListInsert(t, l, i, c) ==
  IF i \in 0..Len(t.list[l]) THEN [t EXCEPT !.list[l] = InsertAt(@, i + 1, c)]
                             ELSE Bad(t)

ListDel(t, l, i) ==
  IF i \in 0..(Len(t.list[l]) - 1) THEN [t EXCEPT !.list[l] = RemoveAt(@, i + 1)]
                                   ELSE Bad(t)

ListMoveTo(s, i, x) == InsertAt(SelectSeq(s, LAMBDA y : y # x), i + 1, x)

ListSwap(s, i, j) ==
  [n \in DOMAIN s |-> s[CASE n = i + 1 -> j + 1 [] n = j + 1 -> i + 1
                          [] OTHER -> n]]

-----------------------------------------------------------------------------
(* The shape of the tree.                                                   *)

\* The containers below c.  Columns hold only views (property Shape), so all
\* of them are children and a container has at most one ancestor.
Below(t, c) == IF c \in Columns THEN ToSet(t.list[c]) ELSE {}

\* c and its ancestors, innermost first.
Chain(t, c) == IF t.up[c] = None THEN <<c>> ELSE <<c, t.up[c]>>

\* container_toplevel_ancestor
Toplevel(t, c) == IF t.up[c] = None THEN c ELSE t.up[c]

IsFloating(t, c) ==
  \/ t.up[c] = None /\ t.ws[c] # None /\ Contains(t.list[Floating(t.ws[c])], c)
  \/ c \in t.scratch

IsHidden(t, c) == c \in t.scratch /\ t.ws[c] = None

\* The list that holds c, None if there is none.
Siblings(t, c) ==
  IF t.up[c] # None THEN t.up[c]
  ELSE IF t.ws[c] = None THEN None
  ELSE IF Contains(t.list[Tiling(t.ws[c])], c) THEN Tiling(t.ws[c])
                                               ELSE Floating(t.ws[c])

\* The workspace of c and of everything below it becomes w.
SetWorkspace(t, c, w) ==
  [t EXCEPT !.ws = [d \in {c} \cup Below(t, c) |-> w] @@ @]

-----------------------------------------------------------------------------
(* Fullscreen.                                                              *)

\* Workspace w, if there is one, is covered by c.
SetCovers(t, w, c) == IF w = None THEN t ELSE [t EXCEPT !.covers[w] = c]

\* Its assertion makes it do nothing for a container that is not fullscreen.
FullscreenDisable(t, c) ==
  IF c = Freed THEN Bad(t)
  ELSE CASE t.full[c] = "workspace" ->
              SetCovers([t EXCEPT !.full[c] = "none"], t.ws[c], None)
         [] t.full[c] = "global" ->
              [t EXCEPT !.full[c] = "none", !.global = None]
         [] OTHER -> t

DisableIfSet(t, c) == IF c = None THEN t ELSE FullscreenDisable(t, c)

FullscreenWorkspace(t, c) ==
  IF t.full[c] # "none" THEN t
  ELSE SetCovers([t EXCEPT !.full[c] = "workspace"], t.ws[c], c)

FullscreenGlobal(t, c) ==
  IF t.full[c] # "none" THEN t
  ELSE [t EXCEPT !.full[c] = "global", !.global = c]

DisableOnWorkspace(t, w) == IF w = None THEN t ELSE DisableIfSet(t, t.covers[w])

SetFullscreen_KeepOther(t, c, mode) ==
  LET u == DisableIfSet(t, t.global)
  IN  IF t.full[c] = mode THEN t
      ELSE CASE mode = "none" -> FullscreenDisable(t, c)
             [] mode = "workspace" -> FullscreenWorkspace(u, c)
             [] mode = "global" -> FullscreenGlobal(u, c)

SetFullscreen(t, c, mode) ==
  LET u == DisableIfSet(t, t.global)
  IN  IF t.full[c] = mode THEN t
      ELSE CASE mode = "none" -> FullscreenDisable(t, c)
             [] mode = "workspace" ->
                  FullscreenWorkspace(DisableOnWorkspace(u, t.ws[c]), c)
             [] mode = "global" ->
                  FullscreenGlobal(IF u.full[c] = "workspace"
                                   THEN FullscreenDisable(u, c) ELSE u, c)

\* container_handle_fullscreen_reparent
FullscreenReparent(t, c) ==
  LET w == t.ws[c]
  IN  IF t.full[c] # "workspace" \/ w = None THEN t
      ELSE IF t.covers[w] = c THEN t
      ELSE [DisableIfSet(t, t.covers[w]) EXCEPT !.covers[w] = c]

\* container_pass_fullscreen, from a container that covers its workspace.
PassFullscreen(t, src, dst) ==
  IF t.full[src] = t.full[dst] THEN t
  ELSE CASE t.full[src] = "none" -> FullscreenDisable(t, dst)
         [] t.full[src] = "workspace" ->
              FullscreenWorkspace(
                DisableOnWorkspace(DisableIfSet(t, t.global), t.ws[src]), dst)
         [] t.full[src] = "global" ->
              FullscreenGlobal(DisableIfSet(t, t.global), dst)

-----------------------------------------------------------------------------
(* Attaching, detaching and destroying.                                     *)

Detach(t, c) ==
  LET u == CASE t.full[c] = "none" -> t
             [] t.full[c] = "workspace" ->
                  IF t.ws[c] = None THEN Bad(t)
                  ELSE [t EXCEPT !.covers[t.ws[c]] = None]
             [] t.full[c] = "global" -> [t EXCEPT !.global = None]
      s == Siblings(t, c)
      v == IF s # None /\ Find(u.list[s], c) # -1
           THEN ListDel(u, s, Find(u.list[s], c)) ELSE u
  IN  SetWorkspace([v EXCEPT !.up[c] = None], c, None)

DetachIfAttached(t, c) == IF t.ws[c] = None THEN t ELSE Detach(t, c)

\* c becomes the child of k at index i.
InsertChild(t, k, c, i) ==
  LET u == ListInsert(DetachIfAttached(t, c), k, i, c)
  IN  FullscreenReparent(SetWorkspace([u EXCEPT !.up[c] = k], c, u.ws[k]), c)

AddFloating(t, w, c) ==
  LET u == DetachIfAttached(t, c)
      v == ListInsert(u, Floating(w), Len(u.list[Floating(w)]), c)
  IN  FullscreenReparent(SetWorkspace(v, c, w), c)

\* workspace_insert_tiling_direct
InsertTiling(t, w, c, i) ==
  FullscreenReparent(SetWorkspace(ListInsert(t, Tiling(w), i, c), c, w), c)

\* root_scratchpad_remove_container
ScratchpadRemove(t, c) ==
  [t EXCEPT !.scratch = @ \ {c}, !.pad = SelectSeq(@, LAMBDA d : d # c)]

RemoveIfScratch(t, c) == IF c \in t.scratch THEN ScratchpadRemove(t, c) ELSE t

\* The memory of c is released: what still points to it is dangling.
Forget(t, c) ==
  LET Dangle(p) == IF p = c /\ c \in Views THEN Freed ELSE p
  IN  [t EXCEPT !.live = @ \ {c}, !.selected = @ \ {c}, !.full[c] = "none",
                !.covers = [w \in Workspaces |->
                              IF @[w] = c THEN Freed ELSE @[w]],
                !.global = IF @ = c THEN Freed ELSE @,
                !.recent = [k \in Columns |->
                              IF k = c THEN None ELSE Dangle(@[k])],
                !.current = [w \in Workspaces |-> Dangle(@[w])]]

BeginDestroy(t, c) ==
  LET u == IF t.full[c] = "workspace" THEN SetCovers(t, t.ws[c], None) ELSE t
      v == RemoveIfScratch(IF u.full[c] = "global" THEN FullscreenDisable(u, c)
                           ELSE u, c)
  IN  Forget(IF v.up[c] # None \/ v.ws[c] # None THEN Detach(v, c) ELSE v, c)

ReapEmpty_Never(t, c) == t

\* container_reap_empty: c and its ancestors go, up to one that has children.
ReapEmpty(t, c) ==
  LET Reap(u, k) == IF k \in u.live /\ u.list[k] = <<>>
                    THEN BeginDestroy(u, k) ELSE u
  IN  IF c \in Columns THEN FoldLeft(Reap, t, Chain(t, c)) ELSE t

ReapIfSet(t, c) == IF c = None THEN t ELSE ReapEmpty(t, c)

=============================================================================
