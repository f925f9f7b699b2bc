---------------------------- MODULE Transaction ----------------------------
(***************************************************************************)
(* The transaction engine of the compositor (sway/desktop/transaction.c)   *)
(* with the life cycle of the nodes and views it refers to.                *)
(*                                                                         *)
(* Handlers run one at a time on the event loop (pc = "idle" between two   *)
(* of them).  A handler edits the pending state of some nodes, marks them  *)
(* dirty and calls transaction_commit_dirty(); pc then walks through that  *)
(* call, transaction_commit_pending() and transaction_progress() until the *)
(* handler returns.  No other handler runs meanwhile, except the ones that *)
(* transaction_progress() itself reaches through cursor_rebase_all().      *)
(***************************************************************************)
EXTENDS Naturals, FiniteSets

CONSTANTS
  Views,        \* sway_view objects (one per client toplevel)
  Xwayland,     \* the views managed through Xwayland; the others are xdg_shell
  Containers,   \* sway_container objects that hold a view
  Others,       \* nodes without a view: workspaces, outputs, split containers
  Boxes,        \* content geometries a node can be given
  SizeOf,       \* SizeOf[b]: the width and height of a geometry
  Unset,        \* the geometry of a node that was never arranged
  None,         \* NULL
  MaxSerial,    \* bound on the configure serials of one mapping of a view
  Debug         \* the debug flags: "none", "noatomic" or "txn_wait"

Nodes == Containers \cup Others
States == Boxes \cup {Unset}

\* What debug.txn_wait adds to num_waiting so that it never reaches zero.
Inflation == 1000000

ASSUME ConstantAssumption ==
  /\ Xwayland \subseteq Views
  /\ Containers \cap Others = {}
  /\ IsFiniteSet(Containers) /\ IsFiniteSet(Others)
  /\ None \notin Views \cup Nodes
  /\ Unset \notin Boxes
  /\ DOMAIN SizeOf = States
  /\ MaxSerial \in Nat
  /\ Debug \in {"none", "noatomic", "txn_wait"}

VARIABLES
  \* the call in progress
  pc,           \* where the running handler is
  server_request, \* the argument of _transaction_commit_dirty
  caller,       \* the surface commit the running call returns to, or None
  \* nodes (struct sway_node, and the pending/current state of its owner)
  life,         \* "free" (not allocated), "live" or "destroying"
  pend, cur,    \* the pending and the current state of a node
  refs,         \* node->ntxnrefs
  attached,     \* the nodes whose node->instruction is not NULL
  dirty,        \* server.dirty_nodes
  visible,      \* the containers for which view_is_visible holds
  \* server.pending_transaction, NULL when pNodes is empty
  pNodes, pState, pServer,
  \* server.queued_transaction, NULL when qNodes is empty
  qNodes, qState, qSerial, qWaiting, numWaiting,
  timer,        \* is the timer of the queued transaction armed
  \* views
  vstate,       \* "none" (not allocated), "unmapped", "mapped", "destroying"
  conOf,        \* view->container
  viewOf,       \* container->view
  saved,        \* the views with a saved_surface_tree
  \* xdg_shell configure events
  serial,       \* the last serial scheduled
  sent,         \* the last serial sent to the client
  acked         \* the last serial the client acknowledged

callVars == <<pc, server_request, caller>>
nodeVars == <<life, pend, cur, refs, attached, dirty, visible>>
pendingVars == <<pNodes, pState, pServer>>
queuedVars == <<qNodes, qState, qSerial, qWaiting, numWaiting, timer>>
viewVars == <<vstate, conOf, viewOf, saved>>
serialVars == <<serial, sent, acked>>
vars == <<callVars, nodeVars, pendingVars, queuedVars, viewVars, serialVars>>

Live == {n \in Nodes : life[n] = "live"}
Allocated == {n \in Nodes : life[n] # "free"}

Init ==
  /\ pc = "idle" /\ server_request = TRUE /\ caller = None
  /\ life = [n \in Nodes |-> "free"]
  /\ pend = [n \in Nodes |-> Unset] /\ cur = [n \in Nodes |-> Unset]
  /\ refs = [n \in Nodes |-> 0]
  /\ attached = {} /\ dirty = {} /\ visible = {}
  /\ pNodes = {} /\ pState = [n \in Nodes |-> Unset] /\ pServer = {}
  /\ qNodes = {} /\ qState = [n \in Nodes |-> Unset]
  /\ qSerial = [n \in Nodes |-> 0] /\ qWaiting = {}
  /\ numWaiting = 0 /\ timer = FALSE
  /\ vstate = [v \in Views |-> "none"]
  /\ conOf = [v \in Views |-> None] /\ viewOf = [c \in Containers |-> None]
  /\ saved = {}
  /\ serial = [v \in Views |-> 0] /\ sent = [v \in Views |-> 0]
  /\ acked = [v \in Views |-> 0]

-----------------------------------------------------------------------------
(* Helpers shared by the handlers *)

\* wlr_xdg_surface_schedule_configure: configure events scheduled before the
\* event loop goes idle share one serial.
NextSerial(v) == IF serial[v] = sent[v] THEN serial[v] + 1 ELSE serial[v]

\* The bound of the model: no handler that arranges nodes runs once MaxSerial
\* configure events were scheduled for one mapping of a view.
SerialsLeft == \A v \in Views : serial[v] < MaxSerial

\* The pending states once the arrange_*() functions gave the nodes S the
\* states f; the nodes are marked dirty as well.
Arranged(S, f) == [n \in Nodes |-> IF n \in S THEN f[n] ELSE pend[n]]

\* transaction_commit_dirty() or transaction_commit_dirty_client()
CallCommitDirty(server) ==
  /\ pc' = "commit_dirty"
  /\ server_request' = server

\* Where a call returns to: the event loop, or handle_commit() which goes on
\* to notify the transaction.
Return == pc' = IF caller = None THEN "idle" ELSE "notify"

-----------------------------------------------------------------------------
(* Handlers *)

\* handle_xdg_shell_toplevel, create_xwayland_view: a client creates a window.
NewToplevel(v) ==
  /\ pc = "idle" /\ vstate[v] = "none"
  /\ vstate' = [vstate EXCEPT ![v] = "unmapped"]
  /\ UNCHANGED <<callVars, nodeVars, pendingVars, queuedVars,
                 conOf, viewOf, saved, serialVars>>

\* handle_map: view_map() allocates a container for the view, even when the
\* container of its previous mapping is still referenced by a transaction;
\* select_workspace() may create workspaces (N) for it.  The client has acknowledged the initial configure; serials are compared
\* for equality within one mapping only, so they restart at 1.
Map(v, c, N, S, f, vis) ==
  /\ pc = "idle" /\ vstate[v] = "unmapped" /\ life[c] = "free" /\ SerialsLeft
  /\ S \subseteq Live \cup {c} /\ c \in S /\ N \subseteq Others \ Allocated
  /\ vstate' = [vstate EXCEPT ![v] = "mapped"]
  /\ life' = [n \in Nodes |-> IF n \in N \cup {c} THEN "live" ELSE life[n]]
  /\ conOf' = [conOf EXCEPT ![v] = c]
  /\ viewOf' = [viewOf EXCEPT ![c] = v]
  /\ visible' = IF vis THEN visible \cup {c} ELSE visible
  /\ pend' = Arranged(S, f)
  /\ dirty' = dirty \cup S \cup N
  /\ serial' = [serial EXCEPT ![v] = 1] /\ sent' = [sent EXCEPT ![v] = 1]
  /\ acked' = [acked EXCEPT ![v] = 1]
  /\ CallCommitDirty(TRUE)
  /\ UNCHANGED <<caller, cur, refs, attached, pendingVars, queuedVars, saved>>

\* handle_unmap: view_unmap() begins the destruction of the container, and of
\* the workspaces D that it leaves empty; the nodes S are arranged again.
Unmap(v, S, f, D) ==
  LET gone == {conOf[v]} \cup D IN
  /\ pc = "idle" /\ vstate[v] = "mapped"
  /\ D \subseteq Live \cap Others
  /\ S \subseteq Live \ gone
  /\ vstate' = [vstate EXCEPT ![v] = "unmapped"]
  /\ life' = [n \in Nodes |-> IF n \in gone THEN "destroying" ELSE life[n]]
  /\ pend' = Arranged(S, f)
  /\ dirty' = dirty \cup S \cup gone
  /\ serial' = [serial EXCEPT ![v] = 0] /\ sent' = [sent EXCEPT ![v] = 0]
  /\ acked' = [acked EXCEPT ![v] = 0]
  /\ CallCommitDirty(TRUE)
  /\ UNCHANGED <<caller, cur, refs, attached, visible, pendingVars,
                 queuedVars, conOf, viewOf, saved>>

\* view_begin_destroy frees the view at once only when no container is left.
FreedAtOnce(v) == conOf[v] = None

\* handle_destroy: view_begin_destroy().
DestroyView(v) ==
  /\ pc = "idle" /\ vstate[v] = "unmapped"
  /\ IF FreedAtOnce(v)
     THEN /\ vstate' = [vstate EXCEPT ![v] = "none"]
          /\ saved' = saved \ {v}
     ELSE /\ vstate' = [vstate EXCEPT ![v] = "destroying"]
          /\ UNCHANGED saved
  /\ UNCHANGED <<callVars, nodeVars, pendingVars, queuedVars, conOf, viewOf,
                 serialVars>>

\* A command, a focus change or a configuration change: any nodes are arranged
\* again, a workspace switch changes what is visible, and workspaces are
\* created (N) or begin their destruction (D).
Edit(S, f, vis, N, D) ==
  /\ pc = "idle" /\ SerialsLeft
  /\ N \subseteq Others \ Allocated /\ D \subseteq Live \cap Others
  /\ S \subseteq Live \ D
  /\ visible' = vis
  /\ life' = [n \in Nodes |-> IF n \in N THEN "live"
                              ELSE IF n \in D THEN "destroying" ELSE life[n]]
  /\ pend' = Arranged(S, f)
  /\ dirty' = dirty \cup S \cup N \cup D
  /\ CallCommitDirty(TRUE)
  /\ UNCHANGED <<caller, cur, refs, attached, pendingVars, queuedVars, viewVars,
                 serialVars>>

\* handle_request_configure of a floating Xwayland window: the container is
\* resized and marked dirty, but no transaction is committed.
RequestConfigure(v, b) ==
  /\ pc = "idle" /\ v \in Xwayland /\ vstate[v] = "mapped"
  /\ pend' = [pend EXCEPT ![conOf[v]] = b]
  /\ dirty' = dirty \cup {conOf[v]}
  /\ UNCHANGED <<callVars, life, cur, refs, attached, visible, pendingVars,
                 queuedVars, viewVars, serialVars>>

\* set_activated, set_tiled, set_fullscreen, set_resizing: a configure event
\* that no transaction waits for.
ConfigureOutside(v) ==
  /\ pc = "idle" /\ v \notin Xwayland /\ vstate[v] = "mapped" /\ SerialsLeft
  /\ serial' = [serial EXCEPT ![v] = NextSerial(v)]
  /\ UNCHANGED <<callVars, nodeVars, pendingVars, queuedVars, viewVars, sent, acked>>

\* The idle callback of wlroots sends the scheduled configure event.
SendConfigure(v) ==
  /\ pc = "idle" /\ serial[v] > sent[v]
  /\ sent' = [sent EXCEPT ![v] = serial[v]]
  /\ UNCHANGED <<callVars, nodeVars, pendingVars, queuedVars, viewVars, serial, acked>>

\* handle_commit, up to the call of transaction_notify_view_ready_by_*: the
\* client commits a buffer of geometry b after acknowledging serial s.  If the
\* container floats, a new size becomes its pending size at once, and a client
\* transaction (server_request = false) is committed.
ClientCommit(v, s, b, resize) ==
  LET c == conOf[v] IN
  /\ pc = "idle" /\ vstate[v] = "mapped"
  /\ acked' = [acked EXCEPT ![v] = s]
  /\ caller' = [view |-> v, serial |-> s, box |-> b]
  /\ \/ /\ ~resize
        /\ pc' = "notify"
        /\ UNCHANGED <<server_request, pend, dirty, serial>>
     \/ /\ resize /\ SerialsLeft
        /\ pend' = [pend EXCEPT ![c] = b] /\ dirty' = dirty \cup {c}
        /\ serial' = IF v \in Xwayland \/ cur[c] = Unset THEN serial
                     ELSE [serial EXCEPT ![v] = NextSerial(v)]
        /\ CallCommitDirty(FALSE)
  /\ UNCHANGED <<life, cur, refs, attached, visible, pendingVars, queuedVars,
                 viewVars, sent>>

HandleTimeout_StillWaiting ==
  /\ pc = "idle" /\ timer
  /\ timer' = FALSE
  /\ pc' = "progress"
  /\ UNCHANGED <<server_request, caller, nodeVars, pendingVars, qNodes, qState,
                 qSerial, qWaiting, numWaiting, viewVars, serialVars>>

\* handle_timeout: the transaction is applied regardless of readiness.
HandleTimeout ==
  /\ pc = "idle" /\ timer
  /\ numWaiting' = 0 /\ timer' = FALSE
  /\ pc' = "progress"
  /\ UNCHANGED <<server_request, caller, nodeVars, pendingVars, qNodes, qState,
                 qSerial, qWaiting, viewVars, serialVars>>

-----------------------------------------------------------------------------
(* The transaction engine *)

\* The pending transaction once the nodes d are added to it with the states p:
\* transaction_add_node updates the instruction a node already has in it.
AddDirtyNodes(d, p, server) ==
  /\ pNodes' = pNodes \cup d
  /\ pState' = [n \in Nodes |-> IF n \in d THEN p[n] ELSE pState[n]]
  /\ pServer' = IF server THEN pServer \cup d ELSE pServer
  /\ refs' = [n \in Nodes |-> IF n \in d \ pNodes THEN refs[n] + 1 ELSE refs[n]]

\* transaction_commit_pending does nothing while a transaction is queued.
Busy_Never == FALSE
Busy == qNodes # {}

\* _transaction_commit_dirty
CommitDirty ==
  /\ pc = "commit_dirty"
  /\ AddDirtyNodes(dirty, pend, server_request)
  /\ dirty' = {}
  /\ IF dirty # {} /\ ~Busy THEN pc' = "commit_pending" ELSE Return
  /\ server_request' = TRUE
  /\ UNCHANGED <<caller, life, pend, cur, attached, visible, queuedVars,
                 viewVars, serialVars>>

\* should_configure: Xwayland views are told of a change of position too.
ShouldConfigure(n) ==
  /\ n \in Containers /\ life[n] # "destroying" /\ n \in pServer
  /\ cur[n] # pState[n]
  /\ viewOf[n] \in Xwayland \/ SizeOf[cur[n]] # SizeOf[pState[n]]

Hidden(n) == n \in Containers /\ life[n] # "destroying" /\ n \notin visible

\* What transaction_commit makes of the number of views that must answer; no
\* timer (ok = FALSE) means that nobody is waited for.
NumWaiting(count, ok) ==
  LET wanted == CASE Debug = "noatomic" -> 0
                  [] Debug = "txn_wait" -> count + Inflation
                  [] OTHER -> count
  IN  IF ok THEN wanted ELSE 0

\* transaction_commit_pending and transaction_commit: the pending transaction
\* becomes the queued one, its views are configured and their buffers saved.
CommitPending(ok) ==
  LET configured == {n \in pNodes : ShouldConfigure(n)}
      told == {viewOf[n] : n \in configured} \ Xwayland
  IN
  /\ pc = "commit_pending"
  /\ qNodes' = pNodes /\ qState' = pState
  /\ serial' = [v \in Views |-> IF v \in told THEN NextSerial(v) ELSE serial[v]]
  /\ qSerial' = [n \in Nodes |-> IF n \in configured /\ viewOf[n] \in told
                                 THEN NextSerial(viewOf[n]) ELSE 0]
  /\ qWaiting' = {n \in configured : ~Hidden(n)}
  /\ numWaiting' = NumWaiting(Cardinality(qWaiting'), ok)
  /\ timer' = (ok /\ numWaiting' > 0)
  /\ saved' = saved \cup {viewOf[n] : n \in {m \in pNodes \cap Containers : ~Hidden(m)}}
  /\ attached' = attached \cup pNodes
  /\ pNodes' = {} /\ pServer' = {} /\ pState' = [n \in Nodes |-> Unset]
  /\ pc' = "progress"
  /\ UNCHANGED <<server_request, caller, life, pend, cur, refs, dirty, visible,
                 vstate, conOf, viewOf, sent, acked>>

\* transaction_progress: nothing to do while a view is waited for.
Wait ==
  /\ pc = "progress"
  /\ qNodes = {} \/ numWaiting > 0
  /\ Return
  /\ UNCHANGED <<server_request, caller, nodeVars, pendingVars, queuedVars,
                 viewVars, serialVars>>

\* apply_container_state drops the saved buffers of these containers: all but
\* those of a closing view that the next transaction still shows.
Dropped == {n \in qNodes \cap Containers :
              life[n] # "destroying" \/ refs[n] = 1}

\* transaction_progress, transaction_apply: the states of the instructions
\* become current and saved buffers are dropped.
Apply ==
  /\ pc = "progress" /\ qNodes # {} /\ numWaiting = 0
  /\ cur' = [n \in Nodes |-> IF n \in qNodes THEN qState[n] ELSE cur[n]]
  /\ saved' = saved \ {viewOf[n] : n \in Dropped}
  /\ attached' = attached \ qNodes
  /\ pc' = "rebase"
  /\ UNCHANGED <<server_request, caller, life, pend, refs, dirty, visible,
                 pendingVars, queuedVars, vstate, conOf, viewOf, serialVars>>

\* cursor_rebase_all, with the applied transaction not yet destroyed: the
\* pointer may now be over another window, and the focus change commits a
\* transaction of its own.  It waits behind the applied one.
Rebase(S, f, D) ==
  /\ pc = "rebase"
  /\ S \cup D # {} => SerialsLeft
  /\ D \subseteq Live \cap Others /\ S \subseteq Live \ D
  /\ life' = [n \in Nodes |-> IF n \in D THEN "destroying" ELSE life[n]]
  /\ pend' = Arranged(S, f)
  /\ IF S \cup D = {}
     THEN UNCHANGED <<pendingVars, refs, dirty>>
     ELSE AddDirtyNodes(dirty \cup S \cup D, pend', TRUE) /\ dirty' = {}
  /\ pc' = "destroy"
  /\ UNCHANGED <<server_request, caller, cur, attached, visible, queuedVars,
                 viewVars, serialVars>>

\* The nodes that transaction_destroy frees with the queued transaction.
Gone_IgnoresRefs == {n \in qNodes : life[n] = "destroying"}
Gone_LateCount == {n \in qNodes : life[n] = "destroying" /\ refs[n] = 0}
Gone == {n \in qNodes : life[n] = "destroying" /\ refs[n] = 1}

\* transaction_progress goes on with the pending transaction, if there is one.
GoOn_Forgets == Return
GoOn == IF pNodes = {} THEN Return ELSE pc' = "commit_pending"

\* transaction_progress, transaction_destroy: the references are dropped, and
\* the nodes being destroyed that no transaction refers to are freed
\* (container_destroy, workspace_destroy, output_destroy), with their view when
\* it only waited for its container (view_destroy).
DestroyTransaction ==
  LET orphan == {v \in Views : conOf[v] \in Gone}
      freed == {v \in orphan : vstate[v] = "destroying"}
  IN
  /\ pc = "destroy"
  /\ refs' = [n \in Nodes |-> IF n \in qNodes THEN refs[n] - 1 ELSE refs[n]]
  /\ attached' = attached \ qNodes
  /\ life' = [n \in Nodes |-> IF n \in Gone THEN "free" ELSE life[n]]
  /\ pend' = [n \in Nodes |-> IF n \in Gone THEN Unset ELSE pend[n]]
  /\ cur' = [n \in Nodes |-> IF n \in Gone THEN Unset ELSE cur[n]]
  /\ visible' = visible \ Gone
  /\ conOf' = [v \in Views |-> IF v \in orphan THEN None ELSE conOf[v]]
  /\ viewOf' = [c \in Containers |-> IF c \in Gone THEN None ELSE viewOf[c]]
  /\ vstate' = [v \in Views |-> IF v \in freed THEN "none" ELSE vstate[v]]
  /\ saved' = saved \ freed
  /\ qNodes' = {} /\ qState' = [n \in Nodes |-> Unset]
  /\ qSerial' = [n \in Nodes |-> 0] /\ qWaiting' = {}
  /\ numWaiting' = 0 /\ timer' = FALSE
  /\ GoOn
  /\ UNCHANGED <<server_request, caller, dirty, pendingVars, serialVars>>

\* Is the surface commit being handled the answer to the queued transaction?
\* xdg_shell views are recognised by serial, Xwayland views by geometry.
Answers(v) ==
  LET c == conOf[v] IN
  /\ c \in attached
  /\ IF v \in Xwayland THEN qState[c] = caller.box ELSE qSerial[c] = caller.serial

\* set_instruction_ready counts the answers that are waited for.
Counts(c) == c \in qWaiting /\ numWaiting > 0

\* It detaches the node from its instruction: no later commit answers again.
Detached_Never(c) == attached
Detached(c) == attached \ {c}

\* transaction_notify_view_ready_by_serial, ..._by_geometry and
\* set_instruction_ready; then handle_commit returns to the event loop.
Notify ==
  LET c == conOf[caller.view] IN
  /\ pc = "notify"
  /\ IF Answers(caller.view)
     THEN /\ numWaiting' = IF Counts(c) THEN numWaiting - 1 ELSE numWaiting
          /\ timer' = (timer /\ ~(Counts(c) /\ numWaiting = 1))
          /\ attached' = Detached(c)
          /\ pc' = "progress"
     ELSE /\ pc' = "idle"
          /\ UNCHANGED <<numWaiting, timer, attached>>
  /\ caller' = None
  /\ UNCHANGED <<server_request, life, pend, cur, refs, dirty, visible,
                 pendingVars, qNodes, qState, qSerial, qWaiting, viewVars,
                 serialVars>>

-----------------------------------------------------------------------------
\* The steps of the engine itself, which no event interrupts.
Engine ==
  \/ CommitDirty
  \/ \E ok \in BOOLEAN : CommitPending(ok)
  \/ Wait
  \/ Apply
  \/ \E S \in SUBSET Live : \E f \in [S -> Boxes] :
       \E D \in SUBSET (Live \cap Others) : Rebase(S, f, D)
  \/ DestroyTransaction
  \/ Notify

\* What clients do.
Client(v) ==
  \/ NewToplevel(v)
  \/ \E c \in Containers : \E S \in SUBSET (Live \cup {c}) :
       \E f \in [S -> Boxes], vis \in BOOLEAN :
         \E N \in SUBSET (Others \ Allocated) : Map(v, c, N, S, f, vis)
  \/ \E S \in SUBSET Live : \E f \in [S -> Boxes] :
       \E D \in SUBSET (Live \cap Others) : Unmap(v, S, f, D)
  \/ DestroyView(v)
  \/ \E b \in Boxes : RequestConfigure(v, b)
  \/ ConfigureOutside(v)
  \/ SendConfigure(v)
  \/ \E s \in acked[v] .. sent[v], b \in Boxes, resize \in BOOLEAN :
       ClientCommit(v, s, b, resize)

\* What the user does.
User ==
  \E S \in SUBSET Live : \E f \in [S -> Boxes] :
    \E vis \in SUBSET (Containers \cap Allocated) :
      \E N \in SUBSET (Others \ Allocated), D \in SUBSET (Live \cap Others) :
        Edit(S, f, vis, N, D)

Next == Engine \/ HandleTimeout \/ User \/ \E v \in Views : Client(v)

\* The engine runs to completion, and the event loop dispatches an armed timer
\* however many other events keep arriving.  Nothing is assumed of clients.
Fairness == WF_vars(Engine) /\ SF_vars(HandleTimeout)

Spec == Init /\ [][Next]_vars
FairSpec == Spec /\ Fairness

-----------------------------------------------------------------------------
(* Properties *)

\* Every variable has the type its C counterpart has.
TypeOK ==
  /\ pc \in {"idle", "commit_dirty", "commit_pending", "progress", "rebase",
             "destroy", "notify"}
  /\ server_request \in BOOLEAN
  /\ caller \in {None} \cup [view : Views, serial : Nat, box : Boxes]
  /\ life \in [Nodes -> {"free", "live", "destroying"}]
  /\ pend \in [Nodes -> States] /\ cur \in [Nodes -> States]
  /\ refs \in [Nodes -> Nat]
  /\ attached \subseteq Nodes /\ dirty \subseteq Nodes
  /\ visible \subseteq Containers
  /\ pNodes \subseteq Nodes /\ pState \in [Nodes -> States]
  /\ pServer \subseteq Nodes
  /\ qNodes \subseteq Nodes /\ qState \in [Nodes -> States]
  /\ qSerial \in [Nodes -> Nat] /\ qWaiting \subseteq Containers
  /\ numWaiting \in Nat /\ timer \in BOOLEAN
  /\ vstate \in [Views -> {"none", "unmapped", "mapped", "destroying"}]
  /\ conOf \in [Views -> Containers \cup {None}]
  /\ viewOf \in [Containers -> Views \cup {None}]
  /\ saved \subseteq Views
  /\ serial \in [Views -> Nat] /\ sent \in [Views -> Nat]
  /\ acked \in [Views -> Nat]

\* ntxnrefs counts the transactions that hold an instruction for the node,
\* however often it was marked dirty, added and applied (transaction_add_node,
\* transaction_destroy): it decides when the node is freed.
RefsCountTransactions ==
  \A n \in Nodes : refs[n] = (IF n \in pNodes THEN 1 ELSE 0)
                           + (IF n \in qNodes THEN 1 ELSE 0)

\* No freed node is still in a transaction or among the dirty nodes, no view
\* points to a freed container, and the container of a mapped view, which every
\* handler dereferences, is alive (transaction_destroy, container_destroy).
NoDanglingNode ==
  /\ pNodes \cup qNodes \cup dirty \cup attached \subseteq Allocated
  /\ \A v \in Views :
       /\ conOf[v] # None => life[conOf[v]] # "free"
       /\ vstate[v] = "mapped" => conOf[v] # None /\ life[conOf[v]] = "live"

\* A container that is still allocated never outlives its view, although the
\* view may be unmapped, mapped again into another container and destroyed
\* while transactions refer to the first one (view_begin_destroy, view_destroy).
NoDanglingView ==
  \A c \in Containers : life[c] # "free" =>
    viewOf[c] # None /\ vstate[viewOf[c]] # "none"

\* A node being destroyed is still known to the transaction that will free it:
\* transaction_destroy is the only place that does.
NoLeakedNode ==
  \A n \in Nodes : life[n] = "destroying" => n \in dirty \cup pNodes \cup qNodes

\* A node or view lives as long as something refers to it, and no longer: the five above.
LifeCycle ==
  TypeOK /\ RefsCountTransactions /\ NoDanglingNode /\ NoDanglingView /\ NoLeakedNode

\* Between two events a queued transaction waits for some view and has an armed
\* timer, and a pending one only exists behind a queued one: otherwise nothing
\* would ever apply them (transaction_progress, transaction_commit_pending).
NothingStuck ==
  pc = "idle" =>
    /\ qNodes # {} => numWaiting > 0 /\ timer
    /\ pNodes # {} => qNodes # {}
    /\ timer => qNodes # {}

\* num_waiting counts exactly the views whose answer is outstanding: no answer
\* is counted twice, or for a view that was not asked (set_instruction_ready).
NumWaitingCounts ==
  numWaiting > 0 =>
    numWaiting = NumWaiting(Cardinality(qWaiting \cap attached), TRUE)

\* The newest state that was committed for a node is never lost or overwritten
\* by an older one: it is in the newest transaction that holds the node, or
\* current (transaction_add_node, transaction_apply).
NoLostUpdate ==
  \A n \in Nodes \ dirty :
    pend[n] = IF n \in pNodes THEN pState[n]
              ELSE IF n \in qNodes THEN qState[n] ELSE cur[n]

\* A view shows its saved buffer only while a queued transaction holds one of
\* its containers: a saved buffer left behind would freeze the window
\* (view_save_buffer, apply_container_state).
SavedOnlyWhileQueued ==
  pc = "idle" =>
    \A v \in saved : \E c \in qNodes \cap Containers : viewOf[c] = v

\* What is queued is awaited, by count and by timer, and shown until it is applied, and
\* what was committed last is what is shown in the end.
QueueSound == NothingStuck /\ NumWaitingCounts /\ SavedOnlyWhileQueued /\ NoLostUpdate

\* What a handler has committed for a live node becomes current, unless a later
\* handler changes it or the node goes away.
CommittedIsShown ==
  \A n \in Nodes, b \in Boxes :
    (pend[n] = b /\ n \notin dirty) ~> (cur[n] = b \/ pend[n] # b)

\* A node whose destruction has begun is freed, and so is a view
\* (transaction_destroy, container_destroy).
DestructionEnds ==
  /\ \A n \in Nodes : life[n] = "destroying" ~> life[n] = "free"
  /\ \A v \in Views : vstate[v] = "destroying" ~> vstate[v] = "none"

\* The engine implements atomic layout updates: current states change only all
\* together, to the states that were frozen, once nobody is waited for.
Layout == INSTANCE AtomicLayout WITH
  shown <- cur,
  next <- [n \in pNodes |-> pState[n]],
  frozen <- [n \in IF pc \in {"rebase", "destroy"} THEN {} ELSE qNodes |-> qState[n]],
  owed <- IF numWaiting > 0 THEN qWaiting \cap attached ELSE {}

\* Every step of the engine is a step of AtomicLayout or changes nothing in it.
AtomicUpdates == Layout!Spec

\* And every update that is collected is displayed in the end.
AtomicUpdatesComplete == Layout!FairSpec
=============================================================================
