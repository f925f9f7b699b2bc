------------------------- MODULE Transaction_proofs -------------------------
(***************************************************************************)
(* Proofs of the invariants of Transaction for any views, containers,      *)
(* nodes, geometries and debug flag, and that it implements AtomicLayout.  *)
(*                                                                         *)
(* None of the invariants is inductive alone.  A node is freed safely      *)
(* because its reference count is right, because it is not dirty when the  *)
(* transaction is destroyed (only a handler that is about to commit marks  *)
(* a node that is being destroyed), and because a view that was mapped     *)
(* several times leaves its older containers in older transactions.        *)
(*                                                                         *)
(* QueueSound speaks of the moments between two events.  Its inductive     *)
(* invariant says what holds instead at each place of the call that        *)
(* commits, announces, applies and destroys a transaction; the answers     *)
(* that num_waiting counts are those of the instructions that are still    *)
(* attached to their nodes.                                                *)
(***************************************************************************)
EXTENDS Transaction, FiniteSetTheorems, TLAPS

\* What is true of the call in progress.
CallInv ==
  /\ pc = "idle" => caller = None
  /\ pc = "commit_pending" => qNodes = {}
  /\ pc # "commit_dirty" => dirty \subseteq Live
  /\ caller # None => vstate[caller.view] = "mapped"
  /\ attached \subseteq qNodes

\* A view and its container point to each other.
LinkInv ==
  \A v \in Views :
    /\ conOf[v] # None => viewOf[conOf[v]] = v
    /\ conOf[v] # None /\ vstate[v] # "mapped" => life[conOf[v]] = "destroying"
    /\ vstate[v] = "none" => conOf[v] = None
    /\ vstate[v] = "destroying" => conOf[v] # None

\* The containers of earlier mappings of a view are freed no later than the
\* container of its last mapping.
OldContainerInv ==
  \A c \in Containers : life[c] # "free" =>
    /\ viewOf[c] \in Views
    /\ conOf[viewOf[c]] # c =>
         /\ conOf[viewOf[c]] # None
         /\ life[c] = "destroying" /\ c \notin dirty
         /\ conOf[viewOf[c]] \in qNodes => c \notin pNodes

IInv ==
  /\ TypeOK
  /\ RefsCountTransactions
  /\ NoDanglingNode
  /\ NoLeakedNode
  /\ CallInv
  /\ LinkInv
  /\ OldContainerInv

\* The number of views a transaction waits for is a natural number.
LEMMA NumWaitingType ==
  ASSUME NEW S \in SUBSET Nodes, NEW ok \in BOOLEAN
  PROVE  NumWaiting(Cardinality(S), ok) \in Nat
<1>1. IsFiniteSet(Nodes)
  BY ConstantAssumption, FS_Union DEF Nodes
<1>2. IsFiniteSet(S)
  BY <1>1, FS_Subset
<1>3. Cardinality(S) \in Nat
  BY <1>2, FS_CardinalityType
<1> QED BY <1>3 DEF NumWaiting, Inflation

LEMMA InitInv == Init => IInv
<1> SUFFICES ASSUME Init PROVE IInv
  OBVIOUS
<1> USE DEF Init
<1>1. TypeOK
  BY DEF TypeOK, States
<1>2. RefsCountTransactions /\ NoDanglingNode /\ NoLeakedNode
  BY DEF RefsCountTransactions, NoDanglingNode, NoLeakedNode
<1>3. CallInv
  BY DEF CallInv
<1>4. LinkInv
  BY DEF LinkInv
<1>5. OldContainerInv
  BY DEF OldContainerInv, Nodes
<1> QED BY <1>1, <1>2, <1>3, <1>4, <1>5 DEF IInv

-----------------------------------------------------------------------------
(* Handlers *)

LEMMA NewToplevelStep ==
  ASSUME IInv, NEW v \in Views, NewToplevel(v) PROVE IInv'
<1> USE DEF IInv, NewToplevel, callVars, nodeVars, pendingVars, queuedVars, serialVars
<1>1. TypeOK'
  BY DEF TypeOK
<1>2. RefsCountTransactions' /\ NoLeakedNode' /\ NoDanglingNode'
  BY DEF RefsCountTransactions, NoLeakedNode, NoDanglingNode, Allocated, TypeOK
<1>3. CallInv'
  BY DEF CallInv, Live, TypeOK
<1>4. LinkInv'
  BY DEF LinkInv, TypeOK
<1>5. OldContainerInv'
  BY DEF OldContainerInv
<1> QED BY <1>1, <1>2, <1>3, <1>4, <1>5

LEMMA MapStep ==
  ASSUME IInv, NEW v \in Views, NEW c \in Containers,
         NEW S \in SUBSET (Live \cup {c}), NEW f \in [S -> Boxes],
         NEW vis \in BOOLEAN, NEW N \in SUBSET (Others \ Allocated),
         Map(v, c, N, S, f, vis)
  PROVE  IInv'
<1> USE ConstantAssumption
    DEF IInv, Map, CallCommitDirty, pendingVars, queuedVars, Nodes
<1>1. TypeOK'
  BY DEF TypeOK, Arranged, States, Live
<1>2. RefsCountTransactions'
  BY DEF RefsCountTransactions
<1>3. NoLeakedNode'
  BY DEF NoLeakedNode, TypeOK
<1>4. NoDanglingNode'
  BY DEF NoDanglingNode, Allocated, Live, TypeOK, LinkInv
<1>5. CallInv'
  BY DEF CallInv, TypeOK
<1>6. LinkInv'
  BY DEF LinkInv, NoDanglingNode, TypeOK
<1>7. OldContainerInv'
  BY DEF OldContainerInv, LinkInv, CallInv, NoDanglingNode, Allocated, Live, TypeOK
<1> QED BY <1>1, <1>2, <1>3, <1>4, <1>5, <1>6, <1>7

LEMMA UnmapStep ==
  ASSUME IInv, NEW v \in Views, NEW S \in SUBSET Live, NEW f \in [S -> Boxes],
         NEW D \in SUBSET (Live \cap Others), Unmap(v, S, f, D)
  PROVE  IInv'
<1> USE ConstantAssumption
    DEF IInv, Unmap, CallCommitDirty, pendingVars, queuedVars, Nodes
<1>0. conOf[v] \in Containers /\ life[conOf[v]] = "live"
  BY DEF NoDanglingNode, TypeOK
<1>1. TypeOK'
  BY <1>0 DEF TypeOK, Arranged, States, Live
<1>2. RefsCountTransactions'
  BY DEF RefsCountTransactions
<1>3. NoLeakedNode'
  BY <1>0 DEF NoLeakedNode, TypeOK
<1>4. NoDanglingNode'
  BY <1>0 DEF NoDanglingNode, Allocated, Live, TypeOK, LinkInv
<1>5. CallInv'
  BY DEF CallInv, TypeOK
<1>6. LinkInv'
  BY <1>0 DEF LinkInv, NoDanglingNode, TypeOK
<1>7. OldContainerInv'
  BY <1>0 DEF OldContainerInv, LinkInv, CallInv, NoDanglingNode, Allocated, Live, TypeOK
<1> QED BY <1>1, <1>2, <1>3, <1>4, <1>5, <1>6, <1>7

LEMMA DestroyViewStep ==
  ASSUME IInv, NEW v \in Views, DestroyView(v) PROVE IInv'
<1> USE DEF IInv, DestroyView, FreedAtOnce, callVars, nodeVars, pendingVars,
            queuedVars, serialVars
<1>1. TypeOK'
  BY DEF TypeOK
<1>2. RefsCountTransactions' /\ NoLeakedNode'
  BY DEF RefsCountTransactions, NoLeakedNode
<1>3. NoDanglingNode'
  BY DEF NoDanglingNode, Allocated, TypeOK
<1>4. CallInv'
  BY DEF CallInv, Live, TypeOK
<1>5. LinkInv'
  BY DEF LinkInv, TypeOK
<1>6. OldContainerInv'
  BY DEF OldContainerInv
<1> QED BY <1>1, <1>2, <1>3, <1>4, <1>5, <1>6

LEMMA EditStep ==
  ASSUME IInv, NEW S \in SUBSET Live, NEW f \in [S -> Boxes],
         NEW vis \in SUBSET (Containers \cap Allocated),
         NEW N \in SUBSET (Others \ Allocated), NEW D \in SUBSET (Live \cap Others),
         Edit(S, f, vis, N, D)
  PROVE  IInv'
<1> USE ConstantAssumption
    DEF IInv, Edit, CallCommitDirty, pendingVars, queuedVars, viewVars,
        serialVars, Nodes
<1>1. TypeOK'
  BY DEF TypeOK, Arranged, States, Live
<1>2. RefsCountTransactions'
  BY DEF RefsCountTransactions
<1>3. NoLeakedNode'
  BY DEF NoLeakedNode, TypeOK
<1>4. NoDanglingNode'
  BY DEF NoDanglingNode, Allocated, Live, TypeOK
<1>5. CallInv'
  BY DEF CallInv, TypeOK
<1>6. LinkInv'
  BY DEF LinkInv, NoDanglingNode, TypeOK, Live, Allocated
<1>7. OldContainerInv'
  BY DEF OldContainerInv, CallInv, Live, TypeOK
<1> QED BY <1>1, <1>2, <1>3, <1>4, <1>5, <1>6, <1>7

LEMMA RequestConfigureStep ==
  ASSUME IInv, NEW v \in Views, NEW b \in Boxes, RequestConfigure(v, b)
  PROVE  IInv'
<1> USE DEF IInv, RequestConfigure, callVars, pendingVars, queuedVars, viewVars,
            serialVars, Nodes
<1>0. conOf[v] \in Containers /\ life[conOf[v]] = "live"
  BY DEF NoDanglingNode, TypeOK
<1>1. TypeOK'
  BY <1>0 DEF TypeOK, States
<1>2. RefsCountTransactions' /\ NoLeakedNode'
  BY DEF RefsCountTransactions, NoLeakedNode
<1>3. NoDanglingNode'
  BY <1>0 DEF NoDanglingNode, Allocated, TypeOK
<1>4. CallInv'
  BY <1>0 DEF CallInv, Live, TypeOK
<1>5. LinkInv'
  BY DEF LinkInv
<1>6. OldContainerInv'
  BY <1>0 DEF OldContainerInv
<1> QED BY <1>1, <1>2, <1>3, <1>4, <1>5, <1>6

LEMMA ClientCommitStep ==
  ASSUME IInv, NEW v \in Views, NEW s \in acked[v] .. sent[v], NEW b \in Boxes,
         NEW resize \in BOOLEAN, ClientCommit(v, s, b, resize)
  PROVE  IInv'
<1> USE DEF IInv, ClientCommit, CallCommitDirty, pendingVars, queuedVars,
            viewVars, Nodes
<1>0. conOf[v] \in Containers /\ life[conOf[v]] = "live"
  BY DEF NoDanglingNode, TypeOK
<1>1. TypeOK'
  <2>1. s \in Nat
    BY DEF TypeOK
  <2>2. caller' \in [view : Views, serial : Nat, box : Boxes]
    BY <2>1
  <2>3. acked' \in [Views -> Nat] /\ serial' \in [Views -> Nat]
    BY <2>1 DEF TypeOK, NextSerial
  <2>4. pend' \in [Nodes -> States] /\ dirty' \subseteq Nodes
    BY <1>0 DEF TypeOK, States
  <2>5. pc' \in {"commit_dirty", "notify"} /\ server_request' \in BOOLEAN
    BY DEF TypeOK
  <2> QED BY <2>2, <2>3, <2>4, <2>5 DEF TypeOK
<1>2. RefsCountTransactions' /\ NoLeakedNode'
  BY DEF RefsCountTransactions, NoLeakedNode
<1>3. NoDanglingNode'
  BY <1>0 DEF NoDanglingNode, Allocated, TypeOK
<1>4. CallInv'
  BY <1>0 DEF CallInv, Live, TypeOK
<1>5. LinkInv'
  BY DEF LinkInv
<1>6. OldContainerInv'
  BY <1>0 DEF OldContainerInv
<1> QED BY <1>1, <1>2, <1>3, <1>4, <1>5, <1>6

\* The handlers that touch configure serials or the timer only.
LEMMA OtherHandlerStep ==
  ASSUME IInv,
         \/ HandleTimeout
         \/ \E v \in Views : ConfigureOutside(v) \/ SendConfigure(v)
  PROVE  IInv'
<1> USE DEF IInv, HandleTimeout, ConfigureOutside, SendConfigure, NextSerial,
            callVars, nodeVars, pendingVars, queuedVars, viewVars, serialVars
<1>1. TypeOK'
  <2>1. CASE HandleTimeout
    BY <2>1 DEF TypeOK
  <2>2. ASSUME NEW v \in Views, ConfigureOutside(v) PROVE TypeOK'
    BY <2>2 DEF TypeOK
  <2>3. ASSUME NEW v \in Views, SendConfigure(v) PROVE TypeOK'
    BY <2>3 DEF TypeOK
  <2> QED BY <2>1, <2>2, <2>3
<1>2. RefsCountTransactions' /\ NoLeakedNode'
  BY DEF RefsCountTransactions, NoLeakedNode
<1>3. NoDanglingNode'
  BY DEF NoDanglingNode, Allocated
<1>4. CallInv'
  BY DEF CallInv, Live
<1>5. LinkInv'
  BY DEF LinkInv
<1>6. OldContainerInv'
  BY DEF OldContainerInv
<1> QED BY <1>1, <1>2, <1>3, <1>4, <1>5, <1>6

-----------------------------------------------------------------------------
(* The engine *)

LEMMA CommitDirtyStep ==
  ASSUME IInv, CommitDirty PROVE IInv'
<1> USE DEF IInv, CommitDirty, AddDirtyNodes, Busy, Return, queuedVars, viewVars,
            serialVars
<1>1. TypeOK'
  <2>1. pState' \in [Nodes -> States] /\ refs' \in [Nodes -> Nat]
    BY DEF TypeOK
  <2>2. pNodes' \subseteq Nodes /\ pServer' \subseteq Nodes /\ dirty' \subseteq Nodes
    BY DEF TypeOK
  <2>3. pc' \in {"idle", "commit_pending", "notify"} /\ server_request' \in BOOLEAN
    OBVIOUS
  <2> QED BY <2>1, <2>2, <2>3 DEF TypeOK
<1>2. RefsCountTransactions'
  BY DEF RefsCountTransactions, TypeOK
<1>3. NoLeakedNode'
  BY DEF NoLeakedNode
<1>4. NoDanglingNode'
  BY DEF NoDanglingNode, Allocated
<1>5. CallInv'
  BY DEF CallInv
<1>6. LinkInv'
  BY DEF LinkInv
<1>7. OldContainerInv'
  BY DEF OldContainerInv
<1> QED BY <1>1, <1>2, <1>3, <1>4, <1>5, <1>6, <1>7

LEMMA CommitPendingStep ==
  ASSUME IInv, NEW ok \in BOOLEAN, CommitPending(ok) PROVE IInv'
<1> USE DEF IInv
<1> USE DEF CommitPending
<1>0. pNodes \subseteq Allocated /\ \A n \in pNodes \cap Containers : viewOf[n] \in Views
  BY DEF NoDanglingNode, OldContainerInv, Allocated
<1>1. qWaiting' \subseteq pNodes \cap Containers /\ qWaiting' \subseteq Nodes
  BY DEF ShouldConfigure, TypeOK
<1>2. numWaiting' \in Nat
  BY <1>1, NumWaitingType
<1>3. qSerial' \in [Nodes -> Nat] /\ serial' \in [Views -> Nat]
  BY <1>0 DEF NextSerial, TypeOK, ShouldConfigure
<1>4. TypeOK'
  BY <1>0, <1>1, <1>2, <1>3 DEF TypeOK, States
<1>5. RefsCountTransactions'
  BY DEF RefsCountTransactions, CallInv
<1>6. NoLeakedNode'
  BY DEF NoLeakedNode, CallInv
<1>7. NoDanglingNode'
  BY DEF NoDanglingNode, Allocated
<1>8. CallInv'
  BY DEF CallInv, Live
<1>9. LinkInv'
  BY DEF LinkInv
<1>10. OldContainerInv'
  BY DEF OldContainerInv
<1> QED BY <1>4, <1>5, <1>6, <1>7, <1>8, <1>9, <1>10

LEMMA WaitStep ==
  ASSUME IInv, Wait PROVE IInv'
<1> USE DEF IInv, Wait, Return, nodeVars, pendingVars, queuedVars, viewVars,
            serialVars
<1>1. TypeOK'
  BY DEF TypeOK
<1>2. RefsCountTransactions' /\ NoLeakedNode'
  BY DEF RefsCountTransactions, NoLeakedNode
<1>3. NoDanglingNode'
  BY DEF NoDanglingNode, Allocated
<1>4. CallInv'
  BY DEF CallInv, Live
<1>5. LinkInv' /\ OldContainerInv'
  BY DEF LinkInv, OldContainerInv
<1> QED BY <1>1, <1>2, <1>3, <1>4, <1>5

LEMMA ApplyStep ==
  ASSUME IInv, Apply PROVE IInv'
<1> USE DEF IInv, Apply, pendingVars, queuedVars, serialVars
<1>1. TypeOK'
  BY DEF TypeOK
<1>2. RefsCountTransactions' /\ NoLeakedNode'
  BY DEF RefsCountTransactions, NoLeakedNode
<1>3. NoDanglingNode'
  BY DEF NoDanglingNode, Allocated
<1>4. CallInv'
  BY DEF CallInv, Live
<1>5. LinkInv' /\ OldContainerInv'
  BY DEF LinkInv, OldContainerInv
<1> QED BY <1>1, <1>2, <1>3, <1>4, <1>5

LEMMA RebaseStep ==
  ASSUME IInv, NEW S \in SUBSET Live, NEW f \in [S -> Boxes],
         NEW D \in SUBSET (Live \cap Others), Rebase(S, f, D)
  PROVE  IInv'
<1> USE ConstantAssumption
    DEF IInv, Rebase, AddDirtyNodes, pendingVars, queuedVars, viewVars,
        serialVars, Nodes
<1>0. pend' \in [Nodes -> States] /\ life' \in [Nodes -> {"free", "live", "destroying"}]
  BY DEF TypeOK, Arranged, States, Live
<1>1. TypeOK'
  BY <1>0 DEF TypeOK, Live
<1>2. RefsCountTransactions'
  BY DEF RefsCountTransactions, TypeOK, Live
<1>3. NoLeakedNode'
  BY DEF NoLeakedNode, TypeOK
<1>4. NoDanglingNode'
  BY DEF NoDanglingNode, Allocated, Live, TypeOK
<1>5. CallInv'
  BY DEF CallInv, Live, TypeOK
<1>6. LinkInv'
  BY DEF LinkInv, NoDanglingNode, TypeOK
<1>7. OldContainerInv'
  BY DEF OldContainerInv, Live, TypeOK
<1> QED BY <1>1, <1>2, <1>3, <1>4, <1>5, <1>6, <1>7

LEMMA DestroyTransactionStep ==
  ASSUME IInv, DestroyTransaction PROVE IInv'
<1> DEFINE orphan == {v \in Views : conOf[v] \in Gone}
<1> USE DEF IInv
<1>0. \A n \in Gone : n \in Nodes /\ life[n] = "destroying" /\ n \in qNodes
                        /\ n \notin pNodes /\ n \notin dirty
  BY DEF Gone, RefsCountTransactions, CallInv, Live, TypeOK, DestroyTransaction
<1>a. /\ pc = "destroy"
      /\ qNodes' = {} /\ attached' = attached \ qNodes
      /\ pNodes' = pNodes /\ dirty' = dirty /\ caller' = caller
      /\ life' = [n \in Nodes |-> IF n \in Gone THEN "free" ELSE life[n]]
      /\ conOf' = [v \in Views |-> IF v \in orphan THEN None ELSE conOf[v]]
      /\ viewOf' = [c \in Containers |-> IF c \in Gone THEN None ELSE viewOf[c]]
      /\ vstate' = [v \in Views |-> IF v \in orphan /\ vstate[v] = "destroying"
                                    THEN "none" ELSE vstate[v]]
  BY DEF DestroyTransaction, pendingVars
<1>b. refs' = [n \in Nodes |-> IF n \in qNodes THEN refs[n] - 1 ELSE refs[n]]
  BY DEF DestroyTransaction
<1>c. pc' \in {"commit_pending", "idle", "notify"} /\ (pc' = "idle" => caller = None)
  BY DEF DestroyTransaction, GoOn, Return
<1>1. TypeOK'
  <2>1. refs' \in [Nodes -> Nat]
    BY <1>b DEF TypeOK, RefsCountTransactions
  <2>2. /\ life' \in [Nodes -> {"free", "live", "destroying"}]
        /\ conOf' \in [Views -> Containers \cup {None}]
        /\ viewOf' \in [Containers -> Views \cup {None}]
        /\ vstate' \in [Views -> {"none", "unmapped", "mapped", "destroying"}]
    BY <1>a DEF TypeOK
  <2>3. pend' \in [Nodes -> States] /\ cur' \in [Nodes -> States]
    BY DEF DestroyTransaction, TypeOK, States
  <2>4. /\ qState' \in [Nodes -> States] /\ qSerial' \in [Nodes -> Nat]
        /\ qWaiting' \subseteq Containers /\ numWaiting' \in Nat /\ timer' \in BOOLEAN
        /\ visible' \subseteq Containers /\ saved' \subseteq Views
        /\ attached' \subseteq Nodes
    BY DEF DestroyTransaction, TypeOK, States
  <2>5. UNCHANGED <<server_request, caller, dirty, pNodes, pState, pServer,
                    serial, sent, acked>>
    BY DEF DestroyTransaction, pendingVars, serialVars
  <2> QED BY <1>a, <1>c, <2>1, <2>2, <2>3, <2>4, <2>5 DEF TypeOK
<1>2. RefsCountTransactions'
  BY <1>a, <1>b DEF RefsCountTransactions, TypeOK
<1>3. NoLeakedNode'
  BY <1>a DEF NoLeakedNode, Gone, RefsCountTransactions, TypeOK
<1>4. NoDanglingNode'
  <2>1. (pNodes \cup qNodes \cup dirty \cup attached \subseteq Allocated)'
    BY <1>0, <1>a DEF NoDanglingNode, Allocated, CallInv, TypeOK
  <2>2. ASSUME NEW v \in Views, conOf'[v] # None
        PROVE  /\ conOf[v] # None /\ conOf[v] \in Containers
               /\ conOf'[v] = conOf[v] /\ life'[conOf[v]] = life[conOf[v]]
    BY <1>a, <2>2 DEF TypeOK, Nodes
  <2>3. ASSUME NEW v \in Views, vstate'[v] = "mapped"
        PROVE  conOf'[v] # None /\ life'[conOf'[v]] = "live"
    BY <1>0, <1>a, <2>3 DEF TypeOK, NoDanglingNode, Nodes
  <2> QED BY <2>1, <2>2, <2>3 DEF NoDanglingNode
<1>5. CallInv'
  BY <1>0, <1>a, <1>c DEF CallInv, Live, TypeOK
<1>6. LinkInv'
  <2> SUFFICES ASSUME NEW v \in Views
               PROVE  /\ conOf'[v] # None => viewOf'[conOf'[v]] = v
                      /\ conOf'[v] # None /\ vstate'[v] # "mapped"
                           => life'[conOf'[v]] = "destroying"
                      /\ vstate'[v] = "none" => conOf'[v] = None
                      /\ vstate'[v] = "destroying" => conOf'[v] # None
    BY DEF LinkInv
  <2>1. CASE v \in orphan
    BY <1>a, <2>1 DEF TypeOK
  <2>2. CASE v \notin orphan
    <3>1. conOf'[v] = conOf[v] /\ vstate'[v] = vstate[v] /\ conOf[v] \notin Gone
      BY <1>a, <2>2 DEF TypeOK
    <3>2. conOf[v] # None =>
            /\ viewOf'[conOf[v]] = viewOf[conOf[v]]
            /\ life'[conOf[v]] = life[conOf[v]]
      BY <1>a, <3>1 DEF TypeOK, Nodes
    <3> QED BY <3>1, <3>2 DEF LinkInv
  <2> QED BY <2>1, <2>2
<1>7. OldContainerInv'
  <2> SUFFICES ASSUME NEW c \in Containers, life'[c] # "free"
               PROVE  /\ viewOf'[c] \in Views
                      /\ conOf'[viewOf'[c]] # c =>
                           /\ conOf'[viewOf'[c]] # None
                           /\ life'[c] = "destroying" /\ c \notin dirty'
    BY <1>a DEF OldContainerInv
  <2>1. c \notin Gone /\ life'[c] = life[c] /\ viewOf'[c] = viewOf[c] /\ c \in Nodes
    BY <1>a DEF Nodes
  <2>2. viewOf[c] \in Views
    BY <2>1 DEF OldContainerInv
  <2>3. CASE conOf[viewOf[c]] = c
    BY <1>a, <2>1, <2>2, <2>3
  <2>4. CASE conOf[viewOf[c]] # c
    <3>1. /\ conOf[viewOf[c]] # None /\ life[c] = "destroying" /\ c \notin dirty
          /\ conOf[viewOf[c]] \in qNodes => c \notin pNodes
      BY <2>1, <2>4 DEF OldContainerInv
    <3>2. conOf[viewOf[c]] \notin Gone
      <4> SUFFICES ASSUME conOf[viewOf[c]] \in Gone PROVE FALSE
        OBVIOUS
      <4>1. c \notin pNodes
        BY <1>0, <3>1
      <4>2. c \in qNodes
        BY <2>1, <3>1, <4>1 DEF NoLeakedNode
      <4> QED BY <2>1, <3>1, <4>1, <4>2 DEF Gone, RefsCountTransactions
    <3> QED BY <1>a, <2>1, <2>2, <3>1, <3>2
  <2> QED BY <2>3, <2>4
<1> QED BY <1>1, <1>2, <1>3, <1>4, <1>5, <1>6, <1>7

\* Notify reads the caller, which is there while pc = "notify".
LEMMA NotifyStep ==
  ASSUME IInv, Notify PROVE IInv'
<1> USE DEF IInv, Notify, Counts, Detached, pendingVars, viewVars, serialVars
<1>1. TypeOK'
  <2>1. numWaiting' \in Nat
    BY DEF TypeOK
  <2>2. timer' \in BOOLEAN /\ attached' \subseteq Nodes
    BY DEF TypeOK
  <2>3. pc' \in {"idle", "progress"} /\ caller' = None
    OBVIOUS
  <2> QED BY <2>1, <2>2, <2>3 DEF TypeOK
<1>2. RefsCountTransactions' /\ NoLeakedNode'
  BY DEF RefsCountTransactions, NoLeakedNode
<1>3. NoDanglingNode'
  BY DEF NoDanglingNode, Allocated
<1>4. CallInv'
  BY DEF CallInv, Live
<1>5. LinkInv' /\ OldContainerInv'
  BY DEF LinkInv, OldContainerInv
<1> QED BY <1>1, <1>2, <1>3, <1>4, <1>5

-----------------------------------------------------------------------------
(* The specification *)

LEMMA NextInv == IInv /\ [Next]_vars => IInv'
<1> SUFFICES ASSUME IInv, [Next]_vars PROVE IInv'
  OBVIOUS
<1>1. CASE Engine
  BY <1>1, CommitDirtyStep, CommitPendingStep, WaitStep, ApplyStep, RebaseStep,
     DestroyTransactionStep, NotifyStep DEF Engine
<1>2. CASE HandleTimeout
  BY <1>2, OtherHandlerStep
<1>3. CASE User
  BY <1>3, EditStep DEF User
<1>4. ASSUME NEW v \in Views, Client(v) PROVE IInv'
  BY <1>4, NewToplevelStep, MapStep, UnmapStep, DestroyViewStep,
     RequestConfigureStep, ClientCommitStep, OtherHandlerStep DEF Client
<1>5. CASE UNCHANGED vars
  <2> USE <1>5 DEF IInv, vars, callVars, nodeVars, pendingVars, queuedVars,
                   viewVars, serialVars
  <2>1. TypeOK'
    BY DEF TypeOK
  <2>2. RefsCountTransactions' /\ NoDanglingNode' /\ NoLeakedNode'
    BY DEF RefsCountTransactions, NoDanglingNode, NoLeakedNode, Allocated
  <2>3. CallInv' /\ LinkInv' /\ OldContainerInv'
    BY DEF CallInv, LinkInv, OldContainerInv, Live
  <2> QED BY <2>1, <2>2, <2>3
<1> QED BY <1>1, <1>2, <1>3, <1>4, <1>5 DEF Next

\* The strengthened invariant holds in every reachable state of the engine.
THEOREM Invariance == Spec => []IInv
BY InitInv, NextInv, PTL DEF Spec

\* Every variable keeps its type (struct sway_transaction, struct sway_node).
THEOREM TypeCorrect == Spec => []TypeOK
<1>1. IInv => TypeOK
  BY DEF IInv
<1> QED BY <1>1, Invariance, PTL

\* node->ntxnrefs is the number of transactions that refer to the node.
THEOREM RefsCorrect == Spec => []RefsCountTransactions
<1>1. IInv => RefsCountTransactions
  BY DEF IInv
<1> QED BY <1>1, Invariance, PTL

\* transaction_destroy frees no node that a transaction, the list of dirty nodes
\* or a view still points to.
THEOREM NodesSafe == Spec => []NoDanglingNode
<1>1. IInv => NoDanglingNode
  BY DEF IInv
<1> QED BY <1>1, Invariance, PTL

\* No container outlives its view, however often the view was mapped again
\* while transactions referred to its earlier containers.
THEOREM ViewsSafe == Spec => []NoDanglingView
<1>1. IInv => NoDanglingView
  <2> SUFFICES ASSUME IInv, NEW c \in Containers, life[c] # "free"
               PROVE  viewOf[c] # None /\ vstate[viewOf[c]] # "none"
    BY DEF NoDanglingView
  <2>1. viewOf[c] \in Views /\ viewOf[c] # None
    BY ConstantAssumption DEF IInv, OldContainerInv
  <2>2. conOf[viewOf[c]] # None
    BY <2>1, ConstantAssumption DEF IInv, OldContainerInv, Nodes
  <2> QED BY <2>1, <2>2 DEF IInv, LinkInv
<1> QED BY <1>1, Invariance, PTL

\* A node whose destruction has begun is always known to the transaction that
\* will free it.
THEOREM NothingLeaked == Spec => []NoLeakedNode
<1>1. IInv => NoLeakedNode
  BY DEF IInv
<1> QED BY <1>1, Invariance, PTL

\* Nodes and views live exactly as long as transactions, dirty nodes or views
\* refer to them (transaction_add_node, transaction_destroy, view_destroy).
THEOREM LifeCycleCorrect == Spec => []LifeCycle
<1>1. TypeOK /\ RefsCountTransactions /\ NoDanglingNode /\ NoDanglingView
        /\ NoLeakedNode => LifeCycle
  BY DEF LifeCycle
<1> QED BY <1>1, TypeCorrect, RefsCorrect, NodesSafe, ViewsSafe, NothingLeaked, PTL

-----------------------------------------------------------------------------
(* The queued and the pending transaction.                                  *)

\* A transaction that waits has its timer, and none is left pending behind nothing.
TimerInv ==
  /\ timer => qNodes # {} /\ numWaiting > 0
  /\ IF pc = "commit_pending" THEN pNodes # {} ELSE pNodes # {} => qNodes # {}
  /\ pc \in {"idle", "commit_dirty", "notify"} => (qNodes # {} => timer)
  /\ pc = "progress" => (qNodes # {} /\ numWaiting > 0 => timer)

\* The transaction that is applied waits for nobody and is what is shown.
AppliedInv ==
  pc \in {"rebase", "destroy"} =>
    /\ qNodes # {} /\ numWaiting = 0
    /\ \A n \in qNodes : cur[n] = qState[n]

\* The containers that keep the saved buffer of a view: those of the queued transaction,
\* and once it is applied only those that the next one will show too.
Keepers ==
  Containers \cap (CASE pc = "commit_pending" -> pNodes
                     [] pc \in {"rebase", "destroy"} -> pNodes \cap qNodes
                     [] OTHER -> qNodes)
SavedInv == \A v \in saved : \E c \in Keepers : viewOf[c] = v

QInv ==
  TimerInv /\ AppliedInv /\ NumWaitingCounts /\ SavedInv /\ NoLostUpdate

LEMMA QInitInv == Init => QInv
<1> SUFFICES ASSUME Init PROVE QInv
  OBVIOUS
<1> USE DEF Init
<1>1. TimerInv /\ AppliedInv
  BY DEF TimerInv, AppliedInv
<1>2. NumWaitingCounts /\ SavedInv
  BY DEF NumWaitingCounts, SavedInv
<1>3. NoLostUpdate
  BY DEF NoLostUpdate
<1> QED BY <1>1, <1>2, <1>3 DEF QInv

\* The queue itself is left alone and some nodes got a new pending state.
LEMMA QEdited ==
  ASSUME IInv, QInv, pc = "idle", pc' \in {"idle", "commit_dirty", "notify"},
         UNCHANGED <<cur, attached, pendingVars, queuedVars>>,
         dirty \subseteq dirty',
         \A n \in Nodes : n \notin dirty' => pend'[n] = pend[n],
         saved' \subseteq saved,
         \A c \in Containers : life[c] # "free" => viewOf'[c] = viewOf[c]
  PROVE  QInv'
<1> USE DEF QInv, pendingVars, queuedVars
<1>1. TimerInv' /\ AppliedInv'
  BY DEF TimerInv, AppliedInv
<1>2. NumWaitingCounts'
  BY DEF NumWaitingCounts
<1>3. SavedInv'
  <2> SUFFICES ASSUME NEW v \in saved' PROVE \E c \in Keepers' : viewOf'[c] = v
    BY DEF SavedInv
  <2>1. PICK c \in Keepers : viewOf[c] = v
    BY DEF SavedInv
  <2>2. c \in Containers \cap qNodes /\ c \in Keepers'
    BY <2>1 DEF Keepers
  <2>3. viewOf'[c] = viewOf[c]
    BY <2>2 DEF IInv, NoDanglingNode, Allocated
  <2> QED BY <2>1, <2>2, <2>3
<1>4. NoLostUpdate'
  BY DEF NoLostUpdate
<1> QED BY <1>1, <1>2, <1>3, <1>4

-----------------------------------------------------------------------------
(* Handlers *)

LEMMA QHandlerStep ==
  ASSUME IInv, QInv, NEW v \in Views,
         NewToplevel(v) \/ DestroyView(v) \/ ConfigureOutside(v) \/ SendConfigure(v)
  PROVE  QInv'
<1> USE DEF NewToplevel, DestroyView, FreedAtOnce, ConfigureOutside, SendConfigure
<1> USE DEF callVars, nodeVars, pendingVars, queuedVars, viewVars
<1>1. pc = "idle" /\ pc' = "idle"
  OBVIOUS
<1>2. UNCHANGED <<cur, attached, pendingVars, queuedVars, pend, dirty, viewOf>>
  OBVIOUS
<1>3. saved' \subseteq saved
  OBVIOUS
<1> QED BY <1>1, <1>2, <1>3, QEdited

LEMMA QMapStep ==
  ASSUME IInv, QInv, NEW v \in Views, NEW c \in Containers,
         NEW S \in SUBSET (Live \cup {c}), NEW f \in [S -> Boxes],
         NEW vis \in BOOLEAN, NEW N \in SUBSET (Others \ Allocated),
         Map(v, c, N, S, f, vis)
  PROVE  QInv'
<1> USE DEF Map, CallCommitDirty
<1>1. \A n \in Nodes : n \notin dirty' => pend'[n] = pend[n]
  BY DEF Arranged
<1>2. \A d \in Containers : life[d] # "free" => viewOf'[d] = viewOf[d]
  BY DEF IInv, TypeOK
<1> QED BY <1>1, <1>2, QEdited

LEMMA QUnmapStep ==
  ASSUME IInv, QInv, NEW v \in Views, NEW S \in SUBSET Live, NEW f \in [S -> Boxes],
         NEW D \in SUBSET (Live \cap Others), Unmap(v, S, f, D)
  PROVE  QInv'
<1> USE DEF Unmap, CallCommitDirty
<1>1. \A n \in Nodes : n \notin dirty' => pend'[n] = pend[n]
  BY DEF Arranged
<1> QED BY <1>1, QEdited

LEMMA QEditStep ==
  ASSUME IInv, QInv, NEW S \in SUBSET Live, NEW f \in [S -> Boxes],
         NEW vis \in SUBSET (Containers \cap Allocated),
         NEW N \in SUBSET (Others \ Allocated), NEW D \in SUBSET (Live \cap Others),
         Edit(S, f, vis, N, D)
  PROVE  QInv'
<1> USE DEF Edit, CallCommitDirty, viewVars
<1>1. \A n \in Nodes : n \notin dirty' => pend'[n] = pend[n]
  BY DEF Arranged
<1> QED BY <1>1, QEdited

LEMMA QRequestConfigureStep ==
  ASSUME IInv, QInv, NEW v \in Views, NEW b \in Boxes, RequestConfigure(v, b)
  PROVE  QInv'
<1> USE DEF RequestConfigure, callVars, viewVars
<1>1. \A n \in Nodes : n \notin dirty' => pend'[n] = pend[n]
  BY DEF IInv, TypeOK
<1> QED BY <1>1, QEdited

LEMMA QClientCommitStep ==
  ASSUME IInv, QInv, NEW v \in Views, NEW s \in acked[v] .. sent[v], NEW b \in Boxes,
         NEW resize \in BOOLEAN, ClientCommit(v, s, b, resize)
  PROVE  QInv'
<1> USE DEF ClientCommit, CallCommitDirty, viewVars
<1>1. pc = "idle" /\ pc' \in {"commit_dirty", "notify"}
  OBVIOUS
<1>2. UNCHANGED <<cur, attached, pendingVars, queuedVars, saved, viewOf>>
  OBVIOUS
<1>3. dirty \subseteq dirty' /\ \A n \in Nodes : n \notin dirty' => pend'[n] = pend[n]
  BY DEF IInv, TypeOK
<1> QED BY <1>1, <1>2, <1>3, QEdited

LEMMA QHandleTimeoutStep ==
  ASSUME QInv, HandleTimeout PROVE QInv'
<1> USE DEF QInv, HandleTimeout, nodeVars, pendingVars, viewVars
<1>1. TimerInv' /\ AppliedInv'
  BY DEF TimerInv, AppliedInv
<1>2. NumWaitingCounts'
  BY DEF NumWaitingCounts
<1>3. SavedInv'
  BY DEF SavedInv, Keepers
<1>4. NoLostUpdate'
  BY DEF NoLostUpdate
<1> QED BY <1>1, <1>2, <1>3, <1>4

-----------------------------------------------------------------------------
(* The engine *)

LEMMA QCommitDirtyStep ==
  ASSUME IInv, QInv, CommitDirty PROVE QInv'
<1> USE DEF IInv, QInv, CommitDirty, AddDirtyNodes, Busy, Return, queuedVars, viewVars
<1>1. TimerInv' /\ AppliedInv'
  BY DEF TimerInv, AppliedInv, CallInv
<1>2. NumWaitingCounts'
  BY DEF NumWaitingCounts
<1>3. SavedInv'
  BY DEF SavedInv, Keepers
<1>4. NoLostUpdate'
  BY DEF NoLostUpdate, TypeOK
<1> QED BY <1>1, <1>2, <1>3, <1>4

LEMMA QCommitPendingStep ==
  ASSUME IInv, QInv, NEW ok \in BOOLEAN, CommitPending(ok) PROVE QInv'
<1> USE DEF IInv, QInv, CommitPending
<1>0. qNodes = {} /\ pNodes # {}
  BY DEF CallInv, TimerInv
<1>1. numWaiting' > 0 => ok = TRUE
  BY DEF NumWaiting
<1>2. TimerInv' /\ AppliedInv'
  BY <1>0, <1>1 DEF TimerInv, AppliedInv
<1>3. NumWaitingCounts'
  <2>1. qWaiting' \cap attached' = qWaiting'
    BY DEF ShouldConfigure
  <2> QED BY <1>1, <2>1 DEF NumWaitingCounts
<1>4. SavedInv'
  BY DEF SavedInv, Keepers
<1>5. NoLostUpdate'
  BY <1>0 DEF NoLostUpdate
<1> QED BY <1>2, <1>3, <1>4, <1>5

LEMMA QWaitStep ==
  ASSUME IInv, QInv, Wait PROVE QInv'
<1> USE DEF IInv, QInv, Wait, Return, nodeVars, pendingVars, queuedVars, viewVars
<1>1. TimerInv' /\ AppliedInv'
  BY DEF TimerInv, AppliedInv
<1>2. NumWaitingCounts'
  BY DEF NumWaitingCounts
<1>3. SavedInv'
  BY DEF SavedInv, Keepers
<1>4. NoLostUpdate'
  BY DEF NoLostUpdate
<1> QED BY <1>1, <1>2, <1>3, <1>4

\* A container whose saved buffer is kept is held by the next transaction too.
LEMMA QApplyStep ==
  ASSUME IInv, QInv, Apply PROVE QInv'
<1> USE DEF IInv, QInv, Apply, pendingVars, queuedVars
<1>1. TimerInv' /\ AppliedInv'
  BY DEF TimerInv, AppliedInv, TypeOK
<1>2. NumWaitingCounts'
  BY DEF NumWaitingCounts
<1>3. SavedInv'
  <2> SUFFICES ASSUME NEW v \in saved' PROVE \E c \in Keepers' : viewOf'[c] = v
    BY DEF SavedInv
  <2>1. PICK c \in Containers \cap qNodes : viewOf[c] = v
    BY DEF SavedInv, Keepers
  <2>2. refs[c] # 1
    BY <2>1 DEF Dropped
  <2>3. c \in pNodes
    BY <2>1, <2>2 DEF RefsCountTransactions, TypeOK
  <2> QED BY <2>1, <2>3 DEF Keepers
<1>4. NoLostUpdate'
  BY DEF NoLostUpdate, TypeOK
<1> QED BY <1>1, <1>2, <1>3, <1>4

LEMMA QRebaseStep ==
  ASSUME IInv, QInv, NEW S \in SUBSET Live, NEW f \in [S -> Boxes],
         NEW D \in SUBSET (Live \cap Others), Rebase(S, f, D)
  PROVE  QInv'
<1> USE DEF IInv, QInv, Rebase, AddDirtyNodes, pendingVars, queuedVars, viewVars
<1>1. TimerInv' /\ AppliedInv'
  BY DEF TimerInv, AppliedInv
<1>2. NumWaitingCounts'
  BY DEF NumWaitingCounts
<1>3. SavedInv'
  BY DEF SavedInv, Keepers
<1>4. NoLostUpdate'
  BY DEF NoLostUpdate, Arranged, TypeOK
<1> QED BY <1>1, <1>2, <1>3, <1>4

LEMMA QDestroyTransactionStep ==
  ASSUME IInv, QInv, DestroyTransaction PROVE QInv'
<1> USE DEF IInv, QInv
<1>0. /\ pc = "destroy" /\ numWaiting' = 0 /\ timer' = FALSE /\ qNodes' = {}
      /\ UNCHANGED <<dirty, pNodes, pState>>
      /\ IF pNodes = {} THEN pc' \in {"idle", "notify"} ELSE pc' = "commit_pending"
  BY DEF DestroyTransaction, GoOn, Return, pendingVars
<1>1. TimerInv' /\ AppliedInv'
  BY <1>0 DEF TimerInv, AppliedInv
<1>2. NumWaitingCounts'
  BY <1>0 DEF NumWaitingCounts
<1>3. SavedInv'
  <2> SUFFICES ASSUME NEW v \in saved' PROVE \E c \in Keepers' : viewOf'[c] = v
    BY DEF SavedInv
  <2>1. v \in saved
    BY DEF DestroyTransaction
  <2>2. PICK c \in Containers \cap pNodes \cap qNodes : viewOf[c] = v
    BY <1>0, <2>1 DEF SavedInv, Keepers
  <2>3. c \notin Gone
    BY <2>2 DEF Gone, RefsCountTransactions, TypeOK
  <2>4. viewOf'[c] = v
    BY <2>2, <2>3 DEF DestroyTransaction
  <2> QED BY <1>0, <2>2, <2>4 DEF Keepers
<1>4. NoLostUpdate'
  <2> SUFFICES ASSUME NEW n \in Nodes, n \notin dirty
               PROVE  pend'[n] = IF n \in pNodes THEN pState[n] ELSE cur'[n]
    BY <1>0 DEF NoLostUpdate
  <2>1. /\ pend'[n] = IF n \in Gone THEN Unset ELSE pend[n]
        /\ cur'[n] = IF n \in Gone THEN Unset ELSE cur[n]
    BY DEF DestroyTransaction
  <2>2. CASE n \in Gone
    BY <2>1, <2>2 DEF Gone, RefsCountTransactions, TypeOK
  <2>3. CASE n \notin Gone
    BY <1>0, <2>1, <2>3 DEF NoLostUpdate, AppliedInv
  <2> QED BY <2>2, <2>3
<1> QED BY <1>1, <1>2, <1>3, <1>4

\* Every answer that is counted takes its node out of those that are waited for.
LEMMA AnswerCounted ==
  ASSUME TypeOK, NumWaitingCounts, numWaiting > 0, NEW c \in qWaiting \cap attached
  PROVE  /\ numWaiting - 1 \in Nat
         /\ numWaiting - 1 > 0 =>
              numWaiting - 1 = NumWaiting(Cardinality(qWaiting \cap (attached \ {c})), TRUE)
         /\ numWaiting - 1 = 0 => qWaiting \cap (attached \ {c}) = {}
<1> DEFINE W == qWaiting \cap attached
           k == Cardinality(W)
           m == Cardinality(W \ {c})
           before == NumWaiting(k, TRUE)
           after == NumWaiting(m, TRUE)
<1>1. IsFiniteSet(W)
  BY ConstantAssumption, FS_Subset DEF TypeOK
<1>2. k \in Nat /\ m \in Nat /\ m = k - 1
  BY <1>1, FS_RemoveElement, FS_CardinalityType
<1>3. W \ {c} = qWaiting \cap (attached \ {c})
  OBVIOUS
<1>4. numWaiting \in Nat /\ numWaiting = before
  BY DEF TypeOK, NumWaitingCounts
<1> HIDE DEF W, k, m
<1>5. before = IF Debug = "noatomic" THEN 0
               ELSE IF Debug = "txn_wait" THEN k + Inflation ELSE k
  BY DEF NumWaiting
<1>6. after = IF Debug = "noatomic" THEN 0
              ELSE IF Debug = "txn_wait" THEN m + Inflation ELSE m
  BY DEF NumWaiting
<1>7. Inflation \in Nat /\ Inflation > 1
  BY SMT DEF Inflation
<1> HIDE DEF before, after
<1>8. numWaiting - 1 \in Nat /\ numWaiting - 1 = after
  BY <1>2, <1>4, <1>5, <1>6, <1>7
<1>9. numWaiting - 1 = 0 => m = 0
  BY <1>2, <1>4, <1>5, <1>7
<1>10. numWaiting - 1 = 0 => W \ {c} = {}
  BY <1>1, <1>9, FS_Subset, FS_EmptySet DEF m
<1> QED BY <1>3, <1>8, <1>10 DEF W, m, after

LEMMA QNotifyStep ==
  ASSUME IInv, QInv, Notify PROVE QInv'
<1> DEFINE answerer == conOf[caller.view]
<1> USE DEF IInv, QInv
<1>0. /\ pc = "notify" /\ pc' \in {"idle", "progress"}
      /\ UNCHANGED <<pend, cur, dirty, pNodes, pState, qNodes, qState, qWaiting,
                     viewOf, saved>>
  BY DEF Notify, pendingVars, viewVars
<1>1. CASE ~Answers(caller.view)
  <2>1. UNCHANGED <<numWaiting, timer, attached>> /\ pc' = "idle"
    BY <1>1 DEF Notify
  <2>2. TimerInv' /\ AppliedInv'
    BY <1>0, <2>1 DEF TimerInv, AppliedInv
  <2>3. NumWaitingCounts'
    BY <1>0, <2>1 DEF NumWaitingCounts
  <2>4. SavedInv' /\ NoLostUpdate'
    BY <1>0, <2>1 DEF SavedInv, NoLostUpdate, Keepers
  <2> QED BY <2>2, <2>3, <2>4
<1>2. CASE Answers(caller.view)
  <2>1. /\ numWaiting' = IF Counts(answerer) THEN numWaiting - 1 ELSE numWaiting
        /\ timer' = (timer /\ ~(Counts(answerer) /\ numWaiting = 1))
        /\ attached' = attached \ {answerer} /\ pc' = "progress"
    BY <1>2 DEF Notify, Detached
  <2>2. answerer \in attached /\ numWaiting \in Nat /\ timer \in BOOLEAN
    BY <1>2 DEF Answers, TypeOK
  <2> HIDE DEF answerer
  <2>3. CASE Counts(answerer)
    <3>1. answerer \in qWaiting \cap attached /\ numWaiting > 0
      BY <2>2, <2>3 DEF Counts
    <3>2. NumWaitingCounts'
      <4>1. numWaiting' = numWaiting - 1 /\ attached' = attached \ {answerer}
        BY <2>1, <2>3
      <4>2. TypeOK /\ NumWaitingCounts
        OBVIOUS
      <4>3. /\ numWaiting - 1 \in Nat
            /\ numWaiting - 1 > 0 =>
                 numWaiting - 1 = NumWaiting(Cardinality(qWaiting \cap (attached \ {answerer})), TRUE)
        BY <3>1, <4>2, AnswerCounted
      <4> QED BY <1>0, <4>1, <4>3 DEF NumWaitingCounts
    <3>3. qNodes # {} => timer
      BY <1>0 DEF TimerInv
    <3>4. timer' => timer /\ numWaiting # 1
      BY <2>1, <2>3, Zenon
    <3>5. timer /\ numWaiting # 1 => timer'
      BY <2>1, <2>3, Zenon
    <3>6. TimerInv' /\ AppliedInv'
      BY <1>0, <2>1, <2>2, <2>3, <3>1, <3>3, <3>4, <3>5 DEF TimerInv, AppliedInv
    <3> QED BY <1>0, <2>1, <3>2, <3>6 DEF SavedInv, NoLostUpdate, Keepers
  <2>4. CASE ~Counts(answerer)
    <3>1. numWaiting > 0 => qWaiting \cap attached' = qWaiting \cap attached
      BY <2>1, <2>2, <2>4 DEF Counts
    <3>2. NumWaitingCounts'
      BY <1>0, <2>1, <2>4, <3>1 DEF NumWaitingCounts
    <3>3. (timer' => timer) /\ (timer => timer')
      BY <2>1, <2>4, Zenon
    <3>4. TimerInv' /\ AppliedInv'
      BY <1>0, <2>1, <2>4, <3>3 DEF TimerInv, AppliedInv
    <3> QED BY <1>0, <2>1, <3>2, <3>4 DEF SavedInv, NoLostUpdate, Keepers
  <2> QED BY <2>3, <2>4
<1> QED BY <1>1, <1>2

-----------------------------------------------------------------------------
(* The specification *)

LEMMA QNextInv == IInv /\ QInv /\ [Next]_vars => QInv'
<1> SUFFICES ASSUME IInv, QInv, [Next]_vars PROVE QInv'
  OBVIOUS
<1>1. CASE Engine
  BY <1>1, QCommitDirtyStep, QCommitPendingStep, QWaitStep, QApplyStep, QRebaseStep,
     QDestroyTransactionStep, QNotifyStep DEF Engine
<1>2. CASE HandleTimeout
  BY <1>2, QHandleTimeoutStep
<1>3. CASE User
  BY <1>3, QEditStep DEF User
<1>4. ASSUME NEW v \in Views, Client(v) PROVE QInv'
  BY <1>4, QHandlerStep, QMapStep, QUnmapStep, QRequestConfigureStep,
     QClientCommitStep DEF Client
<1>5. CASE UNCHANGED vars
  <2> USE <1>5 DEF vars, callVars, nodeVars, pendingVars, queuedVars, viewVars, QInv
  <2>1. TimerInv' /\ AppliedInv'
    BY DEF TimerInv, AppliedInv
  <2>2. NumWaitingCounts'
    BY DEF NumWaitingCounts
  <2>3. SavedInv' /\ NoLostUpdate'
    BY DEF SavedInv, Keepers, NoLostUpdate
  <2> QED BY <2>1, <2>2, <2>3
<1> QED BY <1>1, <1>2, <1>3, <1>4, <1>5 DEF Next

LEMMA QInvariance == Spec => [](IInv /\ QInv)
<1>1. Init => IInv /\ QInv
  BY InitInv, QInitInv
<1>2. IInv /\ QInv /\ [Next]_vars => (IInv /\ QInv)'
  BY NextInv, QNextInv
<1> QED BY <1>1, <1>2, PTL DEF Spec

\* Between two events a queued transaction is awaited by a timer and by an exact
\* count of answers, shows saved buffers for its own containers only, and no
\* committed state is lost (transaction_commit, set_instruction_ready,
\* transaction_apply, transaction_add_node).
THEOREM QueueCorrect == Spec => []QueueSound
<1>1. IInv /\ QInv => QueueSound
  <2> SUFFICES ASSUME IInv, QInv PROVE QueueSound
    OBVIOUS
  <2> USE DEF IInv, QInv
  <2>1. NothingStuck
    BY DEF NothingStuck, TimerInv
  <2>2. SavedOnlyWhileQueued
    BY DEF SavedOnlyWhileQueued, SavedInv, Keepers
  <2> QED BY <2>1, <2>2 DEF QueueSound
<1> QED BY <1>1, QInvariance, PTL

-----------------------------------------------------------------------------
(* The engine implements AtomicLayout *)

\* The state of AtomicLayout that the state of the engine stands for.
Collected == [n \in pNodes |-> pState[n]]
Frozen == [n \in IF pc \in {"rebase", "destroy"} THEN {} ELSE qNodes |-> qState[n]]
Owed == IF numWaiting > 0 THEN qWaiting \cap attached ELSE {}

LEMMA LayoutInit == Init => Layout!Init
BY DEF Init, Layout!Init, Layout!NoLayout

\* What leaves the transactions alone is no step of AtomicLayout.
LEMMA LayoutStutter ==
  ASSUME pc \notin {"rebase", "destroy"}, pc' \notin {"rebase", "destroy"},
         UNCHANGED <<cur, attached, pendingVars, queuedVars>>
  PROVE  UNCHANGED Layout!avars
BY DEF pendingVars, queuedVars, Layout!avars

LEMMA LayoutHandler ==
  ASSUME pc = "idle", User \/ \E v \in Views : Client(v)
  PROVE  UNCHANGED Layout!avars
<1>1. CASE User
  BY <1>1, LayoutStutter DEF User, Edit, CallCommitDirty
<1>2. ASSUME NEW v \in Views, NewToplevel(v) \/ DestroyView(v)
      PROVE  UNCHANGED Layout!avars
  BY <1>2, LayoutStutter DEF NewToplevel, DestroyView, nodeVars, callVars
<1>3. ASSUME NEW v \in Views, ConfigureOutside(v) \/ SendConfigure(v)
      PROVE  UNCHANGED Layout!avars
  BY <1>3, LayoutStutter DEF ConfigureOutside, SendConfigure, nodeVars, callVars
<1>4. ASSUME NEW v \in Views, NEW c \in Containers, NEW S \in SUBSET (Live \cup {c}),
             NEW f \in [S -> Boxes], NEW vis \in BOOLEAN,
             NEW N \in SUBSET (Others \ Allocated), Map(v, c, N, S, f, vis)
      PROVE  UNCHANGED Layout!avars
  BY <1>4, LayoutStutter DEF Map, CallCommitDirty
<1>5. ASSUME NEW v \in Views, NEW S \in SUBSET Live, NEW f \in [S -> Boxes],
             NEW D \in SUBSET (Live \cap Others), Unmap(v, S, f, D)
      PROVE  UNCHANGED Layout!avars
  BY <1>5, LayoutStutter DEF Unmap, CallCommitDirty
<1>6. ASSUME NEW v \in Views, NEW b \in Boxes, RequestConfigure(v, b)
      PROVE  UNCHANGED Layout!avars
  BY <1>6, LayoutStutter DEF RequestConfigure, callVars
<1>7. ASSUME NEW v \in Views, NEW s \in acked[v] .. sent[v], NEW b \in Boxes,
             NEW resize \in BOOLEAN, ClientCommit(v, s, b, resize)
      PROVE  UNCHANGED Layout!avars
  BY <1>7, LayoutStutter DEF ClientCommit, CallCommitDirty
<1> QED BY <1>1, <1>2, <1>3, <1>4, <1>5, <1>6, <1>7 DEF Client

\* A timeout gives up on every view that still owes an answer.
LEMMA LayoutTimeout ==
  ASSUME HandleTimeout PROVE [Layout!Next]_Layout!avars
<1>1. UNCHANGED <<cur, Collected, Frozen>> /\ Owed' = {}
  BY DEF HandleTimeout, nodeVars, pendingVars, Collected, Frozen, Owed
<1> QED BY <1>1 DEF Layout!Next, Layout!GiveUp, Layout!avars, Collected, Frozen, Owed

\* What joins the pending transaction is submitted.
LEMMA LayoutSubmit ==
  ASSUME NEW d \in SUBSET Nodes, NEW p \in [Nodes -> States], NEW server,
         pNodes \subseteq Nodes, AddDirtyNodes(d, p, server),
         UNCHANGED <<cur, Frozen, Owed>>
  PROVE  Layout!Next
<1> DEFINE k == [n \in d |-> p[n]]
<1>1. k \in Layout!Layouts
  BY DEF Layout!Layouts
<1>2. Collected' = Layout!Override(Collected, k)
  BY DEF AddDirtyNodes, Layout!Override, Collected
<1>3. Layout!Submit(k)
  BY <1>2 DEF Layout!Submit, Collected, Frozen, Owed
<1> QED BY <1>1, <1>3 DEF Layout!Next

LEMMA LayoutCommitDirty ==
  ASSUME IInv, CommitDirty PROVE Layout!Next
<1>1. AddDirtyNodes(dirty, pend, server_request)
  BY DEF CommitDirty
<1>2. UNCHANGED <<cur, Frozen, Owed>>
  BY DEF CommitDirty, Return, queuedVars, Frozen, Owed
<1>3. dirty \in SUBSET Nodes /\ pend \in [Nodes -> States] /\ pNodes \subseteq Nodes
  BY DEF IInv, TypeOK
<1> QED BY <1>1, <1>2, <1>3, LayoutSubmit

LEMMA LayoutRebase ==
  ASSUME IInv, IInv', NEW S \in SUBSET Live, NEW f \in [S -> Boxes],
         NEW D \in SUBSET (Live \cap Others), Rebase(S, f, D)
  PROVE  [Layout!Next]_Layout!avars
<1>1. UNCHANGED <<cur, Frozen, Owed>>
  BY DEF Rebase, queuedVars, Frozen, Owed
<1>2. CASE S \cup D = {}
  BY <1>1, <1>2 DEF Rebase, pendingVars, Layout!avars, Frozen, Owed
<1>3. CASE S \cup D # {}
  <2>1. AddDirtyNodes(dirty \cup S \cup D, pend', TRUE)
    BY <1>3 DEF Rebase
  <2>2. dirty \cup S \cup D \in SUBSET Nodes /\ pNodes \subseteq Nodes
    BY DEF IInv, TypeOK, Live
  <2>3. pend' \in [Nodes -> States]
    BY DEF IInv, TypeOK
  <2> QED BY <1>1, <2>1, <2>2, <2>3, LayoutSubmit
<1> QED BY <1>2, <1>3

\* The transaction that is committed is frozen.
LEMMA LayoutCommitPending ==
  ASSUME IInv, QInv, NEW ok \in BOOLEAN, CommitPending(ok) PROVE Layout!Next
<1>1. qNodes = {} /\ pNodes # {} /\ pNodes \subseteq Nodes
  BY DEF IInv, CallInv, QInv, TimerInv, TypeOK, CommitPending
<1>2. /\ Collected # Layout!NoLayout /\ Frozen = Layout!NoLayout
      /\ Frozen' = Collected /\ Collected' = Layout!NoLayout /\ UNCHANGED cur
  BY <1>1 DEF CommitPending, Layout!NoLayout, Collected, Frozen
<1>3. Owed' \subseteq DOMAIN Collected
  BY DEF CommitPending, ShouldConfigure, Owed, Collected
<1>4. Owed' \in SUBSET Nodes
  BY <1>1, <1>3 DEF Collected
<1>5. PICK W \in SUBSET Nodes : W = Owed'
  BY <1>4
<1>6. Layout!Freeze(W)
  BY <1>2, <1>3, <1>5 DEF Layout!Freeze, Collected, Frozen, Owed
<1> QED BY <1>6 DEF Layout!Next

LEMMA LayoutApply ==
  ASSUME IInv, Apply PROVE Layout!Next
<1>1. Frozen # Layout!NoLayout /\ Owed = {}
  BY DEF Apply, Layout!NoLayout, Frozen, Owed
<1>2. cur' = Layout!Override(cur, Frozen)
  BY DEF Apply, Layout!Override, Frozen, IInv, TypeOK
<1>3. Frozen' = Layout!NoLayout /\ UNCHANGED <<Collected, Owed>>
  BY DEF Apply, pendingVars, queuedVars, Layout!NoLayout, Frozen, Collected, Owed
<1>4. Layout!Apply
  BY <1>1, <1>2, <1>3 DEF Layout!Apply, Collected, Frozen, Owed
<1> QED BY <1>4 DEF Layout!Next

\* The nodes that are freed are in no transaction any more.
LEMMA LayoutDestroy ==
  ASSUME IInv, QInv, DestroyTransaction PROVE Layout!Next
<1>1. pc = "destroy" /\ pc' \in {"commit_pending", "idle", "notify"}
  BY DEF DestroyTransaction, GoOn, Return
<1>2. /\ cur' = [n \in Nodes |-> IF n \in Gone THEN Unset ELSE cur[n]]
      /\ UNCHANGED Collected
  BY DEF DestroyTransaction, pendingVars, Collected
<1>3. Frozen' = Frozen
  BY <1>1 DEF DestroyTransaction, Frozen
<1>4. Owed' = {} /\ Owed = {}
  BY <1>1 DEF DestroyTransaction, Owed, QInv, AppliedInv
<1>5. Gone \cap (DOMAIN Collected \cup DOMAIN Frozen) = {}
  BY <1>1 DEF Gone, Collected, Frozen, IInv, RefsCountTransactions, TypeOK
<1>6. Layout!Forget(Gone)
  BY <1>2, <1>3, <1>4, <1>5 DEF Layout!Forget, Collected, Frozen, Owed
<1>7. Gone \in SUBSET Nodes
  BY DEF Gone, IInv, TypeOK
<1> QED BY <1>6, <1>7 DEF Layout!Next

\* A counted answer is an answer; one that nobody waits for changes nothing.
LEMMA LayoutNotify ==
  ASSUME IInv, QInv, Notify PROVE [Layout!Next]_Layout!avars
<1> DEFINE answerer == conOf[caller.view]
<1>1. UNCHANGED <<cur, Collected, Frozen, qWaiting>>
  BY DEF Notify, pendingVars, Collected, Frozen
<1>2. CASE Answers(caller.view) /\ Counts(answerer)
  <2>1. numWaiting' = numWaiting - 1 /\ attached' = attached \ {answerer}
    BY <1>2 DEF Notify, Detached
  <2>2. answerer \in qWaiting \cap attached /\ numWaiting > 0
    BY <1>2 DEF Counts, Answers
  <2> HIDE DEF answerer
  <2>3. TypeOK /\ NumWaitingCounts
    BY DEF IInv, QInv
  <2>4. /\ numWaiting - 1 \in Nat
        /\ numWaiting - 1 = 0 => qWaiting \cap (attached \ {answerer}) = {}
    BY <2>2, <2>3, AnswerCounted
  <2>5. Owed' = Owed \ {answerer} /\ answerer \in Owed /\ answerer \in Nodes
    BY <1>1, <2>1, <2>2, <2>3, <2>4 DEF Owed, TypeOK, Nodes
  <2>6. Layout!Answer(answerer)
    BY <1>1, <2>5 DEF Layout!Answer, Collected, Frozen, Owed
  <2> QED BY <2>5, <2>6 DEF Layout!Next
<1>3. CASE ~(Answers(caller.view) /\ Counts(answerer))
  <2>1. Owed' = Owed
    BY <1>1, <1>3 DEF Notify, Detached, Counts, Owed
  <2> QED BY <1>1, <2>1 DEF Layout!avars, Collected, Frozen, Owed
<1> QED BY <1>2, <1>3

LEMMA LayoutNext ==
  ASSUME IInv, IInv', QInv, [Next]_vars PROVE [Layout!Next]_Layout!avars
<1>1. CASE Engine
  <2>1. ASSUME Wait PROVE UNCHANGED Layout!avars
    BY <2>1, LayoutStutter DEF Wait, Return, nodeVars
  <2> QED BY <1>1, <2>1, LayoutCommitDirty, LayoutCommitPending, LayoutApply,
             LayoutRebase, LayoutDestroy, LayoutNotify DEF Engine
<1>2. CASE HandleTimeout
  BY <1>2, LayoutTimeout
<1>3. CASE User \/ \E v \in Views : Client(v)
  <2>1. CASE User
    BY <2>1, LayoutHandler DEF User, Edit
  <2>2. ASSUME NEW v \in Views, Client(v) PROVE pc = "idle"
    BY <2>2, Zenon DEF Client, NewToplevel, Map, Unmap, DestroyView, RequestConfigure,
                       ConfigureOutside, SendConfigure, ClientCommit
  <2> QED BY <1>3, <2>1, <2>2, LayoutHandler
<1>4. CASE UNCHANGED vars
  BY <1>4 DEF vars, callVars, nodeVars, pendingVars, queuedVars, Layout!avars
<1> QED BY <1>1, <1>2, <1>3, <1>4 DEF Next

\* Layout changes become visible only all together, in the states they were
\* frozen with, once every view that is owed an answer gave it or the timeout
\* passed: the engine implements AtomicLayout (transaction_commit,
\* transaction_progress, transaction_apply).
THEOREM Refinement == Spec => AtomicUpdates
<1>1. Init => Layout!Init
  BY LayoutInit
<1>2. IInv /\ QInv /\ IInv' /\ [Next]_vars => [Layout!Next]_Layout!avars
  BY LayoutNext
<1> QED BY <1>1, <1>2, QInvariance, PTL DEF Spec, AtomicUpdates, Layout!Spec

=============================================================================
