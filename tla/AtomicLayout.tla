---------------------------- MODULE AtomicLayout ----------------------------
(***************************************************************************)
(* What transactions promise (include/sway/desktop/transaction.h): layout  *)
(* changes are collected, frozen, announced to the views concerned, and    *)
(* applied all at once when every view that is owed an answer gave it or a *)
(* timeout has passed.  A layout is a function from some nodes to states;  *)
(* the layout of no node stands for the absence of a transaction.          *)
(***************************************************************************)
CONSTANTS
  Nodes,   \* what can be laid out
  States,  \* what a node can look like
  Unset    \* what a node looks like before its first layout

VARIABLES
  shown,   \* the state every node is displayed with
  next,    \* the changes collected for the next update
  frozen,  \* the update that is announced but not yet displayed
  owed     \* the nodes whose view has still to answer the announcement

avars == <<shown, next, frozen, owed>>

Layouts == UNION {[S -> States] : S \in SUBSET Nodes}
NoLayout == [n \in {} |-> Unset]

\* Layout l with the changes of layout k on top.
Override(l, k) == [n \in (DOMAIN l) \cup (DOMAIN k) |->
                     IF n \in DOMAIN k THEN k[n] ELSE l[n]]

Init ==
  /\ shown = [n \in Nodes |-> Unset]
  /\ next = NoLayout /\ frozen = NoLayout /\ owed = {}

\* Changes may be collected at any time; later ones win.
Submit(k) ==
  /\ next' = Override(next, k)
  /\ UNCHANGED <<shown, frozen, owed>>

\* The collected changes become the one update in flight.
Freeze(W) ==
  /\ next # NoLayout /\ frozen = NoLayout
  /\ W \subseteq DOMAIN next
  /\ frozen' = next /\ next' = NoLayout /\ owed' = W
  /\ UNCHANGED shown

Answer(n) ==
  /\ n \in owed
  /\ owed' = owed \ {n}
  /\ UNCHANGED <<shown, next, frozen>>

\* The timeout has passed.
GiveUp ==
  /\ owed # {}
  /\ owed' = {}
  /\ UNCHANGED <<shown, next, frozen>>

\* The whole update is displayed in one step.
Apply ==
  /\ frozen # NoLayout /\ owed = {}
  /\ shown' = Override(shown, frozen)
  /\ frozen' = NoLayout
  /\ UNCHANGED <<next, owed>>

\* Nodes that no update concerns any more disappear.
Forget(S) ==
  /\ S \cap (DOMAIN next \cup DOMAIN frozen) = {}
  /\ shown' = [n \in Nodes |-> IF n \in S THEN Unset ELSE shown[n]]
  /\ UNCHANGED <<next, frozen, owed>>

Next ==
  \/ \E k \in Layouts : Submit(k)
  \/ \E W \in SUBSET Nodes : Freeze(W)
  \/ \E n \in Nodes : Answer(n)
  \/ GiveUp
  \/ Apply
  \/ \E S \in SUBSET Nodes : Forget(S)

\* Every collected change is frozen, and every frozen update displayed.
Fairness ==
  /\ WF_avars(\E W \in SUBSET Nodes : Freeze(W))
  /\ WF_avars(GiveUp)
  /\ WF_avars(Apply)

Spec == Init /\ [][Next]_avars
FairSpec == Spec /\ Fairness
=============================================================================
