------------------------------ MODULE MCSwaybar ------------------------------
(***************************************************************************)
(* The instance of Swaybar that TLC checks.                                *)
(***************************************************************************)
EXTENDS Swaybar

CONSTANTS o1, o2, p1, p2, p3

BarScene(changes, most, outputs, mode, only) ==
  [bar |-> TRUE, changes |-> changes, most |-> most, outputs |-> outputs, limit |-> 64,
   cfg |-> [DefaultConfig EXCEPT !.mode = mode, !.outputs = only],
   peers |-> {}, listeners |-> {}, events |-> {}]

PeerScene(most, peers, listeners, events, limit) ==
  [bar |-> FALSE, changes |-> {"workspace"}, most |-> most, outputs |-> {o1}, limit |-> limit,
   cfg |-> DefaultConfig, peers |-> peers, listeners |-> listeners, events |-> events]

\* Two listeners that may be slow, and a client that ticks; the bar with each kind
\* of change
PassingScenes ==
  {PeerScene(3, {p1, p2}, {p1, p2}, {"workspace"}, 4),
   PeerScene(3, {p1, p3}, {p1}, {"tick"}, 8),
   BarScene({"workspace", "mode"}, 3, {o1}, "dock", {}),
   BarScene({"workspace", "scroller"}, 2, {o1}, "dock", {}),
   BarScene({"workspace", "output"}, 3, {o1}, "dock", {}),
   BarScene({"output"}, 3, {o1}, "dock", {o1}),
   BarScene({"workspace", "modifier", "mode"}, 3, {o1}, "hide", {}),
   BarScene({"config", "outputs", "modifier"}, 3, {o1}, "hide", {}),
   BarScene({"reload", "workspace"}, 3, {o1}, "dock", {}),
   BarScene({"config", "reload"}, 2, {o1}, "dock", {})}

=============================================================================
