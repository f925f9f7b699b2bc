------------------------------- MODULE MCDesktop -------------------------------
(***************************************************************************)
(* The instance of Desktop that TLC checks.                                *)
(***************************************************************************)
EXTENDS Desktop

CONSTANTS a, b, f, g, o1, o2, l1, l2, c1

Clients == [l \in Layers |-> c1]

Scene(acts, windows, names, outputs, n, layers) ==
  [acts |-> acts, windows |-> windows, names |-> names, outputs |-> outputs,
   plugs |-> n, layers |-> layers]

Commands == {"window", "focus", "switch", "fullscreen"}
PassingScenes ==
  {Scene(Commands \cup {"move"}, {a, b, f}, {1, 2}, {o1}, 1, {}),
   Scene(Commands \cup {"move"}, {a, g}, {2}, {o1}, 1, {}),
   Scene(Commands \cup {"output"}, {a}, {2}, {o1, o2}, 2, {}),
   Scene({"window", "output", "move"}, {a}, {1, 3}, {o1, o2}, 3, {}),
   Scene({"window", "output"}, {a, f}, {}, {o1, o2}, 3, {}),
   Scene({"window", "layer", "commit"}, {a}, {}, {o1}, 1, {l1, l2}),
   Scene({"output", "layer"}, {}, {}, {o1, o2}, 2, {l1, l2}),
   Scene({"window", "output", "lock"}, {a}, {}, {o1, o2}, 2, {}),
   Scene(Commands \cup {"layer", "lock"}, {a, f}, {2}, {o1}, 1, {l1}),
   Scene({"window", "layer", "lock"}, {a}, {}, {o1}, 1, {l1, l2}),
   Scene({"output", "layer", "lock"}, {}, {}, {o1, o2}, 2, {l1}),
   Scene({"window", "output", "layer", "lock", "grab"}, {a}, {}, {o1}, 1, {l1})}

\* Layer surfaces of one client are interchangeable.
LayerSymmetry == Permutations(Layers)

=============================================================================
