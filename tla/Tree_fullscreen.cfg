SPECIFICATION Spec
CONSTANTS
  v1 = v1
  v2 = v2
  v3 = v3
  k1 = k1
  k2 = k2
  k3 = k3
  k4 = k4
  w1 = w1
  w2 = w2
  Views = {v1, v2, v3}
  Columns = {k1, k2, k3, k4}
  Workspaces = {w1, w2}
  None = None
  Freed = Freed
  Scenes = {{"map", "unmap", "fullscreen", "global", "float", "scratchpad", "request", "mark", "move"},
            {"map", "fullscreen", "global", "scratchpad", "swap"}}
  Insertions = {"after"}
  Focuses = {"view"}
  MoveFocus = "follow"
  MaxLate = 2
  Horizontal = TRUE
SYMMETRY Symmetry
VIEW Canonical
INVARIANTS
  Covers
PROPERTIES
  HidingUncovers
  SwapExchanges
