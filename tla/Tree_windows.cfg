SPECIFICATION Spec
INVARIANTS
  WellFormed
PROPERTIES
  
  DragLands
  SelectionMoves
CONSTANTS
  v1 = v1
  v2 = v2
  v3 = v3
  k1 = k1
  k2 = k2
  k3 = k3
  k4 = k4
  k5 = k5
  k6 = k6
  w1 = w1
  w2 = w2
  Views = {v1, v2, v3}
  Columns = {k1, k2, k3, k4, k5, k6}
  Workspaces = {w1, w2}
  None = None
  Freed = Freed
  Scenes = {{"map", "unmap", "move", "direction", "float", "unfloat", "scratchpad", "jump", "criteria", "drag", "drag_workspace", "nomode"},
            {"map", "select", "selection_move"},
            {"map", "unmap", "select", "move", "selection_move", "late"}}
  Insertions = {"after"}
  Focuses = {"view"}
  MoveFocus = "none"
  MaxLate = 2
  Horizontal = TRUE
SYMMETRY Symmetry
VIEW Canonical
