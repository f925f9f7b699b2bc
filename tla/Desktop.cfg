CONSTANTS
  a = a
  b = b
  f = f
  g = g
  o1 = o1
  o2 = o2
  Windows = {a, b, f, g}
  Columns = {k1, k2}
  Workspaces = {1, 2, 3}
  Floating = {f, g}
  Sticky = {f}
  Outputs = {o1, o2}
  Fallback = fallback
  Root = root
  None = none
  Popups = {}
  UrgentTimeout = TRUE
  l1 = l1
  l2 = l2
  c1 = c1
  Layers = {l1, l2}
  Levels = {"top", "overlay"}
  Wants = {"exclusive", "on_demand"}
  ClientOf <- Clients
  Scenes <- PassingScenes
SPECIFICATION Spec
INVARIANTS
  FocusSound
  OutputsSound
PROPERTIES
  OthersKeepFocus
  LockKeepsKeyboard
SYMMETRY LayerSymmetry
CHECK_DEADLOCK FALSE
