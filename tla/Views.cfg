CONSTANTS
  a = a
  b = b
  x = x
  y = y
  ka = ka
  kb = kb
  kx = kx
  ky = ky
  o1 = o1
  o2 = o2
  t1 = t1
  t2 = t2
  Windows = {a, b, x, y}
  Columns = {ka, kb, kx, ky}
  Workspaces = {1, 2, 3}
  Floating = {}
  Sticky = {}
  Outputs = {o1, o2}
  Fallback = fallback
  Root = root
  None = none
  Popups = {p1}
  UrgentTimeout = TRUE
  Layers = {}
  Levels = {}
  Wants = {}
  ClientOf <- Parents
  Tokens = {t1, t2}
  Garbled = garbled
  Lineage <- Processes
  Pid <- PidOf
  Props <- WindowProps
  X11 = {x, y}
  ColumnOf <- ColumnOfWindow
  ParentOf <- Parents
  WantsFloating = {x}
  InputNone = {}
  WantsFocus = {y}
  Scenes <- PassingScenes
SPECIFICATION ViewsSpec
INVARIANTS
  ViewsSound
PROPERTIES
  RulesApplied
  OpensWhereLaunched
CHECK_DEADLOCK FALSE
