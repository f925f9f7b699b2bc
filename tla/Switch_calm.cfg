SPECIFICATION FairSpec
INVARIANTS
  SwitchSound
PROPERTIES
  FocusFollowsRequest
  SwitchCompletes
CONSTANTS
  w1 = w1
  w2 = w2
  w3 = w3
  a = a
  b = b
  f = f
  Workspaces = {w1, w2, w3}
  Windows = {a, b, f}
  Floating = {f}
  HomeOf <- MCHomeOf
  First = w1
  None = None
  NSteps = 2
  Enabled = {"default", "workspace_switch", "window_open", "window_move", "window_size"}
  MaxEdits = 4
  Calm = TRUE
CHECK_DEADLOCK FALSE
