CONSTANTS
  v1 = v1
  v2 = v2
  v3 = v3
  v4 = v4
  Views = {v1, v2, v3, v4}
  Columns = {k1, k2, k3, k4}
  None = none
  Pixel = 10
  Whole = 1200
  Gap = 30
  Beg = 0
  Default <- MCDefault
  Wrap = TRUE
  Fractions = {400, 600, 800}
  Scenes <- PassingScenes
SPECIFICATION Spec
INVARIANTS
  RowInView
  ChoicesKept
PROPERTIES
  FocusKeepsRow
  SwipeEnds
CHECK_DEADLOCK FALSE
