CONSTANTS
  w1 = w1
  w2 = w2
  w3 = w3
  Windows = {w1, w2, w3}
  Spaces = {"a", "b"}
  Panel = panel
  Fingers = {1, 2}
  Left = 1
  Right = 2
  Middle = 3
  Accepts <- MCAccepts
  Cap = 32
  None = none
  Scenes <- PassingScenes
SPECIFICATION Spec
INVARIANTS
  OperationsSound
  OpAlive
  ClientsLetGo
CHECK_DEADLOCK FALSE
