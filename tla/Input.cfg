CONSTANTS
  p1 = p1
  p2 = p2
  w1 = w1
  w2 = w2
  lk = lk
  x1 = x1
  x2 = x2
  x3 = x3
  Devices = {p1, p2}
  Groups = {g1, g2}
  Keys = {1, 2, 3}
  Mod = 3
  Labels <- Two
  Cap = 32
  Surfaces = {w1, w2, lk}
  TextInputs = {x1, x2, x3}
  Popups = {pop}
  Owner <- MCOwner
  LockSurface = lk
  Layouts = {"us", "de"}
  None = none
  Scenes <- PassingScenes
SPECIFICATION Spec
INVARIANTS
  KeysSound
  
  TextFollows
CHECK_DEADLOCK FALSE
