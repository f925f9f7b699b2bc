SPECIFICATION FairSpec
CONSTANTS
  small = small
  large = large
  moved = moved
  Views = {v1}
  Xwayland = {}
  Containers = {c1}
  Others = {w1}
  Boxes = {small,large}
  SizeOf <- MCSizeOf
  Unset = Unset
  None = None
  MaxSerial = 3
  Debug = "none"
PROPERTIES
  CommittedIsShown
  DestructionEnds
  AtomicUpdatesComplete
