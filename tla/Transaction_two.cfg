SPECIFICATION Spec
INVARIANTS
  LifeCycle
  QueueSound
PROPERTIES
  AtomicUpdates
CONSTANTS
  small = small
  large = large
  moved = moved
  Views = {v1,v2}
  Xwayland = {v2}
  Containers = {c1,c2}
  Others = {}
  Boxes = {small,moved}
  SizeOf <- MCSizeOf
  Unset = Unset
  None = None
  MaxSerial = 2
  Debug = "none"
