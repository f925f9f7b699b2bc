CONSTANTS
  o1 = o1
  o2 = o2
  p1 = p1
  p2 = p2
  p3 = p3
  Ctl = ctl
  Evt = evt
  Clients = {ctl, evt, p1, p2, p3}
  Outputs = {o1, o2}
  Values = {"idle", "busy", "urgent"}
  SocketRoom = 2
  None = none
  Scenes <- PassingScenes
SPECIFICATION Spec
INVARIANTS
  StreamsSound
  BarFollows
PROPERTIES
  NobodyWaits
CHECK_DEADLOCK FALSE
