CONSTANTS
  s1 = s1
  s2 = s2
  ip1 = 1
  ip2 = 2
  ip3 = 3
  m32 = m32
  m24 = m24
  None = None
  TheCached = TheCached
  Outdated = Outdated
  Touch = Touch
  Services = {s1}
  IPs = {1}
  Pools = {}
  PoolNet <- NoNet
  PoolMask <- NoMask
  DefaultMask = m32
  Nodes = {1, 2}
  NodeFilter = "fair"
  Scenarios <- StartRace
  InitialNodes = {1, 2}
  Timely = TRUE
  SettledStart = FALSE
  Backlog = 0
SPECIFICATION Spec
PROPERTIES NoNeedlessMove
CHECK_DEADLOCK FALSE
