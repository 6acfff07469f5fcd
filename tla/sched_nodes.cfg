CONSTANTS
  s1 = s1
  s2 = s2
  ip1 = 1
  ip2 = 2
  ip3 = 3
  m32 = m32
  m24 = m24
  None = None
  TheCached = TheCached
  Outdated = Outdated
  Touch = Touch
  Services = {s1, s2}
  IPs = {1, 2}
  Pools = {}
  PoolNet <- NoNet
  PoolMask <- NoMask
  DefaultMask = m32
  Nodes = {1, 2}
  NodeFilter = "fair"
  Scenarios <- TwoServices
  InitialNodes = {1, 2}
  Timely = TRUE
  SettledStart = TRUE
  Backlog = 0
SPECIFICATION Spec
INVARIANTS FairSpread
PROPERTIES NoNeedlessMove ClaimsAreServed KeepsLedger
CHECK_DEADLOCK FALSE
