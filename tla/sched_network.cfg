CONSTANTS
  s1 = s1
  s2 = s2
  ip1 = 1
  ip2 = 2
  ip3 = 3
  m32 = m32
  m24 = m24
  None = None
  TheCached = TheCached
  Outdated = Outdated
  Touch = Touch
  Services = {s1, s2}
  IPs = {1, 2}
  Pools = {1}
  PoolNet <- HostBits
  PoolMask <- OneMask
  DefaultMask = m32
  Nodes = {1}
  NodeFilter = "fair"
  Scenarios <- Asking
  InitialNodes = {1}
  Timely = TRUE
  SettledStart = TRUE
  Backlog = 0
SPECIFICATION Spec
INVARIANTS AskersGetTheNetwork
CHECK_DEADLOCK FALSE
