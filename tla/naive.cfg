CONSTANTS
  None = None
  Services = {s1, s2}
  IPs = {ip1, ip2}
  MaxChanges = 4
  Failures <- CallAndProcess
SPECIFICATION Spec
INVARIANTS TypeOK RequestsAgreeWithStore
PROPERTIES InterfaceFollowsServices
CHECK_DEADLOCK FALSE
