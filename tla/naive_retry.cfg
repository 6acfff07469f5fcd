CONSTANTS
  None = None
  Services = {s1}
  IPs = {ip1}
  MaxChanges = 3
  Failures <- OneCall
SPECIFICATION Spec
PROPERTIES IPsAreUp
CHECK_DEADLOCK FALSE
