CONSTANTS
  None = None
  Claim = {c1, c2}
  Nodes = {n1, n2}
  Uid = n1
  MaxChanges = 4
  Failures <- TwoFailures
SPECIFICATION Spec
INVARIANTS TypeOK DeletedIsNotForgotten
PROPERTIES AddressesFollowClaims
CHECK_DEADLOCK FALSE
