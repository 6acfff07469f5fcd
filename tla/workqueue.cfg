CONSTANTS
  w1 = w1
  r = r
  Items = {i1, i2, r}
  Workers = {w1, w2, w3}
  NoItem = NoItem
  Users <- OneOrMany
  MaxLen = 3
SPECIFICATION Spec
INVARIANTS TypeOK NeverNil DrainedAtQuit NeverLost OneAtATime Collapsed NoLostWakeup
PROPERTIES Served KeepsPromise
CHECK_DEADLOCK FALSE
