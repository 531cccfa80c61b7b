SPECIFICATION Spec
CONSTANTS
  Thread = {t1, t2, t3}
  Object = {o1, o2}
  NoThread = NoThread
  NoObject = NoObject
  ThinCountMax = 0
  MaxDepth = 2
  Order <- AnyOrder
  Waiter = {}
  Interrupter = {}
SYMMETRY Symmetry
INVARIANTS TypeOK MutualExclusion NoLostContender InflateByOwner NoRelock
CHECK_DEADLOCK FALSE
