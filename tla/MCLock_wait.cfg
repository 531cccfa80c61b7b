SPECIFICATION Spec
CONSTANTS
  Thread = {t1, t2, t3}
  Object = {o1}
  NoThread = NoThread
  NoObject = NoObject
  ThinCountMax = 0
  MaxDepth = 2
  Order <- AnyOrder
  Waiter = {t1, t2}
  Interrupter = {t3}

SYMMETRY WaiterSymmetry
INVARIANTS NotifyNotSwallowed
PROPERTY ImplementsJavaMonitor
