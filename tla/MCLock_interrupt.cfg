SPECIFICATION Spec
CONSTANTS
  Thread = {t1, t2}
  Object = {o1}
  NoThread = NoThread
  NoObject = NoObject
  ThinCountMax = 0
  MaxDepth = 1
  Order <- AnyOrder
  Waiter = {t1}
  Interrupter = {t2}
PROPERTIES InterruptNotLost
