SPECIFICATION FairSpec
CONSTANTS
  Thread = {t1, t2}
  Object = {o1}
  NoThread = NoThread
  NoObject = NoObject
  ThinCountMax = 1
  MaxDepth = 3
  Order <- FixedOrder
  Waiter = {t1, t2}
  Interrupter = {t1, t2}
INVARIANTS OwnershipRecorded FreeRecordClean
PROPERTIES WaiterWakes ContenderReleased
