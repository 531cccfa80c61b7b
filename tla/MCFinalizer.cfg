CONSTANTS
  o1 = o1
  o2 = o2
  o3 = o3
  Thread = {t1}
  FinalizerThread = Fin
  NoThread = NoThread
  Exiter = {t1}
  Object = {o1, o2, o3}
  HasFinalizer = {o1, o3}
  Ref <- RefChain
  Func = {f1}
  Runner = {t1}
  NoObject = NoObject
SPECIFICATION FairSpec
INVARIANTS HandlerHasWork CustomUnreachable CleanBeforeFree
 
