CONSTANTS
  Thread = {t1, t2, t3}
  FinalizerThread = Fin
  NoThread = NoThread
  Exiter = {t1, t2}
SPECIFICATION CoordFairSpec
INVARIANTS RequestRecorded ShutdownAlive JoinedAfterFinalizers
PROPERTIES RequestServed ShutdownTerminates
