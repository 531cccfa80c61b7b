CONSTANTS
  Thread = {t1, t2, t3}
  FinalizerThread = Fin
  NoThread = NoThread
  Exiter = {Fin}
SPECIFICATION CoordFairSpec
PROPERTY ShutdownTerminates
