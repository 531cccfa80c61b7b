CONSTANTS
    Thread = {t1, t2}
    cS = cS
    cC = cC
    cT = cT
    cH = cH
    mX = mX
    mY = mY
    None = None
    Class <- MCClass
    Code <- MCCode
    super <- MCsuper
    Home <- MCHome
    Ref <- MCRef
    Programs <- MCPrograms
SPECIFICATION FairSpec
INVARIANTS InitializerOwns SuperFirst UncheckedCode AbortAfterError
PROPERTIES ClinitOnce CallsReturn
CHECK_DEADLOCK FALSE
