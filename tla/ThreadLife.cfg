SPECIFICATION FairSpec
CONSTANTS
  Os = {m, s1, s2, e1}
  Main = m
  External = {e1}
  MaxIndex = 4
  Failing = {"internal", "detach"}
  
PROPERTIES JoinReturnsAlone JoinTerminates
CHECK_DEADLOCK FALSE
