SPECIFICATION Spec
CONSTANTS
  Thread = {j1, j2, j3}
  Suspender = {j1, j2}
  Late = {}
  Dumper = sig
  NoThread = none
PROPERTIES AckSeen
CHECK_DEADLOCK FALSE
