SPECIFICATION FairSpec
CONSTANTS
  Thread = {j1, j2}
  Suspender = {j1}
  Late = {j2}
  Dumper = sig
  NoThread = none
INVARIANTS   DumpSeesStopped 
  
CHECK_DEADLOCK FALSE
