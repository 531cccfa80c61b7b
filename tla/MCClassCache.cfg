SPECIFICATION Spec
CONSTANTS
  Thread = {t1, t2}
  Loader = {boot, l1, l2}
  Boot = boot
  Class = {c1, c2, c3}
  NULL = NULL
SYMMETRY Symmetry
INVARIANTS EntriesApart DefinerInitiates
PROPERTIES FreedUncached AbstractSpec
