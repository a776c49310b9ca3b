SPECIFICATION Spec
CONSTANTS
  Txns = {t1, t2}
  Nobody = Nobody
  MaxAttempts = 4
SYMMETRY CallSymmetry
INVARIANTS
  TypeOK
  ReviewableWork
  AttemptsDistinct
  EndMarked
PROPERTIES
  SweepYields
CHECK_DEADLOCK FALSE
