SPECIFICATION Spec
CONSTANTS
  Wrappers = {w1, w2, w3, w4}
  Tokens = {t1, t2, t3}
  None = None
CHECK_DEADLOCK FALSE
SYMMETRY Symmetry
INVARIANTS TypeOK NoReturnedCaller CallerIsThere OwnCaller
