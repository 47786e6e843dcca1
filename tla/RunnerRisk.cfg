SPECIFICATION Spec
CONSTANTS
  b1 = b1
  b2 = b2
  x1 = x1
  Buys = {b1, b2}
  Closes = {x1}
  Threads = {t1, t2}
  Scopes = {global}
  None = None
  Asked <- MCAsked
  Limit = 2
  MaxLosses = 1
  MaxDiffs = 1
INVARIANTS LimitHolds AtMostOneLateOrder AtMostOneStaleRestore
SYMMETRY Symmetry
\* The account may be full and every order final: the system may stop.
CHECK_DEADLOCK FALSE
