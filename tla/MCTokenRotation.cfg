SPECIFICATION Spec
CONSTANTS
  Pairs = {t1, t2, t3}
  Logins = {t1}
  Requests = {r1, r2}
  MaxPolls = 1
  Faults = TRUE
  NoPair = NoPair
INVARIANTS SameAnswer OneLivePerLogin
SYMMETRY Symmetry
CHECK_DEADLOCK FALSE
