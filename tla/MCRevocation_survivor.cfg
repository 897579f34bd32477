SPECIFICATION TracedSpec
CONSTANTS
  Pairs = {t1, t2}
  Logins = {t1, t2}
  Requests = {r1, r2}
  MaxPolls = 1
  Faults = FALSE
  NoPair = NoPair
INVARIANTS NoSurvivor
CHECK_DEADLOCK FALSE
