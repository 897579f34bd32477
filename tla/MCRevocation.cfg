SPECIFICATION TracedSpec
CONSTANTS
  Pairs = {t1, t2}
  Logins = {t1}
  Requests = {r1, r2}
  MaxPolls = 2
  Faults = TRUE
  NoPair = NoPair
INVARIANTS SurvivorsWereMinting
PROPERTIES EveryRequestEnds
CHECK_DEADLOCK FALSE
