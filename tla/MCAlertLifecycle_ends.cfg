SPECIFICATION Spec
CONSTANTS
  Alerts = {a1}
  Pets = {p1}
  Requests = {r1, r2}
  MaxRenewals = 3
  Faults = FALSE
  NoAlert = NoAlert
  NoPet = NoPet
PROPERTIES EveryAlertEnds StatusContract
CHECK_DEADLOCK FALSE
