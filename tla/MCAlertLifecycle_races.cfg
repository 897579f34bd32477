SPECIFICATION Spec
CONSTANTS
  Alerts = {a1, a2}
  Pets = {p1}
  Requests = {r1, r2}
  MaxRenewals = 1
  Faults = TRUE
  NoAlert = NoAlert
  NoPet = NoPet
INVARIANTS TypeOK CelebratedOnlyWhenClosed RenewalsCapped NoDanglingPet
PROPERTY LiveAlertsStayFlagged
SYMMETRY Symmetry
CONSTRAINT SharedPet
CHECK_DEADLOCK FALSE
