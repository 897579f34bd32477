SPECIFICATION Spec
CONSTANTS
  owner = owner
  helper = helper
  d1 = d1
  d2 = d2
  d3 = d3
  Users = {owner, helper}
  Devices = {d2}
  Owner <- OwnerDef
  Creator = owner
  Waves = {"HIGH","LOW"}
  DailyCap <- TightCapDef
  Workers = {w1}
  Attempts = 2
  Reports = {}
  MaxFaults = 1
  Transient = TRUE
  MaxChanges = 1
INVARIANTS PushesPaid
PROPERTIES RowsSettle
CHECK_DEADLOCK FALSE
