SPECIFICATION Spec
CONSTANTS
  owner = owner
  helper = helper
  d1 = d1
  d2 = d2
  d3 = d3
  Users = {owner, helper}
  Devices = {d2}
  Owner <- OwnerDef
  Creator = owner
  Waves = {"HIGH"}
  DailyCap <- CapDef
  Workers = {w1}
  Attempts = 1
  Reports = {}
  MaxFaults = 0
  Transient = FALSE
  MaxChanges = 0
PROPERTIES PushReachesMatched
CHECK_DEADLOCK FALSE
