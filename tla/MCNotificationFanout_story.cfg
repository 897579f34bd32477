SPECIFICATION Spec
CONSTANTS
  owner = owner
  helper = helper
  d1 = d1
  d2 = d2
  d3 = d3
  Users = {owner, helper}
  Devices = {d1, d2}
  Owner <- OwnerDef
  Creator = owner
  Waves = {"HIGH"}
  DailyCap <- CapDef
  Workers = {w1, w2}
  Attempts = 1
  Reports = {p1}
  MaxFaults = 1
  Transient = FALSE
  MaxChanges = 0
INVARIANTS StoryOnce StoryToHelpers EmailsPaid
PROPERTIES StoryContract
CONSTRAINT Apart
SYMMETRY Symmetry
CHECK_DEADLOCK FALSE
