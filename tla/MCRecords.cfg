SPECIFICATION Spec
CONSTANTS
  Users = {u1, u2}
  Creator = u1
  Keepers = {v1, v2}
  Nobody = Nobody
  Calls = {f1, f2}
  Tokens = {t1, t2}
  NoToken = NoToken
  MaxFix = 2
  ZoneIds = {1, 2, 3, 4}
  MaxZones = 2
  Devices = {d1, d2}
  Holder <- HolderDef
  FRESH = 0
  STALE = 1
  Base = 1
  Expanded = 2
  Far = 3
  MaxTime = 3
  PetTypes = {"cat"}
  MaxPetPhotos = 1
  MaxAdoptionPhotos = 3
  MaxFiles = 2
  SightingIds = {1}
  MaxSightingPhotos = 2
  Batch = 1
  MaxUploads = 4
  Uploaders = {f1, f2, f3}
  Photos = {p1, p2}
SYMMETRY Symmetry
INVARIANTS
  DeviceRowExplained
  CacheExplained
  NobodyMissed
  BestMatchKept
  AdoptedStaysOffBoard
  SightingPhotosKept
  AlertShowsPet
  LimitsOvershootBounded
CHECK_DEADLOCK FALSE
