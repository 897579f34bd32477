SPECIFICATION MCSpec
CONSTANTS
  Owners = {o1}
  Addresses = {a1, a2}
  NoAddress = NoAddress
  MaxJobs = 3
  MaxRows = 1
  MaxMails = 1
  Slugs = {"manager"}
  Levels = {1, 100}
  Requests = {r1, r2}
  Creations = {f1, f2}
  MaxTime = 7
  Second = 2
  HourlyCount = 1
  HourlyWindow = 3
  DailyCount = 2
  DailyWindow = 4
  WeeklyCount = 3
  WeeklyWindow = 6
  Users = {u1, u2}
  Nobody = Nobody
  Credentials = {"k1"}
  Challenges = {c1, c2, c3}
  Calls = {f1, f2}
  MaxCount = 2
  MaxId = 2
SYMMETRY Symmetry
CONSTRAINTS Registering OneBan
INVARIANTS
  MailsStayWithOwner
  TrailIsTrue
  AdmissionHolds
  OvershootBounded
PROPERTIES
  BansEndKnowingly
  ChallengesSingleUse
  RetryAfterNotEarly
CHECK_DEADLOCK FALSE
