SPECIFICATION Spec
CONSTANTS
  ann = ann
  Invitations = {i1, i2}
  Members = {ann}
  Sender <- SenderDef
  MaxSends = 3
  Requests = {r1, r2}
  dailyLimit = 1
  NoInvitation = NoInvitation
INVARIANTS FailureMatchesStatus OnePending QuotaOvershoot
PROPERTIES ClosedByOvertakenOnly
SYMMETRY Symmetry
CHECK_DEADLOCK FALSE
