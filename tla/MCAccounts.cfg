SPECIFICATION Spec
CONSTANTS
  Users = {u1}
  Sessions = {s1}
  Requests = {r1, r2}
  Emails = {e1, e2}
  Tickets = {t1}
  MaxPasswords = 2
  MaxLinks = 1
  NoUser = NoUser
  NoEmail = NoEmail
  NoSession = NoSession
  NoTicket = NoTicket
INVARIANTS SessionsHaveAccounts PasswordLoginsProven OldPasswordOverlaps RegistrationComplete
SYMMETRY Symmetry
CONSTRAINT LinksApart
CHECK_DEADLOCK FALSE
