------------------------------ MODULE MCServices ------------------------------
(***************************************************************************)
(* Services that share no state, each explored on its own in one run: part *)
(* says which one moves.  The passkeys are extended, the others instances. *)
(***************************************************************************)
EXTENDS Passkeys, Sequences, TLC

CONSTANTS
  Owners, Addresses, NoAddress, MaxJobs, MaxRows, MaxMails,
  Slugs, Levels, Requests,
  Creations, MaxTime, Second,
  HourlyCount, HourlyWindow, DailyCount, DailyWindow, WeeklyCount, WeeklyWindow

VARIABLES
  part,
  owner, had, job, mail, auditLog,
  session, ban, role, userRole, gate, userGate, req,
  now, zset, creation, admitted, told

E == INSTANCE AccountEvents WITH NoOwner <- Nobody
A == INSTANCE Access
L == INSTANCE RateLimit WITH
       Hourly <- [count |-> HourlyCount, window |-> HourlyWindow],
       Daily <- [count |-> DailyCount, window |-> DailyWindow],
       Weekly <- [count |-> WeeklyCount, window |-> WeeklyWindow]

\* Counts and windows are positive, and no window is longer than the week; the creates in
\* flight at one time are finitely many.
ASSUME LimitsAssumption ==
  /\ \A n \in {HourlyCount, DailyCount, WeeklyCount, HourlyWindow, DailyWindow, WeeklyWindow, Second} :
       n \in Nat /\ n > 0
  /\ HourlyWindow <= WeeklyWindow /\ DailyWindow <= WeeklyWindow
  /\ MaxTime \in Nat /\ IsFiniteSet(Creations) /\ Creations # {}

\* What stands for no user and for no address is neither.
ASSUME EventsAssumption == Nobody \notin Owners /\ NoAddress \notin Addresses

\* The accounts of one database.
ASSUME UsersAssumption == IsFiniteSet(Users)

eventVars == <<owner, had, job, mail, auditLog>>
accessVars == <<session, ban, role, userRole, gate, userGate, req>>
limitVars == <<now, zset, creation, admitted, told>>
vars == <<part, eventVars, accessVars, passkeyVars, limitVars>>

MCInit ==
  /\ part \in {"events", "access", "gates", "passkeys", "limits"}
  /\ IF part = "events" THEN E!Init
     ELSE owner = 0 /\ had = 0 /\ job = 0 /\ mail = 0 /\ auditLog = 0
  /\ A!Init /\ Init /\ L!Init
  \* What another part could start from is not varied.
  /\ part # "access" => role["admin"].level = 1
  /\ part # "passkeys" => verified = {}

MCNext ==
  \/ part = "events" /\ E!Next /\ UNCHANGED <<part, accessVars, passkeyVars, limitVars>>
  \* Sessions, bans and roles; then gates and who holds them.
  \/ part = "access" /\ A!Next /\ UNCHANGED <<part, gate, userGate, eventVars, passkeyVars, limitVars>>
  \/ part = "gates" /\ A!Next /\ UNCHANGED <<part, session, ban, eventVars, passkeyVars, limitVars>>
  \/ part = "passkeys" /\ Next /\ UNCHANGED <<part, eventVars, accessVars, limitVars>>
  \/ part = "limits" /\ L!Next /\ UNCHANGED <<part, eventVars, accessVars, passkeyVars>>

MCSpec == MCInit /\ [][MCNext]_vars

MailsStayWithOwner == part = "events" => E!MailsStayWithOwner
TrailIsTrue == part = "events" => E!TrailIsTrue
AdmissionHolds == part \in {"access", "gates"} => A!AdmissionHolds
BansEndKnowingly == A!BansEndKnowingly
OvershootBounded == part = "limits" => L!OvershootBounded
RetryAfterNotEarly == L!RetryAfterNotEarly

\* Bound: a third listener runs beside two others only after a registration, which starts
\* up to three by itself.
Registering ==
  part = "events" =>
    \/ E!BagCardinality(job) <= 2
    \/ \E j \in DOMAIN job : j.event = "CREATED" \/ j.action = "user_created"

\* Bound: one user is banned at a time.
OneBan == part = "access" => Cardinality({u \in Users : ban[u] # "none"}) <= 1

\* Names that no definition tells apart.
Symmetry == Permutations(Addresses) \cup Permutations(Requests) \cup Permutations(Users)
================================================================================
