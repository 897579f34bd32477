-------------------------------- MODULE Access --------------------------------
(***************************************************************************)
(* Who may do what: TokenService.validateAccessToken with BearerTokenGuard,*)
(* RolesGuard and MinUserLevelGuard in front of AdminController, what PUT  *)
(* /users/:id writes of a user's standing, the nightly ban cleanup and the *)
(* commands that make roles and administrators.  A request is admitted on  *)
(* one read of its session and acts later, on whatever the tables hold.    *)
(***************************************************************************)
EXTENDS Naturals, FiniteSets

CONSTANTS
  Users,
  Slugs,        \* slugs of roles besides "admin"
  Levels,       \* levels a role is created with
  Requests,     \* requests and commands in flight (bound)
  Nobody        \* no user

VARIABLES
  session,      \* access token of each user: "live" or "revoked"
  ban,          \* user.banned with banExpires: "none", "timed", "lapsed", "forever"
  role,         \* rows of role
  userRole,     \* rows of user_role
  gate,         \* whether there is a row of gate: no route sets its unique
                \* slug, so a second row collides with the first
  userGate,     \* the users assigned to it
  req           \* requests in flight

gateVars == <<gate, userGate>>
accessVars == <<session, ban, role, userRole, gateVars, req>>

RoleSlugs == Slugs \cup {"admin"}
NoRow == [level |-> 0, active |-> FALSE, row |-> FALSE]
Role == [level : Levels, active : BOOLEAN, row : {TRUE}] \cup {NoRow}

\* roles, gated: the active roles and the gate attached to the request.  late:
\* history, its user was banned or lost one of them or the session after the
\* request's read.
Idle == [pc |-> "free", by |-> Nobody, roles |-> {}, gated |-> FALSE, late |-> FALSE,
         target |-> Nobody, arg |-> "admin"]
Request == [pc : {"free", "unban", "handler", "role", "convert", "gate"},
            by : Users \cup {Nobody}, roles : SUBSET RoleSlugs, gated : BOOLEAN, late : BOOLEAN,
            target : Users \cup {Nobody}, arg : RoleSlugs]

TypeOK ==
  /\ session \in [Users -> {"live", "revoked"}]
  /\ ban \in [Users -> {"none", "timed", "lapsed", "forever"}]
  /\ role \in [RoleSlugs -> Role]
  /\ userRole \subseteq Users \X {s \in RoleSlugs : role[s].row}
  /\ gate \in BOOLEAN /\ userGate \subseteq Users
  /\ gate \/ userGate = {}
  /\ req \in [Requests -> Request]

Init ==
  /\ session = [u \in Users |-> "live"]
  /\ ban = [u \in Users |-> "none"]
  /\ \E level \in Levels :      \* the seeded role
       role = [s \in RoleSlugs |-> IF s = "admin" THEN [level |-> level, active |-> TRUE, row |-> TRUE]
                                                 ELSE NoRow]
  /\ userRole = {}
  /\ gate = FALSE /\ userGate = {}
  /\ req = [r \in Requests |-> Idle]

InForce(u) == ban[u] \in {"timed", "forever"}
ActiveRoles(u) == {s \in RoleSlugs : <<u, s>> \in userRole /\ role[s].active}
\* gate.active: its default, TRUE; neither GateService nor its DTOs set it.
ActiveGates(u) == u \in userGate

\* History: requests of u that were let through before u lost what admitted them.
Overtaken(u) == [r \in Requests |-> IF req[r].by = u THEN [req[r] EXCEPT !.late = TRUE]
                                                     ELSE req[r]]

--------------------------------------------------------------------------------
(* Guards *)

\* Mutant: the session's revocation is not looked at.
Mut_validateAccessToken_revoked(r, u) ==
  /\ req[r].pc = "free"
  /\ ~InForce(u)
  /\ req' = [req EXCEPT ![r] = [Idle EXCEPT !.pc = IF ban[u] = "lapsed" THEN "unban" ELSE "handler",
                                            !.by = u, !.roles = ActiveRoles(u),
                                            !.gated = ActiveGates(u)]]
  /\ UNCHANGED <<session, ban, role, userRole, gateVars>>

\* Mutant: a ban with an end is taken for an expired one.
Mut_validateAccessToken_timed(r, u) ==
  /\ req[r].pc = "free"
  /\ session[u] = "live"
  /\ ban[u] # "forever"
  /\ req' = [req EXCEPT ![r] = [Idle EXCEPT !.pc = IF ban[u] = "none" THEN "handler" ELSE "unban",
                                            !.by = u, !.roles = ActiveRoles(u),
                                            !.gated = ActiveGates(u)]]
  /\ UNCHANGED <<session, ban, role, userRole, gateVars>>

\* The session, its user and the active roles in one read; an expired ban is
\* lifted by a second statement, which names the user only.
validateAccessToken(r, u) ==
  /\ req[r].pc = "free"
  /\ session[u] = "live"
  /\ ~InForce(u)
  /\ req' = [req EXCEPT ![r] = [Idle EXCEPT !.pc = IF ban[u] = "lapsed" THEN "unban" ELSE "handler",
                                            !.by = u, !.roles = ActiveRoles(u),
                                            !.gated = ActiveGates(u)]]
  /\ UNCHANGED <<session, ban, role, userRole, gateVars>>

UnbanExpired(r) ==
  /\ req[r].pc = "unban"
  /\ ban' = [ban EXCEPT ![req[r].by] = "none"]
  /\ req' = [req EXCEPT ![r].pc = "handler"]
  /\ UNCHANGED <<session, role, userRole, gateVars>>

\* RolesGuard: one of the slugs the route names.
RolesGuard(r, slugs) == req[r].roles \cap slugs # {}

\* UserService.userHasMinLevel: a lower level is a higher privilege.
userHasMinLevel(r, minLevel) == \E s \in req[r].roles : role[s].level <= minLevel
MinUserLevelGuard(r, minLevel) == userHasMinLevel(r, minLevel)

AdminRoute(r, minLevel) ==
  /\ req[r].pc = "handler"
  /\ RolesGuard(r, {"admin"})
  /\ MinUserLevelGuard(r, minLevel)

Done(r) == [req EXCEPT ![r] = Idle]

\* A guard refuses, a read-only route answers, or a handler throws.
Answer(r) ==
  /\ req[r].pc = "handler"
  /\ req' = Done(r)
  /\ UNCHANGED <<session, ban, role, userRole, gateVars>>

--------------------------------------------------------------------------------
(* AdminController *)

banUser(r, u, kind) ==
  /\ AdminRoute(r, 10)
  /\ kind \in {"timed", "forever"}
  /\ ban' = [ban EXCEPT ![u] = kind]
  /\ req' = [Overtaken(u) EXCEPT ![r] = Idle]
  /\ UNCHANGED <<session, role, userRole, gateVars>>

unbanUser(r, u) ==
  /\ AdminRoute(r, 10)
  /\ ban' = [ban EXCEPT ![u] = "none"]
  /\ req' = Done(r)
  /\ UNCHANGED <<session, role, userRole, gateVars>>

revokeUserSessions(r, u) ==
  /\ AdminRoute(r, 50)
  /\ session' = [session EXCEPT ![u] = "revoked"]
  /\ req' = [Overtaken(u) EXCEPT ![r] = Idle]
  /\ UNCHANGED <<ban, role, userRole, gateVars>>

\* user, role and pair are read, then the pair is created.
assignRole(r, u, s) ==
  /\ AdminRoute(r, 10)
  /\ role[s].row
  /\ <<u, s>> \notin userRole
  /\ req' = [req EXCEPT ![r] = [Idle EXCEPT !.pc = "role", !.target = u, !.arg = s]]
  /\ UNCHANGED <<session, ban, role, userRole, gateVars>>

\* The unique pair makes a second create an error.
CreateUserRole(r) ==
  /\ req[r].pc \in {"role", "convert"}
  /\ userRole' = userRole \cup {<<req[r].target, req[r].arg>>}
  /\ req' = Done(r)
  /\ UNCHANGED <<session, ban, role, gateVars>>

removeRole(r, u, s) ==
  /\ AdminRoute(r, 10)
  /\ <<u, s>> \in userRole
  /\ userRole' = userRole \ {<<u, s>>}
  /\ req' = [Overtaken(u) EXCEPT ![r] = Idle]
  /\ UNCHANGED <<session, ban, role, gateVars>>

\* session.update gets the path's text for the numeric id: it throws.
revokeSession(r) ==
  /\ AdminRoute(r, 50)
  /\ req' = Done(r)
  /\ UNCHANGED <<session, ban, role, userRole, gateVars>>

\* Read-only routes, one statement per count: each count has an instant of
\* its own.
listSessions == {u \in Users : session[u] = "live"}
getStats ==
  [users |-> [total  |-> Cardinality(Users),
              banned |-> Cardinality({u \in Users : ban[u] # "none"}),
              active |-> Cardinality(Users) - Cardinality({u \in Users : ban[u] # "none"})],
   sessions |-> Cardinality(listSessions),
   roles |-> Cardinality({s \in RoleSlugs : role[s].row}),
   gates |-> IF gate THEN 1 ELSE 0]
getDashboard ==
  [users |-> getStats.users,
   sessions |-> [active |-> getStats.sessions, revoked |-> Cardinality(Users \ listSessions)],
   gates |-> [total |-> getStats.gates, active |-> getStats.gates, used |-> Cardinality(userGate)],
   roles |-> [s \in {x \in RoleSlugs : role[x].row} |-> Cardinality({u \in Users : <<u, s>> \in userRole})]]

--------------------------------------------------------------------------------
(* UserController.update, and the nightly ban cleanup *)

\* A user's own row, or anyone's for an administrator or a manager of any level.
UpdateRoute(r, u) ==
  /\ req[r].pc = "handler"
  /\ req[r].by = u \/ RolesGuard(r, {"admin", "manager"})

\* What a user's row and the rows that hang on it become: of the ban, the
\* sessions and the roles a body names one here (bound), the others keep.
Standing(u) == [ban |-> ban[u], session |-> session[u],
                slugs |-> {s \in RoleSlugs : <<u, s>> \in userRole}]
Bodies(u) ==
       {[Standing(u) EXCEPT !.ban = b] : b \in {"none", "timed", "lapsed", "forever"}}
  \cup {[Standing(u) EXCEPT !.session = x] : x \in {"live", "revoked"}}
  \cup {[Standing(u) EXCEPT !.slugs = X] : X \in SUBSET {s \in RoleSlugs : role[s].row}}

\* One update writes them as given.
updateUser(r, u, body) ==
  /\ UpdateRoute(r, u)
  /\ ban' = [ban EXCEPT ![u] = body.ban]
  /\ session' = [session EXCEPT ![u] = body.session]
  /\ userRole' = {ur \in userRole : ur[1] # u} \cup {<<u, s>> : s \in body.slugs}
  /\ LET loses == \/ body.ban # "none" \/ body.session = "revoked"
                  \/ ~(ActiveRoles(u) \subseteq body.slugs)
     IN  req' = [(IF loses THEN Overtaken(u) ELSE req) EXCEPT ![r] = Idle]
  /\ UNCHANGED <<role, gateVars>>

\* TokenCleanupService: every ban that has run out, in one statement.
cleanupExpiredBans ==
  /\ ban' = [u \in Users |-> IF ban[u] = "lapsed" THEN "none" ELSE ban[u]]
  /\ UNCHANGED <<session, role, userRole, req, gateVars>>

--------------------------------------------------------------------------------
(* GateController and GateService; a user's gates in UserController *)

GateRoute(r) == req[r].pc = "handler" /\ RolesGuard(r, {"admin"})

\* Names are not told apart: with one row the checks by name add nothing to
\* the unique columns.
createGate(r) ==
  /\ GateRoute(r)
  /\ ~gate
  /\ gate' = TRUE
  /\ req' = Done(r)
  /\ UNCHANGED <<session, ban, role, userRole, userGate>>

\* A new name for the row.
updateGate(r) ==
  /\ GateRoute(r)
  /\ gate
  /\ req' = Done(r)
  /\ UNCHANGED <<session, ban, role, userRole, gateVars>>

\* The row is found; then deleteMany names a column that userGate has not:
\* it throws and the row stays.
deleteGate(r) ==
  /\ GateRoute(r)
  /\ gate
  /\ req' = Done(r)
  /\ UNCHANGED <<session, ban, role, userRole, gateVars>>

GateUserRoute(r) == req[r].pc = "handler" /\ RolesGuard(r, {"admin", "manager"})

\* user, gate and pair are read, then the pair is created.
assignGate(r, u) ==
  /\ GateUserRoute(r)
  /\ gate
  /\ u \notin userGate
  /\ req' = [req EXCEPT ![r] = [Idle EXCEPT !.pc = "gate", !.target = u]]
  /\ UNCHANGED <<session, ban, role, userRole, gateVars>>

CreateUserGate(r) ==
  /\ req[r].pc = "gate"
  /\ userGate' = userGate \cup {req[r].target}
  /\ req' = Done(r)
  /\ UNCHANGED <<session, ban, role, userRole, gate>>

removeGate(r, u) ==
  /\ GateUserRoute(r)
  /\ u \in userGate
  /\ userGate' = userGate \ {u}
  /\ req' = [Overtaken(u) EXCEPT ![r] = Idle]
  /\ UNCHANGED <<session, ban, role, userRole, gate>>

\* What the user's page lists.
getUserGates(u) == u \in userGate

\* GET /auth/me: every role of the caller, the inactive ones too, and the gate.
me(r) == [roles |-> {s \in RoleSlugs : <<req[r].by, s>> \in userRole},
          gated |-> getUserGates(req[r].by)]

--------------------------------------------------------------------------------
(* Commands *)

CreateRoleCommand(s, level, active) ==
  /\ ~role[s].row
  /\ role' = [role EXCEPT ![s] = [level |-> level, active |-> active, row |-> TRUE]]
  /\ UNCHANGED <<session, ban, userRole, req, gateVars>>

\* Roles whose level number is at least that of "admin"; the prompts lie
\* between the reads and the write.
ConvertToAdminCommand(r, u, s) ==
  /\ req[r].pc = "free"
  /\ role["admin"].active
  /\ role[s].active /\ role[s].level >= role["admin"].level
  /\ <<u, s>> \notin userRole
  /\ req' = [req EXCEPT ![r] = [Idle EXCEPT !.pc = "convert", !.target = u, !.arg = s]]
  /\ UNCHANGED <<session, ban, role, userRole, gateVars>>

--------------------------------------------------------------------------------
\* Time: banExpires passes.
BanLapses(u) ==
  /\ ban[u] = "timed"
  /\ ban' = [ban EXCEPT ![u] = "lapsed"]
  /\ UNCHANGED <<session, role, userRole, req, gateVars>>

Next ==
  \/ \E r \in Requests, u \in Users :
       \/ validateAccessToken(r, u)
       \/ \E kind \in {"timed", "forever"} : banUser(r, u, kind)
       \/ unbanUser(r, u)
       \/ revokeUserSessions(r, u)
       \/ assignGate(r, u) \/ removeGate(r, u)
       \/ \E s \in RoleSlugs :
            assignRole(r, u, s) \/ removeRole(r, u, s) \/ ConvertToAdminCommand(r, u, s)
       \/ \E body \in Bodies(u) : updateUser(r, u, body)
  \/ \E r \in Requests :
       \/ UnbanExpired(r) \/ Answer(r) \/ CreateUserRole(r) \/ revokeSession(r)
       \/ createGate(r) \/ updateGate(r) \/ deleteGate(r) \/ CreateUserGate(r)
  \/ \E s \in RoleSlugs, level \in Levels, active \in BOOLEAN :
       CreateRoleCommand(s, level, active)
  \/ \E u \in Users : BanLapses(u)
  \/ cleanupExpiredBans

Spec == Init /\ [][Next]_accessVars

--------------------------------------------------------------------------------
(* Properties *)

\* What validateAccessToken (token.service.ts:261) let through still holds
\* when the handler acts - no ban in force, the roles and the gate attached
\* held - unless the user lost it after the request's read; and what an
\* administrator is shown agrees: the user is in listSessions, the roles and
\* the gate are on the user's own page (me), and getStats counts at least the admitted users as active.
AdmissionHolds ==
  LET admitted == {r \in Requests : req[r].pc = "handler" /\ ~req[r].late}
  IN  /\ \A r \in admitted :
           /\ req[r].by \in listSessions
           /\ ban[req[r].by] = "none"
           /\ req[r].roles \subseteq ActiveRoles(req[r].by)
           /\ req[r].roles \subseteq me(r).roles /\ (req[r].gated => me(r).gated)
      /\ Cardinality({req[r].by : r \in admitted}) <= getDashboard.users.active

\* A ban in force is ended, other than by time, by a request that acts in this
\* step: one let in with the role of an administrator or a manager (the unban
\* route asks a level of 10 or less, PUT /users/:id no level), or one of the
\* banned user that was let in before the ban - it lifts an earlier, expired ban
\* by an UPDATE that names the user only (token.service.ts:301), or writes the
\* user's own row (user.controller.ts:244).  A request let in under the ban
\* never ends it, nor does the nightly cleanup.
BansEndKnowingly ==
  [][\A u \in Users :
       InForce(u) /\ (ban'[u] = "none" \/ (ban[u] = "forever" /\ ban'[u] = "lapsed")) =>
         \E r \in Requests :
           /\ req[r].pc \in {"unban", "handler"} /\ req'[r].pc # req[r].pc
           /\ \/ req[r].by = u /\ req[r].late
              \/ req[r].pc = "handler" /\ RolesGuard(r, {"admin", "manager"})]_accessVars

================================================================================
