------------------------------ MODULE AccountEvents ------------------------------
(***************************************************************************)
(* What follows a change of an account: the hooks of better-auth (auth.ts) *)
(* emit events, listeners of UserService send mails through EmailService   *)
(* and emit audit events, AuditLogService appends a row.  Every listener   *)
(* runs on its own, after the caller has gone on: the account may have     *)
(* another address, or be deleted, when it runs.  Texts are left out.      *)
(***************************************************************************)
EXTENDS Naturals, Sequences, FiniteSets, Bags

CONSTANTS
  Owners,       \* ids of users
  Addresses,
  MaxJobs,      \* listeners running at once (bound)
  MaxRows,      \* rows of audit_log (bound)
  MaxMails,     \* different mails accepted (bound)
  NoOwner, NoAddress

VARIABLES
  owner,        \* rows of user: address, or NoAddress when there is no row
  had,          \* history: addresses each user has had
  job,          \* bag of listeners in flight
  mail,         \* history: mails a provider accepted
  auditLog      \* rows of audit_log

eventVars == <<owner, had, job, mail, auditLog>>

Templates == {"welcome", "forgotPassword", "passwordChanged", "accountVerification",
              "emailChangeConfirmation", "accountDeletionVerification"}

Events == {"CREATED", "WELCOME", "ACCOUNT_VERIFICATION_EMAIL_REQUESTED", "PASSWORD_RESET_EMAIL_REQUESTED",
           "PASSWORD_UPDATED", "EMAIL_VERIFIED", "EMAIL_CHANGE_CONFIRMATION_REQUESTED",
           "ACCOUNT_DELETION_VERIFICATION_REQUESTED", "ACCOUNT_DELETED"}

\* A listener: the event with its payload, and once it emitted one, the audit event.
NoJob == [event |-> "none", pc |-> "run", user |-> NoOwner, addr |-> NoAddress,
          new |-> NoAddress, source |-> "none", action |-> "none"]

Sources == {"none", "reset", "change", "admin"}
Actions == {"none", "reset_requested", "reset_completed", "password_changed",
            "email_verified", "change_requested", "deletion_requested", "account_deleted",
            "user_login", "login_failed", "reuse_detected", "user_created"}

Job == [event : Events \cup {"none"}, pc : {"run", "audit"},
        user : Owners \cup {NoOwner}, addr : Addresses \cup {NoAddress},
        new : Addresses \cup {NoAddress}, source : Sources, action : Actions]

\* entity is a plain number; user is a reference, set to null when the user goes.
AuditRow == [action : Actions \ {"none"}, entity : Owners \cup {NoOwner},
             user : Owners \cup {NoOwner}, eventType : {"CREATE", "UPDATE", "DELETE", "LOGIN", "FAILURE"},
             actorType : {"user", "system"}, success : BOOLEAN]

TypeOK ==
  /\ owner \in [Owners -> Addresses \cup {NoAddress}]
  /\ had \in [Owners -> SUBSET Addresses]
  /\ IsABag(job) /\ BagToSet(job) \subseteq Job /\ BagCardinality(job) <= MaxJobs
  /\ mail \subseteq [template : Templates, user : Owners, to : Addresses]
  /\ auditLog \in Seq(AuditRow) /\ Len(auditLog) <= MaxRows

Init ==
  /\ \E f \in [Owners -> Addresses] :
       /\ \A u, v \in Owners : f[u] = f[v] => u = v
       /\ owner = f /\ had = [u \in Owners |-> {f[u]}]
  /\ job = EmptyBag
  /\ mail = {} /\ auditLog = <<>>

Exists(u) == owner[u] # NoAddress

--------------------------------------------------------------------------------
(* Events: EventEmitter2 with async listeners *)

Spawn(listeners) ==
  /\ BagCardinality(job) + Cardinality(listeners) <= MaxJobs
  /\ job' = job (+) SetToBag(listeners)

Audit(u, action) == [NoJob EXCEPT !.pc = "audit", !.user = u, !.action = action]

\* The payload carries the user as the emitter knew it.
Payload(event, u, source) ==
  [NoJob EXCEPT !.event = event, !.pc = "run", !.user = u, !.addr = owner[u], !.source = source]

emit(event, u, source) == Spawn({Payload(event, u, source)})

Hook(event, u, source) ==
  /\ Exists(u)
  /\ emit(event, u, source)
  /\ UNCHANGED <<owner, had, mail, auditLog>>

\* First sign-in by a social provider: the welcome is not waited for.
Welcome(u) ==
  /\ Exists(u)
  /\ Spawn({Audit(u, "user_created"), Payload("WELCOME", u, "none")})
  /\ UNCHANGED <<owner, had, mail, auditLog>>

\* UserService.store: two events, then the welcome.
StoreUser(u) ==
  /\ Exists(u)
  /\ Spawn({Audit(u, "user_created"), Payload("CREATED", u, "none"), Payload("WELCOME", u, "none")})
  /\ UNCHANGED <<owner, had, mail, auditLog>>
sendVerificationEmailHook(u) ==
  Hook("ACCOUNT_VERIFICATION_EMAIL_REQUESTED", u, "none")
sendResetPassword(u) == Hook("PASSWORD_RESET_EMAIL_REQUESTED", u, "none")
onPasswordReset(u) == Hook("PASSWORD_UPDATED", u, "reset")
afterEmailVerification(u) == Hook("EMAIL_VERIFIED", u, "none")
sendChangeEmailConfirmation(u, e) ==
  /\ Exists(u)
  /\ \A v \in Owners : owner[v] # e
  /\ Spawn({[Payload("EMAIL_CHANGE_CONFIRMATION_REQUESTED", u, "none") EXCEPT !.new = e]})
  /\ UNCHANGED <<owner, had, mail, auditLog>>
sendDeleteAccountVerification(u) ==
  Hook("ACCOUNT_DELETION_VERIFICATION_REQUESTED", u, "none")

\* AuthController.updatePassword: the payload has the id only.
UpdatePassword(u) ==
  /\ Exists(u)
  /\ Spawn({[Payload("PASSWORD_UPDATED", u, "change") EXCEPT !.addr = NoAddress]})
  /\ UNCHANGED <<owner, had, mail, auditLog>>

\* UserService.updateUserPassword: an audit event of its own, and the same event.
updateUserPassword(u) ==
  /\ Exists(u)
  /\ Spawn({Audit(u, "password_changed"),
             [Payload("PASSWORD_UPDATED", u, "admin") EXCEPT !.addr = NoAddress]})
  /\ UNCHANGED <<owner, had, mail, auditLog>>

\* Logins and failures are audit events at once; a failed login names no user.
Report(u, action) ==
  /\ u # NoOwner => Exists(u)
  /\ Spawn({Audit(u, action)})
  /\ UNCHANGED <<owner, had, mail, auditLog>>

issueTokens(u) == Report(u, "user_login")
LoginFailed == Report(NoOwner, "login_failed")
mapSocialSignInError == Report(NoOwner, "login_failed")
ReuseDetected(u) == Report(u, "reuse_detected")

\* The change of address is confirmed.
ChangeAddress(u, e) ==
  /\ Exists(u)
  /\ \A v \in Owners : owner[v] # e
  /\ owner' = [owner EXCEPT ![u] = e]
  /\ had' = [had EXCEPT ![u] = @ \cup {e}]
  /\ UNCHANGED <<job, mail, auditLog>>

\* The foreign key of audit_log: ON DELETE SET NULL.
Unlink(u) ==
  [i \in DOMAIN auditLog |-> IF auditLog[i].user = u THEN [auditLog[i] EXCEPT !.user = NoOwner]
                             ELSE auditLog[i]]

\* deleteUser: beforeDelete only logs, the row goes, afterDelete emits.
DeleteAccount(u) ==
  /\ Exists(u)
  /\ emit("ACCOUNT_DELETED", u, "none")
  /\ owner' = [owner EXCEPT ![u] = NoAddress]
  /\ auditLog' = Unlink(u)
  /\ UNCHANGED <<had, mail>>

--------------------------------------------------------------------------------
(* EmailService and its providers *)

\* SmtpService.send resolves when the server took the message, even if it refused
\* some recipients; MailgunService.send when the API answered.  Else they throw.
smtpSend == {"accepted", "error"}
mailgunSend == {"accepted", "error"}
Provider == smtpSend \cup mailgunSend   \* MAIL_SYSTEM chooses one

\* loadTemplate throws for a name that is not registered.
loadTemplate(t) == t \in Templates

send(outcome, t, u, to) ==
  IF outcome = "accepted"
  THEN /\ mail' = mail \cup {[template |-> t, user |-> u, to |-> to]}
       /\ Cardinality(mail') <= MaxMails
  ELSE UNCHANGED mail

sendHtml(outcome, t, u, to) == loadTemplate(t) /\ send(outcome, t, u, to)

sendAccountVerificationEmail(o, u, to) == sendHtml(o, "accountVerification", u, to)
sendWelcomeEmail(o, u, to) == sendHtml(o, "welcome", u, to)
sendForgotPasswordEmail(o, u, to) == sendHtml(o, "forgotPassword", u, to)
sendPasswordChangedEmail(o, u, to) == sendHtml(o, "passwordChanged", u, to)
sendEmailChangeConfirmationEmail(o, u, to) == sendHtml(o, "emailChangeConfirmation", u, to)
sendAccountDeletionVerificationEmail(o, u, to) == sendHtml(o, "accountDeletionVerification", u, to)

--------------------------------------------------------------------------------
(* Listeners of UserService.  After the mail comes the audit event, if any. *)

Running(j, event) == j.pc = "run" /\ j.event = event
Free(j) == job' = job (-) SetToBag({j})
Become(j, next) == job' = (job (-) SetToBag({j})) (+) SetToBag({next})

emitAudit(j, action) ==
  Become(j, Audit(j.user, action))

\* A mail that cannot be sent ends the listener; its error is logged.
Then(j, outcome, action) ==
  IF outcome = "accepted" /\ action # "none"
  THEN emitAudit(j, action)
  ELSE Free(j)

handleUserCreatedEvent(j) ==
  /\ Running(j, "CREATED")
  /\ IF \E u \in Owners : owner[u] = j.addr
     THEN Become(j, [j EXCEPT !.event = "ACCOUNT_VERIFICATION_EMAIL_REQUESTED"])
     ELSE Free(j)
  /\ UNCHANGED <<owner, had, mail, auditLog>>

SendWelcome(j, o) ==
  /\ Running(j, "WELCOME")
  /\ sendWelcomeEmail(o, j.user, j.addr)
  /\ Then(j, o, "none")
  /\ UNCHANGED <<owner, had, auditLog>>

handleAccountVerificationEmailRequested(j, o) ==
  /\ Running(j, "ACCOUNT_VERIFICATION_EMAIL_REQUESTED")
  /\ sendAccountVerificationEmail(o, j.user, j.addr)
  /\ Then(j, o, "none")
  /\ UNCHANGED <<owner, had, auditLog>>

\* Mutant: the request is recorded although the mail was refused.
Mut_handlePasswordResetEmailRequested_anyway(j, o) ==
  /\ Running(j, "PASSWORD_RESET_EMAIL_REQUESTED")
  /\ sendForgotPasswordEmail(o, j.user, j.addr)
  /\ emitAudit(j, "reset_requested")
  /\ UNCHANGED <<owner, had, auditLog>>

handlePasswordResetEmailRequested(j, o) ==
  /\ Running(j, "PASSWORD_RESET_EMAIL_REQUESTED")
  /\ sendForgotPasswordEmail(o, j.user, j.addr)
  /\ Then(j, o, "reset_requested")
  /\ UNCHANGED <<owner, had, auditLog>>

\* Without a user in the payload it is looked up now; a user that is gone gets no mail.
handlePasswordUpdated(j, o) ==
  LET to == IF j.addr # NoAddress THEN j.addr ELSE owner[j.user] IN
  /\ Running(j, "PASSWORD_UPDATED")
  /\ IF to = NoAddress
     THEN Free(j) /\ UNCHANGED mail
     ELSE /\ sendPasswordChangedEmail(o, j.user, to)
          /\ Then(j, o, IF j.source = "reset" THEN "reset_completed" ELSE "none")
  /\ UNCHANGED <<owner, had, auditLog>>

handleEmailVerified(j) ==
  /\ Running(j, "EMAIL_VERIFIED")
  /\ emitAudit(j, "email_verified")
  /\ UNCHANGED <<owner, had, mail, auditLog>>

\* Mutant: the new address is asked instead of the current one.
Mut_handleEmailChangeConfirmationRequested_new(j, o) ==
  /\ Running(j, "EMAIL_CHANGE_CONFIRMATION_REQUESTED")
  /\ sendEmailChangeConfirmationEmail(o, j.user, j.new)
  /\ Then(j, o, "change_requested")
  /\ UNCHANGED <<owner, had, auditLog>>

\* To the address the account had when the change was asked for.
handleEmailChangeConfirmationRequested(j, o) ==
  /\ Running(j, "EMAIL_CHANGE_CONFIRMATION_REQUESTED")
  /\ sendEmailChangeConfirmationEmail(o, j.user, j.addr)
  /\ Then(j, o, "change_requested")
  /\ UNCHANGED <<owner, had, auditLog>>

handleAccountDeletionVerificationRequested(j, o) ==
  /\ Running(j, "ACCOUNT_DELETION_VERIFICATION_REQUESTED")
  /\ sendAccountDeletionVerificationEmail(o, j.user, j.addr)
  /\ Then(j, o, "deletion_requested")
  /\ UNCHANGED <<owner, had, auditLog>>

handleAccountDeleted(j) ==
  /\ Running(j, "ACCOUNT_DELETED")
  /\ emitAudit(j, "account_deleted")
  /\ UNCHANGED <<owner, had, mail, auditLog>>

--------------------------------------------------------------------------------
(* AuditLogService *)

inferActorType(u) == IF u # NoOwner THEN "user" ELSE "system"

\* Rows about a session have no entity id.
createAuditLog(action, u) ==
  LET session == action \in {"user_login", "login_failed", "reuse_detected"} IN
  [action |-> action, user |-> u, actorType |-> inferActorType(u),
   entity |-> IF session THEN NoOwner ELSE u,
   success |-> action \notin {"login_failed", "reuse_detected"},
   eventType |-> CASE action = "account_deleted" -> "DELETE"
                   [] action = "user_created" -> "CREATE"
                   [] action = "user_login" -> "LOGIN"
                   [] action \in {"login_failed", "reuse_detected"} -> "FAILURE"
                   [] OTHER -> "UPDATE"]

\* The insert fails when the user it refers to is gone; a failure is only logged.
handleAuditEvent(j) ==
  /\ j.pc = "audit"
  /\ \/ /\ j.user # NoOwner => Exists(j.user)
        /\ Len(auditLog) < MaxRows
        /\ auditLog' = Append(auditLog, createAuditLog(j.action, j.user))
     \/ UNCHANGED auditLog
  /\ Free(j)
  /\ UNCHANGED <<owner, had, mail>>

Rows == {auditLog[i] : i \in DOMAIN auditLog}
getAuditLogs(filter) == {r \in Rows : \A k \in DOMAIN filter : r[k] = filter[k]}
getEntityAuditTrail(u) == getAuditLogs([entity |-> u])
getUserActivity(u) == getAuditLogs([user |-> u])
getSecurityEvents ==
  {r \in Rows : r.eventType \in {"LOGIN", "LOGOUT", "FAILURE", "REVOCATION", "RESET"}}
getFailedOperations == {r \in Rows : ~r.success}
findOne(i) == {auditLog[k] : k \in {i} \cap DOMAIN auditLog}
getAuditStatistics ==
  [total |-> Len(auditLog), failed |-> Cardinality({i \in DOMAIN auditLog : ~auditLog[i].success}),
   topUsers |-> {r.user : r \in Rows} \ {NoOwner}]

--------------------------------------------------------------------------------
(* AuditLogController: a bearer token is asked for; no guard reads @Roles('admin'). *)

Route(caller, answer) == IF caller # NoOwner /\ Exists(caller) THEN answer ELSE {}

LogsRoute(caller) == Route(caller, getAuditLogs(<<>>))
LogRoute(caller) == Route(caller, UNION {findOne(i) : i \in 1..MaxRows})
EntityRoute(caller) == Route(caller, UNION {getEntityAuditTrail(u) : u \in Owners})
SecurityRoute(caller) == Route(caller, getSecurityEvents)
FailedRoute(caller) == Route(caller, getFailedOperations)
ActivityRoute(caller, u) == Route(caller, getUserActivity(u))
StatisticsRoute(caller) == Route(caller, getAuditStatistics.topUsers)

--------------------------------------------------------------------------------
HookNext ==
  \E u \in Owners :
    \/ StoreUser(u) \/ Welcome(u) \/ issueTokens(u) \/ ReuseDetected(u)
    \/ sendVerificationEmailHook(u) \/ sendResetPassword(u) \/ onPasswordReset(u) \/ afterEmailVerification(u)
    \/ sendDeleteAccountVerification(u) \/ UpdatePassword(u) \/ updateUserPassword(u)
    \/ DeleteAccount(u)
    \/ \E e \in Addresses : sendChangeEmailConfirmation(u, e) \/ ChangeAddress(u, e)

ListenerNext(j) ==
  \/ handleUserCreatedEvent(j) \/ handleEmailVerified(j) \/ handleAccountDeleted(j)
  \/ handleAuditEvent(j)
  \/ \E o \in Provider :
       \/ SendWelcome(j, o)
       \/ handleAccountVerificationEmailRequested(j, o)
       \/ handlePasswordResetEmailRequested(j, o)
       \/ handlePasswordUpdated(j, o)
       \/ handleEmailChangeConfirmationRequested(j, o)
       \/ handleAccountDeletionVerificationRequested(j, o)

Next == HookNext \/ LoginFailed \/ mapSocialSignInError \/ \E j \in BagToSet(job) : ListenerNext(j)

Spec == Init /\ [][Next]_eventVars

--------------------------------------------------------------------------------
(* Properties *)

Sent(t, u) == \E m \in mail : m.template = t /\ m.user = u

\* Whoever reads the log, through whichever endpoint, is told of no link for
\* which no mail was accepted (user.service.ts:1041 awaits the mail before the
\* audit event), however late the listeners ran and whatever became of the
\* account; and no activity is counted for an account that is gone.
TrailIsTrue ==
  \A caller \in Owners \cup {NoOwner} :
    /\ \A r \in UNION {LogsRoute(caller), LogRoute(caller), EntityRoute(caller),
                        SecurityRoute(caller), FailedRoute(caller)} :
         /\ r.action = "reset_requested" => Sent("forgotPassword", r.entity)
         /\ r.action = "reset_completed" => Sent("passwordChanged", r.entity)
         /\ r.action = "change_requested" => Sent("emailChangeConfirmation", r.entity)
         /\ r.action = "deletion_requested" => Sent("accountDeletionVerification", r.entity)
    /\ \A u \in Owners : ~Exists(u) => ActivityRoute(caller, u) = {} /\ u \notin StatisticsRoute(caller)

\* A mail about an account goes only to an address that the account has had, however
\* late the listener runs: the new address of a change is not asked to approve it.
MailsStayWithOwner == \A m \in mail : m.to \in had[m.user]
================================================================================
