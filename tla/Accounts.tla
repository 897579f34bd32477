-------------------------------- MODULE Accounts --------------------------------
(***************************************************************************)
(* Accounts from registration to deletion: AuthController and UserService  *)
(* over the tables user, account, userRole, verification and session.      *)
(* Passwords are numbered in the order in which they are written.  One     *)
(* action is one awaited statement; better-auth (external) is one call.    *)
(* A session stands for a pair of tokens, whose rotation is the subject of *)
(* TokenRotation.  Left out: names, images, callback addresses, and the    *)
(* requests that are refused without a change.  A statement that throws, or *)
(* a process that stops, is a request that takes no further step.          *)
(***************************************************************************)
EXTENDS Naturals, FiniteSets

CONSTANTS
  Users, Sessions, Requests,
  Emails,        \* lower-case addresses
  Tickets,       \* rows of the table verification
  MaxPasswords,  \* passwords ever written (bound)
  MaxLinks,      \* signed links alive at once (bound)
  NoUser, NoEmail, NoSession, NoTicket

ASSUME AccountsAssumption ==
  /\ MaxPasswords \in Nat /\ MaxLinks \in Nat \ {0}
  /\ NoUser \notin Users /\ NoEmail \notin Emails
  /\ NoSession \notin Sessions /\ NoTicket \notin Tickets

VARIABLES
  user,       \* rows of user, with the credential and provider accounts
  ticket,     \* single-use links: password reset, deletion of the account
  jwt,        \* signed links that were mailed; nothing stores or spends them
  session,
  written,    \* passwords written so far
  swept,      \* history: per user, the newest password whose writer revoked the sessions
  proven,     \* history: users whose address was once marked verified
  announced,  \* users announced by USER_REGISTERED
  req         \* requests in flight

history == <<swept, proven>>
vars == <<user, ticket, jwt, session, written, history, announced, req>>

Absent == [st |-> "none", addr |-> NoEmail, verified |-> FALSE, pw |-> 0,
           link |-> NoEmail, role |-> FALSE]

User == [st       : {"none", "row", "gone"},   \* ids are not used again
         addr     : Emails \cup {NoEmail},
         verified : BOOLEAN,
         pw       : 0..MaxPasswords,           \* 0: no credential account
         link     : Emails \cup {NoEmail},     \* address at the social provider
         role     : BOOLEAN]                   \* some row of userRole exists

NoLogin == [user |-> NoUser, how |-> "password", pw |-> 0, seen |-> 0, born |-> 0]

Session == [user : Users \cup {NoUser},        \* NoUser: no row, or revoked
            how  : {"password", "social"},
            pw   : 0..MaxPasswords,            \* the newest password it presented or set
            seen : 0..MaxPasswords,            \* swept[user] when the login began
            born : 0..MaxPasswords]            \* swept[user] when the row was inserted

Unissued == [kind |-> "none", user |-> NoUser, open |-> FALSE]

Ticket == [kind : {"none", "reset", "delete"}, user : Users \cup {NoUser},
           open : BOOLEAN]

Jwt == [kind : {"verify", "approve", "change"}, addr : Emails, to : Emails]

Idle == [pc |-> "idle", user |-> NoUser, addr |-> NoEmail, how |-> "password", pw |-> 0,
         seen |-> [u \in Users |-> 0], flag |-> FALSE, session |-> NoSession, ticket |-> NoTicket]

Steps == {"idle", "store_signup", "store_update", "store_role", "signup_role", "login_signin",
          "login_relations", "issue", "social_read", "social_role", "reset_write",
          "reset_consume", "reset_sweep", "update_write", "update_sweep"}

Sweeps == [Users -> 0..MaxPasswords]

Request ==
  [pc : Steps,
   user : Users \cup {NoUser}, addr : Emails \cup {NoEmail},
   how : {"password", "social"}, pw : 0..MaxPasswords,
   seen : Sweeps,                             \* history: swept when a login began
   flag : BOOLEAN, session : Sessions \cup {NoSession}, ticket : Tickets \cup {NoTicket}]

TypeOK ==
  /\ user \in [Users -> User]
  /\ ticket \in [Tickets -> Ticket]
  /\ jwt \subseteq Jwt
  /\ session \in [Sessions -> Session]
  /\ written \in 0..MaxPasswords
  /\ swept \in Sweeps
  /\ proven \subseteq Users /\ announced \subseteq Users
  /\ req \in [Requests -> Request]

Init ==
  /\ user = [u \in Users |-> Absent]
  /\ ticket = [t \in Tickets |-> Unissued]
  /\ jwt = {}
  /\ session = [s \in Sessions |-> NoLogin]
  /\ written = 0
  /\ swept = [u \in Users |-> 0]
  /\ proven = {} /\ announced = {}
  /\ req = [r \in Requests |-> Idle]

At(r, pc) == req[r].pc = pc
Finish(r) == req' = [req EXCEPT ![r] = Idle]
Goto(r, pc) == req' = [req EXCEPT ![r].pc = pc]
Begin(r, job) == At(r, "idle") /\ req' = [req EXCEPT ![r] = job]

Row(u) == user[u].st = "row"
Holders(e) == {u \in Users : Row(u) /\ user[u].addr = e}
Live(s) == session[s].user # NoUser
Caller(s) == Live(s)   \* resolveCallerUserId, by bearer token or cookie
NewIds == {u \in Users : user[u].st = "none"}

\* UserService.assignDefaultRole and the roles store was asked for; a role that
\* is missing or inactive is a statement that throws.
assignDefaultRole(u) == user' = [user EXCEPT ![u].role = TRUE]

\* UserService.findMany as GET /users calls it: accounts with a role of level 99
\* or less, which every seeded role is.
findMany == {u \in Users : Row(u) /\ user[u].role}
findAll == findMany

\* Any statement on the user's row or on rows that refer to it fails once it is gone.
OrFail(r, u, A) == IF Row(u) THEN A
                   ELSE Finish(r) /\ UNCHANGED <<user, session, announced, jwt>>

--------------------------------------------------------------------------------
(* better-auth, as the code calls it *)

\* signUpEmail: the address is unique.
signUpEmail(u, e) ==
  /\ Holders(e) = {}
  /\ u \in NewIds
  /\ written < MaxPasswords
  /\ written' = written + 1
  /\ user' = [user EXCEPT ![u] = [Absent EXCEPT !.st = "row", !.addr = e,
                                                !.pw = written + 1]]

VerifyLink(e) == [kind |-> "verify", addr |-> e, to |-> e]

\* A link lives until it expires, which may be whenever another one is mailed:
\* nothing the code does depends on a link being dead.
Mail(j) == \E old \in SUBSET jwt : Cardinality(old) < MaxLinks /\ jwt' = old \cup {j}

\* sendVerificationEmail, also behind requestVerificationEmail and handleUserCreatedEvent.
sendVerificationEmail(e) == Mail(VerifyLink(e))

\* GET /api/auth/verify-email: the link names an address, not an account.
FollowLink(j) ==
  /\ j \in jwt
  /\ \E u \in Holders(j.addr) :
       \/ /\ j.kind = "verify"
          /\ user' = [user EXCEPT ![u].verified = TRUE]
          /\ proven' = proven \cup {u}
          /\ UNCHANGED jwt
       \/ /\ j.kind = "approve"
          /\ Mail([j EXCEPT !.kind = "change"])
          /\ UNCHANGED <<user, proven>>
       \/ /\ j.kind = "change" /\ Holders(j.to) = {}
          /\ user' = [user EXCEPT ![u].addr = j.to, ![u].verified = TRUE]
          /\ proven' = proven \cup {u}
          /\ UNCHANGED jwt
  /\ UNCHANGED <<ticket, session, written, swept, announced, req>>

--------------------------------------------------------------------------------
(* UserService.store: POST /users and the commands that make accounts *)

StoreRead(r, e, verified) ==
  /\ Holders(e) = {}
  /\ Begin(r, [Idle EXCEPT !.pc = "store_signup", !.addr = e, !.flag = verified])
  /\ UNCHANGED <<user, ticket, jwt, session, written, history, announced>>

\* POST /users; the two commands mark the address verified.
create(r, e) == \E verified \in BOOLEAN : StoreRead(r, e, verified)
CreateAdminCommand(r, e) == StoreRead(r, e, TRUE)
CreateUserCommand(r, e) == StoreRead(r, e, TRUE)

StoreSignUp(r) ==
  /\ At(r, "store_signup")
  /\ IF Holders(req[r].addr) # {}
     THEN Finish(r) /\ UNCHANGED <<user, written>>
     ELSE \E u \in Users :
            /\ signUpEmail(u, req[r].addr)
            /\ req' = [req EXCEPT ![r].pc = "store_update", ![r].user = u]
  /\ UNCHANGED <<ticket, jwt, session, history, announced>>

StoreUpdate(r) ==
  LET u == req[r].user IN
  /\ At(r, "store_update")
  /\ OrFail(r, u, /\ user' = [user EXCEPT ![u].verified = req[r].flag]
                  /\ Goto(r, "store_role")
                  /\ UNCHANGED <<session, announced, jwt>>)
  /\ proven' = IF Row(u) /\ req[r].flag THEN proven \cup {u} ELSE proven
  /\ UNCHANGED <<ticket, written, swept>>

\* The role rows; then the event whose listener asks for a verification mail.
StoreRole(r) ==
  LET u == req[r].user IN
  /\ At(r, "store_role")
  /\ OrFail(r, u, /\ assignDefaultRole(u)
                  /\ IF req[r].flag THEN UNCHANGED jwt ELSE sendVerificationEmail(req[r].addr)
                  /\ Finish(r)
                  /\ UNCHANGED <<session, announced>>)
  /\ UNCHANGED <<ticket, written, swept, proven>>

--------------------------------------------------------------------------------
(* AuthController.signup *)

SignupCreate(r, e) ==
  /\ At(r, "idle")
  /\ \E u \in Users :
       /\ signUpEmail(u, e)
       /\ Begin(r, [Idle EXCEPT !.pc = "signup_role", !.addr = e, !.user = u])
  /\ UNCHANGED <<ticket, jwt, session, history, announced>>

\* Mutant: the account is announced although the role could not be granted.
Mut_SignupRole_announceFirst(r) ==
  /\ At(r, "signup_role")
  /\ announced' = announced \cup {req[r].user}
  /\ Finish(r)
  /\ UNCHANGED <<user, ticket, jwt, session, written, history>>

\* UserService.update of the names, assignDefaultRole (both fail once the account
\* is gone), USER_REGISTERED, and the verification mail.
SignupRole(r) ==
  LET u == req[r].user IN
  /\ At(r, "signup_role")
  /\ OrFail(r, u, /\ assignDefaultRole(u)
                  /\ announced' = announced \cup {u}
                  /\ sendVerificationEmail(req[r].addr)
                  /\ Finish(r)
                  /\ UNCHANGED session)
  /\ UNCHANGED <<ticket, written, swept, proven>>

--------------------------------------------------------------------------------
(* AuthController.login *)

\* The password presented: the current one, an earlier one, or one that a change in
\* flight is about to write.
\* An unverified account with the right password gets a new link and a 403.
LoginRead(r, e, pw) ==
  /\ At(r, "idle")
  /\ Holders(e) # {}
  /\ \E u \in Holders(e) :
       IF ~user[u].verified /\ user[u].pw = pw
       THEN sendVerificationEmail(e) /\ UNCHANGED req
       ELSE /\ Begin(r, [Idle EXCEPT !.pc = "login_signin", !.addr = e, !.pw = pw,
                                     !.seen = swept])
            /\ UNCHANGED jwt
  /\ UNCHANGED <<user, ticket, session, written, history, announced>>

\* Mutant: the address is trusted from the first look-up.
Mut_LoginSignIn_straight(r) ==
  /\ At(r, "login_signin")
  /\ \E u \in Users :
       /\ u \in Holders(req[r].addr) /\ user[u].pw = req[r].pw
       /\ req' = [req EXCEPT ![r].pc = "issue", ![r].user = u]
  /\ UNCHANGED <<user, ticket, jwt, session, written, history, announced>>

\* signInEmail compares the password with the hash the account has now.
LoginSignIn(r) ==
  LET found == {u \in Holders(req[r].addr) : user[u].pw = req[r].pw} IN
  /\ At(r, "login_signin")
  /\ IF found = {} THEN Finish(r)
     ELSE \E u \in found : req' = [req EXCEPT ![r].pc = "login_relations", ![r].user = u]
  /\ UNCHANGED <<user, ticket, jwt, session, written, history, announced>>

LoginRelations(r) ==
  LET u == req[r].user IN
  /\ At(r, "login_relations")
  /\ \/ ~Row(u) /\ Finish(r) /\ UNCHANGED jwt
     \/ Row(u) /\ ~user[u].verified /\ sendVerificationEmail(req[r].addr) /\ Finish(r)
     \/ /\ Row(u) /\ user[u].verified
        /\ req' = [req EXCEPT ![r].pc = "issue", ![r].addr = NoEmail]
        /\ UNCHANGED jwt
  /\ UNCHANGED <<user, ticket, session, written, history, announced>>

\* LoginIssuerService.issueTokens inserts rows that refer to the user, under an id that
\* no request holds.
Issue(r) ==
  LET u == req[r].user IN
  /\ At(r, "issue")
  /\ OrFail(r, u, /\ \E s \in Sessions :
                       /\ ~Live(s) /\ \A q \in Requests : req[q].session # s
                       /\ session' = [session EXCEPT ![s] =
                            [user |-> u, how |-> req[r].how, pw |-> req[r].pw,
                             seen |-> req[r].seen[u], born |-> swept[u]]]
                  /\ Finish(r)
                  /\ UNCHANGED <<user, announced, jwt>>)
  /\ UNCHANGED <<ticket, written, swept, proven>>

--------------------------------------------------------------------------------
(* AuthController.socialLogin *)

\* signInSocial: the account linked to this provider identity, else the account
\* with its address (linked now), else a new verified account.
SocialSignIn(r, e) ==
  LET linked == {u \in Users : Row(u) /\ user[u].link = e}
      next(u) == Begin(r, [Idle EXCEPT !.pc = "social_read", !.user = u, !.how = "social"])
  IN
  /\ \/ \E u \in linked : next(u) /\ UNCHANGED <<user, proven>>
     \/ /\ linked = {}
        /\ \E u \in Holders(e) :
             \E v \in {user[u].verified, TRUE} :   \* a provider may vouch for the address
               /\ next(u)
               /\ user' = [user EXCEPT ![u].link = e, ![u].verified = v]
               /\ proven' = IF v THEN proven \cup {u} ELSE proven
     \/ /\ linked = {} /\ Holders(e) = {}
        /\ \E u \in NewIds :
             /\ next(u)
             /\ user' = [user EXCEPT ![u] = [Absent EXCEPT !.st = "row", !.addr = e,
                                                           !.verified = TRUE, !.link = e]]
             /\ proven' = proven \cup {u}
  /\ UNCHANGED <<ticket, jwt, session, written, swept, announced>>

\* An account without a role is taken for one that this sign-in has just made.
SocialRead(r) ==
  LET u == req[r].user IN
  /\ At(r, "social_read")
  /\ \/ ~Row(u) /\ Finish(r)
     \/ Row(u) /\ Goto(r, IF user[u].role THEN "issue" ELSE "social_role")
  /\ UNCHANGED <<user, ticket, jwt, session, written, history, announced>>

\* UserService.update of meta, assignDefaultRole (duplicates are skipped), the second look-up, the event.
SocialRole(r) ==
  LET u == req[r].user IN
  /\ At(r, "social_role")
  /\ OrFail(r, u, /\ assignDefaultRole(u)
                  /\ announced' = announced \cup {u}
                  /\ Goto(r, "issue")
                  /\ UNCHANGED <<session, jwt>>)
  /\ UNCHANGED <<ticket, written, swept, proven>>

--------------------------------------------------------------------------------
(* Passwords *)

RequestPasswordReset(e) ==
  /\ \E t \in Tickets, u \in Holders(e) :
       /\ ticket[t].kind = "none"
       /\ ticket' = [ticket EXCEPT ![t] = [kind |-> "reset", user |-> u, open |-> TRUE]]
  /\ UNCHANGED <<user, jwt, session, written, history, announced, req>>

\* The owner of the link is looked up first; a failing look-up is swallowed.
ResetResolve(r, t) ==
  /\ ticket[t].kind = "reset"
  /\ \E known \in BOOLEAN :
       Begin(r, [Idle EXCEPT !.pc = "reset_write", !.ticket = t,
                   !.user = IF ticket[t].open /\ known THEN ticket[t].user ELSE NoUser])
  /\ UNCHANGED <<user, ticket, jwt, session, written, history, announced>>

\* resetPassword checks the row again, and leaves it.
ResetWrite(r) ==
  LET t == req[r].ticket
      u == ticket[t].user
  IN
  /\ At(r, "reset_write")
  /\ IF ticket[t].open /\ Row(u)
     THEN /\ written < MaxPasswords
          /\ written' = written + 1
          /\ user' = [user EXCEPT ![u].pw = written + 1]
          /\ req' = [req EXCEPT ![r].pc = "reset_consume", ![r].pw = written + 1]
     ELSE Finish(r) /\ UNCHANGED <<user, written>>
  /\ UNCHANGED <<ticket, jwt, session, history, announced>>

ResetConsume(r) ==
  /\ At(r, "reset_consume")
  /\ \/ ticket' = [ticket EXCEPT ![req[r].ticket].open = FALSE]
     \/ UNCHANGED ticket    \* a failure is logged
  /\ IF req[r].user = NoUser THEN Finish(r)
     ELSE req' = [req EXCEPT ![r].pc = "reset_sweep", ![r].ticket = NoTicket]
  /\ UNCHANGED <<user, jwt, session, written, history, announced>>

Higher(a, b) == IF a > b THEN a ELSE b

Sweep(u, keep, pw) ==
  /\ session' = [s \in Sessions |-> IF session[s].user # u THEN session[s]
                                    ELSE IF s = keep THEN [session[s] EXCEPT !.pw = Higher(@, pw)]
                                    ELSE NoLogin]
  /\ swept' = [swept EXCEPT ![u] = Higher(@, pw)]

\* Mutant: a reset ends only the sessions of social sign-ins.
Mut_ResetSweep_social(r) ==
  LET u == req[r].user IN
  /\ At(r, "reset_sweep")
  /\ session' = [s \in Sessions |-> IF session[s].user = u /\ session[s].how = "social"
                                    THEN NoLogin ELSE session[s]]
  /\ swept' = [swept EXCEPT ![u] = Higher(@, req[r].pw)]
  /\ Finish(r)
  /\ UNCHANGED <<user, ticket, jwt, written, proven, announced>>

ResetSweep(r) ==
  /\ At(r, "reset_sweep")
  /\ Sweep(req[r].user, NoSession, req[r].pw)
  /\ Finish(r)
  /\ UNCHANGED <<user, ticket, jwt, written, proven, announced>>

\* updatePassword: the caller is known by session s and presents the current password.
UpdatePasswordRead(r, s) ==
  /\ Caller(s)
  /\ user[session[s].user].pw # 0
  /\ Begin(r, [Idle EXCEPT !.pc = "update_write", !.user = session[s].user, !.session = s])
  /\ UNCHANGED <<user, ticket, jwt, session, written, history, announced>>

UpdatePasswordWrite(r) ==
  LET u == req[r].user IN
  /\ At(r, "update_write")
  /\ IF Row(u)
     THEN /\ written < MaxPasswords
          /\ written' = written + 1
          /\ user' = [user EXCEPT ![u].pw = written + 1]
          /\ req' = [req EXCEPT ![r].pc = "update_sweep", ![r].pw = written + 1]
     ELSE Finish(r) /\ UNCHANGED <<user, written>>
  /\ UNCHANGED <<ticket, jwt, session, history, announced>>

\* Every other session ends; the caller's stays.
UpdatePasswordSweep(r) ==
  /\ At(r, "update_sweep")
  /\ Sweep(req[r].user, req[r].session, req[r].pw)
  /\ Finish(r)
  /\ UNCHANGED <<user, ticket, jwt, written, proven, announced>>

\* UserService.updateUserPassword (PUT /users/:id, admin update-password): the
\* sessions stay.
AdminPassword(u) ==
  /\ Row(u) /\ user[u].pw # 0
  /\ written < MaxPasswords
  /\ written' = written + 1
  /\ user' = [user EXCEPT ![u].pw = written + 1]
  /\ UNCHANGED <<ticket, jwt, session, history, announced, req>>

UpdatePasswordCommand(e) == \E u \in Holders(e) : AdminPassword(u)

--------------------------------------------------------------------------------
(* Address, roles, deletion *)

\* withTemporaryBetterAuthSession: a session row for the call needs the account.
AsCaller(s) == Caller(s) /\ Row(session[s].user)

ChangeEmail(s, e) ==
  LET u == session[s].user IN
  /\ AsCaller(s)
  /\ user[u].verified /\ Holders(e) = {}
  /\ Mail([kind |-> "approve", addr |-> user[u].addr, to |-> e])
  /\ UNCHANGED <<user, ticket, session, written, history, announced, req>>

\* UserService.update: the mark of the address, or an address, which keeps the
\* mark of the old one.
UpdateUser(u, manager) ==
  /\ Row(u)
  /\ \/ \E v \in BOOLEAN :
          /\ manager
          /\ user' = [user EXCEPT ![u].verified = v]
          /\ proven' = IF v THEN proven \cup {u} ELSE proven
     \/ \E e \in Emails :
          /\ Holders(e) = {}
          /\ user' = [user EXCEPT ![u].addr = e]
          /\ UNCHANGED proven
  /\ UNCHANGED <<ticket, jwt, session, written, swept, announced, req>>

\* PUT /users/:id: the user, or an administrator or manager, who is not one of
\* the accounts followed here; only these write emailVerified.
update(u) ==
  \E manager \in BOOLEAN :
    /\ manager \/ \E s \in Sessions : Caller(s) /\ session[s].user = u
    /\ UpdateUser(u, manager)

RequestDeletion(s) ==
  /\ AsCaller(s)
  /\ \E t \in Tickets :
       /\ ticket[t].kind = "none"
       /\ ticket' = [ticket EXCEPT ![t] = [kind |-> "delete", user |-> session[s].user,
                                           open |-> TRUE]]
  /\ UNCHANGED <<user, jwt, session, written, history, announced, req>>

\* Mutant: the sessions are left to expire.
Mut_DeleteRow_keepsSessions(u) ==
  /\ user' = [user EXCEPT ![u] = [Absent EXCEPT !.st = "gone"]]
  /\ UNCHANGED session

\* The row goes, with everything that refers to it.
DeleteRow(u) ==
  /\ user' = [user EXCEPT ![u] = [Absent EXCEPT !.st = "gone"]]
  /\ session' = [s \in Sessions |-> IF session[s].user = u THEN NoLogin ELSE session[s]]

\* The link must be the caller's own.
ConfirmDeletion(s, t) ==
  /\ AsCaller(s)
  /\ ticket[t].kind = "delete" /\ ticket[t].open /\ ticket[t].user = session[s].user
  /\ DeleteRow(session[s].user)
  /\ ticket' = [ticket EXCEPT ![t].open = FALSE]
  /\ UNCHANGED <<jwt, written, history, announced, req>>

AdminDelete(u) ==
  /\ Row(u)
  /\ DeleteRow(u)
  /\ UNCHANGED <<ticket, jwt, written, history, announced, req>>

\* DELETE /users/:id, by an administrator.
remove(u) == AdminDelete(u)

Logout(s) ==
  /\ Caller(s)
  /\ session' = [session EXCEPT ![s] = NoLogin]
  /\ UNCHANGED <<user, ticket, jwt, written, history, announced, req>>

LogoutAll(s) ==
  /\ Caller(s)
  /\ session' = [x \in Sessions |-> IF session[x].user = session[s].user THEN NoLogin
                                    ELSE session[x]]
  /\ UNCHANGED <<user, ticket, jwt, written, history, announced, req>>

--------------------------------------------------------------------------------
Registers(r) ==
  \/ \E e \in Emails : \/ create(r, e) \/ CreateAdminCommand(r, e) \/ CreateUserCommand(r, e)
                       \/ SignupCreate(r, e) \/ SocialSignIn(r, e)
  \/ StoreSignUp(r) \/ StoreUpdate(r) \/ StoreRole(r)
  \/ SignupRole(r) \/ SocialRead(r) \/ SocialRole(r)

Logs(r) ==
  \/ \E e \in Emails, pw \in 1..MaxPasswords : LoginRead(r, e, pw)
  \/ LoginSignIn(r) \/ LoginRelations(r) \/ Issue(r)

Changes(r) ==
  \/ \E t \in Tickets : ResetResolve(r, t)
  \/ ResetWrite(r) \/ ResetConsume(r) \/ ResetSweep(r)
  \/ \E s \in Sessions : UpdatePasswordRead(r, s)
  \/ UpdatePasswordWrite(r) \/ UpdatePasswordSweep(r)

Next ==
  \/ \E r \in Requests : Registers(r) \/ Logs(r) \/ Changes(r)
  \/ \E j \in jwt : FollowLink(j)
  \/ \E e \in Emails : RequestPasswordReset(e) \/ UpdatePasswordCommand(e)
  \/ \E u \in Users : AdminPassword(u) \/ update(u) \/ remove(u)
  \/ \E s \in Sessions : \/ Logout(s) \/ LogoutAll(s) \/ RequestDeletion(s)
                         \/ \E e \in Emails : ChangeEmail(s, e)
                         \/ \E t \in Tickets : ConfirmDeletion(s, t)

Spec == Init /\ [][Next]_vars

--------------------------------------------------------------------------------
(* Properties *)

\* Every live session belongs to an account that exists: no login in flight while
\* the account is deleted leaves one behind.
SessionsHaveAccounts == \A s \in Sessions : Live(s) => Row(session[s].user)

\* Nobody holds a session by password whose address was never proven, although
\* the check is made twice and an administrator may change the column in between.
PasswordLoginsProven ==
  \A s \in Sessions : Live(s) /\ session[s].how = "password" => session[s].user \in proven

\* "Sign the user out everywhere": a session opened with a password older than
\* the one whose writer revoked the sessions comes from a login that was in
\* flight meanwhile; a login that began later used a newer password.
OldPasswordOverlaps ==
  \A s \in Sessions :
    LET x == session[s] IN
    Live(s) /\ x.how = "password" /\ x.pw < swept[x.user]
      => x.seen < swept[x.user] /\ x.born = swept[x.user]

\* An account is announced to the rest of the application, and let in by a social
\* provider, only once it has its role and GET /users shows it, whoever else
\* registers it or deletes it.
RegistrationComplete ==
  /\ \A u \in announced : Row(u) => u \in findAll
  /\ \A s \in Sessions : Live(s) /\ session[s].how = "social" => session[s].user \in findAll
================================================================================
