----------------------------- MODULE AccountsProofs -----------------------------
(***************************************************************************)
(* Proofs about Accounts for every set of users, addresses, sessions,      *)
(* links and requests, and every number of passwords.                      *)
(*                                                                         *)
(* The four properties are about sessions and announcements; what makes    *)
(* them inductive is Rows (marks of addresses, and passwords against the   *)
(* revocations they were followed by), Links (a link has an owner) and     *)
(* Held (what each request in flight remembers).  The argument about       *)
(* requests rests on one lemma, Waiting: what a request remembers survives *)
(* every step of another, because of what no step takes back (Grow).       *)
(***************************************************************************)
EXTENDS Accounts, TLAPS

\* Steps at which a request has found its account, or has an address to write to.
WithUser == {"store_update", "store_role", "signup_role", "login_relations", "issue",
             "social_read", "social_role", "reset_sweep", "update_write", "update_sweep"}
WithAddress == {"store_signup", "store_update", "store_role", "signup_role",
                "login_signin", "login_relations"}

\* An existing account has an address, whose mark is in the history; its password is not
\* older than the newest revocation; an unused id has no history.
RowOK(u) ==
  /\ Row(u) => user[u].addr \in Emails
  /\ Row(u) /\ user[u].verified => u \in proven
  /\ user[u].pw <= written /\ swept[u] <= written
  /\ Row(u) => swept[u] <= user[u].pw
  /\ user[u].st = "none" => swept[u] = 0 /\ u \notin announced

Rows == \A u \in Users : RowOK(u)

\* A link was issued for an account.
Links ==
  \A t \in Tickets :
    ticket[t].kind # "none" => ticket[t].user \in Users /\ user[ticket[t].user].st # "none"

\* The account whose password a request has written.
Target(r) == IF req[r].pc = "reset_consume" THEN ticket[req[r].ticket].user ELSE req[r].user

\* Which ids a request holds are real.
Ids(r) ==
  /\ req[r].pc \in WithUser => req[r].user \in Users /\ user[req[r].user].st # "none"
  /\ req[r].pc \in WithAddress => req[r].addr \in Emails

\* A reset holds its link, and the link's owner if it could be resolved.
Resets(r) ==
  req[r].pc \in {"reset_write", "reset_consume"} =>
    /\ req[r].ticket \in Tickets /\ ticket[req[r].ticket].kind = "reset"
    /\ req[r].user \in {NoUser, ticket[req[r].ticket].user}

\* The password it wrote is not newer than the account's.
Writes(r) ==
  req[r].pc \in {"reset_consume", "reset_sweep", "update_sweep"} =>
    req[r].pw <= written /\ (Row(Target(r)) => req[r].pw <= user[Target(r)].pw)

\* What a sign-in has established, by the step it has reached.
SignsIn(r) ==
  /\ req[r].pc \in {"social_read", "social_role"} => req[r].how = "social"
  /\ req[r].pc \in {"login_signin", "login_relations"} => req[r].how = "password"
  /\ req[r].pc = "issue" /\ req[r].how = "password" => req[r].user \in proven
  /\ req[r].pc = "issue" /\ req[r].how = "social" /\ Row(req[r].user) => user[req[r].user].role

\* A password that is already too old was accepted before the revocation.
Overtaken(r) ==
  /\ \A u \in Users : req[r].seen[u] <= swept[u]
  /\ req[r].pc \in {"login_relations", "issue"} /\ req[r].how = "password"
     /\ req[r].pw < swept[req[r].user] => req[r].seen[req[r].user] < swept[req[r].user]

HeldBy(r) == Ids(r) /\ Resets(r) /\ Writes(r) /\ SignsIn(r) /\ Overtaken(r)

Held == \A r \in Requests : HeldBy(r)

Logins ==
  SessionsHaveAccounts /\ PasswordLoginsProven /\ OldPasswordOverlaps /\ RegistrationComplete

\* The inductive invariant.
IInv == TypeOK /\ Rows /\ Links /\ Held /\ Logins

\* Empty tables and idle requests satisfy the invariant.
LEMMA InitIInv == Init => IInv
  BY AccountsAssumption
  DEF Init, IInv, TypeOK, Rows, RowOK, Links, Held, HeldBy, Ids, Resets, Writes, SignsIn,
      Overtaken, Logins, Absent, User, NoLogin, Session,
      Unissued, Ticket, Idle, Request, Steps, Sweeps, Row, Live, Target, SessionsHaveAccounts,
      PasswordLoginsProven, OldPasswordOverlaps, RegistrationComplete, WithUser, WithAddress

\* The constant records are of their types.
LEMMA AbsentType == Absent \in User
  BY AccountsAssumption DEF User, Absent

LEMMA IdleType == Idle \in Request
  BY AccountsAssumption DEF Request, Idle, Steps, Sweeps

\* No statement of a request leaves the types; what the request holds (Held) makes its
\* ids real.
LEMMA StepType == TypeOK /\ Rows /\ Links /\ Held /\ [Next]_vars => TypeOK'
  <1> SUFFICES ASSUME TypeOK, Rows, Links, Held, [Next]_vars PROVE TypeOK'
    OBVIOUS
  <1>a. NoLogin \in Session /\ Idle \in Request /\ Absent \in User
    BY IdleType, AbsentType, AccountsAssumption DEF NoLogin, Session
  <1>t. /\ \A u \in Users : user[u] \in User
        /\ \A t \in Tickets : ticket[t] \in Ticket
        /\ \A s \in Sessions : session[s] \in Session
        /\ jwt \subseteq Jwt /\ written \in 0..MaxPasswords /\ swept \in Sweeps
    BY DEF TypeOK
  <1>h. ASSUME NEW r \in Requests
        PROVE /\ req[r] \in Request
              /\ req[r].pc \in WithUser => req[r].user \in Users
              /\ req[r].pc \in WithAddress => req[r].addr \in Emails
    BY DEF Held, HeldBy, Ids, Resets, Writes, TypeOK
  <1>p. written < MaxPasswords => written + 1 \in 0..MaxPasswords
    BY <1>t, AccountsAssumption
  <1>m. ASSUME NEW j \in Jwt, Mail(j) PROVE jwt' \subseteq Jwt
    BY <1>m DEF Mail, TypeOK
  <1>v. ASSUME NEW e \in Emails, sendVerificationEmail(e) PROVE jwt' \subseteq Jwt
    BY <1>v, <1>m DEF VerifyLink, Jwt, sendVerificationEmail, TypeOK
  <1>f. ASSUME NEW r \in Requests, Finish(r) PROVE req' \in [Requests -> Request]
    BY <1>f, <1>a DEF Finish, TypeOK
  <1>g. ASSUME NEW r \in Requests, NEW p \in Steps, Goto(r, p)
        PROVE req' \in [Requests -> Request]
    <2>1. [req[r] EXCEPT !.pc = p] \in Request
      BY <1>h DEF Request
    <2> QED
      BY <1>g, <2>1 DEF Goto, TypeOK
  <1>r. ASSUME NEW u \in Users, assignDefaultRole(u) PROVE user' \in [Users -> User]
    <2>1. [user[u] EXCEPT !.role = TRUE] \in User
      BY <1>t DEF User
    <2> QED
      BY <1>r, <2>1 DEF assignDefaultRole, TypeOK
  <1>n. ASSUME NEW u \in Users, NEW e \in Emails, signUpEmail(u, e)
        PROVE user' \in [Users -> User] /\ written' \in 0..MaxPasswords
    <2>1. written + 1 \in 0..MaxPasswords
      BY <1>n, <1>p DEF signUpEmail
    <2>2. [Absent EXCEPT !.st = "row", !.addr = e, !.pw = written + 1] \in User
      BY <1>a, <2>1 DEF User
    <2> QED
      BY <1>n, <2>1, <2>2 DEF signUpEmail, TypeOK
  <1>w. ASSUME NEW u \in Users, written < MaxPasswords, written' = written + 1,
               user' = [user EXCEPT ![u].pw = written + 1]
        PROVE user' \in [Users -> User] /\ written' \in 0..MaxPasswords
    <2>1. written + 1 \in 0..MaxPasswords
      BY <1>p, <1>w
    <2>2. [user[u] EXCEPT !.pw = written + 1] \in User
      BY <1>t, <2>1 DEF User
    <2> QED
      BY <1>w, <2>1, <2>2 DEF TypeOK
  <1>s. ASSUME NEW u \in Users, NEW s \in Sessions \cup {NoSession}, NEW n \in 0..MaxPasswords,
               Sweep(u, s, n)
        PROVE session' \in [Sessions -> Session] /\ swept' \in Sweeps
    <2>1. \A x \in Sessions : [session[x] EXCEPT !.pw = Higher(@, n)] \in Session
      BY AccountsAssumption, <1>t DEF Session, Higher
    <2> QED
      BY <1>s, <1>a, <2>1 DEF Sweep, Sweeps, Higher, TypeOK, history
  <1>d. ASSUME NEW u \in Users, DeleteRow(u)
        PROVE user' \in [Users -> User] /\ session' \in [Sessions -> Session]
    <2>1. [Absent EXCEPT !.st = "gone"] \in User
      BY AccountsAssumption, <1>a, <1>t DEF User
    <2> QED
      BY <1>a, <1>d, <2>1 DEF DeleteRow, TypeOK, history
  <1>1. ASSUME NEW r \in Requests, Registers(r) PROVE TypeOK'
    <2>1. ASSUME NEW e \in Emails, NEW v \in BOOLEAN, StoreRead(r, e, v) PROVE TypeOK'
      <3>1. [Idle EXCEPT !.pc = "store_signup", !.addr = e, !.flag = v] \in Request
        BY <1>a, <1>h DEF Request, Steps
      <3> QED
        BY <2>1, <3>1 DEF StoreRead, Begin, TypeOK, history
    <2>2. CASE StoreSignUp(r)
      <3>1. ASSUME NEW u \in Users
            PROVE [req[r] EXCEPT !.pc = "store_update", !.user = u] \in Request
        <4>1. PICK c : c = req[r]
          OBVIOUS
        <4>2. c \in Request /\ "store_update" \in Steps
          BY <1>h, <4>1 DEF Steps
        <4> QED
          BY <1>h, <4>1, <4>2 DEF Request
      <3>2. req[r].addr \in Emails
        BY <1>h, <2>2 DEF StoreSignUp, At, WithAddress
      <3> QED
        BY <1>f, <1>n, <2>2, <3>1, <3>2 DEF StoreSignUp, TypeOK, history
    <2>3. CASE StoreUpdate(r)
      <3>1. req[r].user \in Users
        BY <1>h, <2>3 DEF StoreUpdate, At, WithUser
      <3>2. [user[req[r].user] EXCEPT !.verified = req[r].flag] \in User
        BY <1>h, <1>t, <3>1 DEF User, Request
      <3> QED
        BY <1>f, <1>g, <2>3, <3>1, <3>2 DEF StoreUpdate, OrFail, Steps, TypeOK, history
    <2>4. CASE StoreRole(r)
      BY <1>f, <1>h, <1>r, <1>v, <2>4
      DEF StoreRole, OrFail, At, WithUser, WithAddress, TypeOK, history
    <2>5. ASSUME NEW e \in Emails, SignupCreate(r, e) PROVE TypeOK'
      <3>1. ASSUME NEW u \in Users
            PROVE [Idle EXCEPT !.pc = "signup_role", !.addr = e, !.user = u] \in Request
        BY <1>a, <1>h DEF Request, Steps
      <3> QED
        BY <1>n, <2>5, <3>1 DEF SignupCreate, Begin, TypeOK, history
    <2>6. CASE SignupRole(r)
      BY <1>f, <1>h, <1>r, <1>v, <2>6
      DEF SignupRole, OrFail, At, WithUser, WithAddress, TypeOK, history
    <2>7. ASSUME NEW e \in Emails, SocialSignIn(r, e) PROVE TypeOK'
      <3>1. ASSUME NEW u \in Users
            PROVE [Idle EXCEPT !.pc = "social_read", !.user = u, !.how = "social"] \in Request
        BY <1>a, <1>h DEF Request, Steps
      <3>2. ASSUME NEW u \in Users, NEW v \in BOOLEAN
            PROVE [user[u] EXCEPT !.link = e, !.verified = v] \in User
        BY <1>t DEF User
      <3>3. [Absent EXCEPT !.st = "row", !.addr = e, !.verified = TRUE, !.link = e] \in User
        BY AccountsAssumption, <1>a, <1>t DEF User
      <3>4. \A u \in Users : user[u].verified \in BOOLEAN
        BY <1>t DEF User
      <3>5. req' \in [Requests -> Request]
        <4>1. ASSUME NEW u \in Users,
                     Begin(r, [Idle EXCEPT !.pc = "social_read", !.user = u, !.how = "social"])
              PROVE  req' \in [Requests -> Request]
          BY <3>1, <4>1 DEF Begin, TypeOK
        <4> QED
          BY <2>7, <4>1 DEF SocialSignIn, Holders, NewIds
      <3>6. user' \in [Users -> User]
        <4>1. CASE UNCHANGED user
          BY <4>1 DEF TypeOK
        <4>2. ASSUME NEW u \in Users, NEW v \in BOOLEAN,
                     user' = [user EXCEPT ![u].link = e, ![u].verified = v]
              PROVE  user' \in [Users -> User]
          BY <3>2, <4>2 DEF TypeOK
        <4>3. ASSUME NEW u \in Users,
                     user' = [user EXCEPT ![u] = [Absent EXCEPT !.st = "row", !.addr = e,
                                                    !.verified = TRUE, !.link = e]]
              PROVE  user' \in [Users -> User]
          BY <3>3, <4>3 DEF TypeOK
        <4> QED
          BY <2>7, <3>4, <4>1, <4>2, <4>3 DEF SocialSignIn, Holders, NewIds
      <3> QED
        BY <2>7, <3>5, <3>6 DEF SocialSignIn, Holders, NewIds, TypeOK
    <2>8. CASE SocialRead(r)
      BY <1>f, <1>g, <2>8 DEF SocialRead, Steps, TypeOK, history
    <2>9. CASE SocialRole(r)
      BY <1>f, <1>g, <1>h, <1>r, <2>9 DEF SocialRole, OrFail, At, Steps, WithUser, TypeOK, history
    <2> QED
      BY <1>1, <2>1, <2>2, <2>3, <2>4, <2>5, <2>6, <2>7, <2>8, <2>9
      DEF Registers, create, CreateAdminCommand, CreateUserCommand
  <1>2. ASSUME NEW r \in Requests, Logs(r) PROVE TypeOK'
    <2>1. ASSUME NEW e \in Emails, NEW pw \in 1..MaxPasswords, LoginRead(r, e, pw) PROVE TypeOK'
      <3>0. pw \in 0..MaxPasswords
        BY AccountsAssumption
      <3>1. [Idle EXCEPT !.pc = "login_signin", !.addr = e, !.pw = pw, !.seen = swept] \in Request
        BY <1>a, <1>t, <3>0 DEF Request, Steps
      <3> QED
        BY <1>v, <2>1, <3>1 DEF LoginRead, Begin, TypeOK, history
    <2>2. CASE LoginSignIn(r)
      <3>1. ASSUME NEW u \in Users
            PROVE [req[r] EXCEPT !.pc = "login_relations", !.user = u] \in Request
        <4>1. PICK c : c = req[r]
          OBVIOUS
        <4>2. c \in Request /\ "login_relations" \in Steps
          BY <1>h, <4>1 DEF Steps
        <4> QED
          BY <1>h, <4>1, <4>2 DEF Request
      <3> QED
        BY <1>f, <2>2, <3>1 DEF LoginSignIn, Holders, TypeOK, history
    <2>3. CASE LoginRelations(r)
      <3>1. [req[r] EXCEPT !.pc = "issue", !.addr = NoEmail] \in Request
        <4>1. PICK c : c = req[r]
          OBVIOUS
        <4>2. c \in Request /\ "issue" \in Steps
          BY <1>h, <4>1 DEF Steps
        <4> QED
          BY <1>h, <4>1, <4>2 DEF Request
      <3>2. req[r].addr \in Emails
        BY <1>h, <2>3 DEF LoginRelations, At, WithAddress
      <3> QED
        BY <1>f, <1>v, <2>3, <3>1, <3>2 DEF LoginRelations, TypeOK, history
    <2>4. CASE Issue(r)
      <3>1. req[r].user \in Users
        BY <1>h, <2>4 DEF Issue, At, WithUser
      <3>2. [user |-> req[r].user, how |-> req[r].how, pw |-> req[r].pw,
             seen |-> req[r].seen[req[r].user], born |-> swept[req[r].user]] \in Session
        BY <1>h, <1>t, <3>1 DEF Session, Request, Sweeps
      <3> QED
        BY <1>f, <2>4, <3>2 DEF Issue, OrFail, TypeOK, history
    <2> QED
      BY <1>2, <2>1, <2>2, <2>3, <2>4 DEF Logs
  <1>3. ASSUME NEW r \in Requests, Changes(r) PROVE TypeOK'
    <2>1. ASSUME NEW t \in Tickets, ResetResolve(r, t) PROVE TypeOK'
      <3>1. ASSUME NEW u \in Users \cup {NoUser}
            PROVE [Idle EXCEPT !.pc = "reset_write", !.ticket = t, !.user = u] \in Request
        BY <1>a, <1>h DEF Request, Steps
      <3>2. ticket[t].user \in Users \cup {NoUser}
        BY <1>t DEF Ticket
      <3>3. PICK u \in Users \cup {NoUser} :
              req' = [req EXCEPT ![r] = [Idle EXCEPT !.pc = "reset_write", !.ticket = t, !.user = u]]
        BY <2>1, <3>2 DEF ResetResolve, Begin
      <3>4. req' \in [Requests -> Request]
        BY <3>1, <3>3 DEF TypeOK
      <3> QED
        BY <2>1, <3>4 DEF ResetResolve, TypeOK, history
    <2>2. CASE ResetWrite(r)
      <3>1. ASSUME written + 1 \in 0..MaxPasswords
            PROVE [req[r] EXCEPT !.pc = "reset_consume", !.pw = written + 1] \in Request
        <4>1. PICK c : c = req[r]
          OBVIOUS
        <4>2. c \in Request /\ "reset_consume" \in Steps
          BY <1>h, <4>1 DEF Steps
        <4> QED
          BY <1>h, <3>1, <4>1, <4>2 DEF Request
      <3>2. ticket[req[r].ticket].kind = "reset" /\ ticket[req[r].ticket].user \in Users
        BY <2>2 DEF Held, HeldBy, Ids, Resets, Writes, Links, ResetWrite, At
      <3> QED
        BY <1>f, <1>p, <1>w, <2>2, <3>1, <3>2 DEF ResetWrite, TypeOK, history
    <2>3. CASE ResetConsume(r)
      <3>1. [req[r] EXCEPT !.pc = "reset_sweep", !.ticket = NoTicket] \in Request
        <4>1. PICK c : c = req[r]
          OBVIOUS
        <4>2. c \in Request /\ "reset_sweep" \in Steps
          BY <1>h, <4>1 DEF Steps
        <4> QED
          BY <1>h, <4>1, <4>2 DEF Request
      <3>2. ASSUME NEW t \in Tickets PROVE [ticket[t] EXCEPT !.open = FALSE] \in Ticket
        BY <1>t DEF Ticket
      <3>3. ticket' \in [Tickets -> Ticket]
        BY <2>3, <3>2 DEF ResetConsume, TypeOK
      <3>4. req' \in [Requests -> Request]
        BY <1>f, <2>3, <3>1 DEF ResetConsume, TypeOK
      <3> QED
        BY <2>3, <3>3, <3>4 DEF ResetConsume, TypeOK, history
    <2>4. CASE ResetSweep(r)
      <3>1. req[r].user \in Users /\ req[r].pw \in 0..MaxPasswords
        BY <1>h, <2>4 DEF ResetSweep, At, WithUser, Request
      <3> QED
        BY <1>f, <1>s, <2>4, <3>1 DEF ResetSweep, TypeOK, history
    <2>5. ASSUME NEW s \in Sessions, UpdatePasswordRead(r, s) PROVE TypeOK'
      <3>1. session[s].user \in Users \cup {NoUser}
        BY <1>t DEF Session
      <3>2. [Idle EXCEPT !.pc = "update_write", !.user = session[s].user, !.session = s] \in Request
        BY <1>a, <3>1 DEF Request, Steps
      <3> QED
        BY <2>5, <3>2 DEF UpdatePasswordRead, Begin, TypeOK, history
    <2>6. CASE UpdatePasswordWrite(r)
      <3>1. ASSUME written + 1 \in 0..MaxPasswords
            PROVE [req[r] EXCEPT !.pc = "update_sweep", !.pw = written + 1] \in Request
        <4>1. PICK c : c = req[r]
          OBVIOUS
        <4>2. c \in Request /\ "update_sweep" \in Steps
          BY <1>h, <4>1 DEF Steps
        <4> QED
          BY <1>h, <3>1, <4>1, <4>2 DEF Request
      <3>2. req[r].user \in Users
        BY <1>h, <2>6 DEF UpdatePasswordWrite, At, WithUser
      <3> QED
        BY <1>f, <1>p, <1>w, <2>6, <3>1, <3>2 DEF UpdatePasswordWrite, TypeOK, history
    <2>7. CASE UpdatePasswordSweep(r)
      <3>1. /\ req[r].user \in Users /\ req[r].pw \in 0..MaxPasswords
            /\ req[r].session \in Sessions \cup {NoSession}
        BY <1>h, <2>7 DEF UpdatePasswordSweep, At, WithUser, Request
      <3> QED
        BY <1>f, <1>s, <2>7, <3>1 DEF UpdatePasswordSweep, TypeOK, history
    <2> QED
      BY <1>3, <2>1, <2>2, <2>3, <2>4, <2>5, <2>6, <2>7 DEF Changes
  <1>4. ASSUME NEW j \in jwt, FollowLink(j) PROVE TypeOK'
    <2>1. ASSUME NEW u \in Users PROVE /\ [user[u] EXCEPT !.verified = TRUE] \in User
                                       /\ [user[u] EXCEPT !.addr = j.to, !.verified = TRUE] \in User
      BY <1>t DEF User, Jwt
    <2>2. [j EXCEPT !.kind = "change"] \in Jwt
      BY <1>t DEF Jwt
    <2>3. PICK u \in Users : \/ user' = user
                             \/ user' = [user EXCEPT ![u].verified = TRUE]
                             \/ user' = [user EXCEPT ![u].addr = j.to, ![u].verified = TRUE]
      BY <1>4 DEF FollowLink, Holders
    <2>4. user' \in [Users -> User]
      BY <2>1, <2>3 DEF TypeOK
    <2>5. proven' \in SUBSET Users /\ jwt' \in SUBSET Jwt
      BY <1>m, <1>4, <2>2 DEF FollowLink, Holders, TypeOK
    <2> QED
      BY <1>4, <2>4, <2>5 DEF FollowLink, TypeOK, history
  <1>5. ASSUME NEW e \in Emails, RequestPasswordReset(e) PROVE TypeOK'
    BY <1>5 DEF RequestPasswordReset, Ticket, Holders, TypeOK, history
  <1>6. ASSUME NEW u \in Users, AdminPassword(u) PROVE TypeOK'
    BY <1>w, <1>6 DEF AdminPassword, TypeOK, history
  <1>7. ASSUME NEW u \in Users, NEW m \in BOOLEAN, UpdateUser(u, m) PROVE TypeOK'
    <2>1. ASSUME NEW v \in BOOLEAN PROVE [user[u] EXCEPT !.verified = v] \in User
      BY <1>t DEF User
    <2>2. ASSUME NEW e \in Emails PROVE [user[u] EXCEPT !.addr = e] \in User
      BY <1>t DEF User
    <2> QED
      BY <1>7, <2>1, <2>2 DEF UpdateUser, TypeOK, history
  <1>8. ASSUME NEW s \in Sessions, Logout(s) \/ LogoutAll(s) PROVE TypeOK'
    BY <1>a, <1>8 DEF Logout, LogoutAll, TypeOK, history
  <1>9. ASSUME NEW s \in Sessions, RequestDeletion(s) PROVE TypeOK'
    BY <1>9 DEF RequestDeletion, Ticket, Session, TypeOK, history
  <1>10. ASSUME NEW s \in Sessions, NEW e \in Emails, ChangeEmail(s, e) PROVE TypeOK'
    <2>1. PICK u \in Users : u = session[s].user /\ user[u].verified
      BY <1>10 DEF ChangeEmail, AsCaller, Caller, Live, Session, TypeOK, history
    <2>2. user[u].addr \in Emails
      BY <1>10, <2>1 DEF ChangeEmail, AsCaller, Rows, RowOK, RowOK, RowOK, RowOK, RowOK
    <2>3. [kind |-> "approve", addr |-> user[u].addr, to |-> e] \in Jwt
      BY <2>2 DEF Jwt
    <2> QED
      BY <1>m, <1>10, <2>1, <2>3 DEF ChangeEmail, TypeOK, history
  <1>11. ASSUME NEW s \in Sessions, NEW t \in Tickets, ConfirmDeletion(s, t) PROVE TypeOK'
    <2>1. session[s].user \in Users
      BY <1>11 DEF ConfirmDeletion, AsCaller, Caller, Live, Session, TypeOK, history
    <2>2. [ticket[t] EXCEPT !.open = FALSE] \in Ticket
      BY <1>t DEF Ticket
    <2> QED
      BY <1>d, <1>11, <2>1, <2>2 DEF ConfirmDeletion, TypeOK, history
  <1>12. ASSUME NEW u \in Users, AdminDelete(u) PROVE TypeOK'
    BY <1>d, <1>12 DEF AdminDelete, TypeOK, history
  <1>13. CASE UNCHANGED vars
    BY <1>13 DEF vars, TypeOK, history
  <1> QED
    BY <1>1, <1>2, <1>3, <1>4, <1>5, <1>6, <1>7, <1>8, <1>9, <1>10, <1>11, <1>12, <1>13
    DEF Next, UpdatePasswordCommand, update, remove, Holders


\* What no step takes back: an id that was used is not used again, and an account keeps its
\* role and its newest password until it is deleted, with its sessions; passwords are
\* numbered upwards, the histories keep their marks, and a single-use link keeps its
\* purpose and its owner.
Ages ==
  \A u \in Users :
    /\ user[u].st # "none" => user'[u].st # "none"
    /\ Row(u)' => Row(u) \/ user[u].st = "none"
    /\ Row(u) => Row(u)' \/ \A s \in Sessions : session'[s].user # u
    /\ Row(u)' /\ Row(u) => user[u].pw <= user'[u].pw /\ (user[u].role => user'[u].role)

Grow ==
  /\ Ages
  /\ written <= written' /\ proven \subseteq proven' /\ announced \subseteq announced'
  /\ \A u \in Users : swept[u] <= swept'[u]
  /\ \A t \in Tickets : ticket[t].kind # "none" =>
       ticket'[t].kind = ticket[t].kind /\ ticket'[t].user = ticket[t].user

\* Every statement only adds to what is never taken back.
LEMMA StepGrow == TypeOK /\ Rows /\ Held /\ [Next]_vars => Grow
  <1> SUFFICES ASSUME TypeOK, Rows, Held, [Next]_vars PROVE Grow
    OBVIOUS
  <1>t. /\ user \in [Users -> User] /\ swept \in [Users -> Nat] /\ written \in Nat
        /\ ticket \in [Tickets -> Ticket]
    BY AccountsAssumption DEF TypeOK, Sweeps
  <1>k. \A u \in Users : user[u].pw \in Nat /\ user[u].pw <= written
    BY <1>t, AccountsAssumption DEF Rows, RowOK, User
  <1>h. ASSUME NEW r \in Requests PROVE req[r].pw \in Nat
    BY AccountsAssumption DEF TypeOK, Request
  <1>u. ASSUME NEW r \in Requests, req[r].pc \in WithUser PROVE req[r].user \in Users
    BY <1>u DEF Held, HeldBy, Ids, Resets, Writes
  <1>0. UNCHANGED user => Ages
    BY <1>k DEF Ages, Row
  <1>v. ASSUME NEW u \in Users, NEW v \in BOOLEAN, user' = [user EXCEPT ![u].verified = v]
        PROVE  Ages
    BY <1>k, <1>t, <1>v DEF Ages, Row, User
  <1>r. ASSUME NEW u \in Users, assignDefaultRole(u) PROVE Ages
    BY <1>k, <1>t, <1>r DEF assignDefaultRole, Ages, Row, User
  <1>b. ASSUME NEW u \in Users, NEW e \in Emails, user' = [user EXCEPT ![u].addr = e]
        PROVE  Ages
    BY <1>k, <1>t, <1>b DEF Ages, Row, User
  <1>e. ASSUME NEW u \in Users, NEW e \in Emails,
               user' = [user EXCEPT ![u].addr = e, ![u].verified = TRUE]
        PROVE  Ages
    BY <1>k, <1>t, <1>e DEF Ages, Row, User
  <1>l. ASSUME NEW u \in Users, NEW e \in Emails, NEW v \in BOOLEAN,
               user' = [user EXCEPT ![u].link = e, ![u].verified = v]
        PROVE  Ages
    BY <1>k, <1>t, <1>l DEF Ages, Row, User
  <1>p. ASSUME NEW u \in Users, user' = [user EXCEPT ![u].pw = written + 1] PROVE Ages
    BY <1>k, <1>t, <1>p DEF Ages, Row, User
  <1>i. ASSUME NEW u \in NewIds, NEW x, user' = [user EXCEPT ![u] = x], x.st # "none"
        PROVE  Ages
    BY <1>k, <1>t, <1>i DEF Ages, Row, User, NewIds
  <1>n. ASSUME NEW u \in Users, NEW e, signUpEmail(u, e) PROVE Ages /\ written' = written + 1
    <2>1. [Absent EXCEPT !.st = "row", !.addr = e, !.pw = written + 1].st = "row"
      BY DEF Absent
    <2> QED
      BY <1>i, <1>n, <2>1 DEF signUpEmail
  <1>d. ASSUME NEW u \in Users, DeleteRow(u) PROVE Ages
    BY <1>k, <1>t, <1>d, AccountsAssumption DEF DeleteRow, Absent, NoLogin, Ages, Row, User
  <1>1. ASSUME NEW r \in Requests, Registers(r) PROVE Grow
    <2>1. ASSUME NEW e \in Emails, NEW v \in BOOLEAN, StoreRead(r, e, v) PROVE Grow
      BY <1>t, <1>0, <2>1 DEF StoreRead, Grow, history
    <2>2. CASE StoreSignUp(r)
      BY <1>t, <1>0, <1>n, <2>2 DEF StoreSignUp, Grow, history
    <2>3. CASE StoreUpdate(r)
      <3>1. req[r].flag \in BOOLEAN
        BY DEF TypeOK, Request
      <3> QED
        BY <1>t, <1>0, <1>v, <2>3, <3>1 DEF StoreUpdate, OrFail, Grow
    <2>4. CASE StoreRole(r)
      BY <1>t, <1>0, <1>r, <1>u, <2>4 DEF StoreRole, At, WithUser, OrFail, Grow
    <2>5. ASSUME NEW e \in Emails, SignupCreate(r, e) PROVE Grow
      BY <1>t, <1>n, <2>5 DEF SignupCreate, Grow, history
    <2>6. CASE SignupRole(r)
      BY <1>t, <1>0, <1>r, <1>u, <2>6 DEF SignupRole, At, WithUser, OrFail, Grow
    <2>7. ASSUME NEW e \in Emails, SocialSignIn(r, e) PROVE Grow
      <3>1. \A u \in Users : user[u].verified \in BOOLEAN
        BY <1>t DEF User
      <3>2. [Absent EXCEPT !.st = "row", !.addr = e, !.verified = TRUE, !.link = e].st = "row"
        BY DEF Absent
      <3>3. Ages
        <4>1. CASE UNCHANGED user
          BY <1>0, <4>1
        <4>2. ASSUME NEW u \in Users, NEW v \in {user[u].verified, TRUE},
                     user' = [user EXCEPT ![u].link = e, ![u].verified = v]
              PROVE  Ages
          BY <1>l, <3>1, <4>2
        <4>3. ASSUME NEW u \in NewIds,
                     user' = [user EXCEPT ![u] = [Absent EXCEPT !.st = "row", !.addr = e,
                                                    !.verified = TRUE, !.link = e]]
              PROVE  Ages
          BY <1>i, <3>2, <4>3
        <4> QED
          BY <2>7, <4>1, <4>2, <4>3 DEF SocialSignIn, Holders
      <3>4. proven \subseteq proven'
        BY <2>7 DEF SocialSignIn
      <3>5. UNCHANGED <<ticket, written, swept, announced>>
        BY <2>7 DEF SocialSignIn
      <3> QED
        BY <1>t, <3>3, <3>4, <3>5 DEF Grow
    <2>8. CASE SocialRead(r)
      BY <1>t, <1>0, <2>8 DEF SocialRead, Grow, history
    <2>9. CASE SocialRole(r)
      BY <1>t, <1>0, <1>r, <1>u, <2>9 DEF SocialRole, At, WithUser, OrFail, Grow
    <2> QED
      BY <1>1, <2>1, <2>2, <2>3, <2>4, <2>5, <2>6, <2>7, <2>8, <2>9
      DEF Registers, create, CreateAdminCommand, CreateUserCommand
  <1>2. ASSUME NEW r \in Requests, Logs(r) PROVE Grow
    <2>1. ASSUME NEW e \in Emails, NEW pw \in 1..MaxPasswords, LoginRead(r, e, pw) PROVE Grow
      BY <1>t, <1>0, <2>1 DEF LoginRead, Grow, history
    <2>2. CASE LoginSignIn(r)
      BY <1>t, <1>0, <2>2 DEF LoginSignIn, Grow, history
    <2>3. CASE LoginRelations(r)
      BY <1>t, <1>0, <2>3 DEF LoginRelations, Grow, history
    <2>4. CASE Issue(r)
      BY <1>t, <1>0, <2>4 DEF Issue, OrFail, Grow
    <2> QED
      BY <1>2, <2>1, <2>2, <2>3, <2>4 DEF Logs
  <1>3. ASSUME NEW r \in Requests, Changes(r) PROVE Grow
    <2>1. ASSUME NEW t \in Tickets, ResetResolve(r, t) PROVE Grow
      BY <1>t, <1>0, <2>1 DEF ResetResolve, Grow, history
    <2>2. CASE ResetWrite(r)
      BY <1>t, <1>0, <1>p, <2>2 DEF ResetWrite, Grow, history
    <2>3. CASE ResetConsume(r)
      <3>1. \A t \in Tickets : ticket'[t].kind = ticket[t].kind /\ ticket'[t].user = ticket[t].user
        BY <1>t, <2>3 DEF ResetConsume, Ticket
      <3> QED
        BY <1>t, <1>0, <2>3, <3>1 DEF ResetConsume, Grow, history
    <2>4. CASE ResetSweep(r)
      BY <1>t, <1>0, <1>h, <2>4 DEF ResetSweep, Sweep, Higher, Grow, history
    <2>5. ASSUME NEW s \in Sessions, UpdatePasswordRead(r, s) PROVE Grow
      BY <1>t, <1>0, <2>5 DEF UpdatePasswordRead, Grow, history
    <2>6. CASE UpdatePasswordWrite(r)
      BY <1>t, <1>0, <1>p, <2>6 DEF UpdatePasswordWrite, Grow, history
    <2>7. CASE UpdatePasswordSweep(r)
      BY <1>t, <1>0, <1>h, <2>7 DEF UpdatePasswordSweep, Sweep, Higher, Grow, history
    <2> QED
      BY <1>3, <2>1, <2>2, <2>3, <2>4, <2>5, <2>6, <2>7 DEF Changes
  <1>4. ASSUME NEW j \in jwt, FollowLink(j) PROVE Grow
    <2>1. j.to \in Emails
      BY DEF TypeOK, Jwt
    <2>2. Ages
      BY <1>0, <1>v, <1>e, <1>4, <2>1 DEF FollowLink, Holders
    <2> QED
      BY <1>t, <1>4, <2>2 DEF FollowLink, Grow
  <1>5. ASSUME NEW e \in Emails, RequestPasswordReset(e) PROVE Grow
    BY <1>t, <1>0, <1>5 DEF RequestPasswordReset, Grow, history
  <1>6. ASSUME NEW u \in Users, AdminPassword(u) PROVE Grow
    <2>1. Ages
      BY <1>p, <1>6 DEF AdminPassword
    <2> QED
      BY <1>t, <1>6, <2>1 DEF AdminPassword, Grow, history
  <1>7. ASSUME NEW u \in Users, NEW m \in BOOLEAN, UpdateUser(u, m) PROVE Grow
    BY <1>t, <1>v, <1>b, <1>7 DEF UpdateUser, Grow
  <1>8. ASSUME NEW s \in Sessions, Logout(s) PROVE Grow
    BY <1>t, <1>0, <1>8 DEF Logout, Grow, history
  <1>9. ASSUME NEW s \in Sessions, LogoutAll(s) PROVE Grow
    BY <1>t, <1>0, <1>9 DEF LogoutAll, Grow, history
  <1>10. ASSUME NEW s \in Sessions, RequestDeletion(s) PROVE Grow
    BY <1>t, <1>0, <1>10 DEF RequestDeletion, Grow, history
  <1>11. ASSUME NEW s \in Sessions, NEW e \in Emails, ChangeEmail(s, e) PROVE Grow
    BY <1>t, <1>0, <1>11 DEF ChangeEmail, Grow, history
  <1>12. ASSUME NEW s \in Sessions, NEW t \in Tickets, ConfirmDeletion(s, t) PROVE Grow
    <2>1. \A x \in Tickets : ticket'[x].kind = ticket[x].kind /\ ticket'[x].user = ticket[x].user
      BY <1>t, <1>12 DEF ConfirmDeletion, Ticket
    <2>2. session[s].user \in Users
      BY <1>12 DEF ConfirmDeletion, AsCaller, Caller, Live, TypeOK, Session
    <2> QED
      BY <1>t, <1>d, <1>12, <2>1, <2>2 DEF ConfirmDeletion, Grow, history
  <1>13. ASSUME NEW u \in Users, AdminDelete(u) PROVE Grow
    BY <1>t, <1>d, <1>13 DEF AdminDelete, Grow, history
  <1>14. CASE UNCHANGED vars
    BY <1>t, <1>0, <1>14 DEF vars, Grow, history
  <1> QED
    BY <1>1, <1>2, <1>3, <1>4, <1>5, <1>6, <1>7, <1>8, <1>9, <1>10, <1>11, <1>12, <1>13,
       <1>14
    DEF Next, UpdatePasswordCommand, update, remove, Holders

\* Every statement on the table user keeps its rows in order, whoever wrote them last.
LEMMA StepRows == TypeOK /\ Rows /\ Links /\ Held /\ [Next]_vars => Rows'
  <1> SUFFICES ASSUME TypeOK, Rows, Links, Held, [Next]_vars, NEW x \in Users PROVE RowOK(x)'
    BY DEF Rows
  <1>t. /\ user \in [Users -> User] /\ swept \in [Users -> Nat] /\ written \in Nat
        /\ jwt \subseteq Jwt /\ RowOK(x)
    BY AccountsAssumption DEF TypeOK, Sweeps, Rows
  <1>k. \A u \in Users : user[u].pw \in Nat
    BY <1>t, AccountsAssumption DEF User
  <1>a. ASSUME NEW r \in Requests, req[r].pc \in WithAddress PROVE req[r].addr \in Emails
    BY <1>a DEF Held, HeldBy, Ids, Resets, Writes
  <1>u. ASSUME NEW r \in Requests, req[r].pc \in WithUser
        PROVE  req[r].user \in Users /\ user[req[r].user].st # "none"
    BY <1>u DEF Held, HeldBy, Ids, Resets, Writes
  <1>0. UNCHANGED <<user, written, swept, proven, announced>> => RowOK(x)'
    BY <1>t DEF RowOK, Row
  <1>r. ASSUME NEW u \in Users, Row(u), assignDefaultRole(u),
               UNCHANGED <<written, swept, proven>>,
               announced' = announced \/ announced' = announced \cup {u}
        PROVE  RowOK(x)'
    BY <1>t, <1>r DEF assignDefaultRole, RowOK, Row, User
  <1>n. ASSUME NEW u \in Users, NEW e \in Emails, signUpEmail(u, e),
               UNCHANGED <<swept, proven, announced>>
        PROVE  RowOK(x)'
    BY <1>t, <1>k, <1>n DEF signUpEmail, NewIds, Absent, RowOK, Row, User
  <1>p. ASSUME NEW u \in Users, Row(u), user' = [user EXCEPT ![u].pw = written + 1],
               written' = written + 1, UNCHANGED <<swept, proven, announced>>
        PROVE  RowOK(x)'
    BY <1>t, <1>k, <1>p DEF RowOK, Row, User
  <1>s. ASSUME NEW r \in Requests, req[r].pc \in {"reset_sweep", "update_sweep"},
               NEW keep, Sweep(req[r].user, keep, req[r].pw),
               UNCHANGED <<user, written, proven, announced>>
        PROVE  RowOK(x)'
    <2>1. /\ req[r].user \in Users /\ user[req[r].user].st # "none"
          /\ req[r].pw <= written /\ (Row(req[r].user) => req[r].pw <= user[req[r].user].pw)
      BY <1>s DEF Held, HeldBy, Ids, Resets, Writes, Target, WithUser
    <2> QED
      BY <1>t, <1>k, <1>s, <2>1 DEF Sweep, Higher, RowOK, Row
  <1>d. ASSUME NEW u \in Users, Row(u), DeleteRow(u), UNCHANGED <<written, swept, proven, announced>>
        PROVE  RowOK(x)'
    BY <1>t, <1>k, <1>d DEF DeleteRow, Absent, RowOK, Row, User
  <1>1. ASSUME NEW r \in Requests, Registers(r) PROVE RowOK(x)'
    <2>1. ASSUME NEW e \in Emails, NEW v \in BOOLEAN, StoreRead(r, e, v) PROVE RowOK(x)'
      BY <1>0, <2>1 DEF StoreRead, history
    <2>2. CASE StoreSignUp(r)
      <3>1. CASE UNCHANGED <<user, written>>
        BY <1>0, <2>2, <3>1 DEF StoreSignUp, history
      <3>2. ASSUME NEW u \in Users, signUpEmail(u, req[r].addr) PROVE RowOK(x)'
        BY <1>n, <1>a, <2>2, <3>2 DEF StoreSignUp, At, WithAddress, history
      <3> QED
        BY <2>2, <3>1, <3>2 DEF StoreSignUp
    <2>3. CASE StoreUpdate(r)
      BY <1>t, <1>0, <1>u, <2>3 DEF StoreUpdate, At, WithUser, OrFail, RowOK, Row, User
    <2>4. CASE StoreRole(r)
      BY <1>0, <1>r, <1>u, <2>4 DEF StoreRole, At, WithUser, OrFail
    <2>5. ASSUME NEW e \in Emails, SignupCreate(r, e) PROVE RowOK(x)'
      BY <1>n, <2>5 DEF SignupCreate, history
    <2>6. CASE SignupRole(r)
      BY <1>0, <1>r, <1>u, <2>6 DEF SignupRole, At, WithUser, OrFail
    <2>7. ASSUME NEW e \in Emails, SocialSignIn(r, e) PROVE RowOK(x)'
      <3>1. UNCHANGED <<written, swept, announced>>
        BY <2>7 DEF SocialSignIn
      <3>2. CASE UNCHANGED <<user, proven>>
        BY <1>0, <3>1, <3>2
      <3>3. ASSUME NEW u \in Users, NEW v \in {user[u].verified, TRUE}, Row(u),
                   user' = [user EXCEPT ![u].link = e, ![u].verified = v],
                   proven' = IF v THEN proven \cup {u} ELSE proven
            PROVE  RowOK(x)'
        BY <1>t, <1>k, <3>1, <3>3 DEF RowOK, Row, User
      <3>4. ASSUME NEW u \in NewIds, proven' = proven \cup {u},
                   user' = [user EXCEPT ![u] = [Absent EXCEPT !.st = "row", !.addr = e,
                                                  !.verified = TRUE, !.link = e]]
            PROVE  RowOK(x)'
        BY <1>t, <1>k, <3>1, <3>4 DEF NewIds, Absent, RowOK, Row, User
      <3> QED
        BY <2>7, <3>2, <3>3, <3>4 DEF SocialSignIn, Holders
    <2>8. CASE SocialRead(r)
      BY <1>0, <2>8 DEF SocialRead, history
    <2>9. CASE SocialRole(r)
      BY <1>0, <1>r, <1>u, <2>9 DEF SocialRole, At, WithUser, OrFail
    <2> QED
      BY <1>1, <2>1, <2>2, <2>3, <2>4, <2>5, <2>6, <2>7, <2>8, <2>9
      DEF Registers, create, CreateAdminCommand, CreateUserCommand
  <1>2. ASSUME NEW r \in Requests, Logs(r) PROVE RowOK(x)'
    <2>1. ASSUME NEW e \in Emails, NEW pw \in 1..MaxPasswords, LoginRead(r, e, pw) PROVE RowOK(x)'
      BY <1>0, <2>1 DEF LoginRead, history
    <2>2. CASE LoginSignIn(r)
      BY <1>0, <2>2 DEF LoginSignIn, history
    <2>3. CASE LoginRelations(r)
      BY <1>0, <2>3 DEF LoginRelations, history
    <2>4. CASE Issue(r)
      BY <1>0, <2>4 DEF Issue, OrFail
    <2> QED
      BY <1>2, <2>1, <2>2, <2>3, <2>4 DEF Logs
  <1>3. ASSUME NEW r \in Requests, Changes(r) PROVE RowOK(x)'
    <2>1. ASSUME NEW t \in Tickets, ResetResolve(r, t) PROVE RowOK(x)'
      BY <1>0, <2>1 DEF ResetResolve, history
    <2>2. CASE ResetWrite(r)
      <3>1. ticket[req[r].ticket].user \in Users
        BY <2>2 DEF Held, HeldBy, Ids, Resets, Writes, Links, ResetWrite, At
      <3> QED
        BY <1>0, <1>p, <2>2, <3>1 DEF ResetWrite, history
    <2>3. CASE ResetConsume(r)
      BY <1>0, <2>3 DEF ResetConsume, history
    <2>4. CASE ResetSweep(r)
      BY <1>s, <2>4 DEF ResetSweep, At
    <2>5. ASSUME NEW s \in Sessions, UpdatePasswordRead(r, s) PROVE RowOK(x)'
      BY <1>0, <2>5 DEF UpdatePasswordRead, history
    <2>6. CASE UpdatePasswordWrite(r)
      BY <1>0, <1>p, <1>u, <2>6 DEF UpdatePasswordWrite, At, WithUser, history
    <2>7. CASE UpdatePasswordSweep(r)
      BY <1>s, <2>7 DEF UpdatePasswordSweep, At
    <2> QED
      BY <1>3, <2>1, <2>2, <2>3, <2>4, <2>5, <2>6, <2>7 DEF Changes
  <1>4. ASSUME NEW j \in jwt, FollowLink(j) PROVE RowOK(x)'
    BY <1>t, <1>0, <1>4 DEF FollowLink, Holders, RowOK, Row, User, Jwt
  <1>5. ASSUME NEW e \in Emails, RequestPasswordReset(e) PROVE RowOK(x)'
    BY <1>0, <1>5 DEF RequestPasswordReset, history
  <1>6. ASSUME NEW u \in Users, AdminPassword(u) PROVE RowOK(x)'
    BY <1>p, <1>6 DEF AdminPassword, history
  <1>7. ASSUME NEW u \in Users, NEW m \in BOOLEAN, UpdateUser(u, m) PROVE RowOK(x)'
    BY <1>t, <1>7 DEF UpdateUser, RowOK, Row, User
  <1>8. ASSUME NEW s \in Sessions, Logout(s) PROVE RowOK(x)'
    BY <1>0, <1>8 DEF Logout, history
  <1>9. ASSUME NEW s \in Sessions, LogoutAll(s) PROVE RowOK(x)'
    BY <1>0, <1>9 DEF LogoutAll, history
  <1>10. ASSUME NEW s \in Sessions, RequestDeletion(s) PROVE RowOK(x)'
    BY <1>0, <1>10 DEF RequestDeletion, history
  <1>11. ASSUME NEW s \in Sessions, NEW e \in Emails, ChangeEmail(s, e) PROVE RowOK(x)'
    BY <1>0, <1>11 DEF ChangeEmail, history
  <1>12. ASSUME NEW s \in Sessions, NEW t \in Tickets, ConfirmDeletion(s, t) PROVE RowOK(x)'
    BY <1>d, <1>12 DEF ConfirmDeletion, AsCaller, Caller, Live, TypeOK, Session, history
  <1>13. ASSUME NEW u \in Users, AdminDelete(u) PROVE RowOK(x)'
    BY <1>d, <1>13 DEF AdminDelete, history
  <1>14. CASE UNCHANGED vars
    BY <1>0, <1>14 DEF vars, history
  <1> QED
    BY <1>1, <1>2, <1>3, <1>4, <1>5, <1>6, <1>7, <1>8, <1>9, <1>10, <1>11, <1>12, <1>13,
       <1>14
    DEF Next, UpdatePasswordCommand, update, remove, Holders

\* Links keep their owners, and an owner once used stays used.
LEMMA StepLinks == TypeOK /\ Rows /\ Links /\ Held /\ [Next]_vars => Links'
  <1> SUFFICES ASSUME TypeOK, Rows, Links, Held, [Next]_vars PROVE Links'
    OBVIOUS
  <1>g. Grow
    BY StepGrow
  <1>1. ASSUME NEW t \in Tickets, ticket[t].kind # "none" \/ ticket'[t].kind = "none"
        PROVE  ticket'[t].kind # "none" =>
                 ticket'[t].user \in Users /\ user'[ticket'[t].user].st # "none"
    BY <1>g, <1>1 DEF Grow, Ages, Links
  <1>0. UNCHANGED ticket => Links'
    BY <1>1 DEF Links
  <1>2. ASSUME NEW t \in Tickets, NEW u \in Users, NEW kind, Row(u),
               ticket' = [ticket EXCEPT ![t] = [kind |-> kind, user |-> u, open |-> TRUE]]
        PROVE  Links'
    BY <1>1, <1>2, <1>g DEF Links, Grow, Ages, Row, TypeOK
  <1>3. ASSUME NEW t, ticket' = [ticket EXCEPT ![t].open = FALSE] PROVE Links'
    <2>1. \A x \in Tickets : ticket'[x].kind = ticket[x].kind
      BY <1>3 DEF TypeOK, Ticket
    <2> QED
      BY <1>1, <2>1 DEF Links
  <1>4. ASSUME NEW r \in Requests, Registers(r) PROVE UNCHANGED ticket
    BY <1>4 DEF Registers, create, CreateAdminCommand, CreateUserCommand, StoreRead, StoreSignUp,
       StoreUpdate, StoreRole, SignupCreate, SignupRole, SocialSignIn, SocialRead, SocialRole
  <1>5. ASSUME NEW r \in Requests, Logs(r) PROVE UNCHANGED ticket
    BY <1>5 DEF Logs, LoginRead, LoginSignIn, LoginRelations, Issue
  <1>6. ASSUME NEW r \in Requests, Changes(r) PROVE Links'
    BY <1>0, <1>3, <1>6 DEF Changes, ResetResolve, ResetWrite, ResetConsume, ResetSweep,
       UpdatePasswordRead, UpdatePasswordWrite, UpdatePasswordSweep
  <1>7. ASSUME NEW j \in jwt, FollowLink(j) PROVE UNCHANGED ticket
    BY <1>7 DEF FollowLink
  <1>8. ASSUME NEW e \in Emails, RequestPasswordReset(e) PROVE Links'
    BY <1>2, <1>8 DEF RequestPasswordReset, Holders
  <1>9. ASSUME NEW u \in Users, AdminPassword(u) \/ update(u) \/ remove(u) PROVE UNCHANGED ticket
    BY <1>9 DEF AdminPassword, update, UpdateUser, remove, AdminDelete
  <1>10. ASSUME NEW s \in Sessions, Logout(s) \/ LogoutAll(s) \/ \E e \in Emails : ChangeEmail(s, e)
         PROVE UNCHANGED ticket
    BY <1>10 DEF Logout, LogoutAll, ChangeEmail
  <1>11. ASSUME NEW s \in Sessions, RequestDeletion(s) PROVE Links'
    BY <1>2, <1>11 DEF RequestDeletion, AsCaller, Caller, Live, TypeOK, Session
  <1>12. ASSUME NEW s \in Sessions, NEW t \in Tickets, ConfirmDeletion(s, t) PROVE Links'
    BY <1>3, <1>12 DEF ConfirmDeletion
  <1> QED
    BY <1>0, <1>4, <1>5, <1>6, <1>7, <1>8, <1>9, <1>10, <1>11, <1>12
    DEF Next, UpdatePasswordCommand, vars, Holders

\* What a request remembers stays true while it waits, whatever the others do.
LEMMA Waiting ==
  ASSUME TypeOK, TypeOK', Links, Grow, NEW q \in Requests, HeldBy(q), req'[q] = req[q]
  PROVE  HeldBy(q)'
  <1>t. /\ swept \in [Users -> Nat] /\ req[q].seen \in [Users -> Nat] /\ req[q].pw \in Nat
        /\ written \in Nat /\ written' \in Nat /\ swept' \in [Users -> Nat]
    BY AccountsAssumption DEF TypeOK, Sweeps, Request
  <1>u. \A u \in Users : user[u].pw \in Nat /\ user'[u].pw \in Nat
    BY AccountsAssumption DEF TypeOK, User
  <1>v. ASSUME NEW u \in Users, u = Target(q), u = Target(q)', user[u].st # "none",
               req[q].pc \in {"reset_consume", "reset_sweep", "update_sweep"}
        PROVE  Writes(q)'
    <2>1. req[q].pw <= written /\ (Row(u) => req[q].pw <= user[u].pw)
      BY <1>v DEF HeldBy, Writes
    <2>2. written <= written' /\ written' \in Nat
      BY <1>t DEF Grow
    <2>3. Row(u)' => Row(u) /\ user[u].pw <= user'[u].pw
      BY <1>v DEF Grow, Ages
    <2>4. req[q].pw <= written' /\ (Row(u)' => req[q].pw <= user'[u].pw)
      BY <1>t, <1>u, <2>1, <2>2, <2>3
    <2> QED
      BY <1>v, <2>4 DEF Writes
  <1>1. Ids(q)'
    BY DEF HeldBy, Ids, Grow, Ages
  <1>2. Resets(q)'
    BY DEF HeldBy, Resets, Grow
  <1>3. Writes(q)'
    <2>1. CASE req[q].pc = "reset_consume"
      <3>1. PICK u \in Users : u = Target(q) /\ u = Target(q)' /\ user[u].st # "none"
        BY <2>1 DEF HeldBy, Resets, Target, Links, Grow
      <3> QED
        BY <1>v, <2>1, <3>1
    <2>2. CASE req[q].pc \in {"reset_sweep", "update_sweep"}
      <3>1. PICK u \in Users : u = Target(q) /\ u = Target(q)' /\ user[u].st # "none"
        BY <2>2 DEF HeldBy, Ids, Target, WithUser
      <3> QED
        BY <1>v, <2>2, <3>1
    <2> QED
      BY <2>1, <2>2 DEF Writes
  <1>4. SignsIn(q)'
    BY DEF HeldBy, Ids, SignsIn, Grow, Ages, WithUser, Row
  <1>5. Overtaken(q)'
    <2>1. \A u \in Users : /\ req[q].seen[u] \in Nat /\ req[q].seen[u] <= swept[u]
                           /\ swept[u] <= swept'[u] /\ swept[u] \in Nat /\ swept'[u] \in Nat
      BY <1>t DEF HeldBy, Overtaken, Grow
    <2>2. ASSUME req[q].pc \in {"login_relations", "issue"}, req[q].how = "password",
                 req[q].pw < swept'[req[q].user]
          PROVE  req[q].seen[req[q].user] < swept'[req[q].user]
      <3>1. PICK u \in Users : u = req[q].user
        BY <2>2 DEF HeldBy, Ids, WithUser
      <3>2. req[q].pw < swept[u] => req[q].seen[u] < swept[u]
        BY <2>2, <3>1 DEF HeldBy, Overtaken
      <3> QED
        BY <1>t, <2>1, <2>2, <3>1, <3>2
    <2>3. \A u \in Users : req[q].seen[u] <= swept'[u]
      BY <2>1
    <2> QED
      BY <2>2, <2>3 DEF Overtaken
  <1> QED
    BY <1>1, <1>2, <1>3, <1>4, <1>5 DEF HeldBy

\* What requests remember survives every step, their own and the others'.
LEMMA StepHeld == IInv /\ [Next]_vars => Held'
  <1> SUFFICES ASSUME IInv, [Next]_vars, NEW q \in Requests PROVE HeldBy(q)'
    BY DEF Held
  <1>i. TypeOK /\ Rows /\ Links /\ Held /\ Logins
    BY DEF IInv
  <1>g. Grow
    BY <1>i, StepGrow
  <1>h. TypeOK' /\ Rows' /\ Links'
    BY <1>i, StepType, StepRows, StepLinks
  <1>0. req'[q] = req[q] => HeldBy(q)'
    BY <1>g, <1>h, <1>i, Waiting DEF Held
  <1>q. req \in [Requests -> Request] /\ HeldBy(q)
    BY <1>i DEF TypeOK, Held
  <1>r. req[q] \in Request
    BY <1>q
  <1>t. /\ swept \in [Users -> Nat] /\ swept' \in [Users -> Nat]
        /\ req[q].seen \in [Users -> Nat] /\ written \in Nat
    BY <1>i, <1>h, AccountsAssumption DEF TypeOK, Sweeps, Request
  \* Marks taken now, or before, are not above the marks of the next state.
  <1>s. ASSUME req'[q].seen \in {req[q].seen, Idle.seen, swept}
        PROVE  \A u \in Users : req'[q].seen[u] <= swept'[u]
    BY <1>g, <1>q, <1>s, <1>t DEF Idle, HeldBy, Overtaken, Grow
  \* A request that has just begun, or has got past its look-up, remembers only ids.
  <1>e. ASSUME req'[q].pc \in {"idle", "store_signup", "store_update", "store_role", "signup_role",
                              "social_read", "social_role", "login_signin", "update_write"},
               req'[q].seen \in {req[q].seen, Idle.seen, swept},
               Ids(q)', SignsIn(q)'
        PROVE  HeldBy(q)'
    BY <1>e, <1>s DEF HeldBy, Resets, Writes, Overtaken
  \* A social sign-in that comes to issue tokens.
  <1>c. ASSUME req'[q] = [req[q] EXCEPT !.pc = "issue"], req[q].how = "social",
               req[q].user \in Users, user'[req[q].user].st # "none", user'[req[q].user].role
        PROVE  HeldBy(q)'
    <2>1. /\ req'[q].pc = "issue" /\ req'[q].user = req[q].user
          /\ req'[q].how = "social" /\ req'[q].seen = req[q].seen
      BY <1>c, <1>r DEF Request
    <2> QED
      BY <1>c, <1>s, <2>1
      DEF HeldBy, Ids, Resets, Writes, SignsIn, Overtaken, WithUser, WithAddress
  <1>f. ASSUME Finish(q) PROVE HeldBy(q)'
    <2>1. req'[q] = Idle
      BY <1>f, <1>q DEF Finish
    <2> QED
      BY <1>e, <2>1 DEF Idle, Ids, SignsIn, WithUser, WithAddress
  <1>o. ASSUME NEW r \in Requests, Registers(r) \/ Logs(r) \/ Changes(r), q # r
        PROVE  HeldBy(q)'
    <2>1. req'[q] = req[q]
      <3>1. CASE Registers(r)
        BY <1>q, <1>o, <3>1
        DEF Registers, create, CreateAdminCommand, CreateUserCommand, StoreRead, StoreSignUp,
            StoreUpdate, StoreRole, SignupCreate, SignupRole, SocialSignIn, SocialRead,
            SocialRole, OrFail, Begin, Finish, Goto
      <3>2. CASE Logs(r)
        BY <1>q, <1>o, <3>2
        DEF Logs, LoginRead, LoginSignIn, LoginRelations, Issue, OrFail, Begin, Finish
      <3>3. CASE Changes(r)
        BY <1>q, <1>o, <3>3
        DEF Changes, ResetResolve, ResetWrite, ResetConsume, ResetSweep, UpdatePasswordRead,
            UpdatePasswordWrite, UpdatePasswordSweep, Begin, Finish
      <3> QED
        BY <1>o, <3>1, <3>2, <3>3
    <2> QED
      BY <1>0, <2>1
  <1>1. CASE Registers(q)
    <2>1. ASSUME NEW e \in Emails, NEW v \in BOOLEAN, StoreRead(q, e, v) PROVE HeldBy(q)'
      <3>1. req'[q] = [Idle EXCEPT !.pc = "store_signup", !.addr = e, !.flag = v]
        BY <1>q, <2>1 DEF StoreRead, Begin
      <3> QED
        BY <1>e, <3>1 DEF Idle, Ids, SignsIn, WithUser, WithAddress
    <2>2. CASE StoreSignUp(q)
      <3>1. ASSUME NEW u \in Users, signUpEmail(u, req[q].addr),
                   req' = [req EXCEPT ![q].pc = "store_update", ![q].user = u]
            PROVE  HeldBy(q)'
        <4>1. req'[q] = [req[q] EXCEPT !.pc = "store_update", !.user = u]
          BY <1>q, <3>1
        <4>2. user'[u].st = "row"
          BY <1>i, <3>1 DEF signUpEmail, TypeOK, Absent
        <4>3. req[q].addr \in Emails
          BY <1>q, <2>2 DEF StoreSignUp, At, HeldBy, Ids, WithAddress
        <4>4. /\ req'[q].pc = "store_update" /\ req'[q].user = u
              /\ req'[q].addr = req[q].addr /\ req'[q].seen = req[q].seen
          BY <1>r, <4>1 DEF Request
        <4> QED
          BY <1>e, <4>2, <4>3, <4>4 DEF Ids, SignsIn, WithUser, WithAddress
      <3> QED
        BY <1>f, <2>2, <3>1 DEF StoreSignUp
    <2>3. CASE StoreUpdate(q) \/ StoreRole(q) \/ SignupRole(q)
      <3>1. CASE Goto(q, "store_role") /\ At(q, "store_update")
        <4>1. req'[q] = [req[q] EXCEPT !.pc = "store_role"]
          BY <1>q, <3>1 DEF Goto
        <4> QED
          BY <1>e, <1>g, <1>q, <1>r, <3>1, <4>1
          DEF Request, At, HeldBy, Ids, SignsIn, WithUser, WithAddress, Grow, Ages
      <3> QED
        BY <1>f, <2>3, <3>1 DEF StoreUpdate, StoreRole, SignupRole, OrFail
    <2>4. ASSUME NEW e \in Emails, SignupCreate(q, e) PROVE HeldBy(q)'
      <3>1. PICK u \in Users : /\ signUpEmail(u, e)
                               /\ Begin(q, [Idle EXCEPT !.pc = "signup_role", !.addr = e, !.user = u])
        BY <2>4 DEF SignupCreate
      <3>2. req'[q] = [Idle EXCEPT !.pc = "signup_role", !.addr = e, !.user = u]
        BY <1>q, <3>1 DEF Begin
      <3>3. user'[u].st = "row"
        BY <1>i, <3>1 DEF signUpEmail, TypeOK, Absent
      <3> QED
        BY <1>e, <3>2, <3>3 DEF Idle, Ids, SignsIn, WithUser, WithAddress
    <2>5. ASSUME NEW e \in Emails, SocialSignIn(q, e) PROVE HeldBy(q)'
      <3>1. ASSUME NEW u \in Users, user'[u].st # "none",
                   Begin(q, [Idle EXCEPT !.pc = "social_read", !.user = u, !.how = "social"])
            PROVE  HeldBy(q)'
        <4>1. req'[q] = [Idle EXCEPT !.pc = "social_read", !.user = u, !.how = "social"]
          BY <1>q, <3>1 DEF Begin
        <4> QED
          BY <1>e, <3>1, <4>1 DEF Idle, Ids, SignsIn, WithUser, WithAddress
      <3>2. \A u \in Users : Row(u) => user'[u].st # "none"
        BY <1>g DEF Row, Grow, Ages
      <3>3. ASSUME NEW u \in NewIds,
                   user' = [user EXCEPT ![u] = [Absent EXCEPT !.st = "row", !.addr = e,
                                                  !.verified = TRUE, !.link = e]]
            PROVE  user'[u].st # "none"
        BY <1>i, <3>3 DEF NewIds, TypeOK, Absent
      <3> QED
        BY <2>5, <3>1, <3>2, <3>3 DEF SocialSignIn, Holders, NewIds
    <2>6. CASE SocialRead(q)
      <3>1. CASE Row(req[q].user) /\ ~user[req[q].user].role
        <4>1. req'[q] = [req[q] EXCEPT !.pc = "social_role"]
          BY <1>q, <2>6, <3>1 DEF SocialRead, Goto
        <4> QED
          BY <1>e, <1>g, <1>q, <1>r, <2>6, <4>1
          DEF SocialRead, Request, At, HeldBy, Ids, SignsIn, WithUser, WithAddress, Grow, Ages
      <3>2. CASE Row(req[q].user) /\ user[req[q].user].role
        <4>1. req'[q] = [req[q] EXCEPT !.pc = "issue"]
          BY <1>q, <2>6, <3>2 DEF SocialRead, Goto
        <4>2. user'[req[q].user].role
          BY <2>6, <3>2 DEF SocialRead
        <4>3. req[q].how = "social" /\ req[q].user \in Users /\ user'[req[q].user].st # "none"
          BY <1>g, <1>q, <2>6
          DEF SocialRead, At, HeldBy, Ids, SignsIn, WithUser, Grow, Ages
        <4> QED
          BY <1>c, <4>1, <4>2, <4>3
      <3> QED
        BY <1>f, <2>6, <3>1, <3>2 DEF SocialRead
    <2>7. CASE SocialRole(q)
      <3>1. CASE Row(req[q].user)
        <4>1. req'[q] = [req[q] EXCEPT !.pc = "issue"]
          BY <1>q, <2>7, <3>1 DEF SocialRole, OrFail, Goto
        <4>2. req[q].how = "social" /\ req[q].user \in Users /\ user'[req[q].user].st # "none"
          BY <1>g, <1>q, <2>7
          DEF SocialRole, At, HeldBy, Ids, SignsIn, WithUser, Grow, Ages
        <4>3. user'[req[q].user].role
          BY <1>i, <2>7, <3>1, <4>2 DEF SocialRole, OrFail, assignDefaultRole, TypeOK, User
        <4> QED
          BY <1>c, <4>1, <4>2, <4>3
      <3> QED
        BY <1>f, <2>7, <3>1 DEF SocialRole, OrFail
    <2> QED
      BY <1>1, <2>1, <2>2, <2>3, <2>4, <2>5, <2>6, <2>7
      DEF Registers, create, CreateAdminCommand, CreateUserCommand
  <1>2. CASE Logs(q)
    <2>1. ASSUME NEW e \in Emails, NEW pw \in 1..MaxPasswords, LoginRead(q, e, pw)
          PROVE  HeldBy(q)'
      <3>1. CASE Begin(q, [Idle EXCEPT !.pc = "login_signin", !.addr = e, !.pw = pw, !.seen = swept])
        <4>1. req'[q] = [Idle EXCEPT !.pc = "login_signin", !.addr = e, !.pw = pw, !.seen = swept]
          BY <1>q, <3>1 DEF Begin
        <4> QED
          BY <1>e, <4>1 DEF Idle, Ids, SignsIn, WithUser, WithAddress
      <3> QED
        BY <1>0, <2>1, <3>1 DEF LoginRead
    <2>2. CASE LoginSignIn(q)
      <3>1. ASSUME NEW u \in Users, Row(u), user[u].pw = req[q].pw,
                   req' = [req EXCEPT ![q].pc = "login_relations", ![q].user = u]
            PROVE  HeldBy(q)'
        <4>1. req'[q] = [req[q] EXCEPT !.pc = "login_relations", !.user = u]
          BY <1>q, <3>1
        <4>2. /\ req'[q].pc = "login_relations" /\ req'[q].user = u /\ req'[q].how = req[q].how
              /\ req'[q].pw = req[q].pw /\ req'[q].addr = req[q].addr
              /\ req'[q].seen = req[q].seen
          BY <1>r, <4>1 DEF Request
        <4>3. req[q].addr \in Emails /\ req[q].how = "password"
          BY <1>q, <2>2 DEF LoginSignIn, At, HeldBy, Ids, SignsIn, WithAddress
        <4>4. user'[u].st # "none"
          BY <1>g, <3>1 DEF Grow, Ages, Row
        \* The password is the account's, and no revocation is newer than that.
        <4>5. swept'[u] <= req[q].pw /\ req[q].pw \in Nat
          <5>1. swept[u] <= user[u].pw /\ swept' = swept
            BY <1>i, <2>2, <3>1 DEF Rows, RowOK, LoginSignIn, history
          <5>2. req[q].pw \in Nat
            BY <1>r, AccountsAssumption DEF Request
          <5> QED
            BY <3>1, <5>1, <5>2
        <4>6. Ids(q)' /\ SignsIn(q)' /\ Resets(q)' /\ Writes(q)'
          BY <4>2, <4>3, <4>4 DEF Ids, SignsIn, Resets, Writes, WithUser, WithAddress
        <4>7. Overtaken(q)'
          <5>1. ~(req'[q].pw < swept'[req'[q].user])
            BY <1>t, <4>2, <4>5
          <5> QED
            BY <1>s, <4>2, <5>1 DEF Overtaken
        <4> QED
          BY <4>6, <4>7 DEF HeldBy
      <3> QED
        BY <1>f, <2>2, <3>1 DEF LoginSignIn, Holders
    <2>3. CASE LoginRelations(q)
      <3>1. CASE /\ Row(req[q].user) /\ user[req[q].user].verified
                 /\ req' = [req EXCEPT ![q].pc = "issue", ![q].addr = NoEmail]
        <4>1. req'[q] = [req[q] EXCEPT !.pc = "issue", !.addr = NoEmail]
          BY <1>q, <3>1
        <4>2. /\ req'[q].pc = "issue" /\ req'[q].user = req[q].user
              /\ req'[q].how = req[q].how /\ req'[q].pw = req[q].pw /\ req'[q].seen = req[q].seen
          BY <1>r, <4>1 DEF Request
        <4>3. req[q].user \in Users /\ req[q].how = "password" /\ user'[req[q].user].st # "none"
          BY <1>g, <1>q, <2>3
          DEF LoginRelations, At, HeldBy, Ids, SignsIn, WithUser, Grow, Ages
        <4>4. req[q].user \in proven'
          BY <1>i, <2>3, <3>1, <4>3 DEF Rows, RowOK, LoginRelations, history
        <4>5. Ids(q)' /\ SignsIn(q)' /\ Resets(q)' /\ Writes(q)'
          BY <4>2, <4>3, <4>4 DEF Ids, SignsIn, Resets, Writes, WithUser, WithAddress
        <4>6. swept' = swept /\ req[q].pc = "login_relations"
          BY <2>3 DEF LoginRelations, At, history
        <4>7. Overtaken(q)'
          BY <1>q, <4>2, <4>6 DEF HeldBy, Overtaken
        <4> QED
          BY <4>5, <4>7 DEF HeldBy
      <3> QED
        BY <1>f, <2>3, <3>1 DEF LoginRelations
    <2>4. CASE Issue(q)
      BY <1>f, <2>4 DEF Issue, OrFail
    <2> QED
      BY <1>2, <2>1, <2>2, <2>3, <2>4 DEF Logs
  <1>3. CASE Changes(q)
    <2>1. ASSUME NEW t \in Tickets, ResetResolve(q, t) PROVE HeldBy(q)'
      <3>1. PICK u \in {NoUser, ticket[t].user} :
              req'[q] = [Idle EXCEPT !.pc = "reset_write", !.ticket = t, !.user = u]
        BY <1>q, <2>1 DEF ResetResolve, Begin
      <3>2. UNCHANGED ticket /\ ticket[t].kind = "reset"
        BY <2>1 DEF ResetResolve
      <3>3. /\ req'[q].pc = "reset_write" /\ req'[q].ticket = t /\ req'[q].user = u
            /\ req'[q].seen = Idle.seen
        BY <3>1 DEF Idle
      <3> QED
        BY <1>s, <3>2, <3>3
        DEF HeldBy, Ids, Resets, Writes, SignsIn, Overtaken, WithUser, WithAddress
    <2>2. CASE ResetWrite(q)
      <3>1. PICK u \in Users : u = ticket[req[q].ticket].user
        BY <1>i, <1>q, <2>2 DEF ResetWrite, At, HeldBy, Resets, Links
      <3>2. CASE /\ written' = written + 1 /\ user' = [user EXCEPT ![u].pw = written + 1]
                 /\ req' = [req EXCEPT ![q].pc = "reset_consume", ![q].pw = written + 1]
        <4>1. req'[q] = [req[q] EXCEPT !.pc = "reset_consume", !.pw = written + 1]
          BY <1>q, <3>2
        <4>2. /\ req'[q].pc = "reset_consume" /\ req'[q].pw = written + 1
              /\ req'[q].user = req[q].user /\ req'[q].ticket = req[q].ticket
              /\ req'[q].seen = req[q].seen
          BY <1>r, <4>1 DEF Request
        <4>3. UNCHANGED ticket /\ req[q].pc = "reset_write"
          BY <2>2 DEF ResetWrite, At
        <4>4. Resets(q)'
          BY <1>q, <4>2, <4>3 DEF HeldBy, Resets
        <4>5. Writes(q)'
          <5>1. Target(q)' = u /\ user'[u].pw = written + 1
            BY <1>i, <3>1, <3>2, <4>2, <4>3 DEF Target, TypeOK, User
          <5> QED
            BY <1>t, <3>2, <4>2, <5>1 DEF Writes
        <4> QED
          BY <1>s, <4>2, <4>4, <4>5
          DEF HeldBy, Ids, SignsIn, Overtaken, WithUser, WithAddress
      <3> QED
        BY <1>f, <2>2, <3>1, <3>2 DEF ResetWrite
    <2>3. CASE ResetConsume(q)
      <3>1. CASE /\ req[q].user # NoUser
                 /\ req' = [req EXCEPT ![q].pc = "reset_sweep", ![q].ticket = NoTicket]
        <4>1. req'[q] = [req[q] EXCEPT !.pc = "reset_sweep", !.ticket = NoTicket]
          BY <1>q, <3>1
        <4>2. /\ req'[q].pc = "reset_sweep" /\ req'[q].pw = req[q].pw
              /\ req'[q].user = req[q].user /\ req'[q].seen = req[q].seen
          BY <1>r, <4>1 DEF Request
        <4>3. PICK u \in Users : /\ u = req[q].user /\ u = Target(q) /\ user[u].st # "none"
          BY <1>i, <1>q, <2>3, <3>1 DEF ResetConsume, At, HeldBy, Resets, Links, Target
        <4>4. UNCHANGED <<user, written>>
          BY <2>3 DEF ResetConsume
        <4>5. req[q].pw <= written /\ (Row(u) => req[q].pw <= user[u].pw)
          BY <1>q, <2>3, <4>3 DEF ResetConsume, At, HeldBy, Writes
        <4>6. Target(q)' = u
          BY <4>2, <4>3 DEF Target
        <4>7. Writes(q)'
          BY <4>2, <4>4, <4>5, <4>6 DEF Writes, Row
        <4> QED
          BY <1>s, <4>2, <4>3, <4>4, <4>7
          DEF HeldBy, Ids, Resets, SignsIn, Overtaken, WithUser, WithAddress
      <3> QED
        BY <1>f, <2>3, <3>1 DEF ResetConsume
    <2>4. CASE ResetSweep(q) \/ UpdatePasswordSweep(q)
      BY <1>f, <2>4 DEF ResetSweep, UpdatePasswordSweep
    <2>5. ASSUME NEW s \in Sessions, UpdatePasswordRead(q, s) PROVE HeldBy(q)'
      <3>1. PICK u \in Users : /\ u = session[s].user /\ Row(u)
                               /\ req'[q] = [Idle EXCEPT !.pc = "update_write", !.user = u, !.session = s]
        BY <1>i, <1>q, <2>5
        DEF UpdatePasswordRead, Begin, Caller, Live, Logins, SessionsHaveAccounts,
           TypeOK, Session
      <3>2. user'[u].st # "none"
        BY <1>g, <3>1 DEF Grow, Ages, Row
      <3> QED
        BY <1>e, <3>1, <3>2 DEF Idle, Ids, SignsIn, WithUser, WithAddress
    <2>6. CASE UpdatePasswordWrite(q)
      <3>1. PICK u \in Users : u = req[q].user /\ user[u].st # "none"
        BY <1>q, <2>6 DEF UpdatePasswordWrite, At, HeldBy, Ids, WithUser
      <3>2. CASE /\ written' = written + 1 /\ user' = [user EXCEPT ![u].pw = written + 1]
                 /\ req' = [req EXCEPT ![q].pc = "update_sweep", ![q].pw = written + 1]
        <4>1. req'[q] = [req[q] EXCEPT !.pc = "update_sweep", !.pw = written + 1]
          BY <1>q, <3>2
        <4>2. /\ req'[q].pc = "update_sweep" /\ req'[q].pw = written + 1
              /\ req'[q].user = u /\ req'[q].seen = req[q].seen
          BY <1>r, <3>1, <4>1 DEF Request
        <4>3. Target(q)' = u /\ user'[u].pw = written + 1
          BY <1>i, <3>2, <4>2 DEF Target, TypeOK, User
        <4>4. Writes(q)'
          BY <1>t, <3>2, <4>2, <4>3 DEF Writes
        <4>5. user'[u].st # "none"
          BY <1>g, <3>1 DEF Grow, Ages
        <4> QED
          BY <1>s, <4>2, <4>4, <4>5
          DEF HeldBy, Ids, Resets, SignsIn, Overtaken, WithUser, WithAddress
      <3> QED
        BY <1>f, <2>6, <3>1, <3>2 DEF UpdatePasswordWrite
    <2> QED
      BY <1>3, <2>1, <2>2, <2>3, <2>4, <2>5, <2>6 DEF Changes
  <1>4. ASSUME NEW j \in jwt, FollowLink(j) PROVE HeldBy(q)'
    BY <1>0, <1>4 DEF FollowLink
  <1>5. ASSUME NEW e \in Emails, RequestPasswordReset(e) PROVE HeldBy(q)'
    BY <1>0, <1>5 DEF RequestPasswordReset
  <1>6. ASSUME NEW u \in Users, AdminPassword(u) \/ update(u) \/ remove(u) PROVE HeldBy(q)'
    BY <1>0, <1>6 DEF AdminPassword, update, UpdateUser, remove, AdminDelete
  <1>7. ASSUME NEW s \in Sessions,
               \/ Logout(s) \/ LogoutAll(s) \/ RequestDeletion(s)
               \/ \E e \in Emails : ChangeEmail(s, e)
               \/ \E t \in Tickets : ConfirmDeletion(s, t)
        PROVE  HeldBy(q)'
    BY <1>0, <1>7 DEF Logout, LogoutAll, RequestDeletion, ChangeEmail, ConfirmDeletion
  <1>8. CASE UNCHANGED vars
    BY <1>0, <1>8 DEF vars
  <1> QED
    BY <1>o, <1>1, <1>2, <1>3, <1>4, <1>5, <1>6, <1>7, <1>8 DEF Next, UpdatePasswordCommand, Holders

\* What the four properties say of one session, and of one announced account.
SessionOK(s) ==
  Live(s) =>
    LET x == session[s]
        u == x.user
    IN  /\ Row(u)
        /\ x.how = "password" =>
             /\ u \in proven
             /\ x.pw < swept[u] => x.seen < swept[u] /\ x.born = swept[u]
        /\ x.how = "social" => user[u].role

AnnouncedOK(u) == u \in announced /\ Row(u) => user[u].role

Pointwise == (\A s \in Sessions : SessionOK(s)) /\ (\A u \in Users : AnnouncedOK(u))

\* The four properties together, session by session and account by account.
LEMMA LoginsPointwise == TypeOK => (Logins <=> Pointwise)
  <1> SUFFICES ASSUME TypeOK PROVE Logins <=> Pointwise
    OBVIOUS
  <1>t. /\ \A s \in Sessions : Live(s) => session[s].user \in Users
        /\ announced \subseteq Users
    BY DEF TypeOK, Session, Live
  <1>1. ASSUME Logins, NEW s \in Sessions PROVE SessionOK(s)
    BY <1>1, <1>t DEF Logins, SessionsHaveAccounts, PasswordLoginsProven, OldPasswordOverlaps,
       RegistrationComplete, SessionOK, findAll, findMany
  <1>2. ASSUME Logins, NEW u \in Users PROVE AnnouncedOK(u)
    BY <1>2 DEF Logins, RegistrationComplete, AnnouncedOK, findAll, findMany
  <1>3. ASSUME Pointwise PROVE Logins
    <2>1. SessionsHaveAccounts /\ PasswordLoginsProven
      BY <1>3 DEF Pointwise, SessionsHaveAccounts, PasswordLoginsProven, SessionOK
    <2>2. OldPasswordOverlaps
      BY <1>3 DEF Pointwise, OldPasswordOverlaps, SessionOK
    <2>3. RegistrationComplete
      BY <1>3, <1>t DEF Pointwise, RegistrationComplete, SessionOK, AnnouncedOK, findAll, findMany
    <2> QED
      BY <2>1, <2>2, <2>3 DEF Logins
  <1> QED
    BY <1>1, <1>2, <1>3 DEF Pointwise

\* The four properties survive every step: sessions change only by Issue, by the sweeps, by
\* a logout and with the account, and announcements only by SignupRole and SocialRole.
LEMMA StepLogins == IInv /\ [Next]_vars => Logins'
  <1> SUFFICES ASSUME IInv, [Next]_vars PROVE Logins'
    OBVIOUS
  <1>i. TypeOK /\ Rows /\ Links /\ Held
    BY DEF IInv
  <1>g. Grow
    BY <1>i, StepGrow
  <1>h. TypeOK'
    BY <1>i, StepType
  <1>l. (\A s \in Sessions : SessionOK(s)) /\ (\A u \in Users : AnnouncedOK(u))
    BY <1>i, LoginsPointwise DEF IInv, Pointwise
  <1>s. /\ session \in [Sessions -> Session] /\ user \in [Users -> User]
        /\ swept \in [Users -> Nat] /\ \A s \in Sessions : session[s].pw \in Nat
    BY <1>i, AccountsAssumption DEF TypeOK, Sweeps, Session
  <1>n. ~(NoLogin.user # NoUser)
    BY DEF NoLogin
  \* A session that stays as it is, its owner's revocations too.
  <1>k. ASSUME NEW s \in Sessions, session'[s] = session[s],
               session[s].user \in Users => swept'[session[s].user] = swept[session[s].user]
        PROVE  SessionOK(s)'
    <2>1. CASE session[s].user = NoUser
      BY <1>k, <2>1 DEF SessionOK, Live
    <2>2. CASE session[s].user # NoUser
      <3>1. PICK u \in Users : u = session[s].user
        BY <1>s, <2>2 DEF Session
      <3>2. Row(u) /\ Row(u)'
        BY <1>g, <1>k, <1>l, <2>2, <3>1 DEF SessionOK, Live, Grow, Ages
      <3>3. session[s].how = "password" =>
              /\ u \in proven'
              /\ session[s].pw < swept'[u] =>
                   session[s].seen < swept'[u] /\ session[s].born = swept'[u]
        BY <1>g, <1>k, <1>l, <2>2, <3>1 DEF SessionOK, Live, Grow
      <3>4. session[s].how = "social" => user'[u].role
        BY <1>g, <1>l, <2>2, <3>1, <3>2 DEF SessionOK, Live, Grow, Ages
      <3> QED
        BY <1>k, <3>1, <3>2, <3>3, <3>4 DEF SessionOK
    <2> QED
      BY <2>1, <2>2
  <1>d. ASSUME NEW s \in Sessions, session'[s] = NoLogin PROVE SessionOK(s)'
    BY <1>d, <1>n DEF SessionOK, Live
  <1>0. ASSUME UNCHANGED <<session, swept>> PROVE \A s \in Sessions : SessionOK(s)'
    BY <1>0, <1>k
  <1>w. ASSUME NEW r \in Requests, req[r].pc \in {"reset_sweep", "update_sweep"}, NEW keep,
               Sweep(req[r].user, keep, req[r].pw), NEW s \in Sessions
        PROVE  SessionOK(s)'
    <2>1. PICK u \in Users : u = req[r].user
      BY <1>i, <1>w DEF Held, HeldBy, Ids, WithUser
    <2>2. req[r].pw \in Nat
      BY <1>i, AccountsAssumption DEF TypeOK, Request
    <2>3. /\ swept' = [swept EXCEPT ![u] = Higher(@, req[r].pw)]
          /\ session' = [x \in Sessions |-> IF session[x].user # u THEN session[x]
                           ELSE IF x = keep THEN [session[x] EXCEPT !.pw = Higher(@, req[r].pw)]
                           ELSE NoLogin]
      BY <1>w, <2>1 DEF Sweep
    <2>4. CASE session[s].user # u
      BY <1>k, <1>s, <2>3, <2>4
    <2>5. CASE session[s].user = u /\ s # keep
      BY <1>d, <2>3, <2>5
    <2>6. CASE session[s].user = u /\ s = keep
      <3>1. /\ session'[s].user = u /\ session'[s].how = session[s].how
            /\ session'[s].seen = session[s].seen /\ session'[s].born = session[s].born
            /\ session'[s].pw = Higher(session[s].pw, req[r].pw)
        BY <1>s, <2>3, <2>6 DEF Session
      <3>2. swept'[u] = Higher(swept[u], req[r].pw)
        BY <1>s, <2>3
      <3>3. Live(s)
        BY <2>6, AccountsAssumption DEF Live
      <3>4. Row(u) /\ Row(u)'
        BY <1>g, <1>l, <2>6, <3>1, <3>3 DEF SessionOK, Grow, Ages
      <3>5. session[s].how = "password" /\ session'[s].pw < swept'[u] =>
              swept'[u] = swept[u] /\ session[s].pw < swept[u]
        BY <1>s, <2>2, <3>1, <3>2 DEF Higher
      <3>6. session[s].how = "password" =>
              /\ u \in proven'
              /\ session'[s].pw < swept'[u] =>
                   session[s].seen < swept'[u] /\ session[s].born = swept'[u]
        BY <1>g, <1>l, <2>6, <3>3, <3>5 DEF SessionOK, Grow
      <3>7. session[s].how = "social" => user'[u].role
        BY <1>g, <1>l, <2>6, <3>3, <3>4 DEF SessionOK, Grow, Ages
      <3> QED
        BY <3>1, <3>4, <3>6, <3>7 DEF SessionOK
    <2> QED
      BY <2>4, <2>5, <2>6
  <1>j. ASSUME NEW r \in Requests, Issue(r), NEW s \in Sessions PROVE SessionOK(s)'
    <2>1. PICK u \in Users : u = req[r].user
      BY <1>i, <1>j DEF Held, HeldBy, Ids, WithUser, Issue, At
    <2>2. swept' = swept
      BY <1>j DEF Issue
    <2>3. CASE session'[s] = session[s]
      BY <1>k, <2>2, <2>3
    <2>4. CASE /\ session'[s] = [user |-> u, how |-> req[r].how, pw |-> req[r].pw,
                                 seen |-> req[r].seen[u], born |-> swept[u]]
               /\ Row(u) /\ UNCHANGED user
      <3>1. /\ session'[s].user = u /\ session'[s].how = req[r].how
            /\ session'[s].pw = req[r].pw /\ session'[s].seen = req[r].seen[u]
            /\ session'[s].born = swept[u]
        BY <2>4
      <3>2. Row(u)'
        BY <2>4 DEF Row
      <3>3. req[r].how = "password" =>
              u \in proven /\ (req[r].pw < swept[u] => req[r].seen[u] < swept[u])
        BY <1>i, <1>j, <2>1 DEF Held, HeldBy, SignsIn, Overtaken, Issue, At
      <3>4. req[r].how = "social" => user'[u].role
        BY <1>i, <1>j, <2>1, <2>4 DEF Held, HeldBy, SignsIn, Issue, At
      <3> QED
        BY <1>g, <2>2, <3>1, <3>2, <3>3, <3>4 DEF SessionOK, Grow
    <2> QED
      BY <1>j, <1>s, <2>1, <2>3, <2>4 DEF Issue, OrFail
  <1>x. ASSUME NEW u, DeleteRow(u), swept' = swept, NEW s \in Sessions PROVE SessionOK(s)'
    BY <1>d, <1>k, <1>x DEF DeleteRow
  <1>1. ASSUME NEW s \in Sessions PROVE SessionOK(s)'
    <2>1. ASSUME NEW r \in Requests, Registers(r) PROVE UNCHANGED <<session, swept>>
      BY <2>1
      DEF Registers, create, CreateAdminCommand, CreateUserCommand, StoreRead, StoreSignUp,
          StoreUpdate, StoreRole, SignupCreate, SignupRole, SocialSignIn, SocialRead,
          SocialRole, OrFail, history
    <2>2. ASSUME NEW r \in Requests, Logs(r) PROVE SessionOK(s)'
      BY <1>0, <1>j, <2>2 DEF Logs, LoginRead, LoginSignIn, LoginRelations, history
    <2>3. ASSUME NEW r \in Requests, Changes(r) PROVE SessionOK(s)'
      BY <1>0, <1>w, <2>3 DEF Changes, ResetResolve, ResetWrite, ResetConsume, ResetSweep,
         UpdatePasswordRead, UpdatePasswordWrite, UpdatePasswordSweep, At, history
    <2>4. ASSUME NEW j \in jwt, FollowLink(j) PROVE UNCHANGED <<session, swept>>
      BY <2>4 DEF FollowLink
    <2>5. ASSUME NEW e \in Emails, RequestPasswordReset(e) PROVE UNCHANGED <<session, swept>>
      BY <2>5 DEF RequestPasswordReset, history
    <2>6. ASSUME NEW u \in Users, AdminPassword(u) \/ update(u) PROVE UNCHANGED <<session, swept>>
      BY <2>6 DEF AdminPassword, update, UpdateUser, history
    <2>7. ASSUME NEW u \in Users, remove(u) PROVE SessionOK(s)'
      BY <1>x, <2>7 DEF remove, AdminDelete, history
    <2>8. ASSUME NEW x \in Sessions, Logout(x) \/ LogoutAll(x) PROVE SessionOK(s)'
      BY <1>d, <1>k, <1>s, <2>8 DEF Logout, LogoutAll, history
    <2>9. ASSUME NEW x \in Sessions, RequestDeletion(x) \/ \E e \in Emails : ChangeEmail(x, e)
          PROVE  UNCHANGED <<session, swept>>
      BY <2>9 DEF RequestDeletion, ChangeEmail, history
    <2>10. ASSUME NEW x \in Sessions, NEW t \in Tickets, ConfirmDeletion(x, t)
           PROVE  SessionOK(s)'
      BY <1>x, <2>10 DEF ConfirmDeletion, history
    <2>11. CASE UNCHANGED vars
      BY <1>0, <2>11 DEF vars, history
    <2> QED
      BY <1>0, <2>1, <2>2, <2>3, <2>4, <2>5, <2>6, <2>7, <2>8, <2>9, <2>10, <2>11
      DEF Next, UpdatePasswordCommand, Holders
  <1>2. ASSUME NEW u \in Users PROVE AnnouncedOK(u)'
    <2>0. CASE u \in announced
      BY <1>g, <1>i, <1>l, <2>0 DEF AnnouncedOK, Rows, RowOK, Grow, Ages
    <2>1. CASE u \notin announced'
      BY <2>1 DEF AnnouncedOK
    <2>2. ASSUME NEW r \in Requests, SignupRole(r) \/ SocialRole(r) PROVE AnnouncedOK(u)'
      <3>1. CASE announced' = announced \cup {req[r].user} /\ assignDefaultRole(req[r].user)
        BY <1>s, <2>0, <2>1, <3>1 DEF assignDefaultRole, AnnouncedOK, User
      <3>2. CASE UNCHANGED announced
        BY <2>0, <2>1, <3>2
      <3> QED
        BY <2>2, <3>1, <3>2 DEF SignupRole, SocialRole, OrFail
    <2>3. ASSUME NEW r \in Requests, Registers(r) PROVE AnnouncedOK(u)'
      <3>1. CASE UNCHANGED announced
        BY <2>0, <2>1, <3>1
      <3> QED
        BY <2>2, <2>3, <3>1
        DEF Registers, create, CreateAdminCommand, CreateUserCommand, StoreRead, StoreSignUp,
            StoreUpdate, StoreRole, SignupCreate, SocialSignIn, SocialRead, OrFail
    <2>4. ASSUME NEW r \in Requests, Logs(r) \/ Changes(r) PROVE UNCHANGED announced
      BY <2>4
      DEF Logs, LoginRead, LoginSignIn, LoginRelations, Issue, Changes, ResetResolve, ResetWrite,
          ResetConsume, ResetSweep, UpdatePasswordRead, UpdatePasswordWrite, UpdatePasswordSweep,
          OrFail
    <2>5. ASSUME NEW j \in jwt, FollowLink(j) PROVE UNCHANGED announced
      BY <2>5 DEF FollowLink
    <2>6. ASSUME NEW e \in Emails, RequestPasswordReset(e) PROVE UNCHANGED announced
      BY <2>6 DEF RequestPasswordReset
    <2>7. ASSUME NEW x \in Users, AdminPassword(x) \/ update(x) \/ remove(x)
          PROVE  UNCHANGED announced
      BY <2>7 DEF AdminPassword, update, UpdateUser, remove, AdminDelete
    <2>8. ASSUME NEW x \in Sessions,
                 \/ Logout(x) \/ LogoutAll(x) \/ RequestDeletion(x)
                 \/ \E e \in Emails : ChangeEmail(x, e)
                 \/ \E t \in Tickets : ConfirmDeletion(x, t)
          PROVE  UNCHANGED announced
      BY <2>8 DEF Logout, LogoutAll, RequestDeletion, ChangeEmail, ConfirmDeletion
    <2>9. CASE UNCHANGED vars
      BY <2>0, <2>1, <2>9 DEF vars
    <2> QED
      BY <2>0, <2>1, <2>3, <2>4, <2>5, <2>6, <2>7, <2>8, <2>9
      DEF Next, UpdatePasswordCommand, Holders
  <1>3. TypeOK' => (Logins' <=> Pointwise')
    BY LoginsPointwise, PTL
  <1> QED
    BY <1>1, <1>2, <1>3, <1>h DEF Pointwise

\* The invariant, and with it each property of the accounts.
LEMMA Inductive == Spec => []IInv
  <1>1. IInv /\ [Next]_vars => IInv'
    BY StepType, StepRows, StepLinks, StepHeld, StepLogins DEF IInv
  <1> QED
    BY <1>1, InitIInv, PTL DEF Spec

\* Every row, session, link and request holds values of its columns.
THEOREM TypeCorrect == Spec => []TypeOK
  <1>1. IInv => TypeOK
    BY DEF IInv
  <1> QED
    BY <1>1, Inductive, PTL

\* Deletion, by the owner or by an administrator, ends every session of the account, and
\* LoginIssuerService inserts none for a row that is gone.
THEOREM SessionsSafe == Spec => []SessionsHaveAccounts
  <1>1. IInv => SessionsHaveAccounts
    BY DEF IInv, Logins
  <1> QED
    BY <1>1, Inductive, PTL

\* AuthController.login checks the mark of the address twice, before and after the password;
\* whatever an administrator writes in between, no unproven address gets a session.
THEOREM ProvenSafe == Spec => []PasswordLoginsProven
  <1>1. IInv => PasswordLoginsProven
    BY DEF IInv, Logins
  <1> QED
    BY <1>1, Inductive, PTL

\* revokeAllForUser after a reset or a change of the password: a session on an older
\* password is one whose login was in flight, however many changes overlap.
THEOREM OldPasswordSafe == Spec => []OldPasswordOverlaps
  <1>1. IInv => OldPasswordOverlaps
    BY DEF IInv, Logins
  <1> QED
    BY <1>1, Inductive, PTL

\* signup and socialLogin announce an account, and let it in, after its role is written.
THEOREM RegistrationSafe == Spec => []RegistrationComplete
  <1>1. IInv => RegistrationComplete
    BY DEF IInv, Logins
  <1> QED
    BY <1>1, Inductive, PTL
================================================================================
