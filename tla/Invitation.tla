-------------------------------- MODULE Invitation --------------------------------
(***************************************************************************)
(* InvitationService: the invitations that several members send to one     *)
(* address, their sends (one token and one log entry each), the delivery   *)
(* that runs after the response, and the hooks that record a conversion    *)
(* when an account is registered or its address is verified.               *)
(*                                                                         *)
(* A request is a chain of awaited statements; the expiry sweep, the       *)
(* deliveries and the hooks run between any two of them.  A delivery or a  *)
(* hook that throws, or that the process loses when it stops, is one that  *)
(* never takes its step.  Left out: the validation of texts, the wording   *)
(* of the email and the deletion of accounts.                              *)
(***************************************************************************)
EXTENDS Naturals, FiniteSets

CONSTANTS
  Invitations,   \* ids of rows
  Members,       \* users who invite
  Sender,        \* the member of each invitation
  MaxSends,      \* bound on the log entries, one per create or resend, each with a token
  Requests,      \* requests in flight at once
  dailyLimit,
  NoInvitation

Sends == 1..MaxSends
NoSend == 0

ASSUME InvitationAssumption ==
  /\ Sender \in [Invitations -> Members]
  /\ MaxSends \in Nat /\ IsFiniteSet(Requests)
  /\ dailyLimit \in Nat \ {0}
  /\ NoInvitation \notin Invitations

VARIABLES
  status,   \* of each invitation, "none" before it is inserted
  link,     \* the send whose token hash the row holds
  due,      \* expires_at has passed
  outcome,  \* of each send's log entry, "none" before it is inserted
  of,       \* the invitation of each send
  aged,     \* the sends up to this one are older than 24 hours
  mail,     \* deliveries that are scheduled in memory
  account,  \* the account of the address that was invited
  tokens,   \* handlers of a registration that are about to match this token
  matches,  \* handlers that are about to match the address
  req,      \* the requests
  late      \* history: the requests whose invitation is closed and was not when they read it

rows == <<status, link, due>>
logs == <<outcome, of, aged>>
hooks == <<tokens, matches>>
vars == <<rows, logs, mail, account, hooks, req, late>>

Idle == [pc |-> "idle", inv |-> NoInvitation]

TypeOK ==
  /\ status \in [Invitations -> {"none", "PENDING", "ACCEPTED", "EXPIRED", "REVOKED"}]
  /\ link \in [Invitations -> Sends \cup {NoSend}]
  /\ due \in [Invitations -> BOOLEAN]
  /\ outcome \in [Sends -> {"none", "queued", "sent", "failed"}]
  /\ of \in [Sends -> Invitations \cup {NoInvitation}]
  /\ aged \in 0..MaxSends
  /\ mail \subseteq Sends
  /\ account \in {"none", "unverified", "verified"}
  /\ tokens \subseteq Sends
  /\ matches \subseteq {"registered", "verified"}
  /\ req \in [Requests -> [pc  : {"idle", "create_pending", "create_limits", "create_write",
                                  "revoke", "resend_account", "resend_limits",
                                  "resend_write"},
                           inv : Invitations \cup {NoInvitation}]]
  /\ late \subseteq Requests

Init ==
  /\ status = [i \in Invitations |-> "none"]
  /\ link = [i \in Invitations |-> NoSend]
  /\ due = [i \in Invitations |-> FALSE]
  /\ outcome = [s \in Sends |-> "none"]
  /\ of = [s \in Sends |-> NoInvitation]
  /\ aged = 0
  /\ mail = {}
  /\ account = "none"
  /\ tokens = {}
  /\ matches = {}
  /\ req = [r \in Requests |-> Idle]
  /\ late = {}

At(r, step) == req[r].pc = step
Done(r) == req' = [req EXCEPT ![r] = Idle]
Goto(r, step) == req' = [req EXCEPT ![r].pc = step]

\* The partial unique index: one PENDING row per sender and address.
Taken(i) ==
  \E j \in Invitations \ {i} : status[j] = "PENDING" /\ Sender[j] = Sender[i]

\* Entries that enforceSendLimits counts: a failed send costs no quota.
Counted(m) == {s \in Sends : /\ s > aged /\ outcome[s] \notin {"none", "failed"}
                             /\ Sender[of[s]] = m}

\* Mutant: the limit may be reached once more.
Mut_enforceSendLimits_offByOne(r, next) ==
  \/ Done(r)
  \/ Cardinality(Counted(Sender[req[r].inv])) <= dailyLimit /\ Goto(r, next)

\* The hourly cap over all senders, and a resend's cooldown, may refuse at any time.
enforceSendLimits(r, next) ==
  \/ Done(r)
  \/ Cardinality(Counted(Sender[req[r].inv])) < dailyLimit /\ Goto(r, next)

\* One transaction: the row with a new token, its log entry; then queueDelivery.
Send(i, s) ==
  /\ outcome[s] = "none" /\ \A t \in 1..(s - 1) : outcome[t] # "none"
  /\ status' = [status EXCEPT ![i] = "PENDING"]
  /\ link' = [link EXCEPT ![i] = s]
  /\ due' = [due EXCEPT ![i] = FALSE]
  /\ outcome' = [outcome EXCEPT ![s] = "queued"]
  /\ of' = [of EXCEPT ![s] = i]
  /\ mail' = mail \cup {s}
  /\ UNCHANGED aged

--------------------------------------------------------------------------------
(* create *)

\* The address must have no account.
CreateRead(r, i) ==
  /\ At(r, "idle")
  /\ status[i] = "none"
  /\ \A q \in Requests : req[q].inv # i   \* the id is new
  /\ account = "none"
  /\ req' = [req EXCEPT ![r] = [pc |-> "create_pending", inv |-> i]]
  /\ UNCHANGED <<rows, logs, mail, account, hooks>>

\* Nor may the sender have a PENDING row for it.
CreatePending(r) ==
  /\ At(r, "create_pending")
  /\ \/ Taken(req[r].inv) /\ Done(r)
     \/ ~Taken(req[r].inv) /\ Goto(r, "create_limits")
  /\ UNCHANGED <<rows, logs, mail, account, hooks>>

CreateLimits(r) ==
  /\ At(r, "create_limits")
  /\ enforceSendLimits(r, "create_write")
  /\ UNCHANGED <<rows, logs, mail, account, hooks>>

\* The index refuses the loser of a race.
CreateWrite(r) ==
  /\ At(r, "create_write")
  /\ \/ /\ Taken(req[r].inv)
        /\ UNCHANGED <<rows, logs, mail>>
     \/ /\ ~Taken(req[r].inv)
        /\ \E s \in Sends : Send(req[r].inv, s)
  /\ Done(r)
  /\ UNCHANGED <<account, hooks>>

--------------------------------------------------------------------------------
(* revoke and resend check the row they read and UPDATE it by id. *)

\* Mutant: revoke does not look at the status.
Mut_RevokeRead_any(r, i) ==
  /\ At(r, "idle")
  /\ status[i] # "none"
  /\ req' = [req EXCEPT ![r] = [pc |-> "revoke", inv |-> i]]
  /\ UNCHANGED <<rows, logs, mail, account, hooks>>

RevokeRead(r, i) ==
  /\ At(r, "idle")
  /\ status[i] = "PENDING"
  /\ req' = [req EXCEPT ![r] = [pc |-> "revoke", inv |-> i]]
  /\ UNCHANGED <<rows, logs, mail, account, hooks>>

RevokeWrite(r) ==
  /\ At(r, "revoke")
  /\ status' = [status EXCEPT ![req[r].inv] = "REVOKED"]
  /\ Done(r)
  /\ UNCHANGED <<link, due, logs, mail, account, hooks>>

ResendRead(r, i) ==
  /\ At(r, "idle")
  /\ status[i] \in {"PENDING", "EXPIRED"}
  /\ req' = [req EXCEPT ![r] = [pc |-> "resend_account", inv |-> i]]
  /\ UNCHANGED <<rows, logs, mail, account, hooks>>

\* The invited person may have registered since.
ResendAccount(r) ==
  /\ At(r, "resend_account")
  /\ \/ account # "none" /\ Done(r)
     \/ account = "none" /\ Goto(r, "resend_limits")
  /\ UNCHANGED <<rows, logs, mail, account, hooks>>

ResendLimits(r) ==
  /\ At(r, "resend_limits")
  /\ enforceSendLimits(r, "resend_write")
  /\ UNCHANGED <<rows, logs, mail, account, hooks>>

\* Mutant: the row is PENDING again even when a newer invitation is.
Mut_ResendWrite_noIndex(r) ==
  /\ At(r, "resend_write")
  /\ \E s \in Sends : Send(req[r].inv, s)
  /\ Done(r)
  /\ UNCHANGED <<account, hooks>>

ResendWrite(r) ==
  /\ At(r, "resend_write")
  /\ \/ /\ Taken(req[r].inv)
        /\ UNCHANGED <<rows, logs, mail>>
     \/ /\ ~Taken(req[r].inv)
        /\ \E s \in Sends : Send(req[r].inv, s)
  /\ Done(r)
  /\ UNCHANGED <<account, hooks>>

\* A statement that throws ends the request.
RequestFails(r) ==
  /\ ~At(r, "idle")
  /\ Done(r)
  /\ UNCHANGED <<rows, logs, mail, account, hooks>>

--------------------------------------------------------------------------------
(* deliver *)

DeliverSent(s) ==
  /\ s \in mail
  /\ outcome' = [outcome EXCEPT ![s] = "sent"]
  /\ mail' = mail \ {s}
  /\ UNCHANGED <<rows, of, aged, account, hooks, req>>

\* Mutant: the failure of any send of the invitation expires it.
Mut_DeliverFailed_anySend(s) ==
  /\ s \in mail
  /\ outcome' = [outcome EXCEPT ![s] = "failed"]
  /\ status' = [status EXCEPT ![of[s]] = IF @ = "PENDING" THEN "EXPIRED" ELSE @]
  /\ mail' = mail \ {s}
  /\ UNCHANGED <<link, due, of, aged, account, hooks, req>>

\* The provider refuses, or the log entry of an accepted mail cannot be written:
\* the entry and, if it is still the same PENDING send, the row change together.
DeliverFailed(s) ==
  LET i == of[s] IN
  /\ s \in mail
  /\ outcome' = [outcome EXCEPT ![s] = "failed"]
  /\ status' = [status EXCEPT ![i] =
                  IF @ = "PENDING" /\ link[i] = s THEN "EXPIRED" ELSE @]
  /\ mail' = mail \ {s}
  /\ UNCHANGED <<link, due, of, aged, account, hooks, req>>

--------------------------------------------------------------------------------
(* The invited person, and the conversion hooks *)

\* A new account for the address, from a link or without one, by password or
\* through a provider that has verified the address.  A link that a resend has replaced
\* matches no row, like none.
Register(verified, token) ==
  /\ account = "none"
  /\ token # NoSend => outcome[token] # "none" /\ link[of[token]] = token
  /\ account' = IF verified THEN "verified" ELSE "unverified"
  /\ \/ token = NoSend /\ matches' = matches \cup {"registered"} /\ UNCHANGED tokens
     \/ token # NoSend /\ tokens' = tokens \cup {token} /\ UNCHANGED matches
  /\ UNCHANGED <<rows, logs, mail, req>>

VerifyEmail ==
  /\ account = "unverified"
  /\ account' = "verified"
  /\ matches' = matches \cup {"verified"}
  /\ UNCHANGED <<rows, logs, mail, tokens, req>>

\* The PENDING, unexpired row that holds token s becomes ACCEPTED.
Accept(s) ==
  status' = [status EXCEPT ![of[s]] =
    IF @ = "PENDING" /\ link[of[s]] = s /\ ~due[of[s]] THEN "ACCEPTED" ELSE @]

acceptByToken(s) ==
  /\ s \in tokens
  /\ Accept(s)
  /\ tokens' = tokens \ {s}
  /\ matches' = matches \cup {"registered"}
  /\ UNCHANGED <<link, due, logs, mail, account, req>>

\* The link may also be used by somebody who registers another address.
AcceptElsewhere(s) ==
  /\ outcome[s] # "none" /\ link[of[s]] = s
  /\ Accept(s)
  /\ UNCHANGED <<link, due, logs, mail, account, hooks, req>>

\* Every PENDING, unexpired row to the address, once the address is proven.
acceptByEmail(h) ==
  /\ h \in matches
  /\ status' = [i \in Invitations |->
                  IF account = "verified" /\ status[i] = "PENDING" /\ ~due[i]
                  THEN "ACCEPTED" ELSE status[i]]
  /\ matches' = matches \ {h}
  /\ UNCHANGED <<link, due, logs, mail, account, tokens, req>>

--------------------------------------------------------------------------------
(* Time, and the sweep that list and stats run first *)

\* A day has passed since the oldest send of the last 24 hours.
Age ==
  /\ aged < MaxSends /\ outcome[aged + 1] # "none"
  /\ aged' = aged + 1
  /\ UNCHANGED <<rows, outcome, of, mail, account, hooks, req>>

\* expires_at is compared in statements about PENDING rows only.
Expire(i) ==
  /\ status[i] = "PENDING" /\ ~due[i]
  /\ link[i] <= aged   \* INVITE_TTL_DAYS is a day or more
  /\ due' = [due EXCEPT ![i] = TRUE]
  /\ UNCHANGED <<status, link, logs, mail, account, hooks, req>>

sweepExpired(m) ==
  /\ \E i \in Invitations : status[i] = "PENDING" /\ due[i] /\ Sender[i] = m
  /\ status' = [i \in Invitations |->
                  IF status[i] = "PENDING" /\ due[i] /\ Sender[i] = m
                  THEN "EXPIRED" ELSE status[i]]
  /\ UNCHANGED <<link, due, logs, mail, account, hooks, req>>

--------------------------------------------------------------------------------
(* Readers *)

\* The page behind a link: the row that holds the token, if it may be accepted.
preview(s) ==
  {i \in Invitations : status[i] = "PENDING" /\ link[i] = s /\ ~due[i]}

\* What list and stats read, a statement after their sweep.
list(m) == {i \in Invitations : status[i] # "none" /\ Sender[i] = m}
stats(m) ==
  [sent     |-> Cardinality(list(m)),
   accepted |-> Cardinality({i \in list(m) : status[i] = "ACCEPTED"}),
   pending  |-> Cardinality({i \in list(m) : status[i] = "PENDING"})]

--------------------------------------------------------------------------------

\* The sender's requests, each handed to the service as it is.
InvitationController(r, i) == CreateRead(r, i) \/ RevokeRead(r, i) \/ ResendRead(r, i)

\* The decisions of a recipient or a sender that a row keeps.
Closed == {"ACCEPTED", "REVOKED"}

Overtaken ==
  late' = {r \in Requests :
             /\ req'[r].pc # "idle" /\ status'[req'[r].inv] \in Closed
             /\ r \in late \/ status[req'[r].inv] \notin Closed}

Step ==
  \/ \E r \in Requests :
       \/ \E i \in Invitations : InvitationController(r, i)
       \/ CreatePending(r) \/ CreateLimits(r) \/ CreateWrite(r) \/ RevokeWrite(r)
       \/ ResendAccount(r) \/ ResendLimits(r) \/ ResendWrite(r) \/ RequestFails(r)
  \/ \E s \in Sends : DeliverSent(s) \/ DeliverFailed(s)
  \/ \E verified \in BOOLEAN, t \in Sends \cup {NoSend} : Register(verified, t)
  \/ VerifyEmail
  \/ \E s \in Sends : acceptByToken(s) \/ AcceptElsewhere(s)
  \/ \E h \in {"registered", "verified"} : acceptByEmail(h)
  \/ Age
  \/ \E i \in Invitations : Expire(i)
  \/ \E m \in Members : sweepExpired(m)

Next == Step /\ Overtaken

Spec == Init /\ [][Next]_vars

--------------------------------------------------------------------------------
(* Properties *)

\* A row is EXPIRED only because its time is over or because its own newest send
\* failed, and a row whose newest send failed is not PENDING: the late failure of an
\* older send never takes an invitation that was sent again off the list, and the
\* page behind a link never opens for a send that is known to have failed.
FailureMatchesStatus ==
  \A i \in Invitations :
    /\ status[i] = "EXPIRED" => due[i] \/ outcome[link[i]] = "failed"
    /\ status[i] = "PENDING" => outcome[link[i]] # "failed"
    /\ \A s \in Sends : i \in preview(s) => outcome[s] # "failed"

\* A member never has two PENDING invitations to the address, although create and
\* resend look for one long before they write.
OnePending ==
  \A i, j \in Invitations :
    status[i] = "PENDING" /\ status[j] = "PENDING" /\ Sender[i] = Sender[j] => i = j

\* The daily quota is checked before it is used: requests in flight at once exceed
\* it, but by no more than their number less one.  Every row that stats counts has
\* paid with a log entry, and it shows at most one as pending.
QuotaOvershoot ==
  \A m \in Members :
    LET shown == stats(m) IN
    /\ Cardinality(Counted(m)) < dailyLimit + Cardinality(Requests)
    /\ shown.sent <= Cardinality({s \in Sends : of[s] # NoInvitation /\ Sender[of[s]] = m})
    /\ shown.pending <= 1

\* resend and revoke refuse (422) a row that is closed when they read it, and write by id:
\* a conversion or a revocation is undone only by a request that had read the row before.
ClosedByOvertakenOnly ==
  [][\A i \in Invitations :
       status[i] \in Closed /\ status'[i] # status[i] =>
         \E r \in late : /\ req[r].inv = i /\ req[r].pc \in {"revoke", "resend_write"}
                        /\ req'[r] = Idle]_vars
================================================================================
