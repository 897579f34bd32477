----------------------------- MODULE InvitationProofs -----------------------------
(***************************************************************************)
(* TypeOK, FailureMatchesStatus, OnePending, QuotaOvershoot and the action *)
(* property ClosedByOvertakenOnly of module Invitation, for any number of  *)
(* invitations, members, sends and requests.                               *)
(*                                                                         *)
(* FailureMatchesStatus is not inductive: the failure of a send may touch  *)
(* only the row that still holds its token, which needs that the token of  *)
(* a row belongs to one of its own sends (Linked), that a scheduled        *)
(* delivery has no outcome yet (MailQueued), and that a revoke works on a  *)
(* row that exists (RequestsMatch).                                        *)
(*                                                                         *)
(* The quota is a matter of counting: a request that has passed the check  *)
(* and not yet written holds a place, and the entries and the places of a  *)
(* member together never exceed the limit by the number of requests        *)
(* (Places).  A row is told from the others by the send whose token it     *)
(* holds, so rows cannot outnumber the sends that paid for them.           *)
(*                                                                         *)
(* That a closed row is reopened only by a request that it overtook rests  *)
(* on what the requests in flight know: a create works on a row of its own *)
(* (CreatesAlone), a revoke or a resend on one that it has read open, and  *)
(* that is open still unless the request is in late (ReadOpen).            *)
(***************************************************************************)
EXTENDS Invitation, Functions, FiniteSetTheorems, TLAPS

Linked ==
  \A i \in Invitations :
    status[i] # "none" =>
      link[i] \in Sends /\ outcome[link[i]] # "none" /\ of[link[i]] = i

MailQueued == \A s \in mail : outcome[s] = "queued"

RequestsMatch ==
  \A r \in Requests :
    /\ req[r].pc # "idle" => req[r].inv \in Invitations
    /\ req[r].pc = "revoke" => status[req[r].inv] # "none"

IInv == /\ TypeOK
        /\ Linked
        /\ MailQueued
        /\ RequestsMatch
        /\ FailureMatchesStatus
        /\ OnePending

\* A step that changes only the request keeps everything but RequestsMatch.
LEMMA RequestStep ==
  ASSUME IInv, TypeOK', RequestsMatch',
         UNCHANGED <<rows, logs, mail, account, hooks>>
  PROVE  IInv'
  BY DEF IInv, TypeOK, Linked, MailQueued, FailureMatchesStatus, preview, OnePending,
         rows, logs, hooks

\* A new send (create, resend): the row holds a token nobody else has, its log entry
\* is queued, and the index has made sure that it is the only PENDING row.
LEMMA SendStep ==
  ASSUME IInv,
         NEW r \in Requests, NEW s \in Sends,
         req[r].pc # "idle",
         ~Taken(req[r].inv),
         Send(req[r].inv, s),
         Done(r),
         UNCHANGED <<account, hooks>>, late' \subseteq Requests
  PROVE  IInv'
<1> DEFINE i == req[r].inv
<1>0. i \in Invitations /\ i # NoInvitation
  BY InvitationAssumption DEF IInv, RequestsMatch
<1>1. TypeOK'
  BY <1>0 DEF IInv, TypeOK, Send, Done, Idle, hooks
<1>2. Linked'
  BY <1>0 DEF IInv, TypeOK, Linked, Send
<1>3. MailQueued'
  BY <1>0 DEF IInv, TypeOK, MailQueued, Send
<1>4. RequestsMatch'
  BY <1>0 DEF IInv, TypeOK, RequestsMatch, Send, Done, Idle
<1>5. FailureMatchesStatus'
  BY <1>0 DEF IInv, TypeOK, Linked, FailureMatchesStatus, preview, Send
<1>6. OnePending'
  BY <1>0 DEF IInv, TypeOK, OnePending, Send, Taken
<1> QED
  BY <1>1, <1>2, <1>3, <1>4, <1>5, <1>6 DEF IInv

\* A row leaves PENDING for ACCEPTED, or for EXPIRED when its time is over; nothing
\* else changes.  This is what the hooks and the sweep do.
LEMMA LeavesPending ==
  ASSUME IInv, TypeOK',
         UNCHANGED <<link, due, logs, mail, req>>,
         \A i \in Invitations :
           \/ status'[i] = status[i]
           \/ status[i] = "PENDING" /\ status'[i] = "ACCEPTED"
           \/ status[i] = "PENDING" /\ status'[i] = "EXPIRED" /\ due[i]
  PROVE  IInv'
<1>1. Linked' /\ MailQueued'
  BY DEF IInv, Linked, MailQueued, logs
<1>2. RequestsMatch'
  BY DEF IInv, RequestsMatch
<1>3. FailureMatchesStatus'
  BY DEF IInv, FailureMatchesStatus, preview, logs
<1>4. OnePending'
  BY DEF IInv, OnePending
<1> QED
  BY <1>1, <1>2, <1>3, <1>4 DEF IInv

\* The invariant holds at the start.
LEMMA InitIInv == Init => IInv
  BY InvitationAssumption
  DEF Init, IInv, TypeOK, Linked, MailQueued, RequestsMatch, FailureMatchesStatus, preview,
      OnePending, Idle, Sends, NoSend

\* Every step keeps the invariant.
LEMMA NextIInv == IInv /\ [Next]_vars => IInv'
<1> SUFFICES ASSUME IInv, [Next]_vars PROVE IInv'
  OBVIOUS
<1>0. late' \subseteq Requests
  BY DEF Next, Overtaken, IInv, TypeOK, vars
<1> USE InvitationAssumption, <1>0
<1>1. ASSUME NEW r \in Requests, NEW i \in Invitations, CreateRead(r, i) PROVE IInv'
  <2>1. TypeOK' /\ RequestsMatch'
    BY <1>1 DEF IInv, TypeOK, RequestsMatch, CreateRead, rows, logs, hooks
  <2> QED BY <1>1, <2>1, RequestStep DEF CreateRead
<1>2. ASSUME NEW r \in Requests, CreatePending(r) PROVE IInv'
  <2>1. TypeOK'
    BY <1>2 DEF IInv, TypeOK, CreatePending, Done, Goto, Idle, At, rows, logs, hooks
  <2>2. RequestsMatch'
    BY <1>2 DEF IInv, TypeOK, RequestsMatch, CreatePending, Done, Goto, Idle, At, rows
  <2> QED BY <1>2, <2>1, <2>2, RequestStep DEF CreatePending
<1>3. ASSUME NEW r \in Requests, CreateLimits(r) PROVE IInv'
  <2>1. TypeOK'
    BY <1>3 DEF IInv, TypeOK, CreateLimits, enforceSendLimits, Done, Goto, Idle, At, rows, logs, hooks
  <2>2. RequestsMatch'
    BY <1>3 DEF IInv, TypeOK, RequestsMatch, CreateLimits, enforceSendLimits, Done, Goto, Idle, At, rows
  <2> QED BY <1>3, <2>1, <2>2, RequestStep DEF CreateLimits
<1>4. ASSUME NEW r \in Requests, CreateWrite(r) PROVE IInv'
  <2>1. CASE Taken(req[r].inv) /\ UNCHANGED <<rows, logs, mail>>
    <3>1. TypeOK' /\ RequestsMatch'
      BY <1>4, <2>1 DEF IInv, TypeOK, RequestsMatch, CreateWrite, Done, Idle, rows, logs, hooks
    <3> QED BY <1>4, <2>1, <3>1, RequestStep DEF CreateWrite
  <2>2. CASE ~Taken(req[r].inv) /\ \E s \in Sends : Send(req[r].inv, s)
    BY <1>4, <2>2, SendStep DEF CreateWrite, At
  <2> QED BY <1>4, <2>1, <2>2 DEF CreateWrite
<1>5. ASSUME NEW r \in Requests, NEW i \in Invitations, RevokeRead(r, i) PROVE IInv'
  <2>1. TypeOK' /\ RequestsMatch'
    BY <1>5 DEF IInv, TypeOK, RequestsMatch, RevokeRead, rows, logs, hooks
  <2> QED BY <1>5, <2>1, RequestStep DEF RevokeRead
<1>6. ASSUME NEW r \in Requests, RevokeWrite(r) PROVE IInv'
  <2>0. req[r].inv \in Invitations /\ status[req[r].inv] # "none"
    BY <1>6 DEF IInv, RequestsMatch, RevokeWrite, At
  <2>1. TypeOK'
    BY <1>6, <2>0 DEF IInv, TypeOK, RevokeWrite, Done, Idle, logs, hooks
  <2>2. Linked' /\ MailQueued' /\ RequestsMatch'
    BY <1>6, <2>0 DEF IInv, TypeOK, Linked, MailQueued, RequestsMatch, RevokeWrite, Done, Idle, logs
  <2>3. FailureMatchesStatus' /\ OnePending'
    BY <1>6, <2>0 DEF IInv, TypeOK, FailureMatchesStatus, preview, OnePending, RevokeWrite, logs
  <2> QED BY <2>1, <2>2, <2>3 DEF IInv
<1>7. ASSUME NEW r \in Requests, NEW i \in Invitations, ResendRead(r, i) PROVE IInv'
  <2>1. TypeOK' /\ RequestsMatch'
    BY <1>7 DEF IInv, TypeOK, RequestsMatch, ResendRead, rows, logs, hooks
  <2> QED BY <1>7, <2>1, RequestStep DEF ResendRead
<1>8. ASSUME NEW r \in Requests, ResendAccount(r) PROVE IInv'
  <2>1. TypeOK'
    BY <1>8 DEF IInv, TypeOK, ResendAccount, Done, Goto, Idle, At, rows, logs, hooks
  <2>2. RequestsMatch'
    BY <1>8 DEF IInv, TypeOK, RequestsMatch, ResendAccount, Done, Goto, Idle, At, rows
  <2> QED BY <1>8, <2>1, <2>2, RequestStep DEF ResendAccount
<1>9. ASSUME NEW r \in Requests, ResendLimits(r) PROVE IInv'
  <2>1. TypeOK' /\ RequestsMatch'
    BY <1>9 DEF IInv, TypeOK, RequestsMatch, ResendLimits, enforceSendLimits, Done, Goto, Idle,
                At, rows, logs, hooks
  <2> QED BY <1>9, <2>1, RequestStep DEF ResendLimits
<1>10. ASSUME NEW r \in Requests, ResendWrite(r) PROVE IInv'
  <2>1. CASE Taken(req[r].inv) /\ UNCHANGED <<rows, logs, mail>>
    <3>1. TypeOK' /\ RequestsMatch'
      BY <1>10, <2>1 DEF IInv, TypeOK, RequestsMatch, ResendWrite, Done, Idle, rows, logs, hooks
    <3> QED BY <1>10, <2>1, <3>1, RequestStep DEF ResendWrite
  <2>2. CASE ~Taken(req[r].inv) /\ \E s \in Sends : Send(req[r].inv, s)
    BY <1>10, <2>2, SendStep DEF ResendWrite, At
  <2> QED BY <1>10, <2>1, <2>2 DEF ResendWrite
<1>11. ASSUME NEW r \in Requests, RequestFails(r) PROVE IInv'
  <2>1. TypeOK' /\ RequestsMatch'
    BY <1>11 DEF IInv, TypeOK, RequestsMatch, RequestFails, Done, Idle, rows, logs, hooks
  <2> QED BY <1>11, <2>1, RequestStep DEF RequestFails
<1>12. ASSUME NEW s \in Sends, DeliverSent(s) PROVE IInv'
  <2>1. TypeOK' /\ Linked' /\ MailQueued' /\ RequestsMatch'
    BY <1>12 DEF IInv, TypeOK, Linked, MailQueued, RequestsMatch, DeliverSent, rows, hooks
  <2>2. FailureMatchesStatus' /\ OnePending'
    BY <1>12 DEF IInv, TypeOK, Linked, MailQueued, FailureMatchesStatus, preview, OnePending, DeliverSent,
                 rows, hooks
  <2> QED BY <2>1, <2>2 DEF IInv
<1>13. ASSUME NEW s \in Sends, DeliverFailed(s) PROVE IInv'
  <2>1. TypeOK'
    BY <1>13 DEF IInv, TypeOK, DeliverFailed, hooks
  <2>2. Linked' /\ MailQueued' /\ RequestsMatch'
    BY <1>13 DEF IInv, TypeOK, Linked, MailQueued, RequestsMatch, DeliverFailed
  <2>3. FailureMatchesStatus'
    BY <1>13 DEF IInv, TypeOK, Linked, MailQueued, FailureMatchesStatus, preview, DeliverFailed
  <2>4. OnePending'
    BY <1>13 DEF IInv, TypeOK, OnePending, DeliverFailed
  <2> QED BY <2>1, <2>2, <2>3, <2>4 DEF IInv
<1>14. ASSUME NEW v \in BOOLEAN, NEW t \in Sends \cup {NoSend}, Register(v, t) PROVE IInv'
  <2>1. TypeOK'
    BY <1>14 DEF IInv, TypeOK, Register, rows, logs, NoSend
  <2>2. UNCHANGED <<rows, logs, mail, req>>
    BY <1>14 DEF Register
  <2>3. Linked' /\ MailQueued' /\ RequestsMatch' /\ OnePending'
    BY <2>2 DEF IInv, Linked, MailQueued, RequestsMatch, OnePending, rows, logs
  <2>4. FailureMatchesStatus'
    BY <2>2 DEF IInv, FailureMatchesStatus, preview, rows, logs
  <2> QED BY <2>1, <2>3, <2>4 DEF IInv
<1>15. CASE VerifyEmail
  BY <1>15 DEF IInv, TypeOK, Linked, MailQueued, RequestsMatch, FailureMatchesStatus, preview,
               OnePending, VerifyEmail, rows, logs
<1>16. ASSUME NEW s \in Sends, acceptByToken(s) \/ AcceptElsewhere(s) PROVE IInv'
  <2>0. status' \in [Invitations -> {"none", "PENDING", "ACCEPTED", "EXPIRED", "REVOKED"}]
    BY <1>16 DEF IInv, TypeOK, acceptByToken, AcceptElsewhere, Accept
  <2>1. TypeOK' /\ UNCHANGED <<link, due, logs, mail, req>>
    <3>1. CASE acceptByToken(s)
      BY <2>0, <3>1 DEF IInv, TypeOK, acceptByToken, logs
    <3>2. CASE AcceptElsewhere(s)
      BY <2>0, <3>2 DEF IInv, TypeOK, AcceptElsewhere, logs, hooks
    <3> QED BY <1>16, <3>1, <3>2
  <2>2. \A i \in Invitations :
          status'[i] = status[i] \/ (status[i] = "PENDING" /\ status'[i] = "ACCEPTED")
    BY <1>16 DEF IInv, TypeOK, acceptByToken, AcceptElsewhere, Accept
  <2> QED BY <2>1, <2>2, LeavesPending
<1>17. ASSUME NEW h \in {"registered", "verified"}, acceptByEmail(h) PROVE IInv'
  <2>1. TypeOK' /\ UNCHANGED <<link, due, logs, mail, req>>
    BY <1>17 DEF IInv, TypeOK, acceptByEmail, logs
  <2>2. \A i \in Invitations :
          status'[i] = status[i] \/ (status[i] = "PENDING" /\ status'[i] = "ACCEPTED")
    BY <1>17 DEF acceptByEmail
  <2> QED BY <2>1, <2>2, LeavesPending
<1>18. CASE Age
  BY <1>18 DEF IInv, TypeOK, Linked, MailQueued, RequestsMatch, FailureMatchesStatus, preview,
               OnePending, Age, rows, hooks
<1>19. ASSUME NEW i \in Invitations, Expire(i) PROVE IInv'
  BY <1>19 DEF IInv, TypeOK, Linked, MailQueued, RequestsMatch, FailureMatchesStatus, preview,
               OnePending, Expire, logs, hooks
<1>20. ASSUME NEW m \in Members, sweepExpired(m) PROVE IInv'
  <2>1. TypeOK' /\ UNCHANGED <<link, due, logs, mail, req>>
    BY <1>20 DEF IInv, TypeOK, sweepExpired, logs, hooks
  <2>2. \A i \in Invitations :
          status'[i] = status[i] \/ (status[i] = "PENDING" /\ status'[i] = "EXPIRED" /\ due[i])
    BY <1>20 DEF sweepExpired
  <2> QED BY <2>1, <2>2, LeavesPending
<1>21. CASE UNCHANGED vars
  BY <1>21 DEF IInv, TypeOK, Linked, MailQueued, RequestsMatch, FailureMatchesStatus, preview,
               OnePending, vars, rows, logs, hooks
<1> QED
  BY <1>1, <1>2, <1>3, <1>4, <1>5, <1>6, <1>7, <1>8, <1>9, <1>10, <1>11, <1>12, <1>13,
     <1>14, <1>15, <1>16, <1>17, <1>18, <1>19, <1>20, <1>21 DEF Next, Step, InvitationController

--------------------------------------------------------------------------------

\* The rows, the send log and the requests of InvitationService keep the invariant.
THEOREM Invariant == Spec => []IInv
  BY InitIInv, NextIInv, PTL DEF Spec

\* Every reachable state of InvitationService is well typed.
THEOREM TypeCorrect == Spec => []TypeOK
<1>1. IInv => TypeOK
  BY DEF IInv
<1> QED BY <1>1, Invariant, PTL

\* deliver: however late the outcome of a send arrives, and whatever revokes, resends
\* and conversions ran meanwhile, a row is EXPIRED only through its own newest send or
\* its time, and never PENDING after its newest send failed.
THEOREM FailureSafe == Spec => []FailureMatchesStatus
<1>1. IInv => FailureMatchesStatus
  BY DEF IInv
<1> QED BY <1>1, Invariant, PTL

\* create and resend: the partial unique index keeps one PENDING row per sender and
\* address through every interleaving of their checks and writes.
THEOREM OnePendingSafe == Spec => []OnePending
<1>1. IInv => OnePending
  BY DEF IInv
<1> QED BY <1>1, Invariant, PTL
--------------------------------------------------------------------------------
(* The daily quota *)

Writing == {"create_write", "resend_write"}

\* The requests that have passed the check for a member and have not written yet.
Passed(m) == {r \in Requests : req[r].pc \in Writing /\ Sender[req[r].inv] = m}

\* What is used and what is about to be.
Places ==
  \A m \in Members :
    Cardinality(Counted(m)) + Cardinality(Passed(m)) <= dailyLimit - 1 + Cardinality(Requests)

\* What is counted is finite.
LEMMA Finite ==
  /\ IsFiniteSet(Requests) /\ Cardinality(Requests) \in Nat /\ IsFiniteSet(Sends)
  /\ dailyLimit \in Nat /\ dailyLimit > 0
  /\ \A S : S \subseteq Sends => IsFiniteSet(S) /\ Cardinality(S) \in Nat
  /\ \A R : R \subseteq Requests =>
               IsFiniteSet(R) /\ Cardinality(R) \in Nat /\ Cardinality(R) <= Cardinality(Requests)
  <1>1. IsFiniteSet(Requests) /\ dailyLimit \in Nat /\ dailyLimit > 0 /\ 1 \in Int /\ MaxSends \in Int
    BY InvitationAssumption
  <1>2. IsFiniteSet(Sends)
    BY <1>1, FS_Interval DEF Sends
  <1>3. ASSUME NEW S \in SUBSET Sends PROVE IsFiniteSet(S) /\ Cardinality(S) \in Nat
    BY <1>2, FS_Subset, FS_CardinalityType
  <1>4. ASSUME NEW R \in SUBSET Requests
        PROVE  IsFiniteSet(R) /\ Cardinality(R) \in Nat /\ Cardinality(R) <= Cardinality(Requests)
    BY <1>1, FS_Subset, FS_CardinalityType
  <1> QED
    BY <1>1, <1>2, <1>3, <1>4, FS_CardinalityType

\* A member whose entries and places do not become more stays within the bound.
LEMMA FewerPlaces ==
  ASSUME NEW m \in Members, Places, Counted(m)' \subseteq Counted(m), Passed(m)' \subseteq Passed(m)
  PROVE  (Cardinality(Counted(m)) + Cardinality(Passed(m)) <= dailyLimit - 1 + Cardinality(Requests))'
  <1>1. Counted(m) \in SUBSET Sends /\ Passed(m) \in SUBSET Requests
    BY DEF Counted, Passed
  <1>2. IsFiniteSet(Counted(m)) /\ IsFiniteSet(Passed(m))
    BY <1>1, Finite
  <1>3. Cardinality(Counted(m)') <= Cardinality(Counted(m)) /\ Cardinality(Passed(m)') <= Cardinality(Passed(m))
    BY <1>2, FS_Subset
  <1>4. /\ Cardinality(Counted(m)) \in Nat /\ Cardinality(Passed(m)) \in Nat
        /\ Cardinality(Counted(m)') \in Nat /\ Cardinality(Passed(m)') \in Nat
        /\ Cardinality(Requests) \in Nat /\ dailyLimit \in Nat
    <2>1. Counted(m)' \in SUBSET Sends /\ Passed(m)' \in SUBSET Requests
      BY <1>1
    <2> QED
      BY <1>1, <2>1, Finite
  <1>5. Cardinality(Counted(m)) + Cardinality(Passed(m)) <= dailyLimit - 1 + Cardinality(Requests)
    BY DEF Places
  <1> QED
    BY <1>3, <1>4, <1>5

\* A step after which the only new request is not between check and write.
LEMMA NoNewPlace ==
  ASSUME TypeOK, NEW r \in Requests, \A q \in Requests : q # r => req'[q] = req[q],
         req'[r] = req[r] \/ req'[r].pc \notin Writing
  PROVE  \A m \in Members : Passed(m)' \subseteq Passed(m)
  BY DEF Passed

\* The check lets a request pass while a place is left: its own is at most one of all.
LEMMA LimitsStep ==
  ASSUME IInv, Places, NEW r \in Requests, UNCHANGED logs, req[r].pc # "idle",
         NEW next \in Writing, enforceSendLimits(r, next)
  PROVE  Places'
  <1>t. TypeOK
    BY DEF IInv
  <1>1. \A m \in Members : Counted(m)' = Counted(m)
    BY DEF Counted, logs
  <1>2. CASE Done(r)
    <2>1. \A m \in Members : Passed(m)' \subseteq Passed(m)
      BY <1>2, <1>t, NoNewPlace DEF Done, Idle, Writing, TypeOK
    <2> QED
      BY <1>1, <2>1, FewerPlaces DEF Places
  <1>3. ASSUME Cardinality(Counted(Sender[req[r].inv])) < dailyLimit, Goto(r, next) PROVE Places'
    <2>1. /\ req'[r].inv = req[r].inv /\ \A q \in Requests : q # r => req'[q] = req[q]
      BY <1>3, <1>t DEF Goto, TypeOK
    <2>2. ASSUME NEW m \in Members, m # Sender[req[r].inv]
          PROVE  (Cardinality(Counted(m)) + Cardinality(Passed(m)) <= dailyLimit - 1 + Cardinality(Requests))'
      <3>1. Passed(m)' \subseteq Passed(m)
        BY <2>1, <2>2 DEF Passed
      <3> QED
        BY <1>1, <3>1, FewerPlaces
    <2>3. ASSUME NEW m \in Members, m = Sender[req[r].inv]
          PROVE  (Cardinality(Counted(m)) + Cardinality(Passed(m)) <= dailyLimit - 1 + Cardinality(Requests))'
      <3>1. Counted(m)' = Counted(m) /\ Cardinality(Counted(m)) < dailyLimit
        BY <1>1, <1>3, <2>3
      <3>2. Passed(m)' \subseteq Requests /\ Counted(m) \subseteq Sends
        BY DEF Passed, Counted
      <3>3. /\ Cardinality(Passed(m)') \in Nat /\ Cardinality(Passed(m)') <= Cardinality(Requests)
            /\ Cardinality(Counted(m)) \in Nat /\ dailyLimit \in Nat /\ Cardinality(Requests) \in Nat
        BY <3>2, Finite
      <3> QED
        BY <3>1, <3>3
    <2> QED
      BY <2>2, <2>3 DEF Places
  <1> QED
    BY <1>2, <1>3 DEF enforceSendLimits

\* A new entry takes the place that its request held.
LEMMA WriteStep ==
  ASSUME IInv, Places, NEW r \in Requests, req[r].pc \in Writing, Done(r),
         NEW s \in Sends, Send(req[r].inv, s)
  PROVE  Places'
  <1>t. TypeOK
    BY DEF IInv
  <1>1. PICK i : i = req[r].inv
    OBVIOUS
  <1>2. i \in Invitations
    BY <1>1 DEF IInv, RequestsMatch, Writing
  <1>3. /\ outcome[s] = "none" /\ of'[s] = i /\ aged' = aged
        /\ \A x \in Sends : x # s => outcome'[x] = outcome[x] /\ of'[x] = of[x]
    BY <1>1, <1>t DEF Send, TypeOK
  <1>4. req'[r].pc \notin Writing /\ \A q \in Requests : q # r => req'[q] = req[q]
    BY <1>t DEF Done, Idle, Writing, TypeOK
  <1>5. ASSUME NEW m \in Members, m # Sender[i]
        PROVE  (Cardinality(Counted(m)) + Cardinality(Passed(m)) <= dailyLimit - 1 + Cardinality(Requests))'
    <2>1. Counted(m)' \subseteq Counted(m)
      BY <1>3, <1>5 DEF Counted
    <2>2. Passed(m)' \subseteq Passed(m)
      BY <1>4 DEF Passed
    <2> QED
      BY <2>1, <2>2, FewerPlaces
  <1>6. ASSUME NEW m \in Members, m = Sender[i]
        PROVE  (Cardinality(Counted(m)) + Cardinality(Passed(m)) <= dailyLimit - 1 + Cardinality(Requests))'
    <2>1. Counted(m)' \subseteq Counted(m) \cup {s}
      BY <1>3 DEF Counted
    <2>2. r \in Passed(m) /\ Passed(m)' \subseteq Passed(m) \ {r}
      BY <1>1, <1>4, <1>6 DEF Passed
    <2>3. /\ Counted(m) \subseteq Sends /\ Counted(m)' \subseteq Sends
          /\ Passed(m) \subseteq Requests /\ Passed(m)' \subseteq Requests
      BY DEF Counted, Passed
    <2>4. /\ IsFiniteSet(Counted(m)) /\ Cardinality(Counted(m)) \in Nat /\ Cardinality(Counted(m)') \in Nat
          /\ IsFiniteSet(Passed(m)) /\ Cardinality(Passed(m)) \in Nat /\ Cardinality(Passed(m)') \in Nat
          /\ dailyLimit \in Nat /\ Cardinality(Requests) \in Nat
      BY <2>3, Finite
    <2>5. Cardinality(Counted(m)') <= Cardinality(Counted(m)) + 1
      <3>1. /\ IsFiniteSet(Counted(m) \cup {s})
            /\ Cardinality(Counted(m) \cup {s}) <= Cardinality(Counted(m)) + 1
        <4>1. /\ IsFiniteSet(Counted(m) \cup {s})
              /\ Cardinality(Counted(m) \cup {s}) =
                   IF s \in Counted(m) THEN Cardinality(Counted(m)) ELSE Cardinality(Counted(m)) + 1
          BY <2>4, FS_AddElement
        <4> QED
          BY <2>4, <4>1
      <3>2. Cardinality(Counted(m)') <= Cardinality(Counted(m) \cup {s})
        BY <2>1, <3>1, FS_Subset
      <3>3. Cardinality(Counted(m) \cup {s}) \in Nat
        BY <3>1, FS_CardinalityType
      <3> QED
        BY <2>4, <3>1, <3>2, <3>3
    <2>6. Cardinality(Passed(m)') <= Cardinality(Passed(m)) - 1
      <3>1. /\ IsFiniteSet(Passed(m) \ {r})
            /\ Cardinality(Passed(m) \ {r}) = Cardinality(Passed(m)) - 1
        BY <2>2, <2>4, FS_RemoveElement
      <3> QED
        BY <2>2, <3>1, FS_Subset
    <2>7. Cardinality(Counted(m)) + Cardinality(Passed(m)) <= dailyLimit - 1 + Cardinality(Requests)
      BY DEF Places
    <2> QED
      BY <2>4, <2>5, <2>6, <2>7
  <1> QED
    BY <1>5, <1>6 DEF Places

\* Every step keeps entries and places within the bound.
LEMMA StepPlaces == IInv /\ Places /\ [Next]_vars => Places'
  <1> SUFFICES ASSUME IInv, Places, [Next]_vars PROVE Places'
    OBVIOUS
  <1>t. TypeOK /\ MailQueued
    BY DEF IInv
  <1>l. UNCHANGED logs => \A m \in Members : Counted(m)' = Counted(m)
    BY DEF Counted, logs
  <1>q. UNCHANGED req => \A m \in Members : Passed(m)' = Passed(m)
    BY DEF Passed
  <1>f. ASSUME \A m \in Members : Counted(m)' \subseteq Counted(m) /\ Passed(m)' \subseteq Passed(m)
        PROVE  Places'
    BY <1>f, FewerPlaces DEF Places
  <1>1. ASSUME NEW r \in Requests, CreateLimits(r) \/ ResendLimits(r) PROVE Places'
    <2>1. req[r].pc # "idle" /\ UNCHANGED logs
          /\ (enforceSendLimits(r, "create_write") \/ enforceSendLimits(r, "resend_write"))
      BY <1>1 DEF CreateLimits, ResendLimits, At
    <2> QED
      BY <2>1, LimitsStep DEF Writing
  <1>2. ASSUME NEW r \in Requests, CreateWrite(r) \/ ResendWrite(r) PROVE Places'
    <2>1. req[r].pc \in Writing /\ Done(r)
          /\ (UNCHANGED logs \/ \E s \in Sends : Send(req[r].inv, s))
      BY <1>2 DEF CreateWrite, ResendWrite, At, Writing
    <2>2. CASE UNCHANGED logs
      <3>1. \A m \in Members : Passed(m)' \subseteq Passed(m)
        BY <1>t, <2>1, NoNewPlace DEF Done, Idle, Writing, TypeOK
      <3> QED
        BY <1>f, <1>l, <2>2, <3>1
    <2> QED
      BY <2>1, <2>2, WriteStep
  <1>3. ASSUME NEW r \in Requests,
               \/ \E i \in Invitations : InvitationController(r, i)
               \/ CreatePending(r) \/ RevokeWrite(r) \/ ResendAccount(r) \/ RequestFails(r)
        PROVE  Places'
    <2>1. /\ UNCHANGED logs /\ \A q \in Requests : q # r => req'[q] = req[q]
          /\ req'[r] = req[r] \/ req'[r].pc \notin Writing
      BY <1>3, <1>t
      DEF InvitationController, CreateRead, RevokeRead, ResendRead, CreatePending, RevokeWrite,
          ResendAccount, RequestFails, Done, Goto, Idle, Writing, TypeOK
    <2>2. \A m \in Members : Passed(m)' \subseteq Passed(m)
      BY <1>t, <2>1, NoNewPlace
    <2> QED
      BY <1>f, <1>l, <2>1, <2>2
  <1>4. ASSUME NEW s \in Sends, DeliverSent(s) \/ DeliverFailed(s) PROVE Places'
    <2>1. /\ outcome[s] = "queued" /\ of' = of /\ aged' = aged /\ UNCHANGED req
          /\ \A x \in Sends : x # s => outcome'[x] = outcome[x]
      BY <1>4, <1>t DEF DeliverSent, DeliverFailed, MailQueued, TypeOK
    <2>2. \A m \in Members : Counted(m)' \subseteq Counted(m)
      BY <2>1 DEF Counted
    <2> QED
      BY <1>f, <1>q, <2>1, <2>2
  <1>5. CASE Age
    <2>1. aged \in Int /\ UNCHANGED <<outcome, of, req>> /\ aged' = aged + 1
      BY <1>5, <1>t, InvitationAssumption DEF Age, TypeOK
    <2>2. \A m \in Members : Counted(m)' \subseteq Counted(m)
      BY <2>1, InvitationAssumption DEF Counted, Sends
    <2> QED
      BY <1>f, <1>q, <2>1, <2>2
  <1>6. CASE UNCHANGED <<logs, req>>
    BY <1>6, <1>f, <1>l, <1>q
  <1> QED
    BY <1>1, <1>2, <1>3, <1>4, <1>5, <1>6
    DEF Next, Step, vars, Register, VerifyEmail, acceptByToken, AcceptElsewhere, acceptByEmail, Expire,
        sweepExpired

\* Rows of a member do not outnumber the sends that paid for them.
LEMMA RowsPaid ==
  ASSUME IInv, NEW m \in Members
  PROVE  Cardinality(list(m)) <= Cardinality({s \in Sends : of[s] # NoInvitation /\ Sender[of[s]] = m})
  <1> DEFINE paid == {s \in Sends : of[s] # NoInvitation /\ Sender[of[s]] = m}
             token == [i \in list(m) |-> link[i]]
  <1>1. \A i \in list(m) : i \in Invitations /\ link[i] \in Sends /\ of[link[i]] = i /\ Sender[i] = m
    BY DEF IInv, Linked, list
  <1>2. token \in [list(m) -> paid]
    BY <1>1, InvitationAssumption
  <1>3. \A i, j \in list(m) : token[i] = token[j] => i = j
    BY <1>1
  <1>4. token \in Injection(list(m), paid)
    BY <1>2, <1>3 DEF Injection, IsInjective
  <1>5. IsFiniteSet(paid)
    BY Finite
  <1> HIDE DEF paid, token
  <1>6. Cardinality(list(m)) <= Cardinality(paid)
    BY <1>4, <1>5, FS_Injection
  <1> QED
    BY <1>6 DEF paid

\* stats: at most one row of a member is shown as pending.
LEMMA PendingAtMostOne ==
  ASSUME IInv, NEW m \in Members
  PROVE  Cardinality({i \in list(m) : status[i] = "PENDING"}) <= 1
  <1> DEFINE pending == {i \in list(m) : status[i] = "PENDING"}
  <1>1. \A i, j \in pending : i = j
    BY DEF IInv, OnePending, list
  <1>2. pending = {} \/ \E i : pending = {i}
    BY <1>1
  <1> HIDE DEF pending
  <1>3. Cardinality(pending) <= 1
    <2>1. CASE pending = {}
      BY <2>1, FS_EmptySet
    <2>2. ASSUME NEW i, pending = {i} PROVE Cardinality(pending) <= 1
      <3>1. Cardinality({i}) = 1
        BY FS_Singleton
      <3> QED
        BY <2>2, <3>1
    <2> QED
      BY <1>2, <2>1, <2>2
  <1> QED
    BY <1>3 DEF pending

\* enforceSendLimits: "at most N sends a day" is exceeded by fewer than the requests in
\* flight at once, and what stats shows is backed by the log: no row without an entry
\* of its own, no second pending row.
THEOREM QuotaSafe == Spec => []QuotaOvershoot
  <1>1. Init => Places
    <2> SUFFICES ASSUME Init, NEW m \in Members
                 PROVE  Cardinality(Counted(m)) + Cardinality(Passed(m)) <= dailyLimit - 1 + Cardinality(Requests)
      BY DEF Places
    <2>1. Counted(m) = {} /\ Passed(m) = {}
      BY DEF Init, Counted, Passed, Idle, Writing
    <2> QED
      BY <2>1, FS_EmptySet, Finite
  <1>2. IInv /\ Places => QuotaOvershoot
    <2> SUFFICES ASSUME IInv, Places, NEW m \in Members
                 PROVE  /\ Cardinality(Counted(m)) < dailyLimit + Cardinality(Requests)
                        /\ stats(m).sent <= Cardinality({s \in Sends : of[s] # NoInvitation /\ Sender[of[s]] = m})
                        /\ stats(m).pending <= 1
      BY DEF QuotaOvershoot
    <2>1. Counted(m) \subseteq Sends /\ Passed(m) \subseteq Requests
      BY DEF Counted, Passed
    <2>2. /\ Cardinality(Counted(m)) \in Nat /\ Cardinality(Passed(m)) \in Nat
          /\ dailyLimit \in Nat /\ Cardinality(Requests) \in Nat
      BY <2>1, Finite
    <2>3. Cardinality(Counted(m)) + Cardinality(Passed(m)) <= dailyLimit - 1 + Cardinality(Requests)
      BY DEF Places
    <2>4. Cardinality(Counted(m)) < dailyLimit + Cardinality(Requests)
      BY <2>2, <2>3
    <2>5. stats(m).sent = Cardinality(list(m))
          /\ stats(m).pending = Cardinality({i \in list(m) : status[i] = "PENDING"})
      BY DEF stats
    <2> QED
      BY <2>4, <2>5, RowsPaid, PendingAtMostOne
  <1> QED
    BY <1>1, <1>2, InitIInv, NextIInv, StepPlaces, PTL DEF Spec
--------------------------------------------------------------------------------
(* What is closed stays closed, but for the requests it overtook *)

Creating == {"create_pending", "create_limits", "create_write"}
Changing == {"revoke", "resend_account", "resend_limits", "resend_write"}

\* A create has the row that it is about to insert for itself.
CreatesAlone ==
  \A r \in Requests :
    req[r].pc \in Creating =>
      /\ status[req[r].inv] = "none"
      /\ \A q \in Requests \ {r} : req[q].inv # req[r].inv

\* A revoke or a resend works on a row that it has read open, and that is open still unless
\* the request was overtaken.
ReadOpen ==
  \A r \in Requests :
    req[r].pc \in Changing =>
      status[req[r].inv] # "none" /\ (r \in late \/ status[req[r].inv] \notin Closed)

OpenInv == IInv /\ CreatesAlone /\ ReadOpen

\* A request takes its next statement, reads a row or ends; no row changes.
Proceeds(r) ==
  /\ UNCHANGED status
  /\ \A q \in Requests : q # r => req'[q] = req[q]
  /\ \/ req'[r] = Idle
     \/ /\ req'[r].inv = req[r].inv
        /\ \/ req[r].pc \in Creating /\ req'[r].pc \in Creating
           \/ req[r].pc \in Changing /\ req'[r].pc \in Changing
     \/ \E i \in Invitations :
          \/ /\ req'[r] = [pc |-> "create_pending", inv |-> i]
             /\ status[i] = "none" /\ \A q \in Requests : req[q].inv # i
          \/ /\ req'[r] \in {[pc |-> "revoke", inv |-> i], [pc |-> "resend_account", inv |-> i]}
             /\ status[i] \in {"PENDING", "EXPIRED"}

\* A request writes its row and ends.
Writes(r) ==
  /\ \/ req[r].pc \in Writing /\ status' = [status EXCEPT ![req[r].inv] = "PENDING"]
     \/ req[r].pc = "revoke" /\ status' = [status EXCEPT ![req[r].inv] = "REVOKED"]
  /\ Done(r)

\* The hooks, the deliveries and the sweep change rows that are PENDING.
Settles ==
  /\ UNCHANGED req
  /\ \A i \in Invitations :
       status'[i] = status[i] \/ (status[i] = "PENDING" /\ status'[i] \in {"ACCEPTED", "EXPIRED"})

LEMMA Moves ==
  IInv /\ [Next]_vars => Settles \/ \E r \in Requests : Proceeds(r) \/ Writes(r)
  <1> SUFFICES ASSUME IInv, [Next]_vars, ~Settles
               PROVE  \E r \in Requests : Proceeds(r) \/ Writes(r)
    OBVIOUS
  <1>t. TypeOK
    BY DEF IInv
  <1>k. UNCHANGED <<status, req>> => FALSE
    BY DEF Settles
  <1>d. ASSUME NEW r \in Requests, Done(r), UNCHANGED status PROVE Proceeds(r)
    BY <1>d, <1>t DEF Done, Proceeds, TypeOK
  <1>g. ASSUME NEW r \in Requests, UNCHANGED status,
               NEW p, Goto(r, p),
               \/ req[r].pc \in Creating /\ p \in Creating
               \/ req[r].pc \in Changing /\ p \in Changing
        PROVE  Proceeds(r)
    BY <1>g, <1>t DEF Goto, Proceeds, TypeOK
  <1>1. ASSUME NEW r \in Requests, NEW i \in Invitations, InvitationController(r, i) PROVE Proceeds(r)
    <2>1. CASE CreateRead(r, i)
      BY <1>t, <2>1 DEF CreateRead, Proceeds, TypeOK, rows
    <2>2. CASE RevokeRead(r, i) \/ ResendRead(r, i)
      BY <1>t, <2>2 DEF RevokeRead, ResendRead, Proceeds, TypeOK, rows
    <2> QED
      BY <1>1, <2>1, <2>2 DEF InvitationController
  <1>2. ASSUME NEW r \in Requests, CreatePending(r) \/ CreateLimits(r) PROVE Proceeds(r)
    BY <1>2, <1>d, <1>g DEF CreatePending, CreateLimits, enforceSendLimits, At, Creating, rows
  <1>3. ASSUME NEW r \in Requests, ResendAccount(r) \/ ResendLimits(r) PROVE Proceeds(r)
    BY <1>3, <1>d, <1>g DEF ResendAccount, ResendLimits, enforceSendLimits, At, Changing, rows
  <1>4. ASSUME NEW r \in Requests, CreateWrite(r) \/ ResendWrite(r) PROVE Proceeds(r) \/ Writes(r)
    BY <1>4, <1>d DEF CreateWrite, ResendWrite, Send, At, Writes, Writing, rows
  <1>5. ASSUME NEW r \in Requests, RevokeWrite(r) \/ RequestFails(r) PROVE Proceeds(r) \/ Writes(r)
    BY <1>5, <1>d DEF RevokeWrite, RequestFails, At, Writes, rows
  <1>6. ASSUME NEW s \in Sends PROVE ~DeliverSent(s) /\ ~DeliverFailed(s)
    BY <1>k, <1>t DEF DeliverSent, DeliverFailed, Settles, TypeOK, rows
  <1>7. ASSUME NEW s \in Sends PROVE ~acceptByToken(s) /\ ~AcceptElsewhere(s)
    BY <1>t DEF acceptByToken, AcceptElsewhere, Accept, Settles, TypeOK
  <1>8. ASSUME NEW h PROVE ~acceptByEmail(h)
    BY DEF acceptByEmail, Settles
  <1>9. ASSUME NEW m \in Members PROVE ~sweepExpired(m)
    BY DEF sweepExpired, Settles
  <1>10. ASSUME NEW v, NEW x PROVE ~Register(v, x)
    BY <1>k DEF Register, rows
  <1>11. ~VerifyEmail /\ ~Age /\ ~(UNCHANGED vars) /\ \A i \in Invitations : ~Expire(i)
    BY <1>k DEF VerifyEmail, Age, Expire, vars, rows
  <1> QED
    BY <1>1, <1>2, <1>3, <1>4, <1>5, <1>6, <1>7, <1>8, <1>9, <1>10, <1>11 DEF Next, Step

\* Who is overtaken, and who is still.
LEMMA LateStep ==
  ASSUME [Next]_vars, TypeOK, NEW r \in Requests, req'[r].pc # "idle"
  PROVE  /\ r \in late /\ status'[req'[r].inv] \in Closed => r \in late'
         /\ status[req'[r].inv] \notin Closed /\ status'[req'[r].inv] \in Closed => r \in late'
  BY DEF Next, Overtaken, vars, rows

LEMMA StepOpen == OpenInv /\ [Next]_vars => OpenInv'
  <1> SUFFICES ASSUME OpenInv, [Next]_vars PROVE CreatesAlone' /\ ReadOpen'
    BY NextIInv DEF OpenInv
  <1>t. TypeOK /\ IInv /\ RequestsMatch
    BY DEF OpenInv, IInv
  <1>i. \A r \in Requests : req[r].pc # "idle" => req[r].inv \in Invitations
    BY <1>t DEF RequestsMatch
  <1>1. CASE Settles
    <2>1. CreatesAlone'
      BY <1>1, <1>i DEF Settles, OpenInv, CreatesAlone, Creating
    <2>2. ReadOpen'
      BY <1>1, <1>i, <1>t, LateStep DEF Settles, OpenInv, ReadOpen, Changing
    <2> QED
      BY <2>1, <2>2
  <1>2. ASSUME NEW r \in Requests, Proceeds(r) PROVE CreatesAlone' /\ ReadOpen'
    <2> DEFINE Alone(q) == /\ status[req'[q].inv] = "none"
                           /\ \A p \in Requests \ {q} : req'[p].inv # req'[q].inv
               Open(q)  == /\ status[req'[q].inv] # "none"
                           /\ q \in late \/ status[req'[q].inv] \notin Closed
    <2>o. \A q \in Requests : q # r => req'[q] = req[q]
      BY <1>2 DEF Proceeds
    <2>a. /\ \A q \in Requests : req[q].pc \in Creating =>
                /\ status[req[q].inv] = "none" /\ req[q].inv \in Invitations
                /\ \A p \in Requests \ {q} : req[p].inv # req[q].inv
          /\ \A q \in Requests : req[q].pc \in Changing =>
                /\ status[req[q].inv] # "none"
                /\ q \in late \/ status[req[q].inv] \notin Closed
      BY <1>i DEF OpenInv, CreatesAlone, ReadOpen, Creating, Changing
    <2>d. Creating \cap Changing = {} /\ "idle" \notin Creating \cup Changing
      BY DEF Creating, Changing
    <2> HIDE DEF Alone, Open
    <2>1. ASSUME req'[r] = Idle
          PROVE  \A q \in Requests : /\ req'[q].pc \in Creating => Alone(q)
                                     /\ req'[q].pc \in Changing => Open(q)
      <3>1. req'[r].pc \notin Creating \cup Changing /\ req'[r].inv \notin Invitations
        BY <2>1, <2>d, InvitationAssumption DEF Idle
      <3>2. \A q \in Requests : req'[q].pc \in Creating => Alone(q)
        BY <2>a, <2>o, <3>1 DEF Alone
      <3>3. \A q \in Requests : req'[q].pc \in Changing => Open(q)
        BY <2>a, <2>o, <3>1 DEF Open
      <3> QED
        BY <3>2, <3>3
    <2>2. ASSUME req'[r].inv = req[r].inv,
                 \/ req[r].pc \in Creating /\ req'[r].pc \in Creating
                 \/ req[r].pc \in Changing /\ req'[r].pc \in Changing
          PROVE  \A q \in Requests : /\ req'[q].pc \in Creating => Alone(q)
                                     /\ req'[q].pc \in Changing => Open(q)
      <3>1. \A q \in Requests : /\ req'[q].inv = req[q].inv
                                /\ req'[q].pc \in Creating => req[q].pc \in Creating
                                /\ req'[q].pc \in Changing => req[q].pc \in Changing
        BY <2>2, <2>d, <2>o
      <3>2. \A q \in Requests : req'[q].pc \in Creating => Alone(q)
        BY <2>a, <3>1 DEF Alone
      <3>3. \A q \in Requests : req'[q].pc \in Changing => Open(q)
        BY <2>a, <3>1 DEF Open
      <3> QED
        BY <3>2, <3>3
    <2>3. ASSUME NEW i \in Invitations, req'[r] = [pc |-> "create_pending", inv |-> i],
                 status[i] = "none", \A q \in Requests : req[q].inv # i
          PROVE  \A q \in Requests : /\ req'[q].pc \in Creating => Alone(q)
                                     /\ req'[q].pc \in Changing => Open(q)
      <3>1. req'[r].inv = i /\ req'[r].pc \notin Changing
        BY <2>3 DEF Changing
      <3>2. \A q \in Requests : req'[q].pc \in Creating => Alone(q)
        BY <2>3, <2>a, <2>o, <3>1 DEF Alone
      <3>3. \A q \in Requests : req'[q].pc \in Changing => Open(q)
        BY <2>a, <2>o, <3>1 DEF Open
      <3> QED
        BY <3>2, <3>3
    <2>4. ASSUME NEW i \in Invitations,
                 req'[r] \in {[pc |-> "revoke", inv |-> i], [pc |-> "resend_account", inv |-> i]},
                 status[i] \in {"PENDING", "EXPIRED"}
          PROVE  \A q \in Requests : /\ req'[q].pc \in Creating => Alone(q)
                                     /\ req'[q].pc \in Changing => Open(q)
      <3>1. /\ req'[r].inv = i /\ req'[r].pc \notin Creating
            /\ status[i] # "none" /\ status[i] \notin Closed
        BY <2>4 DEF Creating, Closed
      <3>2. \A q \in Requests : req'[q].pc \in Creating => Alone(q)
        BY <2>a, <2>o, <3>1 DEF Alone
      <3>3. \A q \in Requests : req'[q].pc \in Changing => Open(q)
        BY <2>a, <2>o, <3>1 DEF Open
      <3> QED
        BY <3>2, <3>3
    <2>5. \A q \in Requests : /\ req'[q].pc \in Creating => Alone(q)
                              /\ req'[q].pc \in Changing => Open(q)
      BY <1>2, <2>1, <2>2, <2>3, <2>4 DEF Proceeds
    <2>6. status' = status /\ \A q \in Requests : req'[q].pc \in Changing => req'[q].pc # "idle"
      BY <1>2 DEF Proceeds, Changing
    <2>7. \A q \in Requests : q \in late /\ req'[q].pc # "idle" /\ status'[req'[q].inv] \in Closed => q \in late'
      BY <1>t, LateStep
    <2> QED
      BY <2>5, <2>6, <2>7 DEF Alone, Open, CreatesAlone, ReadOpen
  <1>3. ASSUME NEW r \in Requests, Writes(r) PROVE CreatesAlone' /\ ReadOpen'
    <2>1. PICK i \in Invitations, st \in {"PENDING", "REVOKED"} :
            i = req[r].inv /\ status' = [status EXCEPT ![i] = st]
      BY <1>3, <1>i DEF Writes, Writing
    <2>2. /\ \A j \in Invitations : j # i => status'[j] = status[j]
          /\ status'[i] = st
      BY <1>t, <2>1 DEF TypeOK
    <2>3. req'[r] = Idle /\ \A q \in Requests : q # r => req'[q] = req[q]
      BY <1>3, <1>t DEF Writes, Done, TypeOK
    <2>4. ASSUME NEW q \in Requests, req'[q].pc \in Creating \cup Changing
          PROVE  q # r /\ req'[q] = req[q] /\ req[q].inv \in Invitations
      BY <1>i, <2>3, <2>4 DEF Idle, Creating, Changing
    <2>5. ASSUME NEW q \in Requests, req'[q].pc \in Creating
          PROVE  /\ status'[req'[q].inv] = "none"
                 /\ \A p \in Requests \ {q} : req'[p].inv # req'[q].inv
      BY <2>1, <2>2, <2>3, <2>4, <2>5, InvitationAssumption DEF OpenInv, CreatesAlone, Idle
    <2>6. ASSUME NEW q \in Requests, req'[q].pc \in Changing
          PROVE  status'[req'[q].inv] # "none" /\ (q \in late' \/ status'[req'[q].inv] \notin Closed)
      <3>1. req'[q].pc # "idle" /\ req'[q] = req[q] /\ req[q].inv \in Invitations
        BY <2>4, <2>6 DEF Changing
      <3>2. /\ q \in late /\ status'[req[q].inv] \in Closed => q \in late'
            /\ status[req[q].inv] \notin Closed /\ status'[req[q].inv] \in Closed => q \in late'
        BY <1>t, <3>1, LateStep
      <3> QED
        BY <2>2, <2>6, <3>1, <3>2 DEF OpenInv, ReadOpen
    <2> QED
      BY <2>5, <2>6 DEF CreatesAlone, ReadOpen
  <1> QED
    BY <1>1, <1>2, <1>3, <1>t, Moves

\* revoke and resend: an acceptance or a revocation is lost only to a request that had read
\* the row before it, so a member whose requests do not overlap a conversion never loses it.
THEOREM ClosedSafe == Spec => ClosedByOvertakenOnly
  <1> DEFINE Kept ==
        \A i \in Invitations :
          status[i] \in Closed /\ status'[i] # status[i] =>
            \E r \in late : /\ req[r].inv = i /\ req[r].pc \in {"revoke", "resend_write"}
                           /\ req'[r] = Idle
  <1>1. Init => OpenInv
    BY InitIInv DEF Init, OpenInv, CreatesAlone, ReadOpen, Creating, Changing, Idle
  <1>2. OpenInv /\ [Next]_vars => [Kept]_vars
    <2> SUFFICES ASSUME OpenInv, [Next]_vars, NEW i \in Invitations,
                        status[i] \in Closed, status'[i] # status[i]
                 PROVE  \E r \in late : /\ req[r].inv = i /\ req[r].pc \in {"revoke", "resend_write"}
                                       /\ req'[r] = Idle
      OBVIOUS
    <2>t. TypeOK /\ IInv
      BY DEF OpenInv, IInv
    <2>1. PICK r \in Requests : Writes(r)
      BY <2>t, Moves DEF Settles, Proceeds, Closed
    <2>2. req[r].inv = i
      BY <2>1, <2>t DEF Writes, TypeOK
    <2>3. req[r].pc \notin Creating
      BY <2>2 DEF OpenInv, CreatesAlone, Closed
    <2>4. req[r].pc \in {"revoke", "resend_write"}
      BY <2>1, <2>3 DEF Writes, Writing, Creating
    <2>5. r \in late
      BY <2>2, <2>4 DEF OpenInv, ReadOpen, Changing
    <2>6. req'[r] = Idle
      BY <2>1, <2>t DEF Writes, Done, TypeOK
    <2> QED
      BY <2>2, <2>4, <2>5, <2>6
  <1> QED
    BY <1>1, <1>2, StepOpen, PTL DEF Spec, ClosedByOvertakenOnly
================================================================================
