------------------------------ MODULE TokenRotation ------------------------------
(***************************************************************************)
(* The sessions of one user: TokenService (issue, rotate, replay, revoke), *)
(* LoginIssuerService, TokenCleanupService and the AuthController handlers *)
(* that revoke (logout, logout-all, reset and update password).            *)
(*                                                                         *)
(* A login or a rotation mints a pair: an access row, then a refresh row.  *)
(* A pair is an id of Pairs; its rows are access[t] and refresh[t].        *)
(* Rotation revokes the presented refresh row with a conditional UPDATE    *)
(* (the claim), mints the next pair and stores it, encrypted, on the old   *)
(* row, so that a second presentation inside the grace window gets the     *)
(* same pair again.  Every statement is awaited on its own: requests       *)
(* interleave and may stop between any two of them.                        *)
(*                                                                         *)
(* Left out: better-auth's own cookie sessions, bans, encryption of the    *)
(* stored pair (its key and user never change here), and the P2002 branch  *)
(* of storeTokenInSession, which needs two equal random ids.               *)
(***************************************************************************)
EXTENDS Naturals

CONSTANTS
  Pairs,      \* token pairs that can be minted (bound)
  Logins,     \* the pairs among them that a login may mint (bound)
  Requests,   \* request slots: handlers in flight at once
  MaxPolls,   \* REPLAY_WAIT_ATTEMPTS, 6 in the code
  Faults,     \* TRUE: a statement may fail, or the process stop
  NoPair

ASSUME RotationAssumption ==
  /\ Logins \subseteq Pairs
  /\ MaxPolls \in Nat \ {0}
  /\ Faults \in BOOLEAN
  /\ NoPair \notin Pairs

VARIABLES
  access,   \* access rows: "none", "live", "dead" (revoked, expired or deleted)
  refresh,  \* refresh rows: "none", "live", "revoked", "gone"
  expired,  \* refresh: expiresAt has passed (the JWT's exp is the same instant)
  age,      \* time since revokedAt: "fresh" < 5 s, "grace" <= 300 s, "late"
  blob,     \* refresh: the replacement pair stored on a consumed row
  family,   \* the login a pair descends from
  req,      \* the in-flight requests
  child,    \* history: the pair minted by the rotation of each refresh token
  answers   \* history: the pairs returned to presentations of each token

rows == <<access, refresh, expired, age, blob, family>>
history == <<child, answers>>
vars == <<rows, req, history>>

RowStates == {"none", "live", "revoked", "gone"}

Steps == {"idle", "login_refresh", "claim", "mint_access", "mint_refresh", "store",
          "wait", "replay", "sweep_blobs", "sweep_rows", "logout_refresh"}

Request == [pc     : Steps,
            parent : Pairs \cup {NoPair},   \* the refresh token presented
            pair   : Pairs \cup {NoPair},   \* the pair minted, replayed or kept
            polls  : Nat]

In(step, parent, pair, polls) ==
  [pc |-> step, parent |-> parent, pair |-> pair, polls |-> polls]

IdleRequest == In("idle", NoPair, NoPair, 0)

TypeOK ==
  /\ access \in [Pairs -> {"none", "live", "dead"}]
  /\ refresh \in [Pairs -> RowStates]
  /\ expired \in [Pairs -> BOOLEAN]
  /\ age \in [Pairs -> {"fresh", "grace", "late"}]
  /\ blob \in [Pairs -> Pairs \cup {NoPair}]
  /\ family \in [Pairs -> Pairs \cup {NoPair}]
  /\ req \in [Requests -> Request]
  /\ child \in [Pairs -> Pairs \cup {NoPair}]
  /\ answers \in [Pairs -> SUBSET Pairs]

Init ==
  /\ access = [t \in Pairs |-> "none"]
  /\ refresh = [t \in Pairs |-> "none"]
  /\ expired = [t \in Pairs |-> FALSE]
  /\ age = [t \in Pairs |-> "fresh"]
  /\ blob = [t \in Pairs |-> NoPair]
  /\ family = [t \in Pairs |-> NoPair]
  /\ req = [r \in Requests |-> IdleRequest]
  /\ child = [t \in Pairs |-> NoPair]
  /\ answers = [t \in Pairs |-> {}]

At(r, step) == req[r].pc = step
Done(r) == req' = [req EXCEPT ![r] = IdleRequest]
Goto(r, step) == req' = [req EXCEPT ![r].pc = step]
Become(r, request) == req' = [req EXCEPT ![r] = request]
Start(r, request) == At(r, "idle") /\ Become(r, request)

\* revoked: true, revokedAt: now, on the unrevoked rows of a set.
Revoke(S) ==
  /\ refresh' = [t \in Pairs |-> IF t \in S /\ refresh[t] = "live"
                                 THEN "revoked" ELSE refresh[t]]
  /\ age' = [t \in Pairs |-> IF t \in S /\ refresh[t] = "live" THEN "fresh" ELSE age[t]]

--------------------------------------------------------------------------------
(* LoginIssuerService.issueTokens *)

LoginAccess(r, t) ==
  /\ access[t] = "none"
  /\ Start(r, In("login_refresh", NoPair, t, 0))
  /\ access' = [access EXCEPT ![t] = "live"]
  /\ family' = [family EXCEPT ![t] = t]
  /\ UNCHANGED <<refresh, expired, age, blob, history>>

LoginRefresh(r) ==
  /\ At(r, "login_refresh")
  /\ refresh' = [refresh EXCEPT ![req[r].pair] = "live"]
  /\ Done(r)
  /\ UNCHANGED <<access, expired, age, blob, family, history>>

--------------------------------------------------------------------------------
(* TokenService.rotateRefreshToken *)

\* The JWT verifies and the row is read.  A revoked row inside the grace window
\* is a duplicate: its stored pair is replayed, or awaited while the revocation
\* is seconds old; outside the window it is reuse.  Other cases answer 401.
RotateRead(r, t) ==
  /\ refresh[t] \in {"live", "revoked"} /\ ~expired[t]
  /\ \/ /\ refresh[t] = "live"
        /\ Start(r, In("claim", t, NoPair, 0))
     \/ /\ refresh[t] = "revoked" /\ age[t] = "late"
        /\ Start(r, In("sweep_blobs", NoPair, NoPair, 0))
     \/ /\ refresh[t] = "revoked" /\ age[t] # "late" /\ blob[t] # NoPair
        /\ Start(r, In("replay", t, blob[t], 0))
     \/ /\ refresh[t] = "revoked" /\ age[t] = "fresh" /\ blob[t] = NoPair
        /\ Start(r, In("wait", t, NoPair, MaxPolls))
  /\ UNCHANGED <<rows, history>>

\* Mutant: the presented token is consumed only in the log, its row stays live.
Mut_RotateClaim_keepsParent(r) ==
  LET t == req[r].parent IN
  /\ At(r, "claim")
  /\ refresh[t] = "live"
  /\ Goto(r, "mint_access")
  /\ UNCHANGED <<access, refresh, age, expired, blob, family, history>>

\* updateMany where token = hash and revoked = false: one request wins.
RotateClaim(r) ==
  LET t == req[r].parent IN
  /\ At(r, "claim")
  /\ \/ /\ refresh[t] = "live"
        /\ Revoke({t})
        /\ Goto(r, "mint_access")
     \/ /\ refresh[t] # "live"
        /\ Become(r, In("wait", t, NoPair, MaxPolls))
        /\ UNCHANGED <<refresh, age>>
  /\ UNCHANGED <<access, expired, blob, family, history>>

MintAccess(r, c) ==
  /\ At(r, "mint_access")
  /\ access[c] = "none"
  /\ access' = [access EXCEPT ![c] = "live"]
  /\ family' = [family EXCEPT ![c] = family[req[r].parent]]
  /\ child' = [child EXCEPT ![req[r].parent] = c]
  /\ Become(r, In("mint_refresh", req[r].parent, c, 0))
  /\ UNCHANGED <<refresh, expired, age, blob, answers>>

\* Bound: when every pair is used, the INSERT of the access row fails.
MintFails(r) ==
  /\ At(r, "mint_access")
  /\ \A c \in Pairs : access[c] # "none"
  /\ Done(r)
  /\ UNCHANGED <<rows, history>>

MintRefresh(r) ==
  /\ At(r, "mint_refresh")
  /\ refresh' = [refresh EXCEPT ![req[r].pair] = "live"]
  /\ Goto(r, "store")
  /\ UNCHANGED <<access, expired, age, blob, family, history>>

Answer(r) == answers' = [answers EXCEPT ![req[r].parent] = @ \cup {req[r].pair}]

\* The stored copy is best effort: the pair is returned whether or not the
\* UPDATE succeeds (it fails on a deleted row).
Store(r) ==
  LET t == req[r].parent IN
  /\ At(r, "store")
  /\ \/ refresh[t] # "gone" /\ blob' = [blob EXCEPT ![t] = req[r].pair]
     \/ (refresh[t] = "gone" \/ Faults) /\ UNCHANGED blob
  /\ Answer(r)
  /\ Done(r)
  /\ UNCHANGED <<access, refresh, expired, age, family, child>>

\* Mutant: the attempts are not counted.
Mut_Wait_forever(r) ==
  LET t == req[r].parent IN
  /\ At(r, "wait")
  /\ \/ /\ blob[t] # NoPair
        /\ Become(r, In("replay", t, blob[t], 0))
     \/ blob[t] = NoPair /\ UNCHANGED req
  /\ UNCHANGED <<rows, history>>

\* awaitReplacement: sleep, read the row again.
Wait(r) ==
  LET t == req[r].parent IN
  /\ At(r, "wait")
  /\ \/ /\ blob[t] # NoPair
        /\ Become(r, In("replay", t, blob[t], 0))
     \/ blob[t] = NoPair /\ req[r].polls <= 1 /\ Done(r)
     \/ /\ blob[t] = NoPair /\ req[r].polls > 1
        /\ Become(r, In("wait", t, NoPair, req[r].polls - 1))
  /\ UNCHANGED <<rows, history>>

\* Mutant: a stored pair that was rotated in its turn is replaced by its successor.
Mut_Replay_newest(r) ==
  LET s == req[r].pair
      c == IF blob[s] # NoPair THEN blob[s] ELSE s IN
  /\ At(r, "replay")
  /\ \/ /\ refresh[c] = "live" /\ ~expired[c]
        /\ answers' = [answers EXCEPT ![req[r].parent] = @ \cup {c}]
     \/ (refresh[c] # "live" \/ expired[c]) /\ UNCHANGED answers
  /\ Done(r)
  /\ UNCHANGED <<rows, child>>

\* replayReplacement: the stored pair is returned only while its refresh row is
\* live and unexpired.
Replay(r) ==
  LET c == req[r].pair IN
  /\ At(r, "replay")
  /\ \/ refresh[c] = "live" /\ ~expired[c] /\ Answer(r)
     \/ (refresh[c] # "live" \/ expired[c]) /\ UNCHANGED answers
  /\ Done(r)
  /\ UNCHANGED <<rows, child>>

--------------------------------------------------------------------------------
(* TokenService.revokeAllUserTokens: logout-all, reset-password, reuse, and *)
(* update-password, which keeps the caller's access row. *)

RevokeAll(r, keep) ==
  /\ keep \in Pairs => access[keep] = "live"
  /\ Start(r, In("sweep_blobs", NoPair, keep, 0))
  /\ UNCHANGED <<rows, history>>

SweepBlobs(r) ==
  /\ At(r, "sweep_blobs")
  /\ blob' = [t \in Pairs |-> NoPair]
  /\ Goto(r, "sweep_rows")
  /\ UNCHANGED <<access, refresh, expired, age, family, history>>

\* Mutant: the sweep covers the access rows only.
Mut_SweepRows_accessOnly(r) ==
  /\ At(r, "sweep_rows")
  /\ access' = [t \in Pairs |-> IF access[t] = "live" /\ t # req[r].pair
                                THEN "dead" ELSE access[t]]
  /\ Done(r)
  /\ UNCHANGED <<refresh, age, expired, blob, family, history>>

SweepRows(r) ==
  /\ At(r, "sweep_rows")
  /\ Revoke(Pairs)
  /\ access' = [t \in Pairs |-> IF access[t] = "live" /\ t # req[r].pair
                                THEN "dead" ELSE access[t]]
  /\ Done(r)
  /\ UNCHANGED <<expired, blob, family, history>>

\* AuthController.logout with both tokens: the access row, then the refresh row.
LogoutAccess(r, t) ==
  /\ access[t] # "none"
  /\ Start(r, In("logout_refresh", NoPair, t, 0))
  /\ access' = [access EXCEPT ![t] = "dead"]
  /\ UNCHANGED <<refresh, expired, age, blob, family, history>>

LogoutRefresh(r) ==
  /\ At(r, "logout_refresh")
  /\ Revoke({req[r].pair})
  /\ Done(r)
  /\ UNCHANGED <<access, expired, blob, family, history>>

--------------------------------------------------------------------------------
(* Time and TokenCleanupService.cleanupExpiredTokens *)

Age(t) ==
  /\ refresh[t] = "revoked" /\ age[t] # "late" /\ ~expired[t]
  /\ age' = [age EXCEPT ![t] = IF @ = "fresh" THEN "grace" ELSE "late"]
  /\ UNCHANGED <<access, refresh, expired, blob, family, req, history>>

\* An expired token is refused by its JWT: the age of its row is not read again.
Expire(t) ==
  /\ refresh[t] \in {"live", "revoked"} /\ ~expired[t]
  /\ expired' = [expired EXCEPT ![t] = TRUE]
  /\ age' = [age EXCEPT ![t] = "fresh"]
  /\ UNCHANGED <<access, refresh, blob, family, req, history>>

\* A logout without the refresh token revokes the access row alone; one that expires
\* is refused by its JWT and deleted later.
AccessEnds(t) ==
  /\ access[t] = "live"
  /\ access' = [access EXCEPT ![t] = "dead"]
  /\ UNCHANGED <<refresh, expired, age, blob, family, req, history>>

\* Blobs of rows revoked over an hour ago are dropped.
CleanupBlob(t) ==
  /\ refresh[t] = "revoked" /\ age[t] = "late" /\ blob[t] # NoPair
  /\ blob' = [blob EXCEPT ![t] = NoPair]
  /\ UNCHANGED <<access, refresh, expired, age, family, req, history>>

\* Expired rows, and rows revoked over 30 days ago, are deleted.
CleanupRow(t) ==
  /\ refresh[t] \in {"live", "revoked"}
  /\ expired[t] \/ (refresh[t] = "revoked" /\ age[t] = "late")
  /\ refresh' = [refresh EXCEPT ![t] = "gone"]
  /\ blob' = [blob EXCEPT ![t] = NoPair]
  /\ expired' = [expired EXCEPT ![t] = FALSE]
  /\ age' = [age EXCEPT ![t] = "fresh"]
  /\ UNCHANGED <<access, family, req, history>>

Abort(r) ==
  /\ Faults
  /\ ~At(r, "idle")
  /\ Done(r)
  /\ UNCHANGED <<rows, history>>

RequestStep(r) ==
  \/ LoginRefresh(r)
  \/ RotateClaim(r)
  \/ \E c \in Pairs : MintAccess(r, c)
  \/ MintFails(r)
  \/ MintRefresh(r)
  \/ Store(r)
  \/ Wait(r)
  \/ Replay(r)
  \/ SweepBlobs(r)
  \/ SweepRows(r)
  \/ LogoutRefresh(r)

Next ==
  \/ \E r \in Requests :
       \/ \E t \in Logins : LoginAccess(r, t)
       \/ \E t \in Pairs : RotateRead(r, t)
       \/ \E keep \in Pairs \cup {NoPair} : RevokeAll(r, keep)
       \/ \E t \in Pairs : LogoutAccess(r, t)
       \/ RequestStep(r)
       \/ Abort(r)
  \/ \E t \in Pairs :
       Age(t) \/ Expire(t) \/ AccessEnds(t) \/ CleanupBlob(t) \/ CleanupRow(t)

\* A handler whose statements do not fail runs to its end.
Fairness == \A r \in Requests : WF_vars(RequestStep(r))

Spec == Init /\ [][Next]_vars /\ Fairness

--------------------------------------------------------------------------------
(* Properties *)

\* Every successful presentation of a refresh token is answered with the same
\* pair: racing requests, retries after a lost response and replays never fork
\* the session ("both racers get the same answer").
SameAnswer == \A t \in Pairs : \A c, d \in answers[t] : c = d

\* The tokens that descend from one login form a chain: at most one refresh token
\* of it is usable at any time, whatever rotations, replays, revocations and
\* failures interleave.
OneLivePerLogin ==
  \A t, u \in Pairs :
    refresh[t] = "live" /\ refresh[u] = "live" /\ family[t] = family[u] => t = u

\* Every request is answered: the wait for a racing rotation is bounded.
EveryRequestEnds == \A r \in Requests : ~At(r, "idle") ~> At(r, "idle")
================================================================================
