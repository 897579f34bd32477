------------------------------- MODULE Passkeys -------------------------------
(***************************************************************************)
(* PasskeyService and PasskeyChallengeStore: WebAuthn ceremonies with a    *)
(* challenge in Redis (GETDEL, five minutes) and the rows of passkey.  A   *)
(* ceremony that finishes does so in several statements.                   *)
(***************************************************************************)
EXTENDS Naturals, FiniteSets

CONSTANTS
  Users,
  Credentials,  \* credentials of the users' authenticators
  Challenges,   \* challenge ids (bound)
  Calls,        \* finishers in flight (bound)
  MaxCount,     \* bound on an authenticator's counter
  MaxId,        \* bound on the ids of passkey rows
  Nobody        \* no user

\* 0 is the challenge of a call that holds none.
ASSUME PasskeysAssumption == 0 \notin Challenges /\ MaxCount \in Nat /\ MaxId \in Nat

VARIABLES
  store,        \* challenges in Redis: type and user, or no entry
  issued,       \* history: ids handed out
  passkey,      \* rows of passkey by credential: id 0 when there is none
  nextId,
  chip,         \* counter inside each authenticator
  verified,     \* user.emailVerified
  call,         \* finishers in flight
  won           \* history: challenges that ended in a success

passkeyVars == <<store, issued, passkey, nextId, chip, verified, call, won>>

NoEntry == [type |-> "none", user |-> Nobody]
Entry == {NoEntry} \cup [type : {"register"}, user : Users] \cup [type : {"login"}, user : {Nobody}]
NoPasskey == [id |-> 0, owner |-> Nobody, counter |-> 0]
Passkey == [id : 0..MaxId, owner : Users \cup {Nobody}, counter : 0..MaxCount]

NoCall == [pc |-> "free", challenge |-> 0, user |-> Nobody, cred |-> "none", count |-> 0,
           row |-> NoPasskey]
Call == [pc : {"free", "create", "credential", "owner", "write"},
         challenge : Challenges \cup {0}, user : Users \cup {Nobody},
         cred : Credentials \cup {"none"}, count : 0..MaxCount, row : Passkey]

TypeOK ==
  /\ store \in [Challenges -> Entry]
  /\ issued \subseteq Challenges
  /\ passkey \in [Credentials -> Passkey]
  /\ nextId \in 1..(MaxId + 1)
  /\ chip \in [Credentials -> 0..MaxCount]
  /\ verified \subseteq Users
  /\ call \in [Calls -> Call]
  /\ won \subseteq Challenges

Init ==
  /\ store = [c \in Challenges |-> NoEntry]
  /\ issued = {} /\ won = {}
  /\ passkey = [k \in Credentials |-> NoPasskey]
  /\ nextId = 1
  /\ chip = [k \in Credentials |-> 0]
  /\ verified \in SUBSET Users
  /\ call = [f \in Calls |-> NoCall]

Row(k) == passkey[k].id # 0
End(f) == [call EXCEPT ![f] = NoCall]

--------------------------------------------------------------------------------
(* PasskeyChallengeStore *)

create(c, entry) ==
  /\ c \notin issued
  /\ issued' = issued \cup {c}
  /\ store' = [store EXCEPT ![c] = entry]

\* Mutant: GET without DEL.
Mut_consume_keeps(c) == store' = store

\* Read and deleted in one command; an entry of the wrong kind is gone too.
consume(c) == store' = [store EXCEPT ![c] = NoEntry]

Expire(c) ==
  /\ store[c] # NoEntry
  /\ consume(c)
  /\ UNCHANGED <<issued, passkey, nextId, chip, verified, call, won>>

--------------------------------------------------------------------------------
(* Registration *)

startRegistration(c, u) ==
  /\ create(c, [type |-> "register", user |-> u])
  /\ UNCHANGED <<passkey, nextId, chip, verified, call, won>>

\* challenge, signature, then the look-up of a duplicate.
finishRegistration(f, c, u, k) ==
  /\ call[f].pc = "free"
  /\ store[c] # NoEntry
  /\ consume(c)
  /\ call' = IF store[c] = [type |-> "register", user |-> u] /\ ~Row(k)
             THEN [call EXCEPT ![f] = [NoCall EXCEPT !.pc = "create", !.challenge = c,
                                                     !.user = u, !.cred = k, !.count = chip[k]]]
             ELSE call
  /\ UNCHANGED <<issued, passkey, nextId, chip, verified, won>>

\* credentialId is unique: a second insert is a conflict.
CreatePasskey(f) ==
  LET me == call[f] IN
  /\ me.pc = "create"
  /\ IF Row(me.cred)
     THEN UNCHANGED <<passkey, nextId, won>>
     ELSE /\ nextId <= MaxId
          /\ passkey' = [passkey EXCEPT ![me.cred] =
                           [id |-> nextId, owner |-> me.user, counter |-> me.count]]
          /\ nextId' = nextId + 1
          /\ won' = won \cup {me.challenge}
  /\ call' = End(f)
  /\ UNCHANGED <<store, issued, chip, verified>>

--------------------------------------------------------------------------------
(* Login *)

startLogin(c) ==
  /\ create(c, [type |-> "login", user |-> Nobody])
  /\ UNCHANGED <<passkey, nextId, chip, verified, call, won>>

\* A security key counts up; a synced passkey presents 0 each time.
Presented(k) == IF chip[k] = 0 THEN {0, 1} ELSE {chip[k] + 1}

\* The authenticator signs the challenge with its counter; the server takes the
\* challenge before it looks at anything else.
finishLogin(f, c, k) ==
  /\ call[f].pc = "free"
  /\ store[c] # NoEntry
  /\ consume(c)
  /\ \E n \in Presented(k) \cap (0..MaxCount) :
       /\ chip' = [chip EXCEPT ![k] = n]
       /\ call' = IF store[c].type = "login"
                  THEN [call EXCEPT ![f] = [NoCall EXCEPT !.pc = "credential", !.challenge = c,
                                                          !.cred = k, !.count = n]]
                  ELSE call
  /\ UNCHANGED <<issued, passkey, nextId, verified, won>>

\* verifyAuthenticationResponse refuses a counter that does not grow, unless both
\* the stored and the presented one are 0.
Authenticates(row, count) ==
  row.id # 0 /\ (count > row.counter \/ (count = 0 /\ row.counter = 0))

FindCredential(f) ==
  LET row == passkey[call[f].cred] IN
  /\ call[f].pc = "credential"
  /\ call' = IF Authenticates(row, call[f].count)
             THEN [call EXCEPT ![f].pc = "owner", ![f].row = row]
             ELSE End(f)
  /\ UNCHANGED <<store, issued, passkey, nextId, chip, verified, won>>

FindOwner(f) ==
  /\ call[f].pc = "owner"
  /\ call' = IF call[f].row.owner \in verified THEN [call EXCEPT ![f].pc = "write"] ELSE End(f)
  /\ UNCHANGED <<store, issued, passkey, nextId, chip, verified, won>>

\* By the row's id: a row deleted meanwhile is an error, and no login.  The
\* controller then issues tokens for the owner it read.
UpdateCounter(f) ==
  LET me == call[f] IN
  /\ me.pc = "write"
  /\ IF passkey[me.cred].id = me.row.id
     THEN /\ passkey' = [passkey EXCEPT ![me.cred].counter = me.count]
          /\ won' = won \cup {me.challenge}
     ELSE UNCHANGED <<passkey, won>>
  /\ call' = End(f)
  /\ UNCHANGED <<store, issued, nextId, chip, verified>>

--------------------------------------------------------------------------------
(* Management *)

findOwned(u, k) == Row(k) /\ passkey[k].owner = u

list(u) == {k \in Credentials : findOwned(u, k)}

remove(u, k) ==
  /\ findOwned(u, k)
  /\ passkey' = [passkey EXCEPT ![k] = NoPasskey]
  /\ UNCHANGED <<store, issued, nextId, chip, verified, call, won>>

\* The user follows the link of the verification mail.
VerifyEmail(u) ==
  /\ verified' = verified \cup {u}
  /\ UNCHANGED <<store, issued, passkey, nextId, chip, call, won>>

--------------------------------------------------------------------------------
(* PasskeyController.  A rename changes what list shows of a row. *)

Ceremonies ==
  \E c \in Challenges :
    \/ startLogin(c)
    \/ \E u \in Users : startRegistration(c, u)
    \/ \E f \in Calls, k \in Credentials :
         finishLogin(f, c, k) \/ \E u \in Users : finishRegistration(f, c, u, k)

Management == \E u \in Users : \E k \in list(u) : remove(u, k)

Next ==
  \/ Ceremonies \/ Management
  \/ \E f \in Calls : CreatePasskey(f) \/ FindCredential(f) \/ FindOwner(f) \/ UpdateCounter(f)
  \/ \E c \in Challenges : Expire(c)
  \/ \E u \in Users : VerifyEmail(u)

Spec == Init /\ [][Next]_passkeyVars

--------------------------------------------------------------------------------
(* Properties *)

Holder(c) == {f \in Calls : call[f].challenge = c}

\* The life of a challenge as its client sees it.
Phase(c) ==
  IF c \notin issued THEN "unissued"
  ELSE IF Holder(c) # {} THEN "taken"
  ELSE IF c \in won THEN "succeeded"
  ELSE IF store[c] # NoEntry THEN "open"
  ELSE "failed"

S == INSTANCE SingleUse WITH state <- [c \in Challenges |-> Phase(c)]

\* The service implements SingleUse: of all the calls that present one
\* challenge, however they overlap with each other and with its expiry
\* (passkey-challenge.store.ts:75), at most one succeeds.
ChallengesSingleUse == S!Spec
================================================================================
