---------------------------- MODULE PasskeysProofs ----------------------------
(***************************************************************************)
(* Passkeys implements SingleUse for every set of users, credentials,      *)
(* challenges and calls.  A challenge is in one place: in the store, or    *)
(* with the one call that took it out, or used up (Custody); so a success  *)
(* is always the first one of its challenge.                               *)
(***************************************************************************)
EXTENDS Passkeys, TLAPS

Custody ==
  /\ \A c \in Challenges : store[c] # NoEntry => c \in issued
  /\ \A c \in won : c \in issued /\ store[c] = NoEntry
  /\ \A f \in Calls :
       /\ call[f].pc = "free" <=> call[f].challenge = 0
       /\ call[f].pc # "free" => call[f].cred \in Credentials
  /\ \A f \in Calls :
       call[f].challenge # 0 =>
         /\ call[f].challenge \in issued \ won
         /\ store[call[f].challenge] = NoEntry
  /\ \A f, g \in Calls :
       call[f].challenge # 0 /\ call[f].challenge = call[g].challenge => f = g

IInv == TypeOK /\ Custody

\* A server without ceremonies satisfies the invariant.
LEMMA InitIInv == Init => IInv
  <1>1. Init => TypeOK
    BY PasskeysAssumption DEF Init, TypeOK, Entry, NoEntry, Passkey, NoPasskey, Call, NoCall
  <1>2. Init => Custody
    BY DEF Init, Custody, NoCall
  <1> QED
    BY <1>1, <1>2 DEF IInv

\* Every step of a ceremony keeps the tables well typed.
LEMMA StepType == IInv /\ [Next]_passkeyVars => TypeOK'
  <1> SUFFICES ASSUME TypeOK, Custody, [Next]_passkeyVars PROVE TypeOK'
    BY DEF IInv
  <1> USE PasskeysAssumption
  <1>n. NoCall \in Call /\ NoPasskey \in Passkey /\ NoEntry \in Entry
    BY DEF Entry, NoEntry, Passkey, NoPasskey, Call, NoCall
  <1>1. ASSUME NEW c \in Challenges, Expire(c) PROVE TypeOK'
    BY <1>1, <1>n DEF Expire, consume, TypeOK
  <1>2. ASSUME NEW c \in Challenges, NEW u \in Users, startRegistration(c, u)
        PROVE TypeOK'
    BY <1>2 DEF startRegistration, create, TypeOK, Entry
  <1>3. ASSUME NEW c \in Challenges, startLogin(c) PROVE TypeOK'
    BY <1>3 DEF startLogin, create, TypeOK, Entry
  <1>4. ASSUME NEW c \in Challenges, NEW u \in Users, NEW f \in Calls,
               NEW k \in Credentials, finishRegistration(f, c, u, k)
        PROVE TypeOK'
    <2>1. [NoCall EXCEPT !.pc = "create", !.challenge = c, !.user = u, !.cred = k,
                         !.count = chip[k]] \in Call
      BY <1>n DEF TypeOK, Call, NoCall
    <2> QED
      BY <1>4, <1>n, <2>1 DEF finishRegistration, consume, TypeOK
  <1>5. ASSUME NEW c \in Challenges, NEW f \in Calls, NEW k \in Credentials,
               finishLogin(f, c, k)
        PROVE TypeOK'
    <2>0. PICK n \in Presented(k) \cap (0..MaxCount) :
            /\ chip' = [chip EXCEPT ![k] = n]
            /\ call' = IF store[c].type = "login"
                       THEN [call EXCEPT ![f] = [NoCall EXCEPT !.pc = "credential", !.challenge = c,
                                                               !.cred = k, !.count = n]]
                       ELSE call
      BY <1>5 DEF finishLogin
    <2>1. chip' \in [Credentials -> 0..MaxCount]
      BY <2>0 DEF TypeOK
    <2>2. [NoCall EXCEPT !.pc = "credential", !.challenge = c, !.cred = k,
                         !.count = n] \in Call
      BY <1>n, <2>0 DEF TypeOK, Call, NoCall
    <2> QED
      BY <1>5, <1>n, <2>0, <2>1, <2>2 DEF finishLogin, consume, TypeOK
  <1>6. ASSUME NEW f \in Calls, CreatePasskey(f) PROVE TypeOK'
    <2>1. call' \in [Calls -> Call]
      BY <1>6, <1>n DEF CreatePasskey, End, TypeOK
    <2>2. passkey' \in [Credentials -> Passkey] /\ nextId' \in 1..(MaxId + 1)
      BY <1>6 DEF CreatePasskey, TypeOK, Call, Passkey
    <2> QED
      BY <1>6, <2>1, <2>2 DEF CreatePasskey, TypeOK, Custody, Call
  <1>7. ASSUME NEW f \in Calls, FindCredential(f) PROVE TypeOK'
    <2>1. passkey[call[f].cred] \in Passkey
      BY <1>7 DEF FindCredential, TypeOK, Custody
    <2>2. [call[f] EXCEPT !.pc = "owner", !.row = passkey[call[f].cred]] \in Call
      BY <2>1 DEF TypeOK, Call
    <2> QED
      BY <1>7, <1>n, <2>2 DEF FindCredential, End, TypeOK
  <1>8. ASSUME NEW f \in Calls, FindOwner(f) PROVE TypeOK'
    <2>1. [call[f] EXCEPT !.pc = "write"] \in Call
      BY DEF TypeOK, Call
    <2> QED
      BY <1>8, <1>n, <2>1 DEF FindOwner, End, TypeOK
  <1>9. ASSUME NEW f \in Calls, UpdateCounter(f) PROVE TypeOK'
    <2>1. call' \in [Calls -> Call]
      BY <1>9, <1>n DEF UpdateCounter, End, TypeOK
    <2>2. passkey' \in [Credentials -> Passkey]
      <3>1. call[f].cred \in Credentials /\ call[f].count \in 0..MaxCount
        BY <1>9 DEF UpdateCounter, TypeOK, Custody, Call
      <3>2. [passkey[call[f].cred] EXCEPT !.counter = call[f].count] \in Passkey
        BY <3>1 DEF TypeOK, Passkey
      <3> QED
        BY <1>9, <3>1, <3>2 DEF UpdateCounter, TypeOK
    <2>3. call[f].challenge \in Challenges
      BY <1>9 DEF UpdateCounter, TypeOK, Custody, Call
    <2> QED
      BY <1>9, <2>1, <2>2, <2>3 DEF UpdateCounter, TypeOK
  <1>10. ASSUME NEW u \in Users, NEW k \in Credentials, remove(u, k) PROVE TypeOK'
    BY <1>10, <1>n DEF remove, TypeOK
  <1>11. ASSUME NEW u \in Users, VerifyEmail(u) PROVE TypeOK'
    BY <1>11 DEF VerifyEmail, TypeOK
  <1>12. CASE UNCHANGED passkeyVars
    BY <1>12 DEF passkeyVars, TypeOK
  <1> QED
    BY <1>1, <1>2, <1>3, <1>4, <1>5, <1>6, <1>7, <1>8, <1>9, <1>10, <1>11, <1>12
    DEF Next, Ceremonies, Management, list

\* A step moves a challenge from the store to one call, or ends a call.
LEMMA StepCustody == IInv /\ [Next]_passkeyVars => Custody'
  <1> SUFFICES ASSUME TypeOK, Custody, [Next]_passkeyVars PROVE Custody'
    BY DEF IInv
  <1> USE PasskeysAssumption DEF TypeOK, Custody
  <1>1. ASSUME NEW c \in Challenges, Expire(c) PROVE Custody'
    BY <1>1 DEF Expire, consume
  <1>2. ASSUME NEW c \in Challenges, NEW u \in Users, startRegistration(c, u)
        PROVE Custody'
    BY <1>2 DEF startRegistration, create
  <1>3. ASSUME NEW c \in Challenges, startLogin(c) PROVE Custody'
    BY <1>3 DEF startLogin, create
  <1>4. ASSUME NEW c \in Challenges, NEW u \in Users, NEW f \in Calls,
               NEW k \in Credentials, finishRegistration(f, c, u, k)
        PROVE Custody'
    BY <1>4 DEF finishRegistration, consume, NoCall
  <1>5. ASSUME NEW c \in Challenges, NEW f \in Calls, NEW k \in Credentials,
               finishLogin(f, c, k)
        PROVE Custody'
    BY <1>5 DEF finishLogin, consume, NoCall
  <1>6. ASSUME NEW f \in Calls, CreatePasskey(f) PROVE Custody'
    BY <1>6 DEF CreatePasskey, End, NoCall
  <1>7. ASSUME NEW f \in Calls, FindCredential(f) PROVE Custody'
    BY <1>7 DEF FindCredential, End, NoCall, Call
  <1>8. ASSUME NEW f \in Calls, FindOwner(f) PROVE Custody'
    BY <1>8 DEF FindOwner, End, NoCall, Call
  <1>9. ASSUME NEW f \in Calls, UpdateCounter(f) PROVE Custody'
    BY <1>9 DEF UpdateCounter, End, NoCall
  <1>10. CASE UNCHANGED <<store, issued, call, won>>
    BY <1>10
  <1> QED
    BY <1>1, <1>2, <1>3, <1>4, <1>5, <1>6, <1>7, <1>8, <1>9, <1>10
    DEF Next, Ceremonies, Management, remove, VerifyEmail, passkeyVars

\* The invariant holds in every reachable state.
LEMMA Inductive == Spec => []IInv
  <1>1. Init => IInv
    BY InitIInv
  <1>2. IInv /\ [Next]_passkeyVars => IInv'
    BY StepType, StepCustody DEF IInv
  <1> QED
    BY <1>1, <1>2, PTL DEF Spec

Phases == [c \in Challenges |-> Phase(c)]

\* Moves the abstract specification allows a challenge.
Legal(from, to) ==
  \/ from = "unissued" /\ to = "open"
  \/ from = "open" /\ to \in {"taken", "failed"}
  \/ from = "taken" /\ to \in {"succeeded", "failed"}

\* A step that makes at most one challenge move, and legally, is a step of SingleUse.
LEMMA OneMove ==
  ASSUME NEW c \in Challenges,
         \A d \in Challenges : d # c => Phase(d)' = Phase(d),
         Legal(Phase(c), Phase(c)') \/ Phase(c)' = Phase(c)
  PROVE  [S!Next]_Phases
  <1>1. CASE Phase(c)' = Phase(c)
    BY <1>1 DEF Phases
  <1>2. CASE Legal(Phase(c), Phase(c)')
    <2>1. Phases' = [Phases EXCEPT ![c] = Phase(c)'] /\ Phases[c] = Phase(c)
      BY DEF Phases
    <2>2. S!Issue(c) \/ S!Take(c) \/ S!Succeed(c) \/ S!Fail(c)
      BY <1>2, <2>1 DEF Legal, S!Issue, S!Take, S!Succeed, S!Fail, S!Move, Phases
    <2> QED
      BY <2>2 DEF S!Next
  <1> QED
    BY <1>1, <1>2

\* A challenge stays in its phase when its entry, its marks and its holder do.
LEMMA Unmoved ==
  ASSUME NEW d \in Challenges,
         store'[d] = store[d], d \in issued' <=> d \in issued, d \in won' <=> d \in won,
         \A g \in Calls : call'[g].challenge = d <=> call[g].challenge = d
  PROVE  Phase(d)' = Phase(d)
  <1>1. Holder(d)' = Holder(d)
    BY DEF Holder
  <1> QED
    BY <1>1 DEF Phase

\* Every step of the service is a step of SingleUse or changes no phase.
LEMMA StepPhases ==
  ASSUME IInv, IInv', [Next]_passkeyVars
  PROVE  [S!Next]_Phases
  <1> USE PasskeysAssumption DEF IInv, TypeOK, Custody
  <1>1. ASSUME NEW c \in Challenges, Expire(c) PROVE [S!Next]_Phases
    <2>1. \A d \in Challenges : d # c => Phase(d)' = Phase(d)
      BY <1>1, Unmoved DEF Expire, consume
    <2>2. Phase(c) = "open" /\ Phase(c)' = "failed"
      BY <1>1 DEF Expire, consume, Phase, Holder
    <2> QED
      BY <2>1, <2>2, OneMove DEF Legal
  <1>2. ASSUME NEW c \in Challenges, NEW entry \in Entry \ {NoEntry}, create(c, entry),
               UNCHANGED <<call, won>>
        PROVE [S!Next]_Phases
    <2>1. \A d \in Challenges : d # c => Phase(d)' = Phase(d)
      BY <1>2, Unmoved DEF create
    <2>2. Phase(c) = "unissued" /\ Phase(c)' = "open"
      BY <1>2 DEF create, Phase, Holder
    <2> QED
      BY <2>1, <2>2, OneMove DEF Legal
  <1>3. ASSUME NEW c \in Challenges, NEW f \in Calls, call[f].pc = "free",
               store[c] # NoEntry, consume(c), UNCHANGED <<issued, won>>,
               \A g \in Calls : g # f => call'[g] = call[g],
               call'[f].challenge \in {0, c}
        PROVE [S!Next]_Phases
    <2>1. \A d \in Challenges : d # c => Phase(d)' = Phase(d)
      BY <1>3, Unmoved DEF consume
    <2>2. Phase(c) = "open"
      BY <1>3 DEF Phase, Holder
    <2>3. Phase(c)' \in {"taken", "failed"}
      BY <1>3 DEF consume, Phase
    <2> QED
      BY <2>1, <2>2, <2>3, OneMove DEF Legal
  <1>4. ASSUME NEW f \in Calls, call[f].pc # "free", call' = End(f),
               UNCHANGED <<store, issued>>,
               won' = won \/ won' = won \cup {call[f].challenge}
        PROVE [S!Next]_Phases
    <2>1. PICK c \in Challenges : c = call[f].challenge
      BY <1>4 DEF Call
    <2>2. \A d \in Challenges : d # c => Phase(d)' = Phase(d)
      BY <1>4, <2>1, Unmoved DEF End, NoCall
    <2>3. Phase(c) = "taken"
      BY <1>4, <2>1 DEF Phase, Holder
    <2>4. Holder(c)' = {}
      BY <1>4, <2>1 DEF Holder, End, NoCall
    <2>5. Phase(c)' \in {"succeeded", "failed"}
      BY <1>4, <2>1, <2>4 DEF Phase
    <2> QED
      BY <2>1, <2>2, <2>3, <2>5, OneMove DEF Legal
  <1>5. ASSUME UNCHANGED <<store, issued, won>>,
               \A g \in Calls : call'[g].challenge = call[g].challenge
        PROVE [S!Next]_Phases
    <2>1. \A d \in Challenges : Phase(d)' = Phase(d)
      BY <1>5, Unmoved
    <2> QED
      BY <2>1 DEF Phases
  <1>6. ASSUME NEW c \in Challenges, NEW u \in Users, startRegistration(c, u)
        PROVE [S!Next]_Phases
    <2>1. [type |-> "register", user |-> u] \in Entry \ {NoEntry}
      BY DEF Entry, NoEntry
    <2> QED
      BY <1>6, <1>2, <2>1 DEF startRegistration
  <1>7. ASSUME NEW c \in Challenges, startLogin(c) PROVE [S!Next]_Phases
    <2>1. [type |-> "login", user |-> Nobody] \in Entry \ {NoEntry}
      BY DEF Entry, NoEntry
    <2> QED
      BY <1>7, <1>2, <2>1 DEF startLogin
  <1>8. ASSUME NEW c \in Challenges, NEW u \in Users, NEW f \in Calls,
               NEW k \in Credentials, finishRegistration(f, c, u, k)
        PROVE [S!Next]_Phases
    BY <1>8, <1>3 DEF finishRegistration, NoCall
  <1>9. ASSUME NEW c \in Challenges, NEW f \in Calls, NEW k \in Credentials,
               finishLogin(f, c, k)
        PROVE [S!Next]_Phases
    BY <1>9, <1>3 DEF finishLogin, NoCall
  <1>10. ASSUME NEW f \in Calls, CreatePasskey(f) \/ UpdateCounter(f)
         PROVE [S!Next]_Phases
    BY <1>10, <1>4 DEF CreatePasskey, UpdateCounter
  <1>11. ASSUME NEW f \in Calls, FindCredential(f) \/ FindOwner(f) PROVE [S!Next]_Phases
    <2>1. CASE call' = End(f)
      BY <1>11, <1>4, <2>1 DEF FindCredential, FindOwner
    <2>2. CASE call' # End(f)
      BY <1>11, <1>5, <2>2 DEF FindCredential, FindOwner, Call
    <2> QED
      BY <2>1, <2>2
  <1>12. CASE UNCHANGED <<store, issued, call, won>>
    BY <1>12, <1>5
  <1> QED
    BY <1>1, <1>6, <1>7, <1>8, <1>9, <1>10, <1>11, <1>12
    DEF Next, Ceremonies, Management, remove, VerifyEmail, passkeyVars

\* PasskeyService implements SingleUse: whichever calls overlap with each other, with
\* expiries and with removals, a challenge taken out of the store by GETDEL ends in
\* at most one success.
THEOREM SingleUseImplemented == Spec => ChallengesSingleUse
  <1>1. Init => S!Init
    <2>1. ASSUME Init, NEW c \in Challenges PROVE Phase(c) = "unissued"
      <3>1. c \notin issued
        BY <2>1 DEF Init
      <3> QED
        BY <3>1 DEF Phase
    <2> QED
      BY <2>1 DEF S!Init
  <1>2. IInv /\ IInv' /\ [Next]_passkeyVars => [S!Next]_Phases
    BY StepPhases
  <1> QED
    BY <1>1, <1>2, Inductive, PTL DEF Spec, ChallengesSingleUse, S!Spec, Phases
================================================================================
