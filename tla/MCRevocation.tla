------------------------------- MODULE MCRevocation -------------------------------
(***************************************************************************)
(* TokenRotation with history: the logins that a completed revoke-all was  *)
(* to end, and those for which a request was minting while it ran.         *)
(***************************************************************************)
EXTENDS MCTokenRotation

VARIABLES
  swept,        \* logins that had a refresh row when a revoke-all ran
  interrupted   \* logins whose refresh row was being minted then

revocationVars == <<vars, swept, interrupted>>

Existing == {family[t] : t \in {u \in Pairs : refresh[u] # "none"}}

\* Between the claim of a refresh row, or a login's access row, and the next
\* refresh row: what is minted is on no row yet, or on an access row only.
Minting == {"login_refresh", "mint_access", "mint_refresh"}
FamilyOf(r) ==
  IF req[r].pc = "mint_access" THEN family[req[r].parent] ELSE family[req[r].pair]
InMint == {FamilyOf(r) : r \in {s \in Requests : req[s].pc \in Minting}}

Sweep == \E r \in Requests : req[r].pair = NoPair /\ SweepRows(r)

TracedInit == Init /\ swept = {} /\ interrupted = {}

TracedNext ==
  /\ Next
  /\ swept' = IF Sweep THEN swept \cup Existing ELSE swept
  /\ interrupted' = IF Sweep THEN interrupted \cup InMint ELSE interrupted

TracedSpec == TracedInit /\ [][TracedNext]_revocationVars /\ Fairness

\* After revokeAllUserTokens has run, no login that existed before it has a
\* usable refresh token: logout-all "revokes every access and refresh token",
\* reuse detection revokes "ALL sessions".
NoSurvivor == \A t \in Pairs : refresh[t] = "live" => family[t] \notin swept

\* What the code gives of it: a swept login with a usable refresh token had a mint
\* under way while revokeAllUserTokens updated the rows (token.service.ts:780).  A
\* rotation that comes later, a replay, a retry or a failed statement never brings
\* one back.
SurvivorsWereMinting ==
  \A t \in Pairs : refresh[t] = "live" /\ family[t] \in swept => family[t] \in interrupted
================================================================================
