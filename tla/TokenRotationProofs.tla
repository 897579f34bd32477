-------------------------- MODULE TokenRotationProofs --------------------------
(***************************************************************************)
(* Proofs about TokenRotation for every set of pairs and request slots and *)
(* every number of polls, failures allowed.                                *)
(*                                                                         *)
(* A login's tokens form a chain because its right to mint is a single     *)
(* thing that moves: it is a live refresh row, or it is held by one        *)
(* request between the claim of that row and the INSERT of the next        *)
(* (OneSource).  Rows relates the columns of a row, Held what a request    *)
(* remembers to the rows it read or wrote.                                 *)
(*                                                                         *)
(* The last section is about what a revoke-all leaves behind (MCRevocation *)
(* records the logins it swept and those a mint was under way for): with   *)
(* any number of requests in flight, only such a mint can bring a swept    *)
(* login back.                                                             *)
(***************************************************************************)
EXTENDS MCRevocation, TLAPS

Rows ==
  \A t \in Pairs :
    /\ refresh[t] # "none" => access[t] # "none"
    /\ access[t] = "none" => family[t] = NoPair
    /\ access[t] # "none" => family[t] \in Pairs
    /\ family[t] \in Pairs => access[family[t]] # "none"
    /\ child[t] # NoPair => refresh[t] \notin {"none", "live"}
    /\ blob[t] # NoPair => blob[t] = child[t]
    /\ \A c \in answers[t] : c = child[t]

Held ==
  \A r \in Requests :
    /\ req[r].pc \in {"claim", "mint_access", "mint_refresh", "store", "wait", "replay"}
         => req[r].parent \in Pairs /\ refresh[req[r].parent] # "none"
    /\ req[r].pc = "mint_access"
         => refresh[req[r].parent] # "live" /\ child[req[r].parent] = NoPair
    /\ req[r].pc \in {"mint_refresh", "store", "replay"}
         => req[r].pair \in Pairs /\ child[req[r].parent] = req[r].pair
    /\ req[r].pc \in {"login_refresh", "mint_refresh"}
         => req[r].pair \in Pairs /\ access[req[r].pair] # "none"
            /\ refresh[req[r].pair] = "none"

OneSource ==
  /\ OneLivePerLogin
  /\ \A t \in Pairs, r \in Requests :
       refresh[t] = "live" /\ req[r].pc \in Minting => FamilyOf(r) # family[t]
  /\ \A r, s \in Requests :
       req[r].pc \in Minting /\ req[s].pc \in Minting /\ FamilyOf(r) = FamilyOf(s)
         => r = s

IInv == TypeOK /\ Rows /\ Held /\ OneSource

\* A user without sessions satisfies the invariant.
LEMMA InitIInv == Init => IInv
  <1> USE RotationAssumption
  <1>1. Init => TypeOK
    BY DEF Init, TypeOK, IdleRequest, In, Request, Steps, RowStates
  <1>2. Init => Rows
    BY DEF Init, Rows
  <1>3. Init => Held
    BY DEF Init, Held, IdleRequest, In
  <1>4. Init => OneSource
    BY DEF Init, OneSource, OneLivePerLogin, Minting, IdleRequest, In
  <1> QED
    BY <1>1, <1>2, <1>3, <1>4 DEF IInv

\* A request that does not come to hold the right to mint, while no row becomes
\* live, leaves that right where it is.
LEMMA Quiet ==
  ASSUME IInv, NEW r \in Requests,
         \A s \in Requests : s # r => req'[s] = req[s],
         req'[r].pc \notin Minting,
         family' = family,
         \A t \in Pairs : refresh'[t] = "live" => refresh[t] = "live"
  PROVE  OneSource'
  BY DEF IInv, TypeOK, OneSource, OneLivePerLogin, FamilyOf, Minting

\* Every step keeps the state well typed.
LEMMA StepType == IInv /\ [Next]_vars => TypeOK'
  <1> SUFFICES ASSUME IInv, [Next]_vars PROVE TypeOK'
    OBVIOUS
  <1> USE RotationAssumption DEF IInv, TypeOK, Held
  <1>1. ASSUME NEW r \in Requests, NEW t \in Pairs,
               LoginAccess(r, t) PROVE TypeOK'
    BY <1>1 DEF LoginAccess, Start, Become, At, IdleRequest, In, Request, Steps,
       RowStates, rows, history
  <1>2. ASSUME NEW r \in Requests,
               LoginRefresh(r) PROVE TypeOK'
    BY <1>2 DEF LoginRefresh, Done, At, IdleRequest, In, Request, Steps, RowStates,
       rows, history
  <1>3. ASSUME NEW r \in Requests, NEW t \in Pairs,
               RotateRead(r, t) PROVE TypeOK'
    <2>1. /\ In("claim", t, NoPair, 0) \in Request
          /\ In("sweep_blobs", NoPair, NoPair, 0) \in Request
          /\ In("replay", t, blob[t], 0) \in Request
          /\ In("wait", t, NoPair, MaxPolls) \in Request
      BY DEF In, Request, Steps
    <2>2. req' \in [Requests -> Request]
      BY <1>3, <2>1 DEF RotateRead, Start, Become
    <2> QED
      BY <1>3, <2>2 DEF RotateRead, rows, history
  <1>4. ASSUME NEW r \in Requests,
               RotateClaim(r) PROVE TypeOK'
    <2>1. In("wait", req[r].parent, NoPair, MaxPolls) \in Request
      BY <1>4 DEF RotateClaim, At, In, Request, Steps
    <2>2. PICK c : c = req[r]
      OBVIOUS
    <2>3. [c EXCEPT !.pc = "mint_access"] \in Request
      BY <2>2 DEF Request, Steps
    <2>4. req' \in [Requests -> Request]
      BY <1>4, <2>1, <2>2, <2>3 DEF RotateClaim, Goto, Become
    <2>5. refresh' \in [Pairs -> RowStates] /\ age' \in [Pairs -> {"fresh", "grace", "late"}]
      BY <1>4 DEF RotateClaim, Revoke, At, RowStates
    <2> QED
      BY <1>4, <2>4, <2>5 DEF RotateClaim, history
  <1>5. ASSUME NEW r \in Requests, NEW c \in Pairs,
               MintAccess(r, c) PROVE TypeOK'
    BY <1>5 DEF MintAccess, Become, At, IdleRequest, In, Request, Steps, RowStates,
       rows, history
  <1>6. ASSUME NEW r \in Requests,
               MintFails(r) PROVE TypeOK'
    BY <1>6 DEF MintFails, Done, At, IdleRequest, In, Request, Steps, RowStates,
       rows, history
  <1>7. ASSUME NEW r \in Requests,
               MintRefresh(r) PROVE TypeOK'
    BY <1>7 DEF MintRefresh, Goto, At, IdleRequest, In, Request, Steps, RowStates,
       rows, history
  <1>8. ASSUME NEW r \in Requests,
               Store(r) PROVE TypeOK'
    BY <1>8 DEF Store, Answer, Done, At, IdleRequest, In, Request, Steps, RowStates,
       rows, history
  <1>9. ASSUME NEW r \in Requests,
               Wait(r) PROVE TypeOK'
    BY <1>9 DEF Wait, Done, Become, At, IdleRequest, In, Request, Steps, RowStates,
       rows, history
  <1>10. ASSUME NEW r \in Requests,
               Replay(r) PROVE TypeOK'
    BY <1>10 DEF Replay, Answer, Done, At, IdleRequest, In, Request, Steps,
       RowStates, rows, history
  <1>11. ASSUME NEW r \in Requests, NEW keep \in Pairs \cup {NoPair},
               RevokeAll(r, keep) PROVE TypeOK'
    BY <1>11 DEF RevokeAll, Start, Become, At, IdleRequest, In, Request, Steps,
       RowStates, rows, history
  <1>12. ASSUME NEW r \in Requests,
               SweepBlobs(r) PROVE TypeOK'
    BY <1>12 DEF SweepBlobs, Goto, At, IdleRequest, In, Request, Steps, RowStates,
       rows, history
  <1>13. ASSUME NEW r \in Requests,
               SweepRows(r) PROVE TypeOK'
    BY <1>13 DEF SweepRows, Revoke, Done, At, IdleRequest, In, Request, Steps,
       RowStates, rows, history
  <1>14. ASSUME NEW r \in Requests, NEW t \in Pairs,
               LogoutAccess(r, t) PROVE TypeOK'
    <2>1. In("logout_refresh", NoPair, t, 0) \in Request
      BY DEF In, Request, Steps
    <2>2. req' \in [Requests -> Request]
      BY <1>14, <2>1 DEF LogoutAccess, Start, Become
    <2> QED
      BY <1>14, <2>2 DEF LogoutAccess, history
  <1>15. ASSUME NEW r \in Requests,
               LogoutRefresh(r) PROVE TypeOK'
    BY <1>15 DEF LogoutRefresh, Revoke, Done, At, IdleRequest, In, Request, Steps,
       RowStates, rows, history
  <1>16. ASSUME NEW r \in Requests,
               Abort(r) PROVE TypeOK'
    BY <1>16 DEF Abort, Done, At, IdleRequest, In, Request, Steps, RowStates, rows,
       history
  <1>17. ASSUME NEW t \in Pairs,
               Age(t) PROVE TypeOK'
    BY <1>17 DEF Age, IdleRequest, In, Request, Steps, RowStates, rows, history
  <1>18. ASSUME NEW t \in Pairs,
               Expire(t) PROVE TypeOK'
    BY <1>18 DEF Expire, IdleRequest, In, Request, Steps, RowStates, rows, history
  <1>19. ASSUME NEW t \in Pairs,
               AccessEnds(t) PROVE TypeOK'
    BY <1>19 DEF AccessEnds, IdleRequest, In, Request, Steps, RowStates, rows,
       history
  <1>20. ASSUME NEW t \in Pairs,
               CleanupBlob(t) PROVE TypeOK'
    BY <1>20 DEF CleanupBlob, IdleRequest, In, Request, Steps, RowStates, rows,
       history
  <1>21. ASSUME NEW t \in Pairs,
               CleanupRow(t) PROVE TypeOK'
    BY <1>21 DEF CleanupRow, IdleRequest, In, Request, Steps, RowStates, rows,
       history
  <1>22. CASE UNCHANGED vars
    BY <1>22 DEF vars, rows, history
  <1> QED
    BY <1>1, <1>2, <1>3, <1>4, <1>5, <1>6, <1>7, <1>8, <1>9, <1>10, <1>11,
       <1>12, <1>13, <1>14, <1>15, <1>16, <1>17, <1>18, <1>19, <1>20, <1>21, <1>22, RotationAssumption DEF Next, RequestStep

\* Every step keeps the columns of a row consistent with each other.
LEMMA StepRows == IInv /\ [Next]_vars => Rows'
  <1> SUFFICES ASSUME IInv, [Next]_vars PROVE Rows'
    OBVIOUS
  <1> USE RotationAssumption DEF IInv, TypeOK, Rows, Held
  <1>1. ASSUME NEW r \in Requests, NEW t \in Pairs,
               LoginAccess(r, t) PROVE Rows'
    BY <1>1 DEF LoginAccess, Start, Become, At, rows, history, OneSource, Minting,
       FamilyOf, Request
  <1>2. ASSUME NEW r \in Requests,
               LoginRefresh(r) PROVE Rows'
    BY <1>2 DEF LoginRefresh, Done, At, rows, history, OneSource, Minting, FamilyOf,
       Request
  <1>3. ASSUME NEW r \in Requests, NEW t \in Pairs,
               RotateRead(r, t) PROVE Rows'
    BY <1>3 DEF RotateRead, Start, Become, At, rows, history, OneSource, Minting,
       FamilyOf, Request
  <1>4. ASSUME NEW r \in Requests,
               RotateClaim(r) PROVE Rows'
    BY <1>4 DEF RotateClaim, Revoke, Goto, Become, At, rows, history, OneSource,
       Minting, FamilyOf, Request
  <1>5. ASSUME NEW r \in Requests, NEW c \in Pairs,
               MintAccess(r, c) PROVE Rows'
    BY <1>5 DEF MintAccess, Become, At, rows, history, OneSource, Minting, FamilyOf,
       Request
  <1>6. ASSUME NEW r \in Requests,
               MintFails(r) PROVE Rows'
    BY <1>6 DEF MintFails, Done, At, rows, history, OneSource, Minting, FamilyOf,
       Request
  <1>7. ASSUME NEW r \in Requests,
               MintRefresh(r) PROVE Rows'
    BY <1>7 DEF MintRefresh, Goto, At, rows, history, OneSource, Minting, FamilyOf,
       Request
  <1>8. ASSUME NEW r \in Requests,
               Store(r) PROVE Rows'
    BY <1>8 DEF Store, Answer, Done, At, rows, history, OneSource, Minting,
       FamilyOf, Request
  <1>9. ASSUME NEW r \in Requests,
               Wait(r) PROVE Rows'
    BY <1>9 DEF Wait, Done, Become, At, rows, history, OneSource, Minting, FamilyOf,
       Request
  <1>10. ASSUME NEW r \in Requests,
               Replay(r) PROVE Rows'
    BY <1>10 DEF Replay, Answer, Done, At, rows, history, OneSource, Minting,
       FamilyOf, Request
  <1>11. ASSUME NEW r \in Requests, NEW keep \in Pairs \cup {NoPair},
               RevokeAll(r, keep) PROVE Rows'
    BY <1>11 DEF RevokeAll, Start, Become, At, rows, history, OneSource, Minting,
       FamilyOf, Request
  <1>12. ASSUME NEW r \in Requests,
               SweepBlobs(r) PROVE Rows'
    BY <1>12 DEF SweepBlobs, Goto, At, rows, history, OneSource, Minting, FamilyOf,
       Request
  <1>13. ASSUME NEW r \in Requests,
               SweepRows(r) PROVE Rows'
    BY <1>13 DEF SweepRows, Revoke, Done, At, rows, history, OneSource, Minting,
       FamilyOf, Request
  <1>14. ASSUME NEW r \in Requests, NEW t \in Pairs,
               LogoutAccess(r, t) PROVE Rows'
    BY <1>14 DEF LogoutAccess, Start, Become, At, rows, history, OneSource, Minting,
       FamilyOf, Request
  <1>15. ASSUME NEW r \in Requests,
               LogoutRefresh(r) PROVE Rows'
    BY <1>15 DEF LogoutRefresh, Revoke, Done, At, rows, history, OneSource, Minting,
       FamilyOf, Request
  <1>16. ASSUME NEW r \in Requests,
               Abort(r) PROVE Rows'
    BY <1>16 DEF Abort, Done, At, rows, history, OneSource, Minting, FamilyOf,
       Request
  <1>17. ASSUME NEW t \in Pairs,
               Age(t) PROVE Rows'
    BY <1>17 DEF Age, rows, history, OneSource, Minting, FamilyOf, Request
  <1>18. ASSUME NEW t \in Pairs,
               Expire(t) PROVE Rows'
    BY <1>18 DEF Expire, rows, history, OneSource, Minting, FamilyOf, Request
  <1>19. ASSUME NEW t \in Pairs,
               AccessEnds(t) PROVE Rows'
    BY <1>19 DEF AccessEnds, rows, history, OneSource, Minting, FamilyOf, Request
  <1>20. ASSUME NEW t \in Pairs,
               CleanupBlob(t) PROVE Rows'
    BY <1>20 DEF CleanupBlob, rows, history, OneSource, Minting, FamilyOf, Request
  <1>21. ASSUME NEW t \in Pairs,
               CleanupRow(t) PROVE Rows'
    BY <1>21 DEF CleanupRow, rows, history, OneSource, Minting, FamilyOf, Request
  <1>22. CASE UNCHANGED vars
    BY <1>22 DEF vars, rows, history
  <1> QED
    BY <1>1, <1>2, <1>3, <1>4, <1>5, <1>6, <1>7, <1>8, <1>9, <1>10, <1>11,
       <1>12, <1>13, <1>14, <1>15, <1>16, <1>17, <1>18, <1>19, <1>20, <1>21, <1>22, RotationAssumption DEF Next, RequestStep

\* Every step keeps what requests remember true of the rows.
LEMMA StepHeld == IInv /\ [Next]_vars => Held'
  <1> SUFFICES ASSUME IInv, [Next]_vars PROVE Held'
    OBVIOUS
  <1> USE RotationAssumption DEF IInv, TypeOK, Rows, Held
  <1>1. ASSUME NEW r \in Requests, NEW t \in Pairs,
               LoginAccess(r, t) PROVE Held'
    BY <1>1 DEF LoginAccess, Start, Become, At, rows, history, OneSource, Minting,
       FamilyOf, IdleRequest, In, Request
  <1>2. ASSUME NEW r \in Requests,
               LoginRefresh(r) PROVE Held'
    BY <1>2 DEF LoginRefresh, Done, At, rows, history, OneSource, Minting, FamilyOf,
       IdleRequest, In, Request
  <1>3. ASSUME NEW r \in Requests, NEW t \in Pairs,
               RotateRead(r, t) PROVE Held'
    <2>1. /\ UNCHANGED <<rows, history>> /\ refresh[t] # "none"
          /\ \A s \in Requests : s # r => req'[s] = req[s]
      BY <1>3 DEF RotateRead, Start, Become
    <2>2. \/ req'[r] = In("claim", t, NoPair, 0)
          \/ req'[r] = In("sweep_blobs", NoPair, NoPair, 0)
          \/ req'[r] = In("replay", t, blob[t], 0) /\ blob[t] # NoPair
          \/ req'[r] = In("wait", t, NoPair, MaxPolls)
      BY <1>3 DEF RotateRead, Start, Become
    <2>3. blob[t] # NoPair => blob[t] \in Pairs /\ child[t] = blob[t]
      OBVIOUS
    <2> QED
      BY <2>1, <2>2, <2>3 DEF rows, history, In
  <1>4. ASSUME NEW r \in Requests,
               RotateClaim(r) PROVE Held'
    BY <1>4 DEF RotateClaim, Revoke, Goto, Become, At, rows, history, OneSource,
       Minting, FamilyOf, IdleRequest, In, Request
  <1>5. ASSUME NEW r \in Requests, NEW c \in Pairs,
               MintAccess(r, c) PROVE Held'
    BY <1>5 DEF MintAccess, Become, At, rows, history, OneSource, Minting, FamilyOf,
       IdleRequest, In, Request
  <1>6. ASSUME NEW r \in Requests,
               MintFails(r) PROVE Held'
    BY <1>6 DEF MintFails, Done, At, rows, history, OneSource, Minting, FamilyOf,
       IdleRequest, In, Request
  <1>7. ASSUME NEW r \in Requests,
               MintRefresh(r) PROVE Held'
    BY <1>7 DEF MintRefresh, Goto, At, rows, history, OneSource, Minting, FamilyOf,
       IdleRequest, In, Request
  <1>8. ASSUME NEW r \in Requests,
               Store(r) PROVE Held'
    BY <1>8 DEF Store, Answer, Done, At, rows, history, OneSource, Minting,
       FamilyOf, IdleRequest, In, Request
  <1>9. ASSUME NEW r \in Requests,
               Wait(r) PROVE Held'
    <2>1. \A s \in Requests : s # r => req'[s] = req[s]
      BY <1>9 DEF Wait, Done, Become
    <2>2. /\ req'[r].pc \in {"idle", "wait", "replay"}
          /\ req'[r].pc # "idle" => req'[r].parent = req[r].parent
          /\ req'[r].pc = "replay" =>
               blob[req[r].parent] # NoPair /\ req'[r].pair = blob[req[r].parent]
      BY <1>9 DEF Wait, Done, Become, In, IdleRequest, At
    <2> QED
      BY <1>9, <2>1, <2>2 DEF Wait, At, rows, history
  <1>10. ASSUME NEW r \in Requests,
               Replay(r) PROVE Held'
    BY <1>10 DEF Replay, Answer, Done, At, rows, history, OneSource, Minting,
       FamilyOf, IdleRequest, In, Request
  <1>11. ASSUME NEW r \in Requests, NEW keep \in Pairs \cup {NoPair},
               RevokeAll(r, keep) PROVE Held'
    BY <1>11 DEF RevokeAll, Start, Become, At, rows, history, OneSource, Minting,
       FamilyOf, IdleRequest, In, Request
  <1>12. ASSUME NEW r \in Requests,
               SweepBlobs(r) PROVE Held'
    BY <1>12 DEF SweepBlobs, Goto, At, rows, history, OneSource, Minting, FamilyOf,
       IdleRequest, In, Request
  <1>13. ASSUME NEW r \in Requests,
               SweepRows(r) PROVE Held'
    BY <1>13 DEF SweepRows, Revoke, Done, At, rows, history, OneSource, Minting,
       FamilyOf, IdleRequest, In, Request
  <1>14. ASSUME NEW r \in Requests, NEW t \in Pairs,
               LogoutAccess(r, t) PROVE Held'
    BY <1>14 DEF LogoutAccess, Start, Become, At, rows, history, OneSource, Minting,
       FamilyOf, IdleRequest, In, Request
  <1>15. ASSUME NEW r \in Requests,
               LogoutRefresh(r) PROVE Held'
    BY <1>15 DEF LogoutRefresh, Revoke, Done, At, rows, history, OneSource, Minting,
       FamilyOf, IdleRequest, In, Request
  <1>16. ASSUME NEW r \in Requests,
               Abort(r) PROVE Held'
    BY <1>16 DEF Abort, Done, At, rows, history, OneSource, Minting, FamilyOf,
       IdleRequest, In, Request
  <1>17. ASSUME NEW t \in Pairs,
               Age(t) PROVE Held'
    BY <1>17 DEF Age, rows, history, OneSource, Minting, FamilyOf, IdleRequest, In,
       Request
  <1>18. ASSUME NEW t \in Pairs,
               Expire(t) PROVE Held'
    BY <1>18 DEF Expire, rows, history, OneSource, Minting, FamilyOf, IdleRequest,
       In, Request
  <1>19. ASSUME NEW t \in Pairs,
               AccessEnds(t) PROVE Held'
    BY <1>19 DEF AccessEnds, rows, history, OneSource, Minting, FamilyOf,
       IdleRequest, In, Request
  <1>20. ASSUME NEW t \in Pairs,
               CleanupBlob(t) PROVE Held'
    BY <1>20 DEF CleanupBlob, rows, history, OneSource, Minting, FamilyOf,
       IdleRequest, In, Request
  <1>21. ASSUME NEW t \in Pairs,
               CleanupRow(t) PROVE Held'
    BY <1>21 DEF CleanupRow, rows, history, OneSource, Minting, FamilyOf,
       IdleRequest, In, Request
  <1>22. CASE UNCHANGED vars
    BY <1>22 DEF vars, rows, history
  <1> QED
    BY <1>1, <1>2, <1>3, <1>4, <1>5, <1>6, <1>7, <1>8, <1>9, <1>10, <1>11,
       <1>12, <1>13, <1>14, <1>15, <1>16, <1>17, <1>18, <1>19, <1>20, <1>21, <1>22, RotationAssumption DEF Next, RequestStep

\* Every step keeps the right to mint of a login in one place.
LEMMA StepSource == IInv /\ [Next]_vars => OneSource'
  <1> SUFFICES ASSUME IInv, [Next]_vars PROVE OneSource'
    OBVIOUS
  <1> USE RotationAssumption DEF IInv, TypeOK, Rows, Held, OneSource, OneLivePerLogin, FamilyOf, Minting
  <1>1. ASSUME NEW r \in Requests, NEW t \in Pairs,
               LoginAccess(r, t) PROVE OneSource'
    BY <1>1 DEF LoginAccess, Start, Become, At, rows, history, IdleRequest, In,
       Request
  <1>2. ASSUME NEW r \in Requests,
               LoginRefresh(r) PROVE OneSource'
    BY <1>2 DEF LoginRefresh, Done, At, rows, history, IdleRequest, In, Request
  <1>3. ASSUME NEW r \in Requests, NEW t \in Pairs,
               RotateRead(r, t) PROVE OneSource'
    <2>1. \A s \in Requests : s # r => req'[s] = req[s]
      BY <1>3 DEF RotateRead, Start, Become
    <2>2. req'[r].pc \notin Minting
      BY <1>3 DEF RotateRead, Start, Become, In, IdleRequest, Request
    <2> QED
      BY <1>3, <2>1, <2>2, Quiet DEF RotateRead, Start, Become, rows
  <1>4. ASSUME NEW r \in Requests,
               RotateClaim(r) PROVE OneSource'
    <2> DEFINE t == req[r].parent
    <2>1. CASE refresh[t] = "live"
      <3>1. \A s \in Requests : s # r => req'[s] = req[s]
        BY <1>4, <2>1 DEF RotateClaim, Goto
      <3>2. t \in Pairs /\ req'[r].pc = "mint_access" /\ req'[r].parent = t
        BY <1>4, <2>1 DEF RotateClaim, Goto, At, Request
      <3>3. /\ family' = family
            /\ \A u \in Pairs : refresh'[u] = "live" => u # t /\ refresh[u] = "live"
        BY <1>4, <2>1 DEF RotateClaim, Revoke
      <3> QED
        BY <2>1, <3>1, <3>2, <3>3
    <2>2. CASE refresh[t] # "live"
      <3>1. \A s \in Requests : s # r => req'[s] = req[s]
        BY <1>4, <2>2 DEF RotateClaim, Become
      <3>2. req'[r].pc \notin Minting
        BY <1>4, <2>2 DEF RotateClaim, Become, In
      <3> QED
        BY <1>4, <2>2, <3>1, <3>2, Quiet DEF RotateClaim
    <2> QED
      BY <2>1, <2>2
  <1>5. ASSUME NEW r \in Requests, NEW c \in Pairs,
               MintAccess(r, c) PROVE OneSource'
    BY <1>5 DEF MintAccess, Become, At, rows, history, IdleRequest, In, Request
  <1>6. ASSUME NEW r \in Requests,
               MintFails(r) PROVE OneSource'
    BY <1>6 DEF MintFails, Done, At, rows, history, IdleRequest, In, Request
  <1>7. ASSUME NEW r \in Requests,
               MintRefresh(r) PROVE OneSource'
    BY <1>7 DEF MintRefresh, Goto, At, rows, history, IdleRequest, In, Request
  <1>8. ASSUME NEW r \in Requests,
               Store(r) PROVE OneSource'
    BY <1>8 DEF Store, Answer, Done, At, rows, history, IdleRequest, In, Request
  <1>9. ASSUME NEW r \in Requests,
               Wait(r) PROVE OneSource'
    <2>1. \A s \in Requests : s # r => req'[s] = req[s]
      BY <1>9 DEF Wait, Done, Become
    <2>2. req'[r].pc \notin Minting
      BY <1>9 DEF Wait, Done, Become, In, IdleRequest, Request
    <2> QED
      BY <1>9, <2>1, <2>2, Quiet DEF Wait, Done, Become, rows
  <1>10. ASSUME NEW r \in Requests,
               Replay(r) PROVE OneSource'
    BY <1>10 DEF Replay, Answer, Done, At, rows, history, IdleRequest, In, Request
  <1>11. ASSUME NEW r \in Requests, NEW keep \in Pairs \cup {NoPair},
               RevokeAll(r, keep) PROVE OneSource'
    BY <1>11 DEF RevokeAll, Start, Become, At, rows, history, IdleRequest, In,
       Request
  <1>12. ASSUME NEW r \in Requests,
               SweepBlobs(r) PROVE OneSource'
    BY <1>12 DEF SweepBlobs, Goto, At, rows, history, IdleRequest, In, Request
  <1>13. ASSUME NEW r \in Requests,
               SweepRows(r) PROVE OneSource'
    BY <1>13 DEF SweepRows, Revoke, Done, At, rows, history, IdleRequest, In,
       Request
  <1>14. ASSUME NEW r \in Requests, NEW t \in Pairs,
               LogoutAccess(r, t) PROVE OneSource'
    <2>1. \A s \in Requests : s # r => req'[s] = req[s]
      BY <1>14 DEF LogoutAccess, Start, Become, At
    <2>2. req'[r].pc \notin Minting
      BY <1>14 DEF LogoutAccess, Start, Become, At, In, IdleRequest, Request
    <2> QED
      BY <1>14, <2>1, <2>2, Quiet DEF LogoutAccess, Start, Become, At, rows
  <1>15. ASSUME NEW r \in Requests,
               LogoutRefresh(r) PROVE OneSource'
    BY <1>15 DEF LogoutRefresh, Revoke, Done, At, rows, history, IdleRequest, In,
       Request
  <1>16. ASSUME NEW r \in Requests,
               Abort(r) PROVE OneSource'
    BY <1>16 DEF Abort, Done, At, rows, history, IdleRequest, In, Request
  <1>17. ASSUME NEW t \in Pairs,
               Age(t) PROVE OneSource'
    BY <1>17 DEF Age, rows, history, IdleRequest, In, Request
  <1>18. ASSUME NEW t \in Pairs,
               Expire(t) PROVE OneSource'
    BY <1>18 DEF Expire, rows, history, IdleRequest, In, Request
  <1>19. ASSUME NEW t \in Pairs,
               AccessEnds(t) PROVE OneSource'
    BY <1>19 DEF AccessEnds, rows, history, IdleRequest, In, Request
  <1>20. ASSUME NEW t \in Pairs,
               CleanupBlob(t) PROVE OneSource'
    BY <1>20 DEF CleanupBlob, rows, history, IdleRequest, In, Request
  <1>21. ASSUME NEW t \in Pairs,
               CleanupRow(t) PROVE OneSource'
    BY <1>21 DEF CleanupRow, rows, history, IdleRequest, In, Request
  <1>22. CASE UNCHANGED vars
    BY <1>22 DEF vars, rows, history
  <1> QED
    BY <1>1, <1>2, <1>3, <1>4, <1>5, <1>6, <1>7, <1>8, <1>9, <1>10, <1>11,
       <1>12, <1>13, <1>14, <1>15, <1>16, <1>17, <1>18, <1>19, <1>20, <1>21, <1>22, RotationAssumption DEF Next, RequestStep

\* The session rows and the requests on them keep the invariant.
LEMMA Invariance == Spec => []IInv
  <1>1. IInv /\ [Next]_vars => IInv'
    BY StepType, StepRows, StepHeld, StepSource DEF IInv
  <1> QED
    BY InitIInv, <1>1, PTL DEF Spec

\* Every reachable state of the session tables is well typed.
THEOREM TypeCorrect == Spec => []TypeOK
  <1>1. IInv => TypeOK
    BY DEF IInv
  <1> QED
    BY Invariance, <1>1, PTL

\* A login never has two usable refresh tokens, whatever rotations, replays,
\* sweeps, clean-ups and failures interleave.
THEOREM ChainPerLogin == Spec => []OneLivePerLogin
  <1>1. IInv => OneLivePerLogin
    BY DEF IInv, OneSource
  <1> QED
    BY Invariance, <1>1, PTL

\* All successful presentations of one refresh token get one and the same pair.
THEOREM PresentationsAgree == Spec => []SameAnswer
  <1>1. IInv => SameAnswer
    BY DEF IInv, Rows, SameAnswer
  <1> QED
    BY Invariance, <1>1, PTL
--------------------------------------------------------------------------------
(* What a revoke-all leaves behind *)

\* The swept logins that no mint was under way for.
Ended == swept \ interrupted

\* Such a login has no live row, and no request is about to mint for it.
SweptStay ==
  /\ \A f \in swept : f \in Pairs /\ access[f] # "none"
  /\ \A t \in Pairs : refresh[t] = "live" => family[t] \notin Ended
  /\ \A r \in Requests : req[r].pc \in Minting => FamilyOf(r) \notin Ended

\* A step that makes no row live and gives nobody the right to mint keeps swept logins so.
LEMMA QuietSwept ==
  ASSUME IInv, SweptStay, swept' = swept, interrupted' = interrupted, family' = family,
         \A t \in Pairs : access[t] # "none" => access'[t] # "none",
         \A t \in Pairs : refresh'[t] = "live" => refresh[t] = "live",
         NEW r \in Requests, \A s \in Requests : s # r => req'[s] = req[s],
         req'[r] = req[r] \/ req'[r].pc \notin Minting
  PROVE  SweptStay'
  <1>1. \A s \in Requests : req'[s].pc \in Minting => req'[s] = req[s]
    OBVIOUS
  <1>2. \A s \in Requests : req'[s].pc \in Minting => FamilyOf(s)' = FamilyOf(s)
    BY <1>1 DEF FamilyOf
  <1> QED
    BY <1>1, <1>2 DEF SweptStay, Ended

\* The steps that mint, or come to hold the right to, do it for logins never swept.
LEMMA MintSwept ==
  ASSUME IInv, SweptStay, swept' = swept, interrupted' = interrupted, NEW r \in Requests,
         \/ \E t \in Logins : LoginAccess(r, t)
         \/ LoginRefresh(r)
         \/ RotateClaim(r)
         \/ \E c \in Pairs : MintAccess(r, c)
         \/ MintRefresh(r)
  PROVE  SweptStay'
  <1>t. TypeOK /\ Rows /\ Held
    BY DEF IInv
  <1>n. NoPair \notin Pairs /\ Logins \subseteq Pairs
    BY RotationAssumption
  <1>o. \A s \in Requests : s # r => req'[s] = req[s]
    BY <1>t DEF LoginAccess, LoginRefresh, RotateClaim, MintAccess, MintRefresh, Start, Become,
                Done, Goto, TypeOK
  <1>1. ASSUME NEW t \in Logins, LoginAccess(r, t) PROVE SweptStay'
    <2>1. t \in Pairs /\ access[t] = "none" /\ refresh[t] = "none" /\ t \notin Ended
      BY <1>1, <1>n, <1>t DEF LoginAccess, Rows, SweptStay, Ended
    <2>2. /\ refresh' = refresh /\ family'[t] = t /\ \A u \in Pairs : u # t => family'[u] = family[u]
          /\ \A u \in Pairs : access[u] # "none" => access'[u] # "none"
      BY <1>1, <1>t, <2>1 DEF LoginAccess, TypeOK
    <2>3. req'[r].pc = "login_refresh" /\ req'[r].pair = t
      BY <1>1, <1>t DEF LoginAccess, Start, Become, In, TypeOK
    <2>4. \A s \in Requests : s # r /\ req[s].pc \in Minting => FamilyOf(s)' = FamilyOf(s)
      BY <1>o, <1>t, <2>1, <2>2 DEF FamilyOf, Held, Rows, Minting
    <2>5. FamilyOf(r)' = t
      BY <2>2, <2>3 DEF FamilyOf
    <2> QED
      BY <1>o, <2>1, <2>2, <2>4, <2>5 DEF SweptStay, Ended
  <1>2. CASE LoginRefresh(r) \/ MintRefresh(r)
    <2>1. PICK t : t = req[r].pair
      OBVIOUS
    <2>2. /\ req[r].pc \in {"login_refresh", "mint_refresh"} /\ t \in Pairs
          /\ family[t] = FamilyOf(r) /\ family[t] \notin Ended
      BY <1>2, <1>t, <2>1 DEF LoginRefresh, MintRefresh, At, Held, FamilyOf, SweptStay, Minting
    <2>3. /\ refresh' = [refresh EXCEPT ![t] = "live"] /\ UNCHANGED <<access, family>>
          /\ req'[r].pc \notin Minting
      BY <1>2, <1>t, <2>1 DEF LoginRefresh, MintRefresh, Done, Goto, IdleRequest, In, Minting, TypeOK, Request
    <2>4. \A s \in Requests : req'[s].pc \in Minting => FamilyOf(s)' = FamilyOf(s) /\ req'[s] = req[s]
      BY <1>o, <2>3 DEF FamilyOf
    <2> QED
      BY <1>t, <2>2, <2>3, <2>4 DEF SweptStay, Ended, TypeOK
  <1>3. CASE RotateClaim(r)
    <2>1. PICK t : t = req[r].parent
      OBVIOUS
    <2>2. /\ UNCHANGED <<access, family>> /\ \A u \in Pairs : refresh'[u] = "live" => refresh[u] = "live"
          /\ \/ refresh[t] = "live" /\ t \in Pairs /\ req'[r].parent = t /\ req'[r].pc = "mint_access"
             \/ req'[r].pc = "wait"
      BY <1>3, <1>t, <2>1
      DEF RotateClaim, Revoke, Goto, Become, At, In, Held, TypeOK, Request
    <2>3. req'[r].pc \in Minting => FamilyOf(r)' = family[t] /\ family[t] \notin Ended
      BY <2>2 DEF FamilyOf, SweptStay, Ended, Minting
    <2>4. \A s \in Requests : s # r => FamilyOf(s)' = FamilyOf(s)
      BY <1>o, <2>2 DEF FamilyOf
    <2> QED
      BY <1>o, <2>2, <2>3, <2>4 DEF SweptStay, Ended
  <1>4. ASSUME NEW c \in Pairs, MintAccess(r, c) PROVE SweptStay'
    <2>1. PICK t : t = req[r].parent
      OBVIOUS
    <2>2. /\ t \in Pairs /\ refresh[t] # "none" /\ access[c] = "none" /\ refresh[c] = "none"
          /\ c # t /\ family[t] = FamilyOf(r) /\ family[t] \notin Ended
      BY <1>4, <1>t, <2>1 DEF MintAccess, At, Held, Rows, FamilyOf, SweptStay, Minting
    <2>3. /\ refresh' = refresh /\ family' = [family EXCEPT ![c] = family[t]]
          /\ \A u \in Pairs : access[u] # "none" => access'[u] # "none"
          /\ req'[r].pc = "mint_refresh" /\ req'[r].pair = c
      BY <1>4, <1>t, <2>1 DEF MintAccess, Become, In, TypeOK
    <2>4. \A s \in Requests : s # r /\ req[s].pc \in Minting => FamilyOf(s)' = FamilyOf(s)
      BY <1>o, <1>t, <2>2, <2>3 DEF FamilyOf, Held, Rows, Minting
    <2>5. FamilyOf(r)' = family[t]
      BY <1>t, <2>3 DEF FamilyOf, TypeOK
    <2>6. \A u \in Pairs : refresh[u] = "live" => family'[u] = family[u]
      BY <2>2, <2>3
    <2> QED
      BY <1>o, <2>2, <2>3, <2>4, <2>5, <2>6 DEF SweptStay, Ended
  <1> QED
    BY <1>1, <1>2, <1>3, <1>4

\* A sweep leaves the logins it finds without a live row; who is minting then is recorded.
LEMMA SweepSwept ==
  ASSUME IInv, SweptStay, NEW r \in Requests, SweepRows(r),
         swept' = swept \cup Existing, interrupted' = interrupted \cup InMint
  PROVE  SweptStay'
  <1>t. TypeOK /\ Rows
    BY DEF IInv
  <1>1. \A f \in Existing : f \in Pairs /\ access[f] # "none"
    BY <1>t DEF Existing, Rows
  <1>2. \A t \in Pairs : refresh'[t] # "live"
    BY DEF SweepRows, Revoke
  <1>3. ASSUME NEW s \in Requests, req'[s].pc \in Minting PROVE FamilyOf(s)' \notin Ended'
    <2>1. req'[s] = req[s] /\ family' = family
      BY <1>t, <1>3 DEF SweepRows, Done, IdleRequest, In, Minting, TypeOK
    <2>2. FamilyOf(s)' = FamilyOf(s) /\ req[s].pc \in Minting
      BY <1>3, <2>1 DEF FamilyOf
    <2>3. FamilyOf(s) \in InMint
      BY <2>2 DEF InMint
    <2> QED
      BY <2>2, <2>3 DEF Ended
  <1>4. \A t \in Pairs : access[t] # "none" => access'[t] # "none"
    BY DEF SweepRows
  <1> QED
    BY <1>1, <1>2, <1>3, <1>4 DEF SweptStay

\* Every other step is quiet.
LEMMA StepSwept ==
  ASSUME IInv, SweptStay, [TracedNext]_revocationVars
  PROVE  SweptStay'
  <1>t. TypeOK
    BY DEF IInv
  <1>s. CASE TracedNext /\ Sweep
    BY <1>s, SweepSwept DEF TracedNext, Sweep
  <1>0. CASE UNCHANGED revocationVars
    BY <1>0 DEF revocationVars, vars, rows, SweptStay, Ended, FamilyOf
  <1>1. ASSUME TracedNext, swept' = swept, interrupted' = interrupted PROVE SweptStay'
    <2>1. ASSUME NEW r \in Requests,
                 \/ \E t \in Pairs : RotateRead(r, t) \/ LogoutAccess(r, t)
                 \/ \E keep \in Pairs \cup {NoPair} : RevokeAll(r, keep)
                 \/ MintFails(r) \/ Store(r) \/ Wait(r) \/ Replay(r)
                 \/ SweepBlobs(r) \/ SweepRows(r) \/ LogoutRefresh(r) \/ Abort(r)
          PROVE  SweptStay'
      <3>1. /\ \A s \in Requests : s # r => req'[s] = req[s]
            /\ req'[r] = req[r] \/ req'[r].pc \notin Minting
        BY <1>t, <2>1
        DEF RotateRead, LogoutAccess, RevokeAll, MintFails, Store, Wait, Replay, SweepBlobs, SweepRows,
            LogoutRefresh, Abort, Start, Become, Done, Goto, IdleRequest, In, Minting, TypeOK, Request
      <3>2. /\ family' = family
            /\ \A t \in Pairs : access[t] # "none" => access'[t] # "none"
            /\ \A t \in Pairs : refresh'[t] = "live" => refresh[t] = "live"
        BY <1>t, <2>1
        DEF RotateRead, LogoutAccess, RevokeAll, MintFails, Store, Wait, Replay, SweepBlobs, SweepRows,
            LogoutRefresh, Abort, Revoke, rows, TypeOK
      <3> QED
        BY <1>1, <3>1, <3>2, QuietSwept
    <2>2. ASSUME NEW t \in Pairs,
                 Age(t) \/ Expire(t) \/ AccessEnds(t) \/ CleanupBlob(t) \/ CleanupRow(t)
          PROVE  SweptStay'
      <3>1. /\ family' = family /\ req' = req
            /\ \A u \in Pairs : access[u] # "none" => access'[u] # "none"
            /\ \A u \in Pairs : refresh'[u] = "live" => refresh[u] = "live"
        BY <1>t, <2>2 DEF Age, Expire, AccessEnds, CleanupBlob, CleanupRow, TypeOK
      <3>2. \A s \in Requests : FamilyOf(s)' = FamilyOf(s)
        BY <3>1 DEF FamilyOf
      <3> QED
        BY <1>1, <3>1, <3>2 DEF SweptStay, Ended
    <2>3. \/ \E t \in Pairs :
               Age(t) \/ Expire(t) \/ AccessEnds(t) \/ CleanupBlob(t) \/ CleanupRow(t)
          \/ \E r \in Requests :
               \/ \E t \in Pairs : RotateRead(r, t) \/ LogoutAccess(r, t)
               \/ \E keep \in Pairs \cup {NoPair} : RevokeAll(r, keep)
               \/ MintFails(r) \/ Store(r) \/ Wait(r) \/ Replay(r)
               \/ SweepBlobs(r) \/ SweepRows(r) \/ LogoutRefresh(r) \/ Abort(r)
          \/ \E r \in Requests :
               \/ \E t \in Logins : LoginAccess(r, t)
               \/ LoginRefresh(r)
               \/ RotateClaim(r)
               \/ \E c \in Pairs : MintAccess(r, c)
               \/ MintRefresh(r)
      BY <1>1 DEF TracedNext, Next, RequestStep
    <2> QED
      BY <1>1, <2>1, <2>2, <2>3, MintSwept
  <1> QED
    BY <1>0, <1>1, <1>s DEF TracedNext

\* Whatever else interleaves or fails, only a mint that was under way while a revoke-all updated
\* the rows (token.service.ts:780) gives a login it swept a usable refresh token again.
THEOREM SurvivorNeedsAMint == TracedSpec => []SurvivorsWereMinting
  <1>1. TracedInit => IInv /\ SweptStay
    BY InitIInv DEF TracedInit, Init, SweptStay, Ended, Minting, IdleRequest, In
  <1>2. IInv /\ SweptStay /\ [TracedNext]_revocationVars => IInv' /\ SweptStay'
    <2>1. [TracedNext]_revocationVars => [Next]_vars
      BY DEF TracedNext, revocationVars
    <2> QED
      BY <2>1, StepSwept, StepType, StepRows, StepHeld, StepSource DEF IInv
  <1>3. SweptStay => SurvivorsWereMinting
    BY DEF SweptStay, Ended, SurvivorsWereMinting
  <1> QED
    BY <1>1, <1>2, <1>3, PTL DEF TracedSpec

\* No sweep found a mint under way.
Undisturbed == interrupted = {}

\* Requests that never overlap never bring a swept login back: "revokes ALL sessions"
\* holds for a user whose requests come one at a time, failures included.
THEOREM OneAtATime ==
  ASSUME \A r, s \in Requests : r = s
  PROVE  TracedSpec => []NoSurvivor
  <1>1. TracedInit => Undisturbed
    BY DEF TracedInit, Undisturbed
  <1>2. Undisturbed /\ [TracedNext]_revocationVars => Undisturbed'
    <2>1. ASSUME Sweep PROVE InMint = {}
      <3>1. \A s \in Requests : req[s].pc = "sweep_rows"
        BY <2>1 DEF Sweep, SweepRows, At
      <3> QED
        BY <3>1 DEF InMint, Minting
    <2> QED
      BY <2>1 DEF TracedNext, revocationVars, Undisturbed
  <1>3. SurvivorsWereMinting /\ Undisturbed => NoSurvivor
    BY DEF Undisturbed, SurvivorsWereMinting, NoSurvivor
  <1> QED
    BY <1>1, <1>2, <1>3, SurvivorNeedsAMint, PTL DEF TracedSpec
================================================================================
