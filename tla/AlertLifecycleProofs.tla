-------------------------- MODULE AlertLifecycleProofs --------------------------
(***************************************************************************)
(* Proofs about AlertLifecycle for every set of alerts, pets and request   *)
(* slots and every renewal limit.                                          *)
(*                                                                         *)
(* The properties are about rows; what makes them inductive is what each   *)
(* in-flight request remembers (Held): which of its local values are real  *)
(* ids, that a row it read has been inserted, that a renewal saw a count   *)
(* below the limit, and that a resolve past its UPDATE has closed its      *)
(* alert for good.  LiveAlertsStayFlagged also needs what the reads of a   *)
(* create and of a cancel still say when they write (ReadsHold).           *)
(***************************************************************************)
EXTENDS AlertLifecycle, TLAPS

ForGood == {"RESOLVED", "CANCELLED"}

HoldsAlert == {"create_queue", "resolve_write", "resolve_clear",
               "resolve_snapshot", "resolve_story", "cancel_write",
               "renew_write"}

HoldsPet == {"create_mark", "resolve_clear", "resolve_snapshot", "cancel_count",
             "cancel_clear", "missing_write", "found_write", "found_list"}

Held ==
  \A r \in Requests :
    /\ req[r].pc \in HoldsAlert =>
         req[r].alert \in Alerts /\ status[req[r].alert] # "NONE"
    /\ req[r].pc \in HoldsPet => req[r].pet \in Pets
    /\ req[r].pc = "renew_write" => req[r].count < MaxRenewals
    /\ req[r].pc \in {"resolve_clear", "resolve_snapshot", "resolve_story"} =>
         status[req[r].alert] \in ForGood

\* The empty tables and idle requests are well typed.
LEMMA InitType == Init => TypeOK
  BY DEF Init, TypeOK, IdleRequest, Request, Steps, Closed

\* No request holds anything at the start.
LEMMA InitHeld == Init => Held
  BY DEF Init, Held, IdleRequest, HoldsAlert, HoldsPet

\* No statement of a handler leaves the types; what it holds makes its ids real.
LEMMA StepType == TypeOK /\ Held /\ [Next]_vars => TypeOK'
  <1> SUFFICES ASSUME TypeOK, Held, [Next]_vars PROVE TypeOK'
    OBVIOUS
  <1> USE DEF TypeOK, alertVars
  <1>i. IdleRequest \in Request
    BY DEF IdleRequest, Request, Steps
  <1>d. ASSUME NEW r \in Requests, Done(r)
        PROVE req' \in [Requests -> Request] /\ late' \subseteq Requests
    BY <1>d, <1>i DEF Done
  <1>g. ASSUME NEW r \in Requests, NEW s \in Steps, Goto(r, s)
        PROVE req' \in [Requests -> Request] /\ late' \subseteq Requests
    BY <1>g DEF Goto, Request
  <1>h. ASSUME NEW r \in Requests, req[r].pc \in HoldsAlert
        PROVE req[r].alert \in Alerts
    BY <1>h DEF Held
  <1>1. ASSUME NEW r \in Requests, NEW p \in Pets \cup {NoPet}, CreateRead(r, p)
        PROVE TypeOK'
    BY <1>1, <1>i DEF CreateRead, Start, Request, IdleRequest, Steps
  <1>2. ASSUME NEW r \in Requests, CreateMark(r) PROVE TypeOK'
    BY <1>2, <1>d, <1>g DEF CreateMark, Steps
  <1>3. ASSUME NEW r \in Requests, NEW a \in Alerts, CreateInsert(r, a) PROVE TypeOK'
    BY <1>3, <1>d DEF CreateInsert, Steps, Request, About
  <1>4. ASSUME NEW r \in Requests, CreateQueue(r) PROVE TypeOK'
    BY <1>4, <1>d, <1>h DEF CreateQueue, At, HoldsAlert
  <1>5. ASSUME NEW r \in Requests, NEW a \in Alerts, NEW found \in BOOLEAN,
               NEW share \in BOOLEAN, ResolveRead(r, a, found, share)
        PROVE TypeOK'
    BY <1>5, <1>i DEF ResolveRead, Start, Request, IdleRequest, Steps
  <1>6. ASSUME NEW r \in Requests, ResolveWrite(r) PROVE TypeOK'
    BY <1>6, <1>d, <1>g DEF ResolveWrite, Steps, Closed
  <1>7. ASSUME NEW r \in Requests, ResolveClear(r) PROVE TypeOK'
    BY <1>7, <1>g DEF ResolveClear, Steps
  <1>8. ASSUME NEW r \in Requests, ResolveSnapshot(r) PROVE TypeOK'
    BY <1>8, <1>d, <1>g, <1>h DEF ResolveSnapshot, Steps, At, HoldsAlert
  <1>9. ASSUME NEW r \in Requests, ResolveStory(r) PROVE TypeOK'
    BY <1>9, <1>d, <1>h DEF ResolveStory, At, HoldsAlert
  <1>10. ASSUME NEW r \in Requests, NEW a \in Alerts, CancelRead(r, a) PROVE TypeOK'
    BY <1>10, <1>i DEF CancelRead, Start, Request, IdleRequest, Steps
  <1>11. ASSUME NEW r \in Requests, CancelWrite(r) PROVE TypeOK'
    BY <1>11, <1>d, <1>g DEF CancelWrite, Steps, Closed
  <1>12. ASSUME NEW r \in Requests, CancelCount(r) PROVE TypeOK'
    BY <1>12, <1>d, <1>g DEF CancelCount, Steps
  <1>13. ASSUME NEW r \in Requests, CancelClear(r) PROVE TypeOK'
    BY <1>13, <1>i DEF CancelClear, About
  <1>14. ASSUME NEW r \in Requests, NEW a \in Alerts, RenewRead(r, a) PROVE TypeOK'
    BY <1>14, <1>i DEF RenewRead, Start, Request, IdleRequest, Steps
  <1>15. ASSUME NEW r \in Requests, RenewWrite(r) PROVE TypeOK'
    <2>1. req[r].count + 1 \in Nat
      BY DEF Request
    <2>2. renewals' \in [Alerts -> Nat] /\ overdue' \in [Alerts -> BOOLEAN]
      BY <1>15, <2>1 DEF RenewWrite
    <2> QED
      BY <1>15, <1>d, <2>2 DEF RenewWrite
  <1>16. ASSUME NEW r \in Requests, NEW p \in Pets, MissingRead(r, p) PROVE TypeOK'
    BY <1>16, <1>i DEF MissingRead, Start, Request, IdleRequest, Steps
  <1>17. ASSUME NEW r \in Requests, MissingWrite(r) PROVE TypeOK'
    BY <1>17, <1>d DEF MissingWrite
  <1>18. ASSUME NEW r \in Requests, NEW p \in Pets, FoundRead(r, p) PROVE TypeOK'
    BY <1>18, <1>i DEF FoundRead, Start, Request, IdleRequest, Steps
  <1>19. ASSUME NEW r \in Requests, FoundWrite(r) PROVE TypeOK'
    BY <1>19, <1>d DEF FoundWrite, Steps, Request, About
  <1>20. ASSUME NEW r \in Requests, FoundList(r) PROVE TypeOK'
    BY <1>20, <1>d DEF FoundList, LiveAlertsOf, Steps, Request
  <1>21. ASSUME NEW r \in Requests, FoundResolve(r) PROVE TypeOK'
    BY <1>21, <1>d DEF FoundResolve, Closed
  <1>22. ASSUME NEW r \in Requests, Abort(r) PROVE TypeOK'
    BY <1>22, <1>d DEF Abort
  <1>23. ASSUME NEW a \in Alerts, Tick(a) PROVE TypeOK'
    BY <1>23 DEF Tick
  <1>24. CASE CheckExpired
    BY <1>24 DEF CheckExpired, Closed
  <1>25. ASSUME NEW p \in Pets, PurgeSnapshot(p) PROVE TypeOK'
    BY <1>25 DEF PurgeSnapshot
  <1>26. ASSUME NEW p \in Pets, DeletePet(p) PROVE TypeOK'
    BY <1>26 DEF DeletePet
  <1>27. ASSUME NEW p \in Pets, NEW flag \in {"safe", "missing"}, UpdatePet(p, flag)
         PROVE TypeOK'
    BY <1>27 DEF UpdatePet, About
  <1>28. CASE UNCHANGED vars
    BY <1>28 DEF vars
  <1> QED
    BY <1>1, <1>2, <1>3, <1>4, <1>5, <1>6, <1>7, <1>8, <1>9, <1>10, <1>11, <1>12,
       <1>13, <1>14, <1>15, <1>16, <1>17, <1>18, <1>19, <1>20, <1>21, <1>22,
       <1>23, <1>24, <1>25, <1>26, <1>27, <1>28 DEF Next, RequestStep, AlertController, PetController

\* Every step of the detailed model changes statuses as AlertStatus allows.
LEMMA StepContract == TypeOK /\ Held /\ [Next]_vars => [Contract!Next]_status
  <1> SUFFICES ASSUME TypeOK, Held, [Next]_vars, status' # status
               PROVE Contract!Next
    OBVIOUS
  <1>t. status' \in [Alerts -> Contract!Statuses]
    BY StepType DEF TypeOK, Contract!Statuses, Contract!Closed, Closed
  <1>s. status \in [Alerts -> Contract!Statuses]
    BY DEF TypeOK, Contract!Statuses, Contract!Closed, Closed
  <1> SUFFICES ASSUME NEW b \in Alerts
               PROVE Contract!Allowed(status[b], status'[b])
    BY <1>t DEF Contract!Next
  <1> USE <1>s DEF Contract!Allowed, Contract!Statuses, Contract!Closed
  <1>1. ASSUME NEW r \in Requests, NEW a \in Alerts, CreateInsert(r, a)
        PROVE Contract!Allowed(status[b], status'[b])
    BY <1>1 DEF CreateInsert, alertVars
  <1>2. ASSUME NEW r \in Requests, ResolveWrite(r)
        PROVE Contract!Allowed(status[b], status'[b])
    BY <1>2 DEF ResolveWrite, Held, At, HoldsAlert
  <1>3. ASSUME NEW r \in Requests, CancelWrite(r)
        PROVE Contract!Allowed(status[b], status'[b])
    BY <1>3 DEF CancelWrite, Held, At, HoldsAlert
  <1>4. ASSUME NEW r \in Requests, FoundResolve(r)
        PROVE Contract!Allowed(status[b], status'[b])
    BY <1>4 DEF FoundResolve
  <1>5. CASE CheckExpired
    BY <1>5 DEF CheckExpired, Expirable
  <1> QED
    BY <1>1, <1>2, <1>3, <1>4, <1>5, ZenonT(30)
    DEF Next, RequestStep, AlertController, PetController, vars, alertVars, CreateRead, CreateMark, CreateQueue,
        ResolveRead, ResolveClear, ResolveSnapshot, ResolveStory, CancelRead,
        CancelCount, CancelClear, RenewRead, RenewWrite, MissingRead, MissingWrite,
        FoundRead, FoundWrite, FoundList, Abort, Tick, PurgeSnapshot, UpdatePet, DeletePet

\* What a handler may rely on after an await: an inserted row stays inserted, and
\* an alert closed by its user stays so.
LEMMA ReadsStay ==
  ASSUME TypeOK, Held, [Next]_vars, NEW a \in Alerts
  PROVE  /\ status[a] # "NONE" => status'[a] # "NONE"
         /\ status[a] \in ForGood => status'[a] \in ForGood
  BY StepContract
  DEF Contract!Next, Contract!Allowed, Contract!Closed, ForGood, TypeOK, Closed

\* What a request remembers stays true while others run between its statements.
LEMMA StepHeld == TypeOK /\ Held /\ [Next]_vars => Held'
  <1> SUFFICES ASSUME TypeOK, Held, [Next]_vars PROVE Held'
    OBVIOUS
  <1> DEFINE HeldBy(q) ==
        /\ req[q].pc \in HoldsAlert =>
             req[q].alert \in Alerts /\ status[req[q].alert] # "NONE"
        /\ req[q].pc \in HoldsPet => req[q].pet \in Pets
        /\ req[q].pc = "renew_write" => req[q].count < MaxRenewals
        /\ req[q].pc \in {"resolve_clear", "resolve_snapshot", "resolve_story"} =>
             status[req[q].alert] \in ForGood
  <1> SUFFICES ASSUME NEW q \in Requests PROVE HeldBy(q)'
    BY DEF Held
  <1>h. HeldBy(q)
    BY DEF Held
  <1>u. ASSUME req'[q] = req[q] PROVE HeldBy(q)'
    BY <1>u, <1>h, ReadsStay DEF HoldsAlert
  <1>z. ASSUME req'[q] = IdleRequest PROVE HeldBy(q)'
    BY <1>z DEF IdleRequest, HoldsAlert, HoldsPet
  <1>t. req \in [Requests -> Request]
    BY DEF TypeOK
  <1>d. ASSUME NEW r \in Requests, Done(r) PROVE HeldBy(q)'
    BY <1>d, <1>u, <1>z, <1>t DEF Done
  <1> USE DEF At, HoldsAlert, HoldsPet
  <1>1. ASSUME NEW r \in Requests, NEW p \in Pets \cup {NoPet}, CreateRead(r, p)
        PROVE HeldBy(q)'
    BY <1>1, <1>u, <1>t DEF CreateRead, Start, IdleRequest
  <1>2. ASSUME NEW r \in Requests, CreateMark(r) PROVE HeldBy(q)'
    BY <1>2, <1>d, <1>u, <1>t DEF CreateMark, Goto, Request
  <1>3. ASSUME NEW r \in Requests, NEW a \in Alerts, CreateInsert(r, a)
        PROVE HeldBy(q)'
    BY <1>3, <1>d, <1>u, <1>t DEF CreateInsert, Request, TypeOK
  <1>4. ASSUME NEW r \in Requests, CreateQueue(r) PROVE HeldBy(q)'
    BY <1>4, <1>d DEF CreateQueue
  <1>5. ASSUME NEW r \in Requests, NEW a \in Alerts, NEW found \in BOOLEAN,
               NEW share \in BOOLEAN, ResolveRead(r, a, found, share)
        PROVE HeldBy(q)'
    BY <1>5, <1>u, <1>t DEF ResolveRead, Start, IdleRequest, alertVars
  <1>6. ASSUME NEW r \in Requests, ResolveWrite(r) PROVE HeldBy(q)'
    BY <1>6, <1>d, <1>u, <1>t, <1>h DEF ResolveWrite, Goto, Request, TypeOK, ForGood
  <1>7. ASSUME NEW r \in Requests, ResolveClear(r) PROVE HeldBy(q)'
    BY <1>7, <1>u, <1>t, <1>h DEF ResolveClear, Goto, Request, alertVars
  <1>8. ASSUME NEW r \in Requests, ResolveSnapshot(r) PROVE HeldBy(q)'
    BY <1>8, <1>d, <1>u, <1>t, <1>h DEF ResolveSnapshot, Goto, Request, alertVars
  <1>9. ASSUME NEW r \in Requests, ResolveStory(r) PROVE HeldBy(q)'
    BY <1>9, <1>d DEF ResolveStory
  <1>10. ASSUME NEW r \in Requests, NEW a \in Alerts, CancelRead(r, a)
         PROVE HeldBy(q)'
    BY <1>10, <1>u, <1>t DEF CancelRead, Start, IdleRequest, alertVars
  <1>11. ASSUME NEW r \in Requests, CancelWrite(r) PROVE HeldBy(q)'
    BY <1>11, <1>d, <1>u, <1>t DEF CancelWrite, Goto, Request
  <1>12. ASSUME NEW r \in Requests, CancelCount(r) PROVE HeldBy(q)'
    BY <1>12, <1>d, <1>u, <1>t, <1>h DEF CancelCount, Goto, Request
  <1>13. ASSUME NEW r \in Requests, CancelClear(r) PROVE HeldBy(q)'
    BY <1>13, <1>u, <1>z, <1>t DEF CancelClear
  <1>14. ASSUME NEW r \in Requests, NEW a \in Alerts, RenewRead(r, a)
         PROVE HeldBy(q)'
    BY <1>14, <1>u, <1>t DEF RenewRead, Start, IdleRequest, alertVars
  <1>15. ASSUME NEW r \in Requests, RenewWrite(r) PROVE HeldBy(q)'
    BY <1>15, <1>d DEF RenewWrite
  <1>16. ASSUME NEW r \in Requests, NEW p \in Pets, MissingRead(r, p)
         PROVE HeldBy(q)'
    BY <1>16, <1>u, <1>t DEF MissingRead, Start, IdleRequest
  <1>17. ASSUME NEW r \in Requests, MissingWrite(r) PROVE HeldBy(q)'
    BY <1>17, <1>d DEF MissingWrite
  <1>18. ASSUME NEW r \in Requests, NEW p \in Pets, FoundRead(r, p)
         PROVE HeldBy(q)'
    BY <1>18, <1>u, <1>t DEF FoundRead, Start, IdleRequest
  <1>19. ASSUME NEW r \in Requests, FoundWrite(r) PROVE HeldBy(q)'
    BY <1>19, <1>d, <1>u, <1>t, <1>h DEF FoundWrite, Goto, Request
  <1>20. ASSUME NEW r \in Requests, FoundList(r) PROVE HeldBy(q)'
    BY <1>20, <1>d, <1>u, <1>t DEF FoundList, Request
  <1>21. ASSUME NEW r \in Requests, FoundResolve(r) PROVE HeldBy(q)'
    BY <1>21, <1>d DEF FoundResolve
  <1>22. ASSUME NEW r \in Requests, Abort(r) PROVE HeldBy(q)'
    BY <1>22, <1>d DEF Abort
  <1>23. CASE UNCHANGED req
    BY <1>23, <1>u
  <1> QED
    BY <1>1, <1>2, <1>3, <1>4, <1>5, <1>6, <1>7, <1>8, <1>9, <1>10, <1>11, <1>12,
       <1>13, <1>14, <1>15, <1>16, <1>17, <1>18, <1>19, <1>20, <1>21, <1>22, <1>23
    DEF Next, RequestStep, AlertController, PetController, Tick, CheckExpired, PurgeSnapshot, UpdatePet, DeletePet, vars

\* Types and Held together are an invariant of the lifecycle.
LEMMA Inductive == Spec => [](TypeOK /\ Held)
  <1>1. Init => TypeOK /\ Held
    BY InitType, InitHeld
  <1>2. TypeOK /\ Held /\ [Next]_vars => (TypeOK /\ Held)'
    BY StepType, StepHeld
  <1> QED
    BY <1>1, <1>2, PTL DEF Spec

\* Every reachable state is well typed, whatever requests interleave and fail.
THEOREM TypeCorrect == Spec => []TypeOK
  BY Inductive, PTL

\* The status column behaves as AlertStatus promises: no interleaving of create,
\* resolve, cancel, renew, "pet found" and the expiry cron makes a closed alert
\* ACTIVE again or lets the cron overwrite a closed one.
THEOREM ImplementsStatusContract == Spec => StatusContract
  <1>1. Init => Contract!Init
    BY DEF Init, Contract!Init
  <1> QED
    BY <1>1, StepContract, Inductive, PTL DEF Spec, StatusContract, Contract!Spec

\* renewal_count stays within the limit although renew writes a stale count.
THEOREM RenewalCap == Spec => []RenewalsCapped
  <1>1. Init => RenewalsCapped
    BY LifecycleAssumption DEF Init, RenewalsCapped
  <1>2. TypeOK /\ Held /\ RenewalsCapped /\ [Next]_vars => RenewalsCapped'
    <2> SUFFICES ASSUME TypeOK, Held, RenewalsCapped, [Next]_vars
                 PROVE RenewalsCapped'
      OBVIOUS
    <2>1. ASSUME NEW r \in Requests, RenewWrite(r) PROVE RenewalsCapped'
      <3>1. req[r].count \in Nat /\ req[r].count < MaxRenewals
        BY <2>1 DEF RenewWrite, At, Held, TypeOK, Request
      <3>2. req[r].count + 1 <= MaxRenewals
        BY <3>1, LifecycleAssumption
      <3> QED
        BY <2>1, <3>2 DEF RenewWrite, RenewalsCapped, TypeOK
    <2>2. CASE UNCHANGED renewals
      BY <2>2 DEF RenewalsCapped
    <2> QED
      BY <2>1, <2>2, ZenonT(30)
      DEF Next, RequestStep, AlertController, PetController, vars, alertVars, CreateRead, CreateMark, CreateInsert,
          CreateQueue, ResolveRead, ResolveWrite, ResolveClear, ResolveSnapshot,
          ResolveStory, CancelRead, CancelWrite, CancelCount, CancelClear, RenewRead,
          MissingRead, MissingWrite, FoundRead, FoundWrite, FoundList, FoundResolve,
          Abort, Tick, CheckExpired, PurgeSnapshot, UpdatePet, DeletePet
  <1> QED
    BY <1>1, <1>2, Inductive, PTL DEF Spec

\* A public card or a success-story job is only ever about an alert closed for good.
THEOREM CelebrationSafe == Spec => []CelebratedOnlyWhenClosed
  <1>1. Init => CelebratedOnlyWhenClosed
    BY LifecycleAssumption DEF Init, CelebratedOnlyWhenClosed
  <1>2. TypeOK /\ Held /\ CelebratedOnlyWhenClosed /\ [Next]_vars
          => CelebratedOnlyWhenClosed'
    <2> SUFFICES ASSUME TypeOK, Held, CelebratedOnlyWhenClosed, [Next]_vars,
                        NEW a \in Alerts,
                        (<<"story", a>> \in queued \/ \E p \in Pets : snapshot[p] = a)'
                 PROVE status'[a] \in ForGood
      BY DEF CelebratedOnlyWhenClosed, ForGood
    <2>1. CASE <<"story", a>> \in queued \/ \E p \in Pets : snapshot[p] = a
      BY <2>1, ReadsStay DEF CelebratedOnlyWhenClosed, ForGood
    <2>n. NoAlert # a
      BY LifecycleAssumption
    <2>2. ASSUME NEW r \in Requests, ResolveSnapshot(r), req[r].alert = a
          PROVE status'[a] \in ForGood
      BY <2>2, ReadsStay DEF ResolveSnapshot, Held, At
    <2>3. ASSUME NEW r \in Requests, ResolveStory(r), req[r].alert = a
          PROVE status'[a] \in ForGood
      BY <2>3, ReadsStay DEF ResolveStory, Held, At
    <2>4. ASSUME NEW r \in Requests, ResolveSnapshot(r) PROVE status'[a] \in ForGood
      BY <2>4, <2>1, <2>2 DEF ResolveSnapshot, TypeOK
    <2>5. ASSUME NEW r \in Requests, ResolveStory(r) PROVE status'[a] \in ForGood
      BY <2>5, <2>1, <2>3 DEF ResolveStory
    <2>6. ASSUME NEW r \in Requests, CreateQueue(r) PROVE status'[a] \in ForGood
      BY <2>6, <2>1 DEF CreateQueue
    <2>7. ASSUME NEW r \in Requests, ResolveClear(r) PROVE status'[a] \in ForGood
      BY <2>7, <2>1, <2>n DEF ResolveClear, TypeOK
    <2>8. ASSUME NEW p \in Pets, PurgeSnapshot(p) PROVE status'[a] \in ForGood
      BY <2>8, <2>1, <2>n DEF PurgeSnapshot, TypeOK
    <2>9. CASE UNCHANGED <<queued, snapshot>>
      BY <2>9, <2>1
    <2> QED
      BY <2>4, <2>5, <2>6, <2>7, <2>8, <2>9, ZenonT(30)
      DEF Next, RequestStep, AlertController, PetController, vars, alertVars, CreateRead, CreateMark, CreateInsert,
          ResolveRead, ResolveWrite, CancelRead, CancelWrite, CancelCount, CancelClear,
          RenewRead, RenewWrite, MissingRead, MissingWrite, FoundRead, FoundWrite,
          FoundList, FoundResolve, Abort, Tick, CheckExpired, UpdatePet, DeletePet
  <1> QED
    BY <1>1, <1>2, Inductive, PTL DEF Spec

\* No alert ever refers to a deleted pet.
THEOREM ReferencesLive == Spec => []NoDanglingPet
  <1>1. Init => NoDanglingPet
    BY LifecycleAssumption DEF Init, NoDanglingPet
  <1>2. TypeOK /\ Held /\ NoDanglingPet /\ [Next]_vars => NoDanglingPet'
    <2> SUFFICES ASSUME TypeOK, Held, NoDanglingPet, [Next]_vars
                 PROVE NoDanglingPet'
      OBVIOUS
    <2> USE DEF NoDanglingPet, TypeOK
    <2>1. ASSUME NEW r \in Requests, NEW a \in Alerts, CreateInsert(r, a)
          PROVE NoDanglingPet'
      BY <2>1 DEF CreateInsert, alertVars
    <2>2. ASSUME NEW p \in Pets, DeletePet(p) PROVE NoDanglingPet'
      BY <2>2, LifecycleAssumption DEF DeletePet
    <2>3. ASSUME NEW r \in Requests,
                 CreateMark(r) \/ CancelClear(r) \/ MissingWrite(r) \/ FoundWrite(r)
          PROVE NoDanglingPet'
      <3>1. req[r].pet \in Pets
        BY <2>3 DEF Held, HoldsPet, At, CreateMark, CancelClear, MissingWrite, FoundWrite
      <3> QED
        BY <2>3, <3>1 DEF CreateMark, CancelClear, MissingWrite, FoundWrite, alertVars
    <2>4. CASE UNCHANGED <<petOf, pet>>
      BY <2>4
    <2>5. ASSUME NEW p \in Pets, NEW flag \in {"safe", "missing"}, UpdatePet(p, flag)
          PROVE NoDanglingPet'
      BY <2>5 DEF UpdatePet, alertVars
    <2> QED
      BY <2>1, <2>2, <2>3, <2>4, <2>5, ZenonT(30)
      DEF Next, RequestStep, AlertController, PetController, vars, alertVars, CreateRead, CreateQueue, ResolveRead,
          ResolveWrite, ResolveClear, ResolveSnapshot, ResolveStory, CancelRead,
          CancelWrite, CancelCount, RenewRead, RenewWrite, MissingRead, FoundRead,
          FoundList, FoundResolve, Abort, Tick, CheckExpired, PurgeSnapshot
  <1> QED
    BY <1>1, <1>2, Inductive, PTL DEF Spec

\* What the read of a request that nobody overtook still says when it writes: a
\* create inserts with its pet flagged, a cancel clears with no live alert left.
ReadsHold ==
  \A r \in Requests \ late :
    /\ req[r].pc = "create_insert" /\ req[r].pet \in Pets => pet[req[r].pet] # "safe"
    /\ req[r].pc = "cancel_clear" => LiveAlertsOf(req[r].pet) = {}

\* Only an INSERT makes an alert live, and no alert moves to another pet.
LEMMA LiveFrom ==
  ASSUME TypeOK, Held, [Next]_vars, NEW a \in Alerts, status'[a] = "ACTIVE", petOf'[a] \in Pets,
         ~\E r \in Requests : CreateInsert(r, a)
  PROVE  status[a] = "ACTIVE" /\ petOf'[a] = petOf[a]
  <1> USE DEF TypeOK, Closed
  <1>1. ASSUME NEW r \in Requests, NEW b \in Alerts \ {a}, CreateInsert(r, b)
        PROVE  status'[a] = status[a] /\ petOf'[a] = petOf[a]
    BY <1>1 DEF CreateInsert, alertVars
  <1>2. ASSUME NEW r \in Requests, ResolveWrite(r) \/ CancelWrite(r)
        PROVE  status[a] = "ACTIVE" /\ petOf'[a] = petOf[a]
    BY <1>2 DEF ResolveWrite, CancelWrite
  <1>3. ASSUME NEW r \in Requests, FoundResolve(r)
        PROVE  status[a] = "ACTIVE" /\ petOf'[a] = petOf[a]
    BY <1>3 DEF FoundResolve
  <1>4. ASSUME CheckExpired
        PROVE  status[a] = "ACTIVE" /\ petOf'[a] = petOf[a]
    BY <1>4 DEF CheckExpired
  <1>5. ASSUME NEW p \in Pets, DeletePet(p)
        PROVE  status[a] = "ACTIVE" /\ petOf'[a] = petOf[a]
    BY <1>5, LifecycleAssumption DEF DeletePet
  <1>6. ASSUME UNCHANGED <<status, petOf>>
        PROVE  status[a] = "ACTIVE" /\ petOf'[a] = petOf[a]
    BY <1>6
  <1> QED
    BY <1>1, <1>2, <1>3, <1>4, <1>5, <1>6, ZenonT(30)
    DEF Next, RequestStep, AlertController, PetController, vars, alertVars, CreateRead, CreateMark,
        CreateQueue, ResolveRead, ResolveClear, ResolveSnapshot, ResolveStory, CancelRead,
        CancelCount, CancelClear, RenewRead, RenewWrite, MissingRead, MissingWrite, FoundRead,
        FoundWrite, FoundList, Abort, Tick, PurgeSnapshot, UpdatePet

\* A flag is cleared by three statements, and each marks the creates it overtakes.
LEMMA FlagCleared ==
  ASSUME TypeOK, Held, [Next]_vars, NEW p \in Pets, pet'[p] = "safe", pet[p] # "safe"
  PROVE  /\ \/ \E r \in About("cancel_clear", p) : CancelClear(r)
            \/ \E r \in About("found_write", p) : FoundWrite(r) /\ At(r, "found_list")'
            \/ UpdatePet(p, "safe")
         /\ \A q \in About("create_insert", p) : q \in late' /\ req'[q] = req[q]
  <1> USE DEF TypeOK
  <1> DEFINE Goal ==
        /\ \/ \E r \in About("cancel_clear", p) : CancelClear(r)
           \/ \E r \in About("found_write", p) : FoundWrite(r) /\ At(r, "found_list")'
           \/ UpdatePet(p, "safe")
        /\ \A q \in About("create_insert", p) : q \in late' /\ req'[q] = req[q]
  <1>1. ASSUME NEW r \in Requests, CancelClear(r) PROVE Goal
    <2>1. req[r].pet \in Pets /\ req[r].pc = "cancel_clear"
      BY <1>1 DEF CancelClear, At, Held, HoldsPet
    <2>2. req[r].pet = p
      BY <1>1, <2>1 DEF CancelClear
    <2>3. \A q \in About("create_insert", p) : q # r /\ q \in late' /\ req'[q] = req[q]
      BY <1>1, <2>1, <2>2 DEF CancelClear, About
    <2> QED
      BY <1>1, <2>1, <2>2, <2>3 DEF About
  <1>2. ASSUME NEW r \in Requests, FoundWrite(r) PROVE Goal
    <2>1. req[r].pet \in Pets /\ req[r].pc = "found_write"
      BY <1>2 DEF FoundWrite, At, Held, HoldsPet
    <2>2. /\ pet' = [pet EXCEPT ![req[r].pet] = "safe"]
          /\ req' = [req EXCEPT ![r].pc = "found_list"]
          /\ late' = late \cup About("create_insert", req[r].pet)
      BY <1>2 DEF FoundWrite
    <2>3. req[r].pet = p
      BY <2>1, <2>2
    <2>4. \A q \in About("create_insert", p) : q # r /\ q \in late' /\ req'[q] = req[q]
      BY <2>1, <2>2, <2>3 DEF About
    <2>5. req'[r].pc = "found_list"
      BY <2>2 DEF Request
    <2> QED
      BY <1>2, <2>1, <2>3, <2>4, <2>5 DEF About, At
  <1>3. ASSUME NEW o \in Pets, NEW flag \in {"safe", "missing"}, UpdatePet(o, flag) PROVE Goal
    <2>1. o = p /\ flag = "safe"
      BY <1>3 DEF UpdatePet
    <2> QED
      BY <1>3, <2>1 DEF UpdatePet, About
  <1>4. ASSUME NEW r \in Requests, CreateMark(r) \/ MissingWrite(r) PROVE FALSE
    BY <1>4 DEF CreateMark, MissingWrite
  <1>5. ASSUME NEW o \in Pets, DeletePet(o) PROVE FALSE
    BY <1>5 DEF DeletePet
  <1>6. CASE UNCHANGED pet
    BY <1>6
  <1> QED
    BY <1>1, <1>2, <1>3, <1>4, <1>5, <1>6, ZenonT(30)
    DEF Next, RequestStep, AlertController, PetController, vars, alertVars, CreateRead, CreateInsert,
        CreateQueue, ResolveRead, ResolveWrite, ResolveClear, ResolveSnapshot, ResolveStory,
        CancelRead, CancelWrite, CancelCount, RenewRead, RenewWrite, MissingRead, FoundRead,
        FoundList, FoundResolve, Abort, Tick, CheckExpired, PurgeSnapshot

\* A request about to insert or to clear has just read, or has not moved.
LEMMA Writers ==
  ASSUME TypeOK, [Next]_vars, NEW q \in Requests, req'[q].pc \in {"create_insert", "cancel_clear"}
  PROVE  \/ \E p \in Pets \cup {NoPet} : CreateRead(q, p)
         \/ CreateMark(q) \/ CancelCount(q)
         \/ req'[q] = req[q] /\ (q \in late => q \in late')
  <1> DEFINE Still == req'[q] = req[q] /\ (q \in late => q \in late')
  <1>t. req \in [Requests -> Request]
    BY DEF TypeOK
  <1>d. ASSUME NEW r \in Requests, Done(r) PROVE Still
    BY <1>d, <1>t DEF Done, IdleRequest
  <1>g. ASSUME NEW r \in Requests, NEW step \in Steps \ {"create_insert", "cancel_clear"}, Goto(r, step)
        PROVE  Still
    BY <1>g, <1>t DEF Goto, Request
  <1>s. ASSUME NEW r \in Requests, NEW e, Start(r, e), e.pc \notin {"create_insert", "cancel_clear"}
        PROVE  Still
    BY <1>s, <1>t DEF Start
  <1> USE DEF Steps
  <1>1. ASSUME NEW r \in Requests, NEW p \in Pets \cup {NoPet}, CreateRead(r, p), r # q
        PROVE  Still
    BY <1>1, <1>t DEF CreateRead, Start
  <1>2. ASSUME NEW r \in Requests, CreateMark(r), r # q PROVE Still
    BY <1>2, <1>d, <1>t DEF CreateMark, Goto
  <1>3. ASSUME NEW r \in Requests, NEW a \in Alerts, CreateInsert(r, a) PROVE Still
    <2>1. CASE Done(r)
      BY <1>d, <2>1
    <2>2. CASE req' = [req EXCEPT ![r].pc = "create_queue", ![r].alert = a]
               /\ late' = (late \ {r}) \cup About("cancel_clear", req[r].pet)
      BY <1>t, <2>2 DEF Request
    <2> QED
      BY <1>3, <2>1, <2>2 DEF CreateInsert
  <1>4. ASSUME NEW r \in Requests,
               \/ CreateQueue(r) \/ ResolveStory(r) \/ RenewWrite(r) \/ MissingWrite(r)
               \/ FoundResolve(r) \/ Abort(r)
        PROVE  Still
    BY <1>4, <1>d DEF CreateQueue, ResolveStory, RenewWrite, MissingWrite, FoundResolve, Abort
  <1>5. ASSUME NEW r \in Requests, ResolveWrite(r) \/ ResolveClear(r) \/ ResolveSnapshot(r) \/ CancelWrite(r)
        PROVE  Still
    BY <1>5, <1>d, <1>g DEF ResolveWrite, ResolveClear, ResolveSnapshot, CancelWrite
  <1>6. ASSUME NEW r \in Requests, NEW a \in Alerts, NEW found \in BOOLEAN, NEW share \in BOOLEAN,
               ResolveRead(r, a, found, share) \/ CancelRead(r, a) \/ RenewRead(r, a)
        PROVE  Still
    BY <1>6, <1>s DEF ResolveRead, CancelRead, RenewRead, IdleRequest
  <1>7. ASSUME NEW r \in Requests, NEW p \in Pets, MissingRead(r, p) \/ FoundRead(r, p)
        PROVE  Still
    BY <1>7, <1>s DEF MissingRead, FoundRead, IdleRequest
  <1>8. ASSUME NEW r \in Requests, CancelCount(r), r # q PROVE Still
    BY <1>8, <1>d, <1>t DEF CancelCount, Goto
  <1>9. ASSUME NEW r \in Requests, CancelClear(r) PROVE Still
    BY <1>9, <1>t DEF CancelClear, IdleRequest
  <1>10. ASSUME NEW r \in Requests, FoundWrite(r) PROVE Still
    <2>1. CASE Done(r)
      BY <1>d, <2>1
    <2>2. CASE req' = [req EXCEPT ![r].pc = "found_list"]
               /\ late' = late \cup About("create_insert", req[r].pet)
      BY <1>t, <2>2 DEF Request
    <2> QED
      BY <1>10, <2>1, <2>2 DEF FoundWrite
  <1>11. ASSUME NEW r \in Requests, FoundList(r) PROVE Still
    BY <1>11, <1>d, <1>t DEF FoundList, Request
  <1>12. ASSUME NEW p \in Pets, NEW flag \in {"safe", "missing"}, UpdatePet(p, flag) PROVE Still
    BY <1>12 DEF UpdatePet
  <1>13. CASE UNCHANGED <<req, late>>
    BY <1>13
  <1> QED
    BY <1>1, <1>2, <1>3, <1>4, <1>5, <1>6, <1>7, <1>8, <1>9, <1>10, <1>11, <1>12, <1>13, ZenonT(60)
    DEF Next, RequestStep, AlertController, PetController, Tick, CheckExpired, PurgeSnapshot, DeletePet, vars

\* A request that nobody overtakes keeps a true reading.
LEMMA StepReadsHold == TypeOK /\ Held /\ ReadsHold /\ [Next]_vars => ReadsHold'
  <1> SUFFICES ASSUME TypeOK, Held, ReadsHold, [Next]_vars, NEW q \in Requests, q \notin late'
               PROVE  /\ req'[q].pc = "create_insert" /\ req'[q].pet \in Pets => pet'[req'[q].pet] # "safe"
                      /\ req'[q].pc = "cancel_clear" =>
                           \A a \in Alerts : status'[a] = "ACTIVE" => petOf'[a] # req'[q].pet
    BY DEF ReadsHold, LiveAlertsOf
  <1> DEFINE p == req'[q].pet
  <1>t. req \in [Requests -> Request] /\ pet \in [Pets -> {"gone", "safe", "missing"}]
    BY DEF TypeOK
  <1>1. ASSUME req'[q].pc = "create_insert", p \in Pets PROVE pet'[p] # "safe"
    <2>1. ASSUME NEW o \in Pets \cup {NoPet}, CreateRead(q, o) PROVE pet'[p] # "safe"
      BY <1>1, <1>t, <2>1 DEF CreateRead, Start, IdleRequest
    <2>2. CASE CreateMark(q)
      BY <1>1, <1>t, <2>2 DEF CreateMark, Goto, Done, IdleRequest, Request
    <2>3. CASE CancelCount(q)
      BY <1>1, <1>t, <2>3 DEF CancelCount, Goto, Done, IdleRequest, Request
    <2>4. CASE req'[q] = req[q] /\ q \notin late
      <3>1. pet[p] # "safe" /\ q \in About("create_insert", p)
        BY <1>1, <2>4 DEF ReadsHold, About
      <3> QED
        BY <1>1, <3>1, FlagCleared
    <2> QED
      BY <1>1, <2>1, <2>2, <2>3, <2>4, Writers
  <1>2. ASSUME req'[q].pc = "cancel_clear"
        PROVE  \A a \in Alerts : status'[a] = "ACTIVE" => petOf'[a] # p
    <2>1. ASSUME NEW o \in Pets \cup {NoPet}, CreateRead(q, o) PROVE FALSE
      BY <1>2, <1>t, <2>1 DEF CreateRead, Start, IdleRequest
    <2>2. CASE CreateMark(q)
      BY <1>2, <1>t, <2>2 DEF CreateMark, Goto, Done, IdleRequest, Request
    <2>3. CASE CancelCount(q)
      <3>1. LiveAlertsOf(req[q].pet) = {} /\ req'[q].pet = req[q].pet /\ UNCHANGED <<status, petOf>>
        BY <1>2, <1>t, <2>3 DEF CancelCount, Goto, Done, IdleRequest, Request, alertVars
      <3> QED
        BY <3>1 DEF LiveAlertsOf
    <2>4. CASE req'[q] = req[q] /\ q \notin late
      <3>1. LiveAlertsOf(p) = {} /\ q \in About("cancel_clear", p) /\ p \in Pets
        BY <1>2, <2>4 DEF ReadsHold, About, Held, HoldsPet
      <3>2. ASSUME NEW a \in Alerts, status'[a] = "ACTIVE", petOf'[a] = p PROVE FALSE
        <4>1. ASSUME NEW r \in Requests, CreateInsert(r, a) PROVE FALSE
          <5>1. status[a] = "NONE" /\ status'[a] # status[a]
            BY <3>2, <4>1 DEF CreateInsert
          <5>2. petOf'[a] = req[r].pet /\ late' = (late \ {r}) \cup About("cancel_clear", req[r].pet)
            BY <4>1, <5>1 DEF CreateInsert, TypeOK, alertVars
          <5> QED
            BY <3>1, <3>2, <5>2
        <4>2. CASE ~\E r \in Requests : CreateInsert(r, a)
          BY <3>1, <3>2, <4>2, LiveFrom DEF LiveAlertsOf
        <4> QED
          BY <4>1, <4>2
      <3> QED
        BY <3>2
    <2> QED
      BY <1>2, <2>1, <2>2, <2>3, <2>4, Writers
  <1> QED
    BY <1>1, <1>2

\* A "pet found" past its first write goes on by its own steps, or is aborted.
LEMMA FoundMoves ==
  ASSUME TypeOK, [Next]_vars, NEW r \in Requests, req[r].pc \in {"found_list", "found_resolve"},
         req'[r] # req[r]
  PROVE  FoundList(r) \/ FoundResolve(r) \/ Abort(r)
  <1> USE DEF TypeOK, At, Start, Done, Goto
  <1>1. ASSUME NEW q \in Requests, NEW p \in Pets \cup {NoPet}, CreateRead(q, p) PROVE FALSE
    BY <1>1 DEF CreateRead
  <1>2. ASSUME NEW q \in Requests, NEW a \in Alerts, NEW found \in BOOLEAN, NEW share \in BOOLEAN,
               ResolveRead(q, a, found, share) \/ CancelRead(q, a) \/ RenewRead(q, a)
        PROVE  FALSE
    BY <1>2 DEF ResolveRead, CancelRead, RenewRead
  <1>3. ASSUME NEW q \in Requests, NEW p \in Pets, MissingRead(q, p) \/ FoundRead(q, p) PROVE FALSE
    BY <1>3 DEF MissingRead, FoundRead
  <1>4. ASSUME NEW q \in Requests, NEW a \in Alerts, CreateInsert(q, a) PROVE FALSE
    BY <1>4 DEF CreateInsert
  <1>5. ASSUME NEW q \in Requests, CreateMark(q) \/ CreateQueue(q) \/ ResolveWrite(q) \/ ResolveClear(q)
        PROVE  FALSE
    BY <1>5 DEF CreateMark, CreateQueue, ResolveWrite, ResolveClear
  <1>6. ASSUME NEW q \in Requests, ResolveSnapshot(q) \/ ResolveStory(q) \/ CancelWrite(q) \/ CancelCount(q)
        PROVE  FALSE
    BY <1>6 DEF ResolveSnapshot, ResolveStory, CancelWrite, CancelCount
  <1>7. ASSUME NEW q \in Requests, CancelClear(q) \/ RenewWrite(q) \/ MissingWrite(q) \/ FoundWrite(q)
        PROVE  FALSE
    BY <1>7 DEF CancelClear, RenewWrite, MissingWrite, FoundWrite
  <1>8. ASSUME NEW q \in Requests, q # r, FoundList(q) \/ FoundResolve(q) \/ Abort(q) PROVE FALSE
    BY <1>8 DEF FoundList, FoundResolve, Abort
  <1>9. CASE req' = req
    BY <1>9
  <1> QED
    BY <1>1, <1>2, <1>3, <1>4, <1>5, <1>6, <1>7, <1>8, <1>9, ZenonT(60)
    DEF Next, RequestStep, AlertController, PetController, Tick, CheckExpired, PurgeSnapshot, UpdatePet,
        DeletePet, vars

\* A live alert's pet loses its flag only as LiveAlertsStayFlagged says, for any
\* number of overlapping requests.
LEMMA StepStaysFlagged ==
  ASSUME TypeOK, Held, ReadsHold, [Next]_vars,
         NEW a \in Alerts, ~Unflagged(a), Unflagged(a)'
  PROVE  \/ \E p \in Pets : UpdatePet(p, "safe")
         \/ \E r \in Requests : req[r].pc \in {"found_list", "found_resolve"} /\ Abort(r)
         \/ \E r \in late : req'[r].pc # req[r].pc
  <1> DEFINE p == petOf'[a]
  <1>t. /\ req \in [Requests -> Request] /\ status \in [Alerts -> {"NONE", "ACTIVE"} \cup Closed]
        /\ late \subseteq Requests
    BY DEF TypeOK
  <1>n. status'[a] = "ACTIVE" /\ p \in Pets /\ pet'[p] = "safe"
    BY DEF Unflagged
  \* The INSERT of an alert whose pet is not flagged is that of a create overtaken.
  <1>1. ASSUME NEW r \in Requests, CreateInsert(r, a), r \notin late PROVE FALSE
    <2>1. status[a] = "NONE" /\ status'[a] # status[a] /\ req[r].pc = "create_insert"
      BY <1>1, <1>n DEF CreateInsert, At
    <2>2. p = req[r].pet /\ pet'[p] = pet[p]
      BY <1>1, <2>1 DEF CreateInsert, TypeOK, alertVars
    <2> QED
      BY <1>1, <1>n, <2>1, <2>2 DEF ReadsHold
  <1>2. ASSUME NEW r \in Requests, CreateInsert(r, a) PROVE req'[r].pc # req[r].pc
    <2>1. req[r].pc = "create_insert"
      BY <1>2 DEF CreateInsert, At
    <2> QED
      BY <1>2, <1>t, <2>1 DEF CreateInsert, Done, IdleRequest, Request
  <1>3. SUFFICES ASSUME ~\E r \in Requests : CreateInsert(r, a),
                        ~UpdatePet(p, "safe"), ~\E r \in late : req'[r].pc # req[r].pc,
                        ~\E r \in Requests : req[r].pc \in {"found_list", "found_resolve"} /\ Abort(r)
                 PROVE  FALSE
    BY <1>1, <1>2, <1>n
  <1>4. status[a] = "ACTIVE" /\ petOf[a] = p
    BY <1>3, <1>n, LiveFrom
  \* A flag that is cleared now: by a cancel that counted no live alert, or by a
  \* "pet found" that has yet to close this one.
  <1>5. ASSUME pet[p] # "safe" PROVE FALSE
    <2>1. ASSUME NEW r \in About("cancel_clear", p), CancelClear(r) PROVE FALSE
      <3>1. r \in Requests /\ req[r].pc = "cancel_clear" /\ req[r].pet = p
        BY <2>1 DEF About
      <3>2. r \in late
        BY <1>4, <3>1 DEF ReadsHold, LiveAlertsOf
      <3>3. req'[r].pc # req[r].pc
        BY <1>t, <2>1, <3>1 DEF CancelClear, IdleRequest
      <3> QED
        BY <1>3, <3>2, <3>3
    <2>2. ASSUME NEW r \in About("found_write", p), FoundWrite(r), At(r, "found_list")' PROVE FALSE
      <3>1. r \in Requests /\ req[r].pet = p
        BY <2>2 DEF About
      <3>2. req'[r].pc = "found_list" /\ req'[r].pet = p
        BY <1>t, <2>2, <3>1 DEF FoundWrite, At, Done, IdleRequest, Request
      <3> QED
        BY <3>1, <3>2 DEF Unflagged, At
    <2> QED
      BY <1>3, <1>5, <1>n, <2>1, <2>2, FlagCleared
  \* The flag was cleared before: the "pet found" that covers the alert goes on.
  <1>6. ASSUME pet[p] = "safe" PROVE FALSE
    <2>0. status[a] = "ACTIVE" /\ petOf[a] \in Pets /\ pet[petOf[a]] = "safe"
      BY <1>4, <1>6, <1>n
    <2>1. PICK r \in Requests :
            \/ req[r].pc = "found_list" /\ req[r].pet = p
            \/ req[r].pc = "found_resolve" /\ a \in req[r].list
      BY <1>4, <2>0 DEF Unflagged, At
    <2>2. req'[r] # req[r]
      BY <2>1 DEF Unflagged, At
    <2>3. CASE FoundList(r)
      <3>1. a \in LiveAlertsOf(req[r].pet) /\ req[r].pc = "found_list"
        BY <1>4, <2>1, <2>3 DEF LiveAlertsOf, FoundList, At
      <3>2. req'[r].pc = "found_resolve" /\ a \in req'[r].list
        BY <1>t, <2>1, <2>3, <3>1 DEF FoundList, Request
      <3> QED
        BY <3>2 DEF Unflagged, At
    <2>4. CASE FoundResolve(r)
      BY <1>4, <1>n, <2>1, <2>4 DEF FoundResolve, At
    <2> QED
      BY <1>3, <2>1, <2>2, <2>3, <2>4, FoundMoves
  <1> QED
    BY <1>5, <1>6

\* A live alert keeps its pet flagged but for the owner's own write, a "pet found"
\* that stops half-way and requests that were overtaken: alert.service.ts:699,
\* pet.service.ts:343.
THEOREM FlagSafe == Spec => LiveAlertsStayFlagged
  <1>1. Init => TypeOK /\ Held /\ ReadsHold
    BY InitType, InitHeld DEF Init, ReadsHold, IdleRequest
  <1>2. TypeOK /\ Held /\ ReadsHold /\ [Next]_vars => (TypeOK /\ Held /\ ReadsHold)'
    BY StepType, StepHeld, StepReadsHold
  <1>3. TypeOK /\ Held /\ ReadsHold /\ [Next]_vars =>
          [\A a \in Alerts : ~Unflagged(a) /\ Unflagged(a)' =>
             \/ \E p \in Pets : UpdatePet(p, "safe")
             \/ \E r \in Requests : req[r].pc \in {"found_list", "found_resolve"} /\ Abort(r)
             \/ \E r \in late : req'[r].pc # req[r].pc]_vars
    BY StepStaysFlagged
  <1> QED
    BY <1>1, <1>2, <1>3, PTL DEF Spec, LiveAlertsStayFlagged
================================================================================
