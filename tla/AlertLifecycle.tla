----------------------------- MODULE AlertLifecycle -----------------------------
(***************************************************************************)
(* The life of missing-pet alerts: AlertService (create, resolve, cancel,  *)
(* renew, the hourly expiry), PetService (markAsMissing, markAsFound,      *)
(* deletePet) and ReunionSnapshotService.                                  *)
(*                                                                         *)
(* Every handler is a sequence of awaited statements without a            *)
(* transaction, so requests interleave between any two of them.  A request *)
(* is a slot r of Requests: req[r] holds the statement it will execute     *)
(* next and what it has read so far.  One action is one awaited statement  *)
(* together with the synchronous code up to the next await.                *)
(*                                                                         *)
(* Left out: requests refused with 403/404 or by the rate limiter, which   *)
(* runs before create's first statement: they change nothing; the texts,   *)
(* locations and photos of an alert; status DRAFT, which no code path      *)
(* writes.                                                                 *)
(***************************************************************************)
EXTENDS Naturals, FiniteSets

CONSTANTS
  Alerts,       \* ids an INSERT can be given
  Pets,         \* pet rows; a pet's tag id stands for the pet
  Requests,     \* request slots: how many handlers are in flight at once
  MaxRenewals,  \* 3 in the code
  Faults,       \* TRUE: an awaited statement may fail, or the process stop
  NoAlert, NoPet

ASSUME LifecycleAssumption ==
  /\ MaxRenewals \in Nat
  /\ Faults \in BOOLEAN
  /\ NoAlert \notin Alerts
  /\ NoPet \notin Pets

VARIABLES
  status,    \* alert.status; "NONE" is a row not inserted yet
  petOf,     \* alert.pet_id
  overdue,   \* alert.expires_at < NOW()
  renewals,  \* alert.renewal_count
  pet,       \* pet row: "gone", or its isMissing flag: "safe", "missing"
  snapshot,  \* reunion_snapshot: the alert id stored under each pet's tag
  queued,    \* jobs handed to BullMQ: <<"waves", a>> and <<"story", a>>
  req,       \* the in-flight requests
  late       \* history: requests about to write on a read that is no longer so

vars == <<status, petOf, overdue, renewals, pet, snapshot, queued, req, late>>

Closed == {"RESOLVED", "CANCELLED", "EXPIRED"}

Steps == {"idle",
          "create_mark", "create_insert", "create_queue",
          "resolve_write", "resolve_clear", "resolve_snapshot", "resolve_story",
          "cancel_write", "cancel_count", "cancel_clear",
          "renew_write", "missing_write",
          "found_write", "found_list", "found_resolve"}

\* What a handler carries across an await.
Request == [pc    : Steps,
            alert : Alerts \cup {NoAlert},
            pet   : Pets \cup {NoPet},
            count : Nat,             \* renew: the renewal_count it read
            list  : SUBSET Alerts,   \* markAsFound: the ACTIVE alerts it read
            share : BOOLEAN]         \* resolve: dto.shareSuccessStory

IdleRequest == [pc |-> "idle", alert |-> NoAlert, pet |-> NoPet,
                count |-> 0, list |-> {}, share |-> FALSE]

TypeOK ==
  /\ status \in [Alerts -> {"NONE", "ACTIVE"} \cup Closed]
  /\ petOf \in [Alerts -> Pets \cup {NoPet}]
  /\ overdue \in [Alerts -> BOOLEAN]
  /\ renewals \in [Alerts -> Nat]
  /\ pet \in [Pets -> {"gone", "safe", "missing"}]
  /\ snapshot \in [Pets -> Alerts \cup {NoAlert}]
  /\ queued \subseteq {"waves", "story"} \X Alerts
  /\ req \in [Requests -> Request]
  /\ late \subseteq Requests

Init ==
  /\ status = [a \in Alerts |-> "NONE"]
  /\ petOf = [a \in Alerts |-> NoPet]
  /\ overdue = [a \in Alerts |-> FALSE]
  /\ renewals = [a \in Alerts |-> 0]
  /\ pet = [p \in Pets |-> "safe"]
  /\ snapshot = [p \in Pets |-> NoAlert]
  /\ queued = {}
  /\ req = [r \in Requests |-> IdleRequest]
  /\ late = {}

--------------------------------------------------------------------------------
(* Request plumbing *)

At(r, step) == req[r].pc = step

Done(r) == req' = [req EXCEPT ![r] = IdleRequest] /\ late' = late \ {r}

Goto(r, step) == req' = [req EXCEPT ![r].pc = step] /\ UNCHANGED late

Start(r, request) ==
  At(r, "idle") /\ req' = [req EXCEPT ![r] = request] /\ UNCHANGED late

\* The requests of pet p about to execute a step.
About(step, p) == {r \in Requests : req[r].pc = step /\ req[r].pet = p}

alertVars == <<status, petOf, overdue, renewals>>

--------------------------------------------------------------------------------
(* AlertService.create *)

\* Bound: a create starts only while an id of Alerts is left for its INSERT.
IdLeft ==
  Cardinality({a \in Alerts : status[a] = "NONE"}) >
  Cardinality({r \in Requests : req[r].pc \in {"create_mark", "create_insert"}})

\* Reads the pet; a pet already missing needs no update.
CreateRead(r, p) ==
  /\ IdLeft
  /\ p \in Pets => pet[p] # "gone"
  /\ Start(r, [IdleRequest EXCEPT
                 !.pet = p,
                 !.pc = IF p \in Pets /\ pet[p] = "safe"
                        THEN "create_mark" ELSE "create_insert"])
  /\ UNCHANGED <<alertVars, pet, snapshot, queued>>

\* pet.update by id: fails when the pet was deleted in the meantime.
CreateMark(r) ==
  LET p == req[r].pet IN
  /\ At(r, "create_mark")
  /\ \/ pet[p] = "gone" /\ Done(r) /\ UNCHANGED pet
     \/ /\ pet[p] # "gone"
        /\ pet' = [pet EXCEPT ![p] = "missing"]
        /\ Goto(r, "create_insert")
  /\ UNCHANGED <<alertVars, snapshot, queued>>

\* INSERT ... 'ACTIVE'; the foreign key refuses a deleted pet.
CreateInsert(r, a) ==
  LET p == req[r].pet IN
  /\ At(r, "create_insert")
  /\ status[a] = "NONE"
  /\ \/ /\ p \in Pets /\ pet[p] = "gone"
        /\ Done(r)
        /\ UNCHANGED alertVars
     \/ /\ p \in Pets => pet[p] # "gone"
        /\ status' = [status EXCEPT ![a] = "ACTIVE"]
        /\ petOf' = [petOf EXCEPT ![a] = p]
        /\ UNCHANGED <<overdue, renewals>>
        /\ req' = [req EXCEPT ![r].pc = "create_queue", ![r].alert = a]
        /\ late' = (late \ {r}) \cup About("cancel_clear", p)
  /\ UNCHANGED <<pet, snapshot, queued>>

CreateQueue(r) ==
  /\ At(r, "create_queue")
  /\ queued' = queued \cup {<<"waves", req[r].alert>>}
  /\ Done(r)
  /\ UNCHANGED <<alertVars, pet, snapshot>>

--------------------------------------------------------------------------------
(* AlertService.resolve and ReunionSnapshotService.upsertForResolvedAlert *)

\* The only status refused is RESOLVED: an EXPIRED or CANCELLED alert resolves.
\* The step after the UPDATE depends on the outcome: only a found outcome of a
\* pet with a tag writes a snapshot, so other outcomes carry no pet along.
ResolveRead(r, a, found, share) ==
  /\ status[a] \notin {"NONE", "RESOLVED"}
  /\ Start(r, [IdleRequest EXCEPT
                 !.pc = "resolve_write", !.alert = a, !.share = share,
                 !.pet = IF found THEN petOf[a] ELSE NoPet])
  /\ UNCHANGED <<alertVars, pet, snapshot, queued>>

\* UPDATE by id alone: whatever the status is by now, it becomes RESOLVED.
ResolveWrite(r) ==
  /\ At(r, "resolve_write")
  /\ status' = [status EXCEPT ![req[r].alert] = "RESOLVED"]
  /\ \/ req[r].pet \in Pets /\ Goto(r, "resolve_clear")
     \/ req[r].pet = NoPet /\ Done(r)
  /\ UNCHANGED <<petOf, overdue, renewals, pet, snapshot, queued>>

\* deleteMany where tagId = tag or alertId = alert.
ResolveClear(r) ==
  /\ At(r, "resolve_clear")
  /\ snapshot' = [p \in Pets |-> IF p = req[r].pet \/ snapshot[p] = req[r].alert
                                 THEN NoAlert ELSE snapshot[p]]
  /\ Goto(r, "resolve_snapshot")
  /\ UNCHANGED <<alertVars, pet, queued>>

\* create: both tagId and alertId are unique, so a concurrent resolve that got
\* here first makes it fail, and the failure is swallowed.
ResolveSnapshot(r) ==
  LET p == req[r].pet
      a == req[r].alert
      conflict == snapshot[p] # NoAlert \/ \E q \in Pets : snapshot[q] = a IN
  /\ At(r, "resolve_snapshot")
  /\ \/ conflict /\ Done(r) /\ UNCHANGED snapshot
     \/ /\ ~conflict
        /\ snapshot' = [snapshot EXCEPT ![p] = a]
        /\ \/ req[r].share /\ Goto(r, "resolve_story")
           \/ ~req[r].share /\ Done(r)
  /\ UNCHANGED <<alertVars, pet, queued>>

\* queueSuccessStoryNotifications: the job id is the alert, so it queues once.
ResolveStory(r) ==
  /\ At(r, "resolve_story")
  /\ queued' = queued \cup {<<"story", req[r].alert>>}
  /\ Done(r)
  /\ UNCHANGED <<alertVars, pet, snapshot>>

\* purgeExpired and the lazy delete of findPublicByTagId: a row past its TTL,
\* which is not tracked, goes away.
PurgeSnapshot(p) ==
  /\ snapshot[p] # NoAlert
  /\ snapshot' = [snapshot EXCEPT ![p] = NoAlert]
  /\ UNCHANGED <<alertVars, pet, queued, req, late>>

--------------------------------------------------------------------------------
(* AlertService.cancel *)

CancelRead(r, a) ==
  /\ status[a] = "ACTIVE"
  /\ Start(r, [IdleRequest EXCEPT !.pc = "cancel_write", !.alert = a,
                                  !.pet = petOf[a]])
  /\ UNCHANGED <<alertVars, pet, snapshot, queued>>

\* UPDATE by id alone, as in resolve.
CancelWrite(r) ==
  /\ At(r, "cancel_write")
  /\ status' = [status EXCEPT ![req[r].alert] = "CANCELLED"]
  /\ \/ req[r].pet \in Pets /\ Goto(r, "cancel_count")
     \/ req[r].pet = NoPet /\ Done(r)
  /\ UNCHANGED <<petOf, overdue, renewals, pet, snapshot, queued>>

LiveAlertsOf(p) == {a \in Alerts : status[a] = "ACTIVE" /\ petOf[a] = p}

\* Mutant: the flag is cleared whatever alerts are still live.
Mut_CancelCount_skipped(r) ==
  /\ At(r, "cancel_count")
  /\ Goto(r, "cancel_clear")
  /\ UNCHANGED <<alertVars, pet, snapshot, queued>>

CancelCount(r) ==
  /\ At(r, "cancel_count")
  /\ \/ LiveAlertsOf(req[r].pet) = {} /\ Goto(r, "cancel_clear")
     \/ LiveAlertsOf(req[r].pet) # {} /\ Done(r)
  /\ UNCHANGED <<alertVars, pet, snapshot, queued>>

\* The update of a deleted pet fails and is swallowed.
CancelClear(r) ==
  LET p == req[r].pet IN
  /\ At(r, "cancel_clear")
  /\ pet' = IF pet[p] = "gone" THEN pet ELSE [pet EXCEPT ![p] = "safe"]
  /\ req' = [req EXCEPT ![r] = IdleRequest]
  /\ late' = (late \ {r}) \cup About("create_insert", p)
  /\ UNCHANGED <<alertVars, snapshot, queued>>

--------------------------------------------------------------------------------
(* AlertService.renew and AlertService.checkExpired *)

\* Mutant: off by one in the limit check.
Mut_RenewRead_atLimit(r, a) ==
  /\ status[a] \notin {"NONE", "CANCELLED"}
  /\ renewals[a] <= MaxRenewals
  /\ Start(r, [IdleRequest EXCEPT !.pc = "renew_write", !.alert = a,
                                  !.count = renewals[a]])
  /\ UNCHANGED <<alertVars, pet, snapshot, queued>>

RenewRead(r, a) ==
  /\ status[a] \notin {"NONE", "CANCELLED"}
  /\ renewals[a] < MaxRenewals
  /\ Start(r, [IdleRequest EXCEPT !.pc = "renew_write", !.alert = a,
                                  !.count = renewals[a]])
  /\ UNCHANGED <<alertVars, pet, snapshot, queued>>

\* Mutant: counts down, as if the column held the renewals remaining.
Mut_RenewWrite_countdown(r) ==
  LET a == req[r].alert IN
  /\ At(r, "renew_write")
  /\ renewals' = [renewals EXCEPT ![a] = req[r].count - 1]
  /\ overdue' = [overdue EXCEPT ![a] = FALSE]
  /\ Done(r)
  /\ UNCHANGED <<status, petOf, pet, snapshot, queued>>

\* Mutant: extends the alert without counting the renewal.
Mut_RenewWrite_uncounted(r) ==
  LET a == req[r].alert IN
  /\ At(r, "renew_write")
  /\ overdue' = [overdue EXCEPT ![a] = FALSE]
  /\ Done(r)
  /\ UNCHANGED <<status, petOf, renewals, pet, snapshot, queued>>

\* Mutant: a renewal also puts the alert back to ACTIVE.
Mut_RenewWrite_reactivates(r) ==
  LET a == req[r].alert IN
  /\ At(r, "renew_write")
  /\ status' = [status EXCEPT ![a] = "ACTIVE"]
  /\ renewals' = [renewals EXCEPT ![a] = req[r].count + 1]
  /\ overdue' = [overdue EXCEPT ![a] = FALSE]
  /\ Done(r)
  /\ UNCHANGED <<petOf, pet, snapshot, queued>>

\* Writes the count it read plus one; the status stays as it is.
RenewWrite(r) ==
  LET a == req[r].alert IN
  /\ At(r, "renew_write")
  /\ renewals' = [renewals EXCEPT ![a] = req[r].count + 1]
  /\ overdue' = [overdue EXCEPT ![a] = FALSE]
  /\ Done(r)
  /\ UNCHANGED <<status, petOf, pet, snapshot, queued>>

\* Seven days pass since the alert was created or last renewed.
Tick(a) ==
  /\ status[a] # "NONE" /\ ~overdue[a]
  /\ overdue' = [overdue EXCEPT ![a] = TRUE]
  /\ UNCHANGED <<status, petOf, renewals, pet, snapshot, queued, req, late>>

Expirable == {a \in Alerts : status[a] = "ACTIVE" /\ overdue[a]}

\* Mutant: the UPDATE lacks its condition on the status.
Mut_CheckExpired_anyStatus ==
  /\ \E a \in Alerts : overdue[a] /\ status[a] # "EXPIRED"
  /\ status' = [a \in Alerts |-> IF overdue[a] THEN "EXPIRED" ELSE status[a]]
  /\ UNCHANGED <<petOf, overdue, renewals, pet, snapshot, queued, req, late>>

\* One UPDATE ... WHERE expires_at < NOW() AND status = 'ACTIVE'.
CheckExpired ==
  /\ Expirable # {}
  /\ status' = [a \in Alerts |-> IF a \in Expirable THEN "EXPIRED" ELSE status[a]]
  /\ UNCHANGED <<petOf, overdue, renewals, pet, snapshot, queued, req, late>>

--------------------------------------------------------------------------------
(* PetService *)

MissingRead(r, p) ==
  /\ pet[p] = "safe"
  /\ Start(r, [IdleRequest EXCEPT !.pc = "missing_write", !.pet = p])
  /\ UNCHANGED <<alertVars, pet, snapshot, queued>>

MissingWrite(r) ==
  LET p == req[r].pet IN
  /\ At(r, "missing_write")
  /\ pet' = IF pet[p] = "gone" THEN pet ELSE [pet EXCEPT ![p] = "missing"]
  /\ Done(r)
  /\ UNCHANGED <<alertVars, snapshot, queued>>

FoundRead(r, p) ==
  /\ pet[p] = "missing"
  /\ Start(r, [IdleRequest EXCEPT !.pc = "found_write", !.pet = p])
  /\ UNCHANGED <<alertVars, pet, snapshot, queued>>

FoundWrite(r) ==
  LET p == req[r].pet IN
  /\ At(r, "found_write")
  /\ \/ pet[p] = "gone" /\ Done(r) /\ UNCHANGED pet
     \/ /\ pet[p] # "gone"
        /\ pet' = [pet EXCEPT ![p] = "safe"]
        /\ req' = [req EXCEPT ![r].pc = "found_list"]
        /\ late' = late \cup About("create_insert", p)
  /\ UNCHANGED <<alertVars, snapshot, queued>>

FoundList(r) ==
  LET live == LiveAlertsOf(req[r].pet) IN
  /\ At(r, "found_list")
  /\ \/ live = {} /\ Done(r)
     \/ /\ live # {}
        /\ req' = [req EXCEPT ![r].pc = "found_resolve", ![r].list = live]
        /\ UNCHANGED late
  /\ UNCHANGED <<alertVars, pet, snapshot, queued>>

\* updateMany where id in the list and status = ACTIVE: unlike resolve, the
\* condition is checked again by the statement that writes.
FoundResolve(r) ==
  /\ At(r, "found_resolve")
  /\ status' = [a \in Alerts |->
                  IF a \in req[r].list /\ status[a] = "ACTIVE"
                  THEN "RESOLVED" ELSE status[a]]
  /\ Done(r)
  /\ UNCHANGED <<petOf, overdue, renewals, pet, snapshot, queued>>

\* updatePet: its body may carry isMissing, which is written by id whatever
\* alerts are live.  Its other fields are followed in AlertContent.
UpdatePet(p, flag) ==
  /\ pet[p] # "gone"
  /\ pet' = [pet EXCEPT ![p] = flag]
  /\ late' = IF flag = "safe" THEN late \cup About("create_insert", p) ELSE late
  /\ UNCHANGED <<alertVars, snapshot, queued, req>>

\* Mutant: the alerts keep the id of the deleted pet.
Mut_DeletePet_keepsReference(p) ==
  /\ pet[p] # "gone"
  /\ pet' = [pet EXCEPT ![p] = "gone"]
  /\ UNCHANGED <<alertVars, snapshot, queued, req, late>>

\* pet.delete; alert.pet_id is ON DELETE SET NULL.
DeletePet(p) ==
  /\ pet[p] # "gone"
  /\ pet' = [pet EXCEPT ![p] = "gone"]
  /\ petOf' = [a \in Alerts |-> IF petOf[a] = p THEN NoPet ELSE petOf[a]]
  /\ UNCHANGED <<status, overdue, renewals, snapshot, queued, req, late>>

--------------------------------------------------------------------------------

\* A statement fails or the process stops: what was written stays written, the
\* rest of the handler is skipped.
Abort(r) ==
  /\ Faults
  /\ ~At(r, "idle")
  /\ Done(r)
  /\ UNCHANGED <<alertVars, pet, snapshot, queued>>

\* POST /alerts/:id/resolve, /cancel and /renew
AlertController(r, a) ==
  \/ \E found, share \in BOOLEAN : ResolveRead(r, a, found, share)
  \/ CancelRead(r, a)
  \/ RenewRead(r, a)

\* POST /pets/:id/missing and /found
PetController(r, p) == MissingRead(r, p) \/ FoundRead(r, p)

RequestStep(r) ==
  \/ \E a \in Alerts : AlertController(r, a)
  \/ \E p \in Pets : PetController(r, p)
  \/ \E p \in Pets \cup {NoPet} : CreateRead(r, p)
  \/ CreateMark(r)
  \/ \E a \in Alerts : CreateInsert(r, a)
  \/ CreateQueue(r)
  \/ ResolveWrite(r)
  \/ ResolveClear(r)
  \/ ResolveSnapshot(r)
  \/ ResolveStory(r)
  \/ CancelWrite(r)
  \/ CancelCount(r)
  \/ CancelClear(r)
  \/ RenewWrite(r)
  \/ MissingWrite(r)
  \/ FoundWrite(r)
  \/ FoundList(r)
  \/ FoundResolve(r)
  \/ Abort(r)

Next ==
  \/ \E r \in Requests : RequestStep(r)
  \/ \E a \in Alerts : Tick(a)
  \/ CheckExpired
  \/ \E p \in Pets, flag \in {"safe", "missing"} : UpdatePet(p, flag)
  \/ \E p \in Pets : PurgeSnapshot(p) \/ DeletePet(p)

\* Time passes and the hourly cron keeps running; nobody has to call anything.
Fairness ==
  /\ \A a \in Alerts : WF_vars(Tick(a))
  /\ WF_vars(CheckExpired)

Spec == Init /\ [][Next]_vars /\ Fairness

--------------------------------------------------------------------------------
(* Properties *)

\* A public "pet is home" card or a success-story job exists only for an alert
\* that is closed for good: no interleaving of resolve with the expiry cron, with
\* cancel or with "pet found" leaves one behind for an alert still being searched
\* for (resolve writes the status first and no operation makes it ACTIVE again).
CelebratedOnlyWhenClosed ==
  \A a \in Alerts :
    (<<"story", a>> \in queued \/ \E p \in Pets : snapshot[p] = a)
      => status[a] \in {"RESOLVED", "CANCELLED"}

\* renewal_count never exceeds the limit, although the check and the write are in
\* different statements and two renewals may pass the check together.
RenewalsCapped == \A a \in Alerts : renewals[a] <= MaxRenewals

\* An alert refers to a pet that exists, even when the pet is deleted between
\* create's check and its INSERT, or between a handler's read and its write.
NoDanglingPet == \A a \in Alerts : petOf[a] \in Pets => pet[petOf[a]] # "gone"

\* The status column behaves as module AlertStatus promises to its readers.
Contract == INSTANCE AlertStatus
StatusContract == Contract!Spec

\* No alert stays ACTIVE for ever: the cron ends it unless it is renewed, and the
\* cap ends the renewals even when stale writes move the counter back.
EveryAlertEnds == \A a \in Alerts : status[a] = "ACTIVE" ~> status[a] # "ACTIVE"

\* A live alert of a pet flagged safe that no "pet found" in progress will close.
Unflagged(a) ==
  /\ status[a] = "ACTIVE" /\ petOf[a] \in Pets /\ pet[petOf[a]] = "safe"
  /\ \A r \in Requests :
       /\ At(r, "found_list") => req[r].pet # petOf[a]
       /\ At(r, "found_resolve") => a \notin req[r].list

\* A live alert's pet loses its missing flag in known ways only: the owner writes
\* the flag itself, "pet found" stops half-way, or a create or a cancel writes after
\* a statement of another request has overtaken what it read: the flag was cleared
\* between create's look at it and its INSERT, or an alert was inserted between
\* cancel's count of the live ones and its clear.
LiveAlertsStayFlagged ==
  [][\A a \in Alerts : ~Unflagged(a) /\ Unflagged(a)' =>
       \/ \E p \in Pets : UpdatePet(p, "safe")
       \/ \E r \in Requests : req[r].pc \in {"found_list", "found_resolve"} /\ Abort(r)
       \/ \E r \in late : req'[r].pc # req[r].pc]_vars
================================================================================
