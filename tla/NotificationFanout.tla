---------------------------- MODULE NotificationFanout ----------------------------
(***************************************************************************)
(* The delivery of one alert: NotificationService puts wave jobs on the    *)
(* queue, NotificationQueueProcessor turns a wave job into notification    *)
(* rows, push jobs and emails, a push job into one call of a push          *)
(* provider, and the success-story job into thank-you rows and emails.     *)
(* Handlers of HTTP requests (closing the alert, reporting a sighting,     *)
(* registering a token, opening a notification) run between any two        *)
(* statements of a worker.                                                 *)
(*                                                                         *)
(* A match is a device and the representation of its ids: the alert-zone   *)
(* query of LocationService returns them as text, the five other queries   *)
(* hand the driver's numbers through.  The processor keys its maps by that *)
(* value, so the two never compare equal.                                  *)
(*                                                                         *)
(* Left out: excluded rows (written for auditing, and every query that is  *)
(* modelled skips them), push_enabled (a device that turned push off is    *)
(* one without a token), the wording of payloads, and the receipts of      *)
(* handleDeliveryReceipt, which nothing calls.                             *)
(***************************************************************************)
EXTENDS Naturals, Sequences, FiniteSets

CONSTANTS
  Users, Devices,
  Owner,         \* the user of each device
  Creator,       \* the user who reported the pet missing
  Waves,         \* the escalation waves that are queued, HIGH among them
  DailyCap,      \* DAILY_CAP_BY_CONFIDENCE
  Workers,       \* worker slots: concurrency of the queue over all processes
  Attempts,      \* attempts of a push job, 3 in the code
  Reports,       \* sightings reported (bound)
  MaxFaults,     \* statements that fail, workers that stop, jobs that stall (bound)
  MaxChanges,    \* subscriptions that die and tokens that are registered (bound)
  Transient      \* TRUE: a push provider may fail transiently

ASSUME FanoutAssumption ==
  /\ IsFiniteSet(Devices) /\ IsFiniteSet(Workers) /\ Owner \in [Devices -> Users]
  /\ Creator \in Users
  /\ Waves \subseteq {"HIGH", "MEDIUM", "LOW"} /\ "HIGH" \in Waves
  /\ DailyCap \in [Waves -> Nat]
  /\ Attempts \in Nat \ {0}
  /\ MaxFaults \in Nat /\ MaxChanges \in Nat
  /\ Transient \in BOOLEAN

VARIABLES
  status,     \* of the alert: "ACTIVE" or "CLOSED"
  token,      \* push_token of each device: "none", "good" or "dead"
  rows,       \* the notification rows, in order of id
  waves,      \* pending wave jobs
  story,      \* the success-story job is pending
  claimed,    \* success_story_sent_at is set
  reporters,  \* the users who reported a sighting
  work,       \* what each worker is doing
  sightings,  \* what the handler of each report is doing
  faults, changes,   \* bounds used up
  pushed,     \* history: alert pushes accepted by a provider, per device
  retried,    \* history: push jobs that threw with attempts left, per device
  emailed     \* history: alert emails accepted by the transport, per user

queue == <<waves, story>>
history == <<pushed, retried, emailed>>
bounds == <<sightings, faults, changes>>
vars == <<status, token, rows, queue, claimed, reporters, work, bounds, history>>

Match == [device : Devices, text : BOOLEAN]

Row == [device : Devices,
        kind   : {"alert", "sighting", "email", "story", "story_email"},
        status : {"QUEUED", "SENT", "FAILED"},   \* SENT: also OPENED, read alike
        job    : Nat]     \* attempts left of its push job, 0 when none is queued

Idle == [pc |-> "idle", wave |-> "HIGH", quiet |-> FALSE, matches |-> {}, todo |-> {},
         reach |-> {}, targets |-> {}, row |-> 0, tries |-> 0, read |-> "none",
         users |-> {}]

Steps == {"idle", "push", "create", "add", "email", "record", "send", "sent", "dead",
          "error", "terminal", "clear", "story_claim", "story_read", "story_create",
          "story_add"}

Work == [pc      : Steps,
         wave    : Waves,
         quiet   : BOOLEAN,
         matches : SUBSET Match,     \* the wave's matches, one per user id
         todo    : SUBSET Match,     \* those the current pass has not handled
         reach   : SUBSET Devices,   \* devices with a push channel, as read
         targets : SUBSET Devices,   \* devices still to get a row
         row     : Nat,              \* the row being handled
         tries   : Nat,
         read    : {"none", "good", "dead"},   \* the token read with the row
         users   : SUBSET Users]     \* helpers still to get an email

Report == [pc   : {"none", "insert", "find", "create", "queue", "done"},
           by   : Users,              \* the reporter
           todo : SUBSET Devices]     \* devices of the creator still to get a row

TypeOK ==
  /\ status \in {"ACTIVE", "CLOSED"}
  /\ token \in [Devices -> {"none", "good", "dead"}]
  /\ rows \in Seq(Row)
  /\ waves \in [Waves -> Nat]
  /\ story \in BOOLEAN /\ claimed \in BOOLEAN
  /\ reporters \subseteq Users
  /\ work \in [Workers -> Work]
  /\ sightings \in [Reports -> Report] /\ faults \in Nat /\ changes \in Nat
  /\ pushed \in [Devices -> Nat] /\ retried \in [Devices -> Nat] /\ emailed \in [Users -> Nat]

\* AlertService.create has inserted the alert and queued its waves.
Init ==
  /\ status = "ACTIVE"
  /\ token \in [Devices -> {"none", "good"}]
  /\ rows = << >>
  /\ waves = [v \in Waves |-> 1]
  /\ story = FALSE /\ claimed = FALSE
  /\ reporters = {}
  /\ work = [w \in Workers |-> Idle]
  /\ sightings = [p \in Reports |-> [pc |-> "none", by |-> Creator, todo |-> {}]]
  /\ faults = 0 /\ changes = 0
  /\ pushed = [d \in Devices |-> 0]
  /\ retried = [d \in Devices |-> 0]
  /\ emailed = [u \in Users |-> 0]

At(w, step) == work[w].pc = step
Done(w) == work' = [work EXCEPT ![w] = Idle]
Become(w, job) == work' = [work EXCEPT ![w] = job]
Goto(w, step) == work' = [work EXCEPT ![w].pc = step]

NewRow(d, kind, st) ==
  rows' = Append(rows, [device |-> d, kind |-> kind, status |-> st, job |-> 0])
SetStatus(i, st) == rows' = [rows EXCEPT ![i].status = st]

RowsOf(u) == {i \in DOMAIN rows : Owner[rows[i].device] = u}

Channel(i) == IF rows[i].kind \in {"email", "story_email"} THEN "EMAIL" ELSE "PUSH"

hasBeenNotified(u, channel) ==
  \E i \in RowsOf(u) : rows[i].status # "FAILED" /\ Channel(i) = channel

\* Every row of the last 24 hours counts, whatever its channel and status.
isOverDailyCap(u, v) == Cardinality(RowsOf(u)) >= DailyCap[v]

OwnerOf(m) == Owner[m.device]

--------------------------------------------------------------------------------
(* NotificationQueueProcessor.processAlertNotifications *)

\* What LocationService.findDevicesForAlert returns for one tier: at most one
\* match per user id, where the text id and the numeric id of a user differ.
\* The reporter's matches are filtered by comparing with the text of creator_id.
WaveMatches ==
  {M \in SUBSET Match :
     /\ \A m, n \in M : OwnerOf(m) = OwnerOf(n) /\ m.text = n.text => m = n
     /\ \A m \in M : ~(m.text /\ OwnerOf(m) = Creator)}

WaveStart(w, v) ==
  /\ At(w, "idle")
  /\ waves[v] > 0
  /\ waves' = [waves EXCEPT ![v] = @ - 1]
  /\ \/ status # "ACTIVE" /\ UNCHANGED work
     \/ /\ status = "ACTIVE"
        /\ \E M \in WaveMatches, quiet \in {FALSE, v # "HIGH"} :
             Become(w, [Idle EXCEPT !.pc = "push", !.wave = v, !.quiet = quiet,
                                    !.matches = M, !.todo = M,
                                    !.reach = {d \in Devices : token[d] # "none"}])
  /\ UNCHANGED <<status, token, rows, story, claimed, reporters, bounds, history>>

\* The devices of a match's user: devicesByUser is keyed by text.
Targets(w, m) == {d \in work[w].reach : m.text /\ Owner[d] = OwnerOf(m)}

\* Mutant: the check that an earlier wave reached the user is dropped.
Mut_PushUser_again(w, m) ==
  /\ At(w, "push")
  /\ m \in work[w].todo
  /\ work' = [work EXCEPT ![w].todo = @ \ {m},
                          ![w].pc = IF Targets(w, m) # {} THEN "create" ELSE @,
                          ![w].targets = Targets(w, m)]
  /\ UNCHANGED <<status, token, rows, queue, claimed, reporters, bounds, history>>

\* One user of the push pass: no channel, quiet hours, reached before, over the
\* cap, or rows for all the devices.
PushUser(w, m) ==
  LET j == work[w]
      skip == \/ Targets(w, m) = {}
              \/ j.quiet   \* only below HIGH
              \/ hasBeenNotified(OwnerOf(m), "PUSH")
              \/ isOverDailyCap(OwnerOf(m), j.wave)
  IN
  /\ At(w, "push")
  /\ m \in j.todo
  /\ work' = [work EXCEPT ![w].todo = @ \ {m},
                          ![w].pc = IF skip THEN "push" ELSE "create",
                          ![w].targets = IF skip THEN {} ELSE Targets(w, m)]
  /\ UNCHANGED <<status, token, rows, queue, claimed, reporters, bounds, history>>

CreateRow(w, d) ==
  /\ At(w, "create")
  /\ d \in work[w].targets
  /\ NewRow(d, "alert", "QUEUED")
  /\ work' = [work EXCEPT ![w].pc = "add", ![w].row = Len(rows) + 1,
                          ![w].targets = @ \ {d}]
  /\ UNCHANGED <<status, token, queue, claimed, reporters, bounds, history>>

AddJob(w) ==
  /\ At(w, "add")
  /\ rows' = [rows EXCEPT ![work[w].row].job = Attempts]
  /\ Goto(w, IF work[w].targets = {} THEN "push" ELSE "create")
  /\ UNCHANGED <<status, token, queue, claimed, reporters, bounds, history>>

\* The push pass is over; only the HIGH wave has an email pass.
PushPassDone(w) ==
  /\ At(w, "push")
  /\ work[w].todo = {}
  /\ IF work[w].wave = "HIGH"
     THEN Become(w, [Idle EXCEPT !.pc = "email", !.todo = work[w].matches])
     ELSE Done(w)
  /\ UNCHANGED <<status, token, rows, queue, claimed, reporters, bounds, history>>

\* Mutant: an email is not checked against the ones already recorded.
Mut_EmailUser_again(w, m) ==
  /\ At(w, "email")
  /\ m \in work[w].todo
  /\ work' = [work EXCEPT ![w].todo = @ \ {m}, ![w].pc = "record",
                          ![w].read = "good", ![w].targets = {m.device}]
  /\ emailed' = [emailed EXCEPT ![OwnerOf(m)] = @ + 1]
  /\ UNCHANGED <<status, token, rows, queue, claimed, reporters, bounds, pushed, retried>>

\* AlertEmailService: what the account's settings and its address, verified or
\* not, answer is not followed.  A send is FALSE when there is no verified
\* address any more or the transport refused.
isOptedIn(u) == BOOLEAN
sendAlertEmail(u) == BOOLEAN
sendPetIsHomeEmail(u) == BOOLEAN

\* sendFallbackEmail
EmailUser(w, m) ==
  LET u == OwnerOf(m) IN
  /\ At(w, "email")
  /\ m \in work[w].todo
  /\ \/ /\ hasBeenNotified(u, "EMAIL") \/ FALSE \in isOptedIn(u)
        /\ work' = [work EXCEPT ![w].todo = @ \ {m}]
        /\ UNCHANGED emailed
     \/ \E sent \in sendAlertEmail(u) :
          /\ ~hasBeenNotified(u, "EMAIL") /\ TRUE \in isOptedIn(u)
          /\ work' = [work EXCEPT ![w].todo = @ \ {m}, ![w].pc = "record",
                                  ![w].read = IF sent THEN "good" ELSE "none",
                                  ![w].targets = {m.device}]
          /\ emailed' = [emailed EXCEPT ![u] = IF sent THEN @ + 1 ELSE @]
  /\ UNCHANGED <<status, token, rows, queue, claimed, reporters, bounds, pushed, retried>>

\* recordEmailNotification: a failing INSERT is swallowed.
RecordEmail(w) ==
  /\ At(w, "record")
  /\ \/ /\ \E d \in work[w].targets :
             NewRow(d, "email", IF work[w].read = "good" THEN "SENT" ELSE "FAILED")
        /\ UNCHANGED faults
     \/ /\ faults < MaxFaults
        /\ faults' = faults + 1
        /\ UNCHANGED rows
  /\ work' = [work EXCEPT ![w].pc = "email", ![w].targets = {}]
  /\ UNCHANGED <<status, token, queue, claimed, reporters, sightings, changes, history>>

WaveDone(w) ==
  /\ At(w, "email")
  /\ work[w].todo = {}
  /\ Done(w)
  /\ UNCHANGED <<status, token, rows, queue, claimed, reporters, bounds, history>>

--------------------------------------------------------------------------------
(* NotificationQueueProcessor.processPushNotification: the alert's status is *)
(* not read again. *)

PushRead(w, i) ==
  LET t == token[rows[i].device] IN
  /\ At(w, "idle")
  /\ rows[i].job > 0
  /\ rows' = [rows EXCEPT ![i].job = 0,
                          ![i].status = IF t = "none" THEN "FAILED" ELSE @]
  /\ IF t = "none" THEN UNCHANGED work
     ELSE Become(w, [Idle EXCEPT !.pc = "send", !.row = i, !.tries = rows[i].job,
                                 !.read = t])
  /\ UNCHANGED <<status, token, queue, claimed, reporters, bounds, history>>

\* A success-story row gets the reunion page, every other row the alert.
buildPushPayload(i) == IF rows[i].kind = "story" THEN "alert_resolved" ELSE "alert"

\* What a send may come to: a provider without credentials, any error but the
\* ones that tell a dead token, or the token's own fate.
Answers(t) ==
  {"terminal"} \cup (IF Transient THEN {"error"} ELSE {}) \cup {IF t = "good" THEN "sent" ELSE "dead"}

\* FcmService.sendNotification: two error codes tell a dead token.
fcmSend(t) == Answers(t)

\* ApnsService.sendNotification: three reasons of the first failure tell a dead
\* token; a result without sent or failed devices is an error too.
apnsSend(t) == Answers(t)

\* WebPushService.sendNotification: a subscription that does not parse, or the
\* push service's 404 or 410.
webPushSend(t) == Answers(t)

\* The provider of the device's platform, which is not followed.
PushSend(w) ==
  LET i == work[w].row
      t == work[w].read
  IN
  /\ At(w, "send")
  /\ \E answer \in fcmSend(t) \cup apnsSend(t) \cup webPushSend(t) :
       /\ Goto(w, answer)
       /\ pushed' = [pushed EXCEPT ![rows[i].device] =
                       IF answer = "sent" /\ buildPushPayload(i) = "alert" THEN @ + 1 ELSE @]
  /\ UNCHANGED <<status, token, rows, queue, claimed, reporters, bounds, retried, emailed>>

\* Mutant: the early return for a provider without credentials leaves the row.
Mut_PushSettle_terminal(w) ==
  LET i == work[w].row IN
  /\ \/ At(w, "terminal") /\ UNCHANGED rows /\ Done(w)
     \/ At(w, "sent") /\ SetStatus(i, "SENT") /\ Done(w)
     \/ At(w, "dead") /\ SetStatus(i, "FAILED") /\ Goto(w, "clear")
  /\ UNCHANGED <<status, token, queue, claimed, reporters, bounds, history>>

PushSettle(w) ==
  LET i == work[w].row IN
  /\ \/ At(w, "sent") /\ SetStatus(i, "SENT") /\ Done(w)
     \/ At(w, "terminal") /\ SetStatus(i, "FAILED") /\ Done(w)
     \/ At(w, "dead") /\ SetStatus(i, "FAILED") /\ Goto(w, "clear")
  /\ UNCHANGED <<status, token, queue, claimed, reporters, bounds, history>>

\* throw: the row is FAILED, and the queue runs the job again while attempts are left.
PushRetry(w) ==
  LET i == work[w].row
      again == buildPushPayload(i) = "alert" /\ work[w].tries > 1
  IN
  /\ At(w, "error")
  /\ rows' = [rows EXCEPT ![i].status = "FAILED", ![i].job = work[w].tries - 1]
  /\ retried' = [retried EXCEPT ![rows[i].device] = IF again THEN @ + 1 ELSE @]
  /\ Done(w)
  /\ UNCHANGED <<status, token, queue, claimed, reporters, bounds, pushed, emailed>>

\* device.update by id: whatever token the device has now.
ClearToken(w) ==
  /\ At(w, "clear")
  /\ token' = [token EXCEPT ![rows[work[w].row].device] = "none"]
  /\ Done(w)
  /\ UNCHANGED <<status, rows, queue, claimed, reporters, bounds, history>>

--------------------------------------------------------------------------------
(* NotificationQueueProcessor.processSuccessStory *)

StoryRead(w) ==
  /\ At(w, "idle")
  /\ story
  /\ story' = FALSE
  /\ \/ claimed /\ UNCHANGED work
     \/ ~claimed /\ Become(w, [Idle EXCEPT !.pc = "story_claim"])
  /\ UNCHANGED <<status, token, rows, waves, claimed, reporters, bounds, history>>

\* Mutant: the claim is a plain UPDATE by id.
Mut_StoryClaim_unconditional(w) ==
  /\ At(w, "story_claim")
  /\ claimed' = TRUE
  /\ Goto(w, "story_read")
  /\ UNCHANGED <<status, token, rows, queue, reporters, bounds, history>>

\* updateMany where success_story_sent_at is null.
StoryClaim(w) ==
  /\ At(w, "story_claim")
  /\ IF claimed THEN Done(w) ELSE Goto(w, "story_read")
  /\ claimed' = TRUE
  /\ UNCHANGED <<status, token, rows, queue, reporters, bounds, history>>

Reached == {Owner[rows[i].device] : i \in {k \in DOMAIN rows :
                                             rows[k].status = "SENT"}}

\* Mutant: rows that are only queued count as reached.
Mut_StoryRecipients_queued(w) ==
  LET helpers == (({Owner[rows[i].device] : i \in DOMAIN rows} \cup reporters)
                    \ {Creator}) IN
  /\ At(w, "story_read")
  /\ work' = [work EXCEPT ![w].pc = "story_create", ![w].users = helpers,
                ![w].targets = {d \in Devices : Owner[d] \in helpers /\ token[d] # "none"}]
  /\ UNCHANGED <<status, token, rows, queue, claimed, reporters, bounds, history>>

StoryRecipients(w) ==
  LET helpers == (Reached \cup reporters) \ {Creator} IN
  /\ At(w, "story_read")
  /\ work' = [work EXCEPT ![w].pc = "story_create", ![w].users = helpers,
                ![w].targets = {d \in Devices : Owner[d] \in helpers /\ token[d] # "none"}]
  /\ UNCHANGED <<status, token, rows, queue, claimed, reporters, bounds, history>>

StoryRow(w, d) ==
  /\ At(w, "story_create")
  /\ d \in work[w].targets
  /\ NewRow(d, "story", "QUEUED")
  /\ work' = [work EXCEPT ![w].pc = "story_add", ![w].row = Len(rows) + 1,
                          ![w].targets = @ \ {d}]
  /\ UNCHANGED <<status, token, queue, claimed, reporters, bounds, history>>

StoryAdd(w) ==
  /\ At(w, "story_add")
  /\ rows' = [rows EXCEPT ![work[w].row].job = Attempts]
  /\ Goto(w, "story_create")
  /\ UNCHANGED <<status, token, queue, claimed, reporters, bounds, history>>

\* One thank-you email per helper, recorded on any device of theirs; the record
\* may be missing because there is no device or because its INSERT failed.
StoryEmail(w, u) ==
  /\ At(w, "story_create")
  /\ work[w].targets = {}
  /\ u \in work[w].users
  /\ \/ UNCHANGED rows
     \/ \E d \in {e \in Devices : Owner[e] = u}, sent \in sendPetIsHomeEmail(u) :
          NewRow(d, "story_email", IF sent THEN "SENT" ELSE "FAILED")
  /\ work' = [work EXCEPT ![w].users = @ \ {u}]
  /\ UNCHANGED <<status, token, queue, claimed, reporters, bounds, history>>

StoryDone(w) ==
  /\ At(w, "story_create")
  /\ work[w].targets = {} /\ work[w].users = {}
  /\ Done(w)
  /\ UNCHANGED <<status, token, rows, queue, claimed, reporters, bounds, history>>

--------------------------------------------------------------------------------
(* Failures of a worker *)

IsWave(w) == work[w].pc \in {"push", "create", "add", "email", "record"}
IsStory(w) == work[w].pc \in {"story_claim", "story_read", "story_create", "story_add"}
IsPush(w) == work[w].pc \in {"send", "sent", "dead", "error", "terminal", "clear"}

\* The job goes back to the queue (its attempts allow it).
Requeue(w) ==
  /\ waves' = IF IsWave(w) THEN [waves EXCEPT ![work[w].wave] = @ + 1] ELSE waves
  /\ story' = (story \/ IsStory(w))
  /\ rows' = IF IsPush(w) THEN [rows EXCEPT ![work[w].row].job = work[w].tries]
             ELSE rows

\* Mutant: a story job that fails gives its claim back, for the next attempt to take.
Mut_Crash_release(w) ==
  /\ ~At(w, "idle")
  /\ faults < MaxFaults
  /\ faults' = faults + 1
  /\ Requeue(w) \/ UNCHANGED <<queue, rows>>
  /\ claimed' = (claimed /\ ~IsStory(w))
  /\ Done(w)
  /\ UNCHANGED <<status, token, reporters, sightings, changes, history>>

\* The process stops, or a statement of a wave or story job throws: the job is
\* retried, or dropped when no attempt is left.
Crash(w) ==
  /\ ~At(w, "idle")
  /\ faults < MaxFaults
  /\ faults' = faults + 1
  /\ Requeue(w) \/ UNCHANGED <<queue, rows>>
  /\ Done(w)
  /\ UNCHANGED <<status, token, claimed, reporters, sightings, changes, history>>

\* A statement of the push handler throws: its catch marks the row FAILED and
\* throws again.  Only the failure to clear a token is swallowed.
PushThrows(w) ==
  /\ IsPush(w) /\ ~At(w, "error")
  /\ faults < MaxFaults
  /\ faults' = faults + 1
  /\ IF At(w, "clear") THEN Done(w) ELSE Goto(w, "error")
  /\ UNCHANGED <<status, token, rows, queue, claimed, reporters, sightings, changes, history>>

\* The job's lock expires: it is queued again while the worker carries on.
Stall(w) ==
  /\ ~At(w, "idle")
  /\ faults < MaxFaults
  /\ faults' = faults + 1
  /\ Requeue(w)
  /\ UNCHANGED <<status, token, claimed, reporters, work, sightings, changes, history>>

--------------------------------------------------------------------------------
(* Handlers of HTTP requests *)

\* resolve, with the owner sharing the reunion or not; cancel and expiry.
Close(share) ==
  /\ status = "ACTIVE"
  /\ status' = "CLOSED"
  /\ story' = share
  /\ UNCHANGED <<token, rows, waves, claimed, reporters, work, bounds, history>>

\* SightingService.create: the alert is found ACTIVE, and the row is inserted later,
\* whatever the alert is by then.  A handler may stop anywhere.
SightingRead(p, u) ==
  /\ sightings[p].pc = "none"
  /\ status = "ACTIVE"
  /\ sightings' = [sightings EXCEPT ![p] = [pc |-> "insert", by |-> u, todo |-> {}]]
  /\ UNCHANGED <<status, token, rows, queue, claimed, reporters, work, faults, changes, history>>

SightingInsert(p) ==
  /\ sightings[p].pc = "insert"
  /\ reporters' = reporters \cup {sightings[p].by}
  /\ sightings' = [sightings EXCEPT ![p].pc = "find"]
  /\ UNCHANGED <<status, token, rows, queue, claimed, work, faults, changes, history>>

\* notifyCreatorOfSighting: the devices of the creator with a token ...
NotifyCreator(p) ==
  LET devices == {d \in Devices : Owner[d] = Creator /\ token[d] # "none"} IN
  /\ sightings[p].pc = "find"
  /\ sightings' = [sightings EXCEPT ![p].pc = IF devices = {} THEN "done" ELSE "create",
                                   ![p].todo = devices]
  /\ UNCHANGED <<status, token, rows, queue, claimed, reporters, work, faults, changes, history>>

\* ... get a row each; one whose INSERT fails is passed over.
SightingRow(p, d) ==
  /\ sightings[p].pc = "create"
  /\ d \in sightings[p].todo
  /\ LET left == sightings[p].todo \ {d} IN
     \/ /\ NewRow(d, "sighting", "QUEUED")
        /\ sightings' = [sightings EXCEPT ![p].pc = "queue", ![p].todo = left]
     \/ /\ sightings' = [sightings EXCEPT ![p].pc = IF left = {} THEN "done" ELSE @,
                                          ![p].todo = left]
        /\ UNCHANGED rows
  /\ UNCHANGED <<status, token, queue, claimed, reporters, work, faults, changes, history>>

\* After each row all the waves are queued once more, HIGH first, up to an add that fails.
Prefixes == {{}, {"HIGH"} \cap Waves, {"HIGH", "MEDIUM"} \cap Waves, Waves}
QueueWaves(p) ==
  /\ sightings[p].pc = "queue"
  /\ \E added \in Prefixes : waves' = [v \in Waves |-> IF v \in added THEN waves[v] + 1 ELSE waves[v]]
  /\ sightings' = [sightings EXCEPT ![p].pc = IF sightings[p].todo = {} THEN "done" ELSE "create"]
  /\ UNCHANGED <<status, token, rows, story, claimed, reporters, work, faults, changes, history>>

\* recordRelevance: the client opens a notification it received, whatever the
\* worker has written on its row by then.
Open(i) ==
  /\ rows[i].kind = "alert" /\ pushed[rows[i].device] > 0
  /\ rows[i].status # "SENT"
  /\ SetStatus(i, "SENT")
  /\ UNCHANGED <<status, token, queue, claimed, reporters, work, bounds, history>>

Register(d) ==
  /\ token[d] # "good"
  /\ changes < MaxChanges
  /\ changes' = changes + 1
  /\ token' = [token EXCEPT ![d] = "good"]
  /\ UNCHANGED <<status, rows, queue, claimed, reporters, work, sightings, faults, history>>

Unsubscribe(d) ==
  /\ token[d] = "good"
  /\ changes < MaxChanges
  /\ changes' = changes + 1
  /\ token' = [token EXCEPT ![d] = "dead"]
  /\ UNCHANGED <<status, rows, queue, claimed, reporters, work, sightings, faults, history>>

Job(w) ==
  \/ \E v \in Waves : WaveStart(w, v)
  \/ \E m \in Match : PushUser(w, m) \/ EmailUser(w, m)
  \/ \E d \in Devices : CreateRow(w, d) \/ StoryRow(w, d)
  \/ AddJob(w) \/ PushPassDone(w) \/ RecordEmail(w) \/ WaveDone(w)
  \/ \E i \in DOMAIN rows : PushRead(w, i)
  \/ PushSend(w) \/ PushSettle(w) \/ PushRetry(w) \/ ClearToken(w)
  \/ StoryRead(w) \/ StoryClaim(w) \/ StoryRecipients(w) \/ StoryAdd(w) \/ StoryDone(w)
  \/ \E u \in Users : StoryEmail(w, u)

Sighting(p) ==
  \/ \E u \in Users : SightingRead(p, u)
  \/ SightingInsert(p) \/ NotifyCreator(p) \/ QueueWaves(p)
  \/ \E d \in Devices : SightingRow(p, d)

Next ==
  \/ \E w \in Workers : Job(w) \/ Crash(w) \/ PushThrows(w) \/ Stall(w)
  \/ \E share \in BOOLEAN : Close(share)
  \/ \E p \in Reports : Sighting(p)
  \/ \E i \in DOMAIN rows : Open(i)
  \/ \E d \in Devices : Register(d) \/ Unsubscribe(d)

\* The workers keep taking jobs.
Fairness == \A w \in Workers : WF_vars(Job(w))

Spec == Init /\ [][Next]_vars /\ Fairness

--------------------------------------------------------------------------------
(* Properties *)

\* "Email once per user": each email after the first one is paid for by a second worker
\* on the same user, or by a statement that failed.
EmailsPaid == \A u \in Users : emailed[u] <= Cardinality(Workers) + faults

\* "Push once per registered device": each push after the first one is paid for by a
\* second worker on the same device, by an attempt of a push job that is made again (a
\* later wave takes the FAILED row for one that reached nobody), or by a failure.
PushesPaid == \A d \in Devices : pushed[d] <= Cardinality(Workers) + retried[d] + faults

\* "A retried/duplicate job can never fan out twice": a device gets at most one
\* success-story row, whatever jobs crash, stall and run again.
StoryOnce ==
  \A i, j \in DOMAIN rows :
    rows[i].kind = "story" /\ rows[j].kind = "story" /\ rows[i].device = rows[j].device
      => i = j

\* The alert reached the user by an accepted push or email, or the user reported a
\* sighting.
Helped(u) ==
  u \in reporters \/ emailed[u] > 0 \/ \E d \in Devices : Owner[d] = u /\ pushed[d] > 0

\* The success story goes to users whom the alert really reached or who reported a
\* sighting, and never to the owner.
StoryToHelpers ==
  \A i \in DOMAIN rows :
    rows[i].kind \in {"story", "story_email"} =>
      Owner[rows[i].device] # Creator /\ Helped(Owner[rows[i].device])

StoryRows(d) == {i \in DOMAIN rows : rows[i].kind = "story" /\ rows[i].device = d}
StoryMails(u) == {i \in RowsOf(u) : rows[i].kind = "story_email"}

\* The whole of "claimed once, after the alert was closed, one row per device and one
\* email per helper": the rows and the claim behave as ThankYou says.
Promise == INSTANCE ThankYou WITH
       open <- status = "ACTIVE", helpers <- {u \in Users : Helped(u)}, announced <- claimed,
       thanks <- [d \in Devices |-> Cardinality(StoryRows(d))],
       mails <- [u \in Users |-> Cardinality(StoryMails(u))]
StoryContract == Promise!Spec

\* Every row made for a push is settled, SENT or FAILED, but one for each failure: a
\* worker that stops between the INSERT and the job (notification-queue.processor.ts:250)
\* leaves a row that no later run of the wave takes up.
RowsSettle ==
  <>[](Cardinality({i \in DOMAIN rows :
                      rows[i].kind \in {"alert", "story"} /\ rows[i].status = "QUEUED"}) <= faults)

\* "The push must reach every device they registered": after the push pass of the
\* HIGH wave a matched user with a push channel has a row for it.
PushReachesMatched ==
  [][\A w \in Workers :
       At(w, "push") /\ work'[w].pc = "email" =>
         \A m \in work[w].matches : \A d \in work[w].reach :
           Owner[d] = OwnerOf(m) =>
             \E i \in RowsOf(OwnerOf(m)) : Channel(i) = "PUSH"]_vars
================================================================================
