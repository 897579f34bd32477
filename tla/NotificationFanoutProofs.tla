------------------------ MODULE NotificationFanoutProofs ------------------------
(***************************************************************************)
(* Proofs about NotificationFanout for every set of devices, users and     *)
(* workers, every owner of a device, and every number of attempts, faults  *)
(* and sightings.                                                          *)
(*                                                                         *)
(* Base (types, and workers at rows that exist) holds whatever happens,    *)
(* and so do the two properties of the success story: StoryOnce rests on   *)
(* Claim (one worker, ever, gets past the claim, and has written no row of *)
(* a device it still has), StoryToHelpers on Helpers (a row that is SENT   *)
(* is of a user the alert reached, a counter that is never taken back).    *)
(*                                                                         *)
(* One email per user and one push per device are not true of the code     *)
(* under a second worker, a failed statement or a second attempt of a      *)
(* push.  What is true, whatever happens, is that each of those pays for   *)
(* one more: PushesPaid and EmailsPaid.  The inductive invariants are      *)
(* ledgers: Ledger (the pushes of a device that happened and that are to   *)
(* come stand on rows that did not fail, and on what was paid) and         *)
(* EmailLedger.  Most steps are Calm for Ledger, which CalmStep settles    *)
(* once; PayingStep takes the others one by one.                           *)
(*                                                                         *)
(* The last section proves that the whole implements ThankYou.  A step is  *)
(* Uneventful for the story or an Event; AfterClose and MailClaim say that *)
(* an Event comes after the closing and once.                              *)
(***************************************************************************)
EXTENDS NotificationFanout, FiniteSetTheorems, SequenceTheorems, TLAPS

PushSteps == {"send", "sent", "dead", "error", "terminal", "clear"}
RowSteps == {"add", "story_add"} \cup PushSteps

\* A worker at a row works on one that was inserted; a push job it took had attempts.
HoldsRow(w) ==
  /\ work[w].pc \in RowSteps => work[w].row \in DOMAIN rows
  /\ work[w].pc \in PushSteps => work[w].tries > 0

Bookkeeping == \A w \in Workers : HoldsRow(w)

--------------------------------------------------------------------------------
(* Types, and what steps do to the rows *)

\* Rows are only added; what a row is about does not change.
RowsGrow ==
  /\ DOMAIN rows \subseteq DOMAIN rows'
  /\ \A i \in DOMAIN rows : rows'[i].device = rows[i].device /\ rows'[i].kind = rows[i].kind

\* A row that is inserted comes after the others.
LEMMA RowAdded ==
  ASSUME TypeOK, NEW r \in Row, rows' = Append(rows, r)
  PROVE  /\ rows' \in Seq(Row)
         /\ DOMAIN rows' = DOMAIN rows \cup {Len(rows) + 1} /\ Len(rows) + 1 \notin DOMAIN rows
         /\ \A i \in DOMAIN rows : rows'[i] = rows[i]
         /\ rows'[Len(rows) + 1] = r
  <1>1. rows \in Seq(Row) /\ Len(rows) \in Nat /\ DOMAIN rows = 1..Len(rows)
    BY LenProperties DEF TypeOK
  <1>2. /\ rows' \in Seq(Row) /\ Len(rows') = Len(rows) + 1
        /\ \A i \in 1..Len(rows) : rows'[i] = rows[i]
        /\ rows'[Len(rows) + 1] = r
    BY <1>1, AppendProperties
  <1>3. DOMAIN rows' = 1..Len(rows')
    BY <1>2, LenProperties
  <1> QED
    BY <1>1, <1>2, <1>3

\* A row that is updated leaves the others.
LEMMA RowUpdated ==
  ASSUME TypeOK, NEW i \in DOMAIN rows, NEW r \in Row, rows' = [rows EXCEPT ![i] = r]
  PROVE  /\ rows' \in Seq(Row) /\ DOMAIN rows' = DOMAIN rows
         /\ rows'[i] = r /\ \A j \in DOMAIN rows : j # i => rows'[j] = rows[j]
  <1>1. rows \in Seq(Row) /\ Len(rows) \in Nat /\ DOMAIN rows = 1..Len(rows)
    BY LenProperties DEF TypeOK
  <1>2. /\ rows' \in Seq(Row) /\ Len(rows') = Len(rows)
        /\ \A j \in 1..Len(rows) : rows'[j] = IF j = i THEN r ELSE rows[j]
    BY <1>1, ExceptSeq
  <1>3. DOMAIN rows' = 1..Len(rows')
    BY <1>2, LenProperties
  <1> QED
    BY <1>1, <1>2, <1>3

LEMMA RowType == TypeOK => \A i \in DOMAIN rows : rows[i] \in Row
  BY LenProperties, ElementOfSeq DEF TypeOK

LEMMA IdleType == Idle \in Work
  BY FanoutAssumption DEF Idle, Work, Steps, Match

\* An inserted row and an updated one, as the actions write them.
LEMMA NewRowEffect ==
  ASSUME TypeOK, NEW d \in Devices,
         NEW k \in {"alert", "sighting", "email", "story", "story_email"},
         NEW st \in {"QUEUED", "SENT", "FAILED"}, NewRow(d, k, st)
  PROVE  /\ rows' \in Seq(Row) /\ RowsGrow
         /\ DOMAIN rows' = DOMAIN rows \cup {Len(rows) + 1} /\ Len(rows) + 1 \notin DOMAIN rows
         /\ \A i \in DOMAIN rows : rows'[i] = rows[i]
         /\ rows'[Len(rows) + 1] = [device |-> d, kind |-> k, status |-> st, job |-> 0]
  <1>1. [device |-> d, kind |-> k, status |-> st, job |-> 0] \in Row
    BY DEF Row
  <1> QED
    BY <1>1, RowAdded DEF NewRow, RowsGrow

\* The ways in which a statement sets the status and the push job of a row.
SetRow(i, st, n) ==
  \/ rows' = [rows EXCEPT ![i].status = st, ![i].job = n]
  \/ rows' = [rows EXCEPT ![i].job = n, ![i].status = st]
  \/ rows' = [rows EXCEPT ![i].status = st] /\ n = rows[i].job
  \/ rows' = [rows EXCEPT ![i].job = n] /\ st = rows[i].status

LEMMA RowEffect ==
  ASSUME TypeOK, NEW i \in DOMAIN rows, NEW st \in {"QUEUED", "SENT", "FAILED"}, NEW n \in Nat,
         SetRow(i, st, n)
  PROVE  /\ rows' \in Seq(Row) /\ RowsGrow
         /\ DOMAIN rows' = DOMAIN rows
         /\ rows'[i].status = st /\ rows'[i].job = n
         /\ \A j \in DOMAIN rows : j # i => rows'[j] = rows[j]
  <1>r. rows[i] \in Row
    BY RowType
  <1>1. PICK r \in Row : /\ r.device = rows[i].device /\ r.kind = rows[i].kind
                         /\ r.status = st /\ r.job = n
                         /\ rows' = [rows EXCEPT ![i] = r]
    <2>1. CASE rows' = [rows EXCEPT ![i].status = st, ![i].job = n]
      <3>1. [[rows[i] EXCEPT !.status = st] EXCEPT !.job = n] \in Row
        BY <1>r DEF Row
      <3> QED
        BY <1>r, <2>1, <3>1 DEF Row
    <2>2. CASE rows' = [rows EXCEPT ![i].job = n, ![i].status = st]
      <3>1. [[rows[i] EXCEPT !.job = n] EXCEPT !.status = st] \in Row
        BY <1>r DEF Row
      <3> QED
        BY <1>r, <2>2, <3>1 DEF Row
    <2>3. CASE rows' = [rows EXCEPT ![i].status = st] /\ n = rows[i].job
      <3>1. [rows[i] EXCEPT !.status = st] \in Row
        BY <1>r DEF Row
      <3> QED
        BY <1>r, <2>3, <3>1 DEF Row
    <2>4. CASE rows' = [rows EXCEPT ![i].job = n] /\ st = rows[i].status
      <3>1. [rows[i] EXCEPT !.job = n] \in Row
        BY <1>r DEF Row
      <3> QED
        BY <1>r, <2>4, <3>1 DEF Row
    <2> QED
      BY <2>1, <2>2, <2>3, <2>4 DEF SetRow
  <1> QED
    BY <1>1, RowUpdated DEF RowsGrow

\* The handler of a report leaves the alert, the workers and what was delivered alone.
LEMMA SightingFrame ==
  ASSUME NEW p \in Reports, Sighting(p)
  PROVE  UNCHANGED <<status, token, story, claimed, work, faults, changes, pushed, retried, emailed>>
  BY DEF Sighting, SightingRead, SightingInsert, NotifyCreator, QueueWaves, SightingRow, queue, history

LEMMA SightingRows ==
  ASSUME TypeOK, NEW p \in Reports, Sighting(p)
  PROVE  /\ rows' \in Seq(Row) /\ RowsGrow
         /\ \A i \in DOMAIN rows : rows'[i] = rows[i]
         /\ \A i \in DOMAIN rows' \ DOMAIN rows :
              rows'[i].kind = "sighting" /\ rows'[i].status = "QUEUED" /\ rows'[i].job = 0
  <1>1. ASSUME NEW d \in Devices, NewRow(d, "sighting", "QUEUED")
        PROVE  /\ rows' \in Seq(Row) /\ RowsGrow
               /\ \A i \in DOMAIN rows : rows'[i] = rows[i]
               /\ \A i \in DOMAIN rows' \ DOMAIN rows :
                    rows'[i].kind = "sighting" /\ rows'[i].status = "QUEUED" /\ rows'[i].job = 0
    <2>1. /\ rows' \in Seq(Row) /\ RowsGrow /\ \A i \in DOMAIN rows : rows'[i] = rows[i]
          /\ DOMAIN rows' = DOMAIN rows \cup {Len(rows) + 1}
          /\ rows'[Len(rows) + 1] = [device |-> d, kind |-> "sighting", status |-> "QUEUED", job |-> 0]
      BY <1>1, NewRowEffect
    <2> QED
      BY <2>1
  <1>2. \/ UNCHANGED rows
        \/ \E d \in Devices : NewRow(d, "sighting", "QUEUED")
    BY DEF Sighting, SightingRead, SightingInsert, NotifyCreator, QueueWaves, SightingRow
  <1>3. rows \in Seq(Row)
    BY DEF TypeOK
  <1> QED
    BY <1>1, <1>2, <1>3 DEF RowsGrow

\* A report is on record from its insertion on; its waves follow.
LEMMA SightingReports ==
  ASSUME TypeOK, NEW p \in Reports, Sighting(p)
  PROVE  /\ UNCHANGED reporters \/ \E u \in Users : reporters' = reporters \cup {u}
         /\ waves' \in [Waves -> Nat]
         /\ sightings' \in [Reports -> Report]
  <1>t. /\ sightings \in [Reports -> Report] /\ waves \in [Waves -> Nat]
        /\ sightings[p].pc \in {"none", "insert", "find", "create", "queue", "done"}
        /\ sightings[p].by \in Users /\ sightings[p].todo \in SUBSET Devices
    BY DEF TypeOK, Report
  <1>r. ASSUME NEW s, NEW T \in SUBSET Devices,
               s \in {"none", "insert", "find", "create", "queue", "done"}
        PROVE  /\ [sightings[p] EXCEPT !.pc = s] \in Report
               /\ [[sightings[p] EXCEPT !.pc = s] EXCEPT !.todo = T] \in Report
    BY <1>r, <1>t DEF Report
  <1>s. ASSUME NEW s, NEW T \in SUBSET Devices,
               s \in {"none", "insert", "find", "create", "queue", "done"},
               \/ sightings' = [sightings EXCEPT ![p].pc = s]
               \/ sightings' = [sightings EXCEPT ![p].pc = s, ![p].todo = T]
        PROVE  sightings' \in [Reports -> Report]
    <2>1. PICK old, one, both : /\ old = sightings[p] /\ one = [old EXCEPT !.pc = s]
                                /\ both = [one EXCEPT !.todo = T]
      OBVIOUS
    <2>2. one \in Report /\ both \in Report
      BY <1>r, <1>s, <2>1
    <2>3. CASE sightings' = [sightings EXCEPT ![p].pc = s]
      <3>1. sightings' = [sightings EXCEPT ![p] = one]
        BY <2>1, <2>3
      <3> QED
        BY <1>t, <2>2, <3>1
    <2>4. CASE sightings' = [sightings EXCEPT ![p].pc = s, ![p].todo = T]
      <3>1. sightings' = [sightings EXCEPT ![p] = both]
        BY <1>t, <2>1, <2>4
      <3> QED
        BY <1>t, <2>2, <3>1
    <2> QED
      BY <1>s, <2>3, <2>4
  <1>1. ASSUME NEW u \in Users, SightingRead(p, u)
        PROVE  /\ UNCHANGED <<reporters, waves>>
               /\ sightings' \in [Reports -> Report]
    <2>1. [pc |-> "insert", by |-> u, todo |-> {}] \in Report
      BY DEF Report
    <2> QED
      BY <1>1, <1>t, <2>1 DEF SightingRead, queue
  <1>2. CASE SightingInsert(p)
    BY <1>2, <1>s, <1>t DEF SightingInsert, queue
  <1>3. CASE NotifyCreator(p)
    <2> DEFINE devices == {d \in Devices : Owner[d] = Creator /\ token[d] # "none"}
    <2>1. devices \in SUBSET Devices
      OBVIOUS
    <2> HIDE DEF devices
    <2>2. PICK s \in {"create", "done"} : sightings' = [sightings EXCEPT ![p].pc = s, ![p].todo = devices]
      BY <1>3 DEF NotifyCreator, devices
    <2> QED
      BY <1>3, <1>s, <1>t, <2>1, <2>2 DEF NotifyCreator, queue
  <1>4. CASE QueueWaves(p)
    <2>1. PICK s \in {"create", "done"} : sightings' = [sightings EXCEPT ![p].pc = s]
      BY <1>4 DEF QueueWaves
    <2>2. waves' \in [Waves -> Nat] /\ UNCHANGED reporters
      BY <1>4, <1>t DEF QueueWaves
    <2> QED
      BY <1>s, <2>1, <2>2
  <1>5. ASSUME NEW d \in Devices, SightingRow(p, d)
        PROVE  /\ UNCHANGED <<reporters, waves>>
               /\ sightings' \in [Reports -> Report]
    <2>1. PICK T \in SUBSET Devices : T = sightings[p].todo \ {d}
      BY <1>t
    <2>2. PICK s \in {"create", "queue", "done"} :
            sightings' = [sightings EXCEPT ![p].pc = s, ![p].todo = T]
      BY <1>5, <1>t, <2>1 DEF SightingRow
    <2> QED
      BY <1>5, <1>s, <2>2 DEF SightingRow, queue
  <1> QED
    BY <1>1, <1>2, <1>3, <1>4, <1>5, <1>t DEF Sighting

\* No step takes a row back.
LEMMA StepRows == TypeOK /\ Bookkeeping /\ [Next]_vars => rows' \in Seq(Row) /\ RowsGrow
  <1> SUFFICES ASSUME TypeOK, Bookkeeping, [Next]_vars PROVE rows' \in Seq(Row) /\ RowsGrow
    OBVIOUS
  <1>0. UNCHANGED rows => rows' \in Seq(Row) /\ RowsGrow
    BY DEF TypeOK, RowsGrow
  <1>r. \A i \in DOMAIN rows : rows[i] \in Row
    BY RowType
  <1>u. ASSUME NEW i \in DOMAIN rows, NEW st \in {"QUEUED", "SENT", "FAILED"}, NEW n \in Nat,
               \/ rows' = [rows EXCEPT ![i].status = st, ![i].job = n]
               \/ rows' = [rows EXCEPT ![i].job = n, ![i].status = st]
               \/ rows' = [rows EXCEPT ![i].status = st]
               \/ rows' = [rows EXCEPT ![i].job = n]
        PROVE  rows' \in Seq(Row) /\ RowsGrow
    <2>1. rows[i].status \in {"QUEUED", "SENT", "FAILED"} /\ rows[i].job \in Nat
      BY <1>r DEF Row
    <2> QED
      BY <1>u, <2>1, RowEffect DEF SetRow
  <1>w. ASSUME NEW w \in Workers
        PROVE  /\ work[w].tries \in Nat /\ work[w].targets \subseteq Devices
               /\ work[w].pc \in RowSteps => work[w].row \in DOMAIN rows
               /\ work[w].pc \in PushSteps => work[w].tries > 0
    BY DEF TypeOK, Work, Bookkeeping, HoldsRow
  <1>q. ASSUME NEW w \in Workers, Requeue(w) PROVE rows' \in Seq(Row) /\ RowsGrow
    BY <1>0, <1>q, <1>u, <1>w DEF Requeue, IsPush, RowSteps, PushSteps
  <1>1. ASSUME NEW w \in Workers, Job(w) PROVE rows' \in Seq(Row) /\ RowsGrow
    <2>1. ASSUME NEW d \in Devices, CreateRow(w, d) \/ StoryRow(w, d) PROVE rows' \in Seq(Row) /\ RowsGrow
      BY <2>1, NewRowEffect DEF CreateRow, StoryRow
    <2>2. CASE AddJob(w) \/ StoryAdd(w)
      BY <1>u, <1>w, <2>2, FanoutAssumption DEF AddJob, StoryAdd, At, RowSteps
    <2>3. CASE RecordEmail(w)
      BY <1>0, <1>w, <2>3, NewRowEffect DEF RecordEmail
    <2>4. ASSUME NEW i \in DOMAIN rows, PushRead(w, i) PROVE rows' \in Seq(Row) /\ RowsGrow
      <3>1. PICK st \in {"QUEUED", "SENT", "FAILED"} : rows' = [rows EXCEPT ![i].job = 0, ![i].status = st]
        BY <1>r, <2>4 DEF PushRead, Row
      <3> QED
        BY <1>u, <3>1
    <2>5. CASE PushSettle(w) \/ PushRetry(w)
      <3>1. work[w].row \in DOMAIN rows /\ work[w].tries - 1 \in Nat
        BY <1>w, <2>5 DEF PushSettle, PushRetry, At, PushSteps, RowSteps
      <3> QED
        BY <1>u, <2>5, <3>1 DEF PushSettle, PushRetry, SetStatus
    <2>6. ASSUME NEW u \in Users, StoryEmail(w, u) PROVE rows' \in Seq(Row) /\ RowsGrow
      BY <1>0, <2>6, NewRowEffect DEF StoryEmail
    <2> QED
      BY <1>0, <1>1, <2>1, <2>2, <2>3, <2>4, <2>5, <2>6
      DEF Job, WaveStart, PushUser, EmailUser, PushPassDone, WaveDone, PushSend, ClearToken,
          StoryRead, StoryClaim, StoryRecipients, StoryDone
  <1>2. ASSUME NEW w \in Workers, Crash(w) \/ PushThrows(w) \/ Stall(w) PROVE rows' \in Seq(Row) /\ RowsGrow
    BY <1>0, <1>2, <1>q DEF Crash, PushThrows, Stall
  <1>3. ASSUME NEW p \in Reports, Sighting(p) PROVE rows' \in Seq(Row) /\ RowsGrow
    BY <1>3, SightingRows
  <1>4. ASSUME NEW i \in DOMAIN rows, Open(i) PROVE rows' \in Seq(Row) /\ RowsGrow
    BY <1>4, <1>u DEF Open, SetStatus
  <1> QED
    BY <1>0, <1>1, <1>2, <1>3, <1>4 DEF Next, vars, Close, Register, Unsubscribe

\* No statement of a worker leaves the types of its memory.
LEMMA StepWork == TypeOK /\ Bookkeeping /\ [Next]_vars => work' \in [Workers -> Work]
  <1> SUFFICES ASSUME TypeOK, Bookkeeping, [Next]_vars PROVE work' \in [Workers -> Work]
    OBVIOUS
  <1>0. UNCHANGED work => work' \in [Workers -> Work]
    BY DEF TypeOK
  <1>i. Idle \in Work
    BY IdleType
  <1>w. \A w \in Workers : work[w] \in Work
    BY DEF TypeOK
  <1>r. /\ \A i \in DOMAIN rows : rows[i].job \in Nat /\ i \in Nat
        /\ Len(rows) + 1 \in Nat
    BY RowType, LenProperties DEF TypeOK, Row
  <1>t. token \in [Devices -> {"none", "good", "dead"}]
    BY DEF TypeOK
  <1>b. ASSUME NEW w \in Workers, NEW job \in Work, Become(w, job) PROVE work' \in [Workers -> Work]
    BY <1>b DEF Become, TypeOK
  <1>d. ASSUME NEW w \in Workers, Done(w) PROVE work' \in [Workers -> Work]
    BY <1>d, <1>i DEF Done, TypeOK
  <1>g. ASSUME NEW w \in Workers, NEW step \in Steps, Goto(w, step) PROVE work' \in [Workers -> Work]
    <2>1. [work[w] EXCEPT !.pc = step] \in Work
      BY <1>w DEF Work
    <2> QED
      BY <1>g, <2>1 DEF Goto, TypeOK
  <1>1. ASSUME NEW w \in Workers, Job(w) PROVE work' \in [Workers -> Work]
    <2>1. ASSUME NEW v \in Waves, WaveStart(w, v) PROVE work' \in [Workers -> Work]
      <3>1. ASSUME NEW M \in SUBSET Match, NEW q \in BOOLEAN, NEW R \in SUBSET Devices
            PROVE  [Idle EXCEPT !.pc = "push", !.wave = v, !.quiet = q, !.matches = M,
                                !.todo = M, !.reach = R] \in Work
        BY <1>i DEF Work, Steps
      <3> QED
        BY <1>0, <1>b, <2>1, <3>1 DEF WaveStart, WaveMatches
    <2>2. ASSUME NEW m \in Match, PushUser(w, m) PROVE work' \in [Workers -> Work]
      <3>1. PICK left : left = [work[w] EXCEPT !.todo = @ \ {m}]
        OBVIOUS
      <3>4. left \in Work
        BY <1>w, <3>1 DEF Work
      <3>2. Targets(w, m) \in SUBSET Devices
        BY <1>w DEF Targets, Work
      <3>3. PICK T \in SUBSET Devices, p \in {"push", "create"} :
              work' = [work EXCEPT ![w].todo = @ \ {m}, ![w].pc = p, ![w].targets = T]
        BY <2>2, <3>2 DEF PushUser
      <3>5. PICK job : job = [left EXCEPT !.pc = p, !.targets = T]
        OBVIOUS
      <3>6. job \in Work
        BY <3>3, <3>4, <3>5 DEF Work, Steps
      <3>7. work' = [work EXCEPT ![w] = job]
        BY <3>1, <3>3, <3>5 DEF TypeOK
      <3> QED
        BY <3>6, <3>7 DEF TypeOK
    <2>3. ASSUME NEW m \in Match, EmailUser(w, m) PROVE work' \in [Workers -> Work]
      <3>1. PICK left : left = [work[w] EXCEPT !.todo = @ \ {m}]
        OBVIOUS
      <3>2. left \in Work
        BY <1>w, <3>1 DEF Work
      <3>3. {m.device} \in SUBSET Devices
        BY DEF Match
      <3>4. ASSUME NEW p \in {"good", "none"}
            PROVE  [left EXCEPT !.pc = "record", !.read = p, !.targets = {m.device}] \in Work
        BY <3>2, <3>3 DEF Work, Steps
      <3>5. ASSUME work' = [work EXCEPT ![w].todo = @ \ {m}]
            PROVE  work' \in [Workers -> Work]
        BY <3>1, <3>2, <3>5 DEF TypeOK
      <3>6. ASSUME NEW p \in {"good", "none"},
                   work' = [work EXCEPT ![w].todo = @ \ {m}, ![w].pc = "record",
                                        ![w].read = p, ![w].targets = {m.device}]
            PROVE  work' \in [Workers -> Work]
        <4>1. PICK job : job = [left EXCEPT !.pc = "record", !.read = p, !.targets = {m.device}]
          OBVIOUS
        <4>2. job \in Work
          BY <3>4, <4>1
        <4>3. work' = [work EXCEPT ![w] = job]
          BY <3>1, <3>6, <4>1 DEF TypeOK
        <4> QED
          BY <4>2, <4>3 DEF TypeOK
      <3>7. \/ work' = [work EXCEPT ![w].todo = @ \ {m}]
            \/ \E p \in {"good", "none"} :
                 work' = [work EXCEPT ![w].todo = @ \ {m}, ![w].pc = "record",
                                      ![w].read = p, ![w].targets = {m.device}]
        BY <2>3 DEF EmailUser
      <3> QED
        BY <3>5, <3>6, <3>7
    <2>4. ASSUME NEW d \in Devices, CreateRow(w, d) \/ StoryRow(w, d)
          PROVE  work' \in [Workers -> Work]
      <3>2. PICK p \in {"add", "story_add"} :
              work' = [work EXCEPT ![w].pc = p, ![w].row = Len(rows) + 1, ![w].targets = @ \ {d}]
        BY <2>4 DEF CreateRow, StoryRow
      <3>3. PICK left : left = [work[w] EXCEPT !.pc = p, !.row = Len(rows) + 1]
        OBVIOUS
      <3>4. left \in Work
        <4>1. PICK old, n : old = work[w] /\ n = Len(rows) + 1
          OBVIOUS
        <4>2. old \in Work /\ n \in Nat /\ p \in Steps
          BY <1>w, <1>r, <3>2, <4>1 DEF Steps
        <4>3. left = [old EXCEPT !.pc = p, !.row = n]
          BY <3>3, <4>1
        <4> QED
          BY <4>2, <4>3 DEF Work
      <3>5. PICK job : job = [left EXCEPT !.targets = @ \ {d}]
        OBVIOUS
      <3>6. job \in Work
        BY <3>4, <3>5 DEF Work
      <3>7. work' = [work EXCEPT ![w] = job]
        <4>1. PICK old, n : old = work[w] /\ n = Len(rows) + 1
          OBVIOUS
        <4>2. work' = [work EXCEPT ![w] = [old EXCEPT !.pc = p, !.row = n, !.targets = @ \ {d}]]
          BY <3>2, <4>1 DEF TypeOK
        <4>3. job = [old EXCEPT !.pc = p, !.row = n, !.targets = @ \ {d}]
          BY <3>3, <3>5, <4>1
        <4> QED
          BY <4>2, <4>3
      <3> QED
        BY <3>6, <3>7 DEF TypeOK
    <2>5. CASE PushPassDone(w)
      <3>1. [Idle EXCEPT !.pc = "email", !.todo = work[w].matches] \in Work
        BY <1>i, <1>w DEF Work, Steps
      <3> QED
        BY <1>b, <1>d, <2>5, <3>1 DEF PushPassDone
    <2>6. CASE RecordEmail(w)
      <3>1. PICK job : job = [work[w] EXCEPT !.pc = "email", !.targets = {}]
        OBVIOUS
      <3>2. job \in Work
        <4>1. PICK old : old = work[w]
          OBVIOUS
        <4>2. old \in Work /\ "email" \in Steps
          BY <1>w, <4>1 DEF Steps
        <4> QED
          BY <3>1, <4>1, <4>2 DEF Work
      <3>3. work' = [work EXCEPT ![w] = job]
        BY <2>6, <3>1 DEF RecordEmail, TypeOK
      <3> QED
        BY <3>2, <3>3 DEF TypeOK
    <2>7. ASSUME NEW i \in DOMAIN rows, PushRead(w, i) PROVE work' \in [Workers -> Work]
      <3>1. ASSUME NEW t \in {"none", "good", "dead"}
            PROVE [Idle EXCEPT !.pc = "send", !.row = i, !.tries = rows[i].job, !.read = t] \in Work
        BY <1>i, <1>r DEF Work, Steps
      <3>2. token[rows[i].device] \in {"none", "good", "dead"}
        BY <1>t, RowType DEF Row
      <3> QED
        BY <1>0, <1>b, <2>7, <3>1, <3>2 DEF PushRead
    <2>8. CASE PushSend(w)
      <3>1. PICK p \in Steps : Goto(w, p)
        BY <2>8 DEF PushSend, fcmSend, apnsSend, webPushSend, Answers, Steps
      <3> QED
        BY <1>g, <3>1
    <2>9. CASE StoryRead(w)
      <3>1. [Idle EXCEPT !.pc = "story_claim"] \in Work
        BY <1>i DEF Work, Steps
      <3> QED
        BY <1>0, <1>b, <2>9, <3>1 DEF StoryRead
    <2>10. CASE StoryRecipients(w)
      <3> DEFINE helpers == (Reached \cup reporters) \ {Creator}
                 targets == {d \in Devices : Owner[d] \in helpers /\ token[d] # "none"}
      <3>0. \A i \in DOMAIN rows : Owner[rows[i].device] \in Users
        BY FanoutAssumption, RowType DEF Row
      <3>1. helpers \subseteq Users
        BY <3>0 DEF Reached, TypeOK
      <3>2. targets \subseteq Devices
        OBVIOUS
      <3> HIDE DEF helpers, targets
      <3>3. PICK job : job = [work[w] EXCEPT !.pc = "story_create", !.users = helpers,
                                             !.targets = targets]
        OBVIOUS
      <3>5. job \in Work
        <4>1. PICK old : old = work[w]
          OBVIOUS
        <4>2. old \in Work /\ "story_create" \in Steps
          BY <1>w, <4>1 DEF Steps
        <4> QED
          BY <3>1, <3>2, <3>3, <4>1, <4>2 DEF Work
      <3>4. work' = [work EXCEPT ![w].pc = "story_create", ![w].users = helpers,
                                 ![w].targets = targets]
        BY <2>10 DEF StoryRecipients, helpers, targets
      <3>6. work' = [work EXCEPT ![w] = job]
        BY <3>3, <3>4 DEF TypeOK
      <3> QED
        BY <3>5, <3>6 DEF TypeOK
    <2>11. ASSUME NEW u \in Users, StoryEmail(w, u) PROVE work' \in [Workers -> Work]
      <3>1. [work[w] EXCEPT !.users = @ \ {u}] \in Work
        BY <1>w DEF Work
      <3> QED
        BY <2>11, <3>1 DEF StoryEmail, TypeOK
    <2> QED
      BY <1>1, <1>d, <1>g, <2>1, <2>2, <2>3, <2>4, <2>5, <2>6, <2>7, <2>8, <2>9, <2>10, <2>11
      DEF Job, AddJob, WaveDone, PushSettle, PushRetry, ClearToken, StoryClaim, StoryAdd, StoryDone, Steps
  <1>2. ASSUME NEW w \in Workers, Crash(w) \/ PushThrows(w) \/ Stall(w)
        PROVE  work' \in [Workers -> Work]
    BY <1>0, <1>2, <1>d, <1>g DEF Crash, PushThrows, Stall, Steps
  <1> QED
    BY <1>0, <1>1, <1>2, SightingFrame DEF Next, vars, Close, Open, Register, Unsubscribe

\* A step changes what one worker remembers.
LEMMA OneMoves ==
  ASSUME NEW w \in Workers, TypeOK, Job(w) \/ Crash(w) \/ PushThrows(w) \/ Stall(w)
  PROVE  \A v \in Workers : v # w => work'[v] = work[v]
  <1>0. UNCHANGED work => \A v \in Workers : v # w => work'[v] = work[v]
    OBVIOUS
  <1>1. ASSUME NEW x, work' = [work EXCEPT ![w] = x] PROVE \A v \in Workers : v # w => work'[v] = work[v]
    BY <1>1 DEF TypeOK
  <1>2. Done(w) => \A v \in Workers : v # w => work'[v] = work[v]
    BY <1>1 DEF Done
  <1>3. \A p : Goto(w, p) => \A v \in Workers : v # w => work'[v] = work[v]
    BY <1>1 DEF Goto
  <1>4. \A job : Become(w, job) => \A v \in Workers : v # w => work'[v] = work[v]
    BY <1>1 DEF Become
  <1>5. ASSUME Job(w) PROVE \A v \in Workers : v # w => work'[v] = work[v]
    <2>1. ASSUME NEW v \in Waves, WaveStart(w, v) PROVE \A x \in Workers : x # w => work'[x] = work[x]
      BY <1>0, <1>4, <2>1 DEF WaveStart
    <2>2. ASSUME NEW m \in Match, PushUser(w, m) \/ EmailUser(w, m)
          PROVE  \A x \in Workers : x # w => work'[x] = work[x]
      BY <1>1, <2>2 DEF PushUser, EmailUser, TypeOK
    <2>3. ASSUME NEW d \in Devices, CreateRow(w, d) \/ StoryRow(w, d)
          PROVE  \A x \in Workers : x # w => work'[x] = work[x]
      BY <1>1, <2>3 DEF CreateRow, StoryRow, TypeOK
    <2>4. CASE AddJob(w) \/ PushPassDone(w) \/ RecordEmail(w) \/ WaveDone(w)
      BY <1>1, <1>2, <1>3, <1>4, <2>4 DEF AddJob, PushPassDone, RecordEmail, WaveDone, TypeOK
    <2>5. ASSUME NEW i \in DOMAIN rows, PushRead(w, i)
          PROVE  \A x \in Workers : x # w => work'[x] = work[x]
      BY <1>0, <1>4, <2>5 DEF PushRead
    <2>6. CASE PushSend(w) \/ PushSettle(w) \/ PushRetry(w) \/ ClearToken(w)
      BY <1>2, <1>3, <2>6 DEF PushSend, PushSettle, PushRetry, ClearToken
    <2>7. CASE StoryRead(w) \/ StoryClaim(w) \/ StoryAdd(w) \/ StoryDone(w)
      BY <1>0, <1>2, <1>3, <1>4, <2>7 DEF StoryRead, StoryClaim, StoryAdd, StoryDone
    <2>8. CASE StoryRecipients(w)
      BY <2>8 DEF StoryRecipients, TypeOK
    <2>9. ASSUME NEW u \in Users, StoryEmail(w, u)
          PROVE  \A x \in Workers : x # w => work'[x] = work[x]
      BY <2>9 DEF StoryEmail, TypeOK
    <2> QED
      BY <1>5, <2>1, <2>2, <2>3, <2>4, <2>5, <2>6, <2>7, <2>8, <2>9 DEF Job
  <1>6. ASSUME Crash(w) \/ PushThrows(w) \/ Stall(w)
        PROVE  \A v \in Workers : v # w => work'[v] = work[v]
    BY <1>0, <1>2, <1>3, <1>6 DEF Crash, PushThrows, Stall
  <1> QED
    BY <1>5, <1>6

\* A wave either finds the alert inactive, or starts with the push pass.
LEMMA StartEffect ==
  ASSUME work \in [Workers -> Work], NEW w \in Workers, NEW v \in Waves, WaveStart(w, v)
  PROVE  work' = work \/ work'[w].pc = "push"
  <1>1. ASSUME NEW job, Become(w, job) PROVE work'[w] = job
    BY <1>1 DEF Become
  <1>2. ASSUME NEW M, NEW q, NEW R,
               Become(w, [Idle EXCEPT !.pc = "push", !.wave = v, !.quiet = q, !.matches = M,
                                      !.todo = M, !.reach = R])
        PROVE  work'[w].pc = "push"
    BY <1>1, <1>2 DEF Idle
  <1> QED
    BY <1>2 DEF WaveStart

\* A push job that still finds a token goes on to send, with the row's attempts.
LEMMA PushReadEffect ==
  ASSUME work \in [Workers -> Work], NEW w \in Workers, NEW i \in DOMAIN rows, PushRead(w, i)
  PROVE  \/ work' = work
         \/ work'[w].pc = "send" /\ work'[w].row = i /\ work'[w].tries = rows[i].job
  <1>1. PICK t, n : t = token[rows[i].device] /\ n = rows[i].job
    OBVIOUS
  <1>2. \/ UNCHANGED work
        \/ Become(w, [Idle EXCEPT !.pc = "send", !.row = i, !.tries = n, !.read = t])
    BY <1>1 DEF PushRead
  <1>3. ASSUME Become(w, [Idle EXCEPT !.pc = "send", !.row = i, !.tries = n, !.read = t])
        PROVE  work'[w].pc = "send" /\ work'[w].row = i /\ work'[w].tries = n
    <2>1. PICK job : job = [Idle EXCEPT !.pc = "send", !.row = i, !.tries = n, !.read = t]
      OBVIOUS
    <2>2. job.pc = "send" /\ job.row = i /\ job.tries = n
      BY <2>1 DEF Idle
    <2>3. work' = [work EXCEPT ![w] = job]
      BY <1>3, <2>1 DEF Become
    <2> QED
      BY <2>2, <2>3
  <1> QED
    BY <1>1, <1>2, <1>3

\* What the two passes make of a match.
LEMMA PushUserEffect ==
  ASSUME TypeOK, NEW w \in Workers, NEW m \in Match, PushUser(w, m)
  PROVE  /\ work'[w].pc \in {"push", "create"}
         /\ work'[w].targets \subseteq Targets(w, m)
         /\ work'[w].targets # {} => ~hasBeenNotified(OwnerOf(m), "PUSH")
  <1>1. PICK p \in {"push", "create"}, T \in SUBSET Targets(w, m) :
          /\ work' = [work EXCEPT ![w].todo = @ \ {m}, ![w].pc = p, ![w].targets = T]
          /\ T # {} => ~hasBeenNotified(OwnerOf(m), "PUSH")
    <2> DEFINE skip == \/ Targets(w, m) = {} \/ work[w].quiet
                       \/ hasBeenNotified(OwnerOf(m), "PUSH")
                       \/ isOverDailyCap(OwnerOf(m), work[w].wave)
    <2>0. work' = [work EXCEPT ![w].todo = @ \ {m}, ![w].pc = IF skip THEN "push" ELSE "create",
                               ![w].targets = IF skip THEN {} ELSE Targets(w, m)]
      BY DEF PushUser
    <2>1. CASE skip
      BY <2>0, <2>1
    <2>2. CASE ~skip
      BY <2>0, <2>2
    <2> QED
      BY <2>1, <2>2
  <1>2. work[w] \in Work /\ work \in [Workers -> Work]
    BY DEF TypeOK
  <1>3. work'[w].pc = p /\ work'[w].targets = T
    BY <1>1, <1>2 DEF Work
  <1> QED
    BY <1>1, <1>3

\* A push pass ends the job, or goes on to the email pass.
LEMMA PushPassEnds ==
  ASSUME TypeOK, NEW w \in Workers, PushPassDone(w)
  PROVE  Done(w) \/ work'[w].pc = "email"
  <1>1. CASE work[w].wave = "HIGH"
    <2> DEFINE job == [Idle EXCEPT !.pc = "email", !.todo = work[w].matches]
    <2>1. work' = [work EXCEPT ![w] = job]
      BY <1>1 DEF PushPassDone, Become
    <2>2. job.pc = "email"
      BY DEF Idle
    <2> HIDE DEF job
    <2>3. work \in [Workers -> Work]
      BY DEF TypeOK
    <2> QED
      BY <2>1, <2>2, <2>3
  <1>2. CASE work[w].wave # "HIGH"
    BY <1>2 DEF PushPassDone
  <1> QED
    BY <1>1, <1>2

LEMMA EmailUserEffect ==
  ASSUME TypeOK, NEW w \in Workers, NEW m \in Match, EmailUser(w, m)
  PROVE  \/ work'[w].pc = "email" /\ UNCHANGED emailed
         \/ \E sent \in BOOLEAN :
              /\ ~hasBeenNotified(OwnerOf(m), "EMAIL")
              /\ work'[w].pc = "record" /\ work'[w].targets = {m.device}
              /\ work'[w].read = IF sent THEN "good" ELSE "none"
              /\ emailed' = [emailed EXCEPT ![OwnerOf(m)] = IF sent THEN @ + 1 ELSE @]
  <1>1. work[w] \in Work /\ work \in [Workers -> Work] /\ work[w].pc = "email"
    BY DEF TypeOK, EmailUser, At
  <1>2. CASE work' = [work EXCEPT ![w].todo = @ \ {m}] /\ UNCHANGED emailed
    <2>1. work'[w].pc = "email"
      BY <1>1, <1>2 DEF Work
    <2> QED
      BY <1>2, <2>1
  <1>3. ASSUME NEW sent \in BOOLEAN, ~hasBeenNotified(OwnerOf(m), "EMAIL"),
               work' = [work EXCEPT ![w].todo = @ \ {m}, ![w].pc = "record",
                                    ![w].read = IF sent THEN "good" ELSE "none",
                                    ![w].targets = {m.device}],
               emailed' = [emailed EXCEPT ![OwnerOf(m)] = IF sent THEN @ + 1 ELSE @]
        PROVE  /\ work'[w].pc = "record" /\ work'[w].targets = {m.device}
               /\ work'[w].read = IF sent THEN "good" ELSE "none"
    BY <1>1, <1>3 DEF Work
  <1> QED
    BY <1>2, <1>3 DEF EmailUser, sendAlertEmail

\* A worker comes to a row by inserting it or by taking its push job.
LEMMA StepBookkeeping == TypeOK /\ Bookkeeping /\ [Next]_vars => Bookkeeping'
  <1> SUFFICES ASSUME TypeOK, Bookkeeping, [Next]_vars, NEW w \in Workers PROVE HoldsRow(w)'
    BY DEF Bookkeeping
  <1>g. DOMAIN rows \subseteq DOMAIN rows'
    BY StepRows DEF RowsGrow
  <1>h. HoldsRow(w) /\ work \in [Workers -> Work] /\ work[w] \in Work
    BY DEF Bookkeeping, TypeOK
  <1>n. work'[w].pc \notin RowSteps => HoldsRow(w)'
    BY DEF HoldsRow, RowSteps
  <1>p. ASSUME NEW p \in Steps, Goto(w, p)
        PROVE  work'[w].pc = p /\ work'[w].row = work[w].row /\ work'[w].tries = work[w].tries
    BY <1>h, <1>p DEF Goto, Work
  <1>0. work'[w] = work[w] => HoldsRow(w)'
    BY <1>g, <1>h DEF HoldsRow
  <1>d. Done(w) => HoldsRow(w)'
    BY <1>h DEF Done, HoldsRow, Idle, RowSteps, PushSteps
  <1>1. ASSUME Job(w) PROVE HoldsRow(w)'
    <2>1. ASSUME NEW v \in Waves, WaveStart(w, v) PROVE HoldsRow(w)'
      <3>1. work' = work \/ work'[w].pc = "push"
        BY <1>h, <2>1, StartEffect
      <3> QED
        BY <1>0, <1>n, <3>1 DEF RowSteps, PushSteps
    <2>2. ASSUME NEW m \in Match, PushUser(w, m) \/ EmailUser(w, m) PROVE HoldsRow(w)'
      <3>1. work'[w].pc \in {"push", "create", "email", "record"}
        BY <2>2, PushUserEffect, EmailUserEffect
      <3> QED
        BY <1>n, <3>1 DEF RowSteps, PushSteps
    <2>3. ASSUME NEW d \in Devices, CreateRow(w, d) \/ StoryRow(w, d) PROVE HoldsRow(w)'
      <3>1. Len(rows) + 1 \in DOMAIN rows'
        BY <2>3, NewRowEffect DEF CreateRow, StoryRow
      <3> QED
        BY <1>h, <2>3, <3>1 DEF CreateRow, StoryRow, HoldsRow, PushSteps, Work
    <2>4. CASE AddJob(w) \/ PushPassDone(w) \/ RecordEmail(w) \/ WaveDone(w)
      <3>1. AddJob(w) => work'[w].pc \in {"push", "create"}
        BY <1>p DEF AddJob, Steps
      <3>2. PushPassDone(w) => Done(w) \/ work'[w].pc = "email"
        BY PushPassEnds
      <3>3. RecordEmail(w) => work'[w].pc = "email"
        BY <1>h DEF RecordEmail, Work
      <3> QED
        BY <1>d, <1>n, <2>4, <3>1, <3>2, <3>3 DEF WaveDone, RowSteps, PushSteps
    <2>5. ASSUME NEW i \in DOMAIN rows, PushRead(w, i) PROVE HoldsRow(w)'
      <3>1. CASE UNCHANGED work
        BY <1>0, <3>1
      <3>2. CASE ~ UNCHANGED work
        <4>1. work'[w] = [Idle EXCEPT !.pc = "send", !.row = i, !.tries = rows[i].job,
                                      !.read = token[rows[i].device]]
          BY <1>h, <2>5, <3>2 DEF PushRead, Become
        <4>2. work'[w].row = i /\ work'[w].tries = rows[i].job
          BY <4>1 DEF Idle
        <4> QED
          BY <1>g, <2>5, <4>2 DEF PushRead, HoldsRow
      <3> QED
        BY <3>1, <3>2
    <2>6. CASE PushSend(w) \/ PushSettle(w) \/ PushRetry(w) \/ ClearToken(w)
      <3>1. work[w].pc \in PushSteps
        BY <2>6 DEF PushSend, PushSettle, PushRetry, ClearToken, At, PushSteps
      <3>2. ASSUME NEW p \in Steps, Goto(w, p) PROVE HoldsRow(w)'
        BY <1>g, <1>h, <1>p, <3>1, <3>2 DEF HoldsRow, RowSteps
      <3> QED
        BY <1>d, <2>6, <3>2
        DEF PushSend, PushSettle, PushRetry, ClearToken, fcmSend, apnsSend, webPushSend, Answers, Steps
    <2>7. CASE StoryRead(w) \/ StoryClaim(w) \/ StoryAdd(w) \/ StoryDone(w)
      BY <1>0, <1>d, <1>h, <1>n, <1>p, <2>7
      DEF StoryRead, StoryClaim, StoryAdd, StoryDone, Become, Idle, RowSteps, PushSteps, Steps
    <2>8. CASE StoryRecipients(w)
      BY <1>h, <1>n, <2>8 DEF StoryRecipients, RowSteps, PushSteps, Work
    <2>9. ASSUME NEW u \in Users, StoryEmail(w, u) PROVE HoldsRow(w)'
      BY <1>h, <1>n, <2>9 DEF StoryEmail, RowSteps, PushSteps, At, Work
    <2> QED
      BY <1>1, <2>1, <2>2, <2>3, <2>4, <2>5, <2>6, <2>7, <2>8, <2>9 DEF Job
  <1>2. ASSUME Crash(w) \/ PushThrows(w) \/ Stall(w) PROVE HoldsRow(w)'
    BY <1>0, <1>2, <1>d, <1>g, <1>h, <1>p
    DEF Crash, PushThrows, Stall, HoldsRow, IsPush, RowSteps, PushSteps, Steps
  <1>3. ASSUME NEW v \in Workers, v # w, Job(v) \/ Crash(v) \/ PushThrows(v) \/ Stall(v)
        PROVE  HoldsRow(w)'
    BY <1>0, <1>3, OneMoves
  <1> QED
    BY <1>0, <1>1, <1>2, <1>3, SightingFrame DEF Next, vars, Close, Open, Register, Unsubscribe

\* The registers besides the rows and the workers keep their types.
Registers ==
  /\ status \in {"ACTIVE", "CLOSED"} /\ token \in [Devices -> {"none", "good", "dead"}]
  /\ waves \in [Waves -> Nat] /\ story \in BOOLEAN /\ claimed \in BOOLEAN
  /\ reporters \subseteq Users
  /\ sightings \in [Reports -> Report] /\ faults \in Nat /\ changes \in Nat

Counts ==
  /\ pushed \in [Devices -> Nat] /\ retried \in [Devices -> Nat]
  /\ emailed \in [Users -> Nat]

LEMMA StepRegisters == TypeOK /\ Bookkeeping /\ [Next]_vars => Registers'
  <1> SUFFICES ASSUME TypeOK, Bookkeeping, [Next]_vars PROVE Registers'
    OBVIOUS
  <1>t. Registers
    BY DEF TypeOK, Registers
  <1>w. \A w \in Workers : work[w].wave \in Waves
    BY DEF TypeOK, Work
  <1>q. ASSUME NEW w \in Workers, Requeue(w)
        PROVE  waves' \in [Waves -> Nat] /\ story' \in BOOLEAN
    BY <1>q, <1>t, <1>w DEF Requeue, Registers, IsWave, IsStory
  <1>1. ASSUME NEW w \in Workers, Job(w) PROVE Registers'
    <2>1. ASSUME NEW v \in Waves, WaveStart(w, v) PROVE Registers'
      <3>0. waves \in [Waves -> Nat] /\ waves[v] > 0 /\ waves' = [waves EXCEPT ![v] = @ - 1]
        BY <1>t, <2>1 DEF WaveStart, Registers
      <3>1. waves' \in [Waves -> Nat]
        <4>1. waves[v] - 1 \in Nat
          BY <3>0
        <4> QED
          BY <3>0, <4>1
      <3> QED
        BY <1>t, <2>1, <3>1 DEF WaveStart, Registers, bounds
    <2>2. ASSUME NEW m \in Match, PushUser(w, m) \/ EmailUser(w, m) PROVE Registers'
      BY <1>t, <2>2 DEF PushUser, EmailUser, Registers, bounds, queue
    <2>3. ASSUME NEW d \in Devices, CreateRow(w, d) \/ StoryRow(w, d) PROVE Registers'
      BY <1>t, <2>3 DEF CreateRow, StoryRow, Registers, bounds, queue
    <2>4. CASE AddJob(w) \/ PushPassDone(w) \/ RecordEmail(w) \/ WaveDone(w)
      BY <1>t, <2>4 DEF AddJob, PushPassDone, RecordEmail, WaveDone, Registers, bounds, queue
    <2>5. ASSUME NEW i \in DOMAIN rows, PushRead(w, i) PROVE Registers'
      BY <1>t, <2>5 DEF PushRead, Registers, bounds, queue
    <2>6. CASE PushSend(w) \/ PushSettle(w) \/ PushRetry(w) \/ ClearToken(w)
      BY <1>t, <2>6 DEF PushSend, PushSettle, PushRetry, ClearToken, Registers, bounds, queue
    <2>7. CASE StoryRead(w) \/ StoryClaim(w) \/ StoryAdd(w) \/ StoryDone(w) \/ StoryRecipients(w)
      BY <1>t, <2>7
      DEF StoryRead, StoryClaim, StoryAdd, StoryDone, StoryRecipients, Registers, bounds, queue
    <2>8. ASSUME NEW u \in Users, StoryEmail(w, u) PROVE Registers'
      BY <1>t, <2>8 DEF StoryEmail, Registers, bounds, queue
    <2> QED
      BY <1>1, <2>1, <2>2, <2>3, <2>4, <2>5, <2>6, <2>7, <2>8 DEF Job
  <1>2. ASSUME NEW w \in Workers, Crash(w) \/ PushThrows(w) \/ Stall(w) PROVE Registers'
    BY <1>2, <1>q, <1>t DEF Crash, PushThrows, Stall, Registers, bounds, queue
  <1>3. ASSUME NEW p \in Reports, Sighting(p) PROVE Registers'
    <2>1. reporters' \subseteq Users
      BY <1>3, <1>t, SightingReports DEF Registers
    <2> QED
      BY <1>3, <1>t, <2>1, SightingFrame, SightingReports DEF Registers
  <1>4. ASSUME NEW share \in BOOLEAN, Close(share) PROVE Registers'
    BY <1>4, <1>t DEF Close, Registers, bounds
  <1>5. ASSUME NEW d \in Devices, Register(d) \/ Unsubscribe(d) PROVE Registers'
    BY <1>5, <1>t DEF Register, Unsubscribe, Registers, queue
  <1>6. ASSUME NEW i \in DOMAIN rows, Open(i) PROVE Registers'
    BY <1>6, <1>t DEF Open, Registers, bounds, queue
  <1>7. CASE UNCHANGED vars
    BY <1>7, <1>t DEF vars, Registers, bounds, queue
  <1> QED
    BY <1>1, <1>2, <1>3, <1>4, <1>5, <1>6, <1>7 DEF Next

\* What is never undone: deliveries, reports and the claim.
Grow ==
  /\ \A d \in Devices : pushed[d] > 0 => pushed'[d] > 0
  /\ \A u \in Users : emailed[u] > 0 => emailed'[u] > 0
  /\ reporters \subseteq reporters'
  /\ claimed => claimed'

LEMMA StepGrow == TypeOK /\ Bookkeeping /\ [Next]_vars => Counts' /\ Grow
  <1> SUFFICES ASSUME TypeOK, Bookkeeping, [Next]_vars PROVE Counts' /\ Grow
    OBVIOUS
  <1>t. Counts
    BY DEF TypeOK, Counts
  <1>0. UNCHANGED history => Counts' /\ (reporters \subseteq reporters' /\ (claimed => claimed') => Grow)
    BY <1>t DEF history, Counts, Grow
  <1>r. \A i \in DOMAIN rows : rows[i].device \in Devices
    BY RowType DEF Row
  <1>1. ASSUME NEW w \in Workers, Job(w) PROVE Counts' /\ Grow
    <2>1. ASSUME NEW m \in Match, EmailUser(w, m) PROVE Counts' /\ Grow
      <3>1. OwnerOf(m) \in Users
        BY FanoutAssumption DEF OwnerOf, Match
      <3>2. CASE UNCHANGED emailed
        BY <1>t, <2>1, <3>2 DEF EmailUser, Counts, Grow
      <3>3. ASSUME NEW n \in {emailed[OwnerOf(m)], emailed[OwnerOf(m)] + 1},
                   emailed' = [emailed EXCEPT ![OwnerOf(m)] = n]
            PROVE  Counts' /\ Grow
        <4>1. n \in Nat /\ (emailed[OwnerOf(m)] > 0 => n > 0)
          BY <1>t, <3>1, <3>3 DEF Counts
        <4> QED
          BY <1>t, <2>1, <3>1, <3>3, <4>1 DEF EmailUser, Counts, Grow
      <3> QED
        BY <2>1, <3>2, <3>3, EmailUserEffect
    <2>2. CASE PushSend(w)
      <3> DEFINE d == rows[work[w].row].device
      <3>1. d \in Devices
        BY <1>r, <2>2 DEF PushSend, At, Bookkeeping, HoldsRow, RowSteps, PushSteps
      <3>2. PICK n \in {pushed[d], pushed[d] + 1} : pushed' = [pushed EXCEPT ![d] = n]
        BY <2>2 DEF PushSend
      <3>3. n \in Nat /\ (pushed[d] > 0 => n > 0)
        BY <1>t, <3>1, <3>2 DEF Counts
      <3> QED
        BY <1>t, <2>2, <3>1, <3>2, <3>3 DEF PushSend, Counts, Grow
    <2>3. ASSUME NEW v \in Waves, WaveStart(w, v) PROVE Counts' /\ Grow
      BY <1>0, <2>3 DEF WaveStart
    <2>4. ASSUME NEW m \in Match, PushUser(w, m) PROVE Counts' /\ Grow
      BY <1>0, <2>4 DEF PushUser
    <2>5. ASSUME NEW d \in Devices, CreateRow(w, d) \/ StoryRow(w, d) PROVE Counts' /\ Grow
      BY <1>0, <2>5 DEF CreateRow, StoryRow
    <2>6. CASE AddJob(w) \/ PushPassDone(w) \/ RecordEmail(w) \/ WaveDone(w)
      BY <1>0, <2>6 DEF AddJob, PushPassDone, RecordEmail, WaveDone
    <2>7. ASSUME NEW i \in DOMAIN rows, PushRead(w, i) PROVE Counts' /\ Grow
      BY <1>0, <2>7 DEF PushRead
    <2>8. CASE PushSettle(w) \/ ClearToken(w)
      BY <1>0, <2>8 DEF PushSettle, ClearToken
    <2>11. CASE PushRetry(w)
      <3> DEFINE d == rows[work[w].row].device
      <3>1. d \in Devices
        BY <1>r, <2>11 DEF PushRetry, At, Bookkeeping, HoldsRow, RowSteps, PushSteps
      <3>2. PICK n \in {retried[d], retried[d] + 1} : retried' = [retried EXCEPT ![d] = n]
        BY <2>11 DEF PushRetry
      <3>3. n \in Nat
        BY <1>t, <3>1, <3>2 DEF Counts
      <3> QED
        BY <1>t, <2>11, <3>1, <3>2, <3>3 DEF PushRetry, Counts, Grow
    <2>9. CASE StoryRead(w) \/ StoryClaim(w) \/ StoryAdd(w) \/ StoryDone(w) \/ StoryRecipients(w)
      BY <1>0, <2>9 DEF StoryRead, StoryClaim, StoryAdd, StoryDone, StoryRecipients
    <2>10. ASSUME NEW u \in Users, StoryEmail(w, u) PROVE Counts' /\ Grow
      BY <1>0, <2>10 DEF StoryEmail
    <2> QED
      BY <1>1, <2>1, <2>2, <2>3, <2>4, <2>5, <2>6, <2>7, <2>8, <2>9, <2>10, <2>11 DEF Job
  <1>2. ASSUME NEW w \in Workers, Crash(w) \/ PushThrows(w) \/ Stall(w) PROVE Counts' /\ Grow
    BY <1>0, <1>2 DEF Crash, PushThrows, Stall
  <1>3. ASSUME NEW p \in Reports, Sighting(p) PROVE Counts' /\ Grow
    <2>1. UNCHANGED history /\ claimed' = claimed
      BY <1>3, SightingFrame DEF history
    <2>2. reporters \subseteq reporters'
      BY <1>3, SightingReports
    <2> QED
      BY <1>0, <2>1, <2>2
  <1>4. ASSUME NEW share \in BOOLEAN, Close(share) PROVE Counts' /\ Grow
    BY <1>0, <1>4 DEF Close
  <1>5. ASSUME NEW d \in Devices, Register(d) \/ Unsubscribe(d) PROVE Counts' /\ Grow
    BY <1>0, <1>5 DEF Register, Unsubscribe
  <1>6. ASSUME NEW i \in DOMAIN rows, Open(i) PROVE Counts' /\ Grow
    BY <1>0, <1>6 DEF Open
  <1>7. CASE UNCHANGED vars
    BY <1>0, <1>7 DEF vars
  <1> QED
    BY <1>1, <1>2, <1>3, <1>4, <1>5, <1>6, <1>7 DEF Next

\* The first layer of both invariants: types, and workers at real rows.
Base == TypeOK /\ Bookkeeping

LEMMA InitBase == Init => Base
  <1> SUFFICES ASSUME Init PROVE Base
    OBVIOUS
  <1>1. rows \in Seq(Row)
    BY EmptySeq DEF Init
  <1>0. [pc |-> "none", by |-> Creator, todo |-> {}] \in Report
    BY FanoutAssumption DEF Report
  <1>2. TypeOK
    BY <1>0, <1>1, FanoutAssumption, IdleType DEF Init, TypeOK
  <1>3. \A w \in Workers : work[w].pc = "idle"
    BY DEF Init, Idle
  <1> QED
    BY <1>2, <1>3 DEF Base, Bookkeeping, HoldsRow, RowSteps, PushSteps

LEMMA StepBase == Base /\ [Next]_vars => Base'
  BY StepRows, StepWork, StepRegisters, StepGrow, StepBookkeeping
  DEF Base, TypeOK, Registers, Counts

\* Rows, queue and workers keep to their types: no job of a worker is about a row that was
\* never inserted, and no counter goes below zero.
THEOREM TypeCorrect == Spec => []TypeOK
  <1>1. Base /\ UNCHANGED vars => Base'
    BY StepBase
  <1> QED
    BY InitBase, StepBase, PTL DEF Spec, Base

--------------------------------------------------------------------------------
(* The success story *)

InStory(w) == work[w].pc \in {"story_read", "story_create", "story_add"}
StoryRowOf(d) == \E i \in DOMAIN rows : rows[i].kind = "story" /\ rows[i].device = d

\* A worker past the claim: there was a claim, and the devices it still has got no row yet.
Claimant(w) ==
  InStory(w) =>
    /\ claimed
    /\ At(w, "story_read") => \A d \in Devices : ~StoryRowOf(d)
    /\ \A d \in work[w].targets : ~StoryRowOf(d)

\* One worker, ever, gets past the claim.
Claim ==
  /\ \A d \in Devices : StoryRowOf(d) => claimed
  /\ \A w \in Workers : Claimant(w)
  /\ \A v, w \in Workers : InStory(v) /\ InStory(w) => v = w

\* A user to be thanked.
Helper(u) == u # Creator /\ Helped(u)

RowHelped(i) ==
  LET u == Owner[rows[i].device] IN
  /\ rows[i].status = "SENT" => Helped(u)
  /\ rows[i].kind \in {"story", "story_email"} => Helper(u)

WorkHelped(w) ==
  /\ At(w, "sent") => Helped(Owner[rows[work[w].row].device])
  /\ At(w, "record") /\ work[w].read = "good" => \A d \in work[w].targets : emailed[Owner[d]] > 0
  /\ work[w].pc \in {"story_create", "story_add"} =>
       /\ \A u \in work[w].users : Helper(u)
       /\ \A d \in work[w].targets : Helper(Owner[d])

Helpers == (\A i \in DOMAIN rows : RowHelped(i)) /\ (\A w \in Workers : WorkHelped(w))

\* Only the success-story job writes story rows and records thank-you emails.
NoThanks == \A i \in DOMAIN rows' \ DOMAIN rows : rows'[i].kind \notin {"story", "story_email"}

LEMMA ThanksKept ==
  Base /\ [Next]_vars =>
    \/ NoThanks
    \/ \E w \in Workers, d \in Devices : StoryRow(w, d)
    \/ \E w \in Workers, u \in Users : StoryEmail(w, u)
  <1> DEFINE Kept == \A i \in DOMAIN rows' \ DOMAIN rows : rows'[i].kind \notin {"story", "story_email"}
  <1> SUFFICES ASSUME TypeOK, Bookkeeping, [Next]_vars,
                      \A w \in Workers, d \in Devices : ~StoryRow(w, d),
                      \A w \in Workers, u \in Users : ~StoryEmail(w, u)
               PROVE  Kept
    BY DEF Base, NoThanks
  <1>0. UNCHANGED rows => Kept
    OBVIOUS
  <1>r. \A i \in DOMAIN rows : rows[i] \in Row
    BY RowType
  <1>w. ASSUME NEW w \in Workers
        PROVE  /\ work[w].targets \subseteq Devices
               /\ work[w].pc \in RowSteps => work[w].row \in DOMAIN rows
    BY DEF TypeOK, Work, Bookkeeping, HoldsRow
  <1>u. ASSUME NEW x, NEW i \in DOMAIN rows, rows' = [rows EXCEPT ![i] = x] PROVE Kept
    BY <1>u
  <1>a. ASSUME NEW d \in Devices, NEW k \in {"alert", "email"},
               NEW st \in {"QUEUED", "SENT", "FAILED"}, NewRow(d, k, st)
        PROVE  Kept
    <2>1. /\ DOMAIN rows' = DOMAIN rows \cup {Len(rows) + 1}
          /\ rows'[Len(rows) + 1] = [device |-> d, kind |-> k, status |-> st, job |-> 0]
      BY <1>a, NewRowEffect
    <2> QED
      BY <2>1
  <1>q. ASSUME NEW w \in Workers, Requeue(w) PROVE Kept
    BY <1>0, <1>q, <1>u, <1>w DEF Requeue
  <1>1. ASSUME NEW w \in Workers, Job(w) PROVE Kept
    <2>1. ASSUME NEW d \in Devices, CreateRow(w, d) PROVE Kept
      BY <1>a, <2>1 DEF CreateRow
    <2>2. CASE AddJob(w) \/ StoryAdd(w) \/ PushSettle(w) \/ PushRetry(w)
      BY <2>2 DEF AddJob, StoryAdd, PushSettle, PushRetry, SetStatus
    <2>3. CASE RecordEmail(w)
      BY <1>0, <1>a, <1>w, <2>3 DEF RecordEmail
    <2>4. ASSUME NEW i \in DOMAIN rows, PushRead(w, i) PROVE Kept
      BY <2>4 DEF PushRead
    <2> QED
      BY <1>0, <1>1, <2>1, <2>2, <2>3, <2>4
      DEF Job, WaveStart, PushUser, EmailUser, PushPassDone, WaveDone, PushSend, ClearToken,
          StoryRead, StoryClaim, StoryRecipients, StoryDone
  <1>2. ASSUME NEW w \in Workers, Crash(w) \/ PushThrows(w) \/ Stall(w) PROVE Kept
    BY <1>0, <1>2, <1>q DEF Crash, PushThrows, Stall
  <1>3. ASSUME NEW p \in Reports, Sighting(p) PROVE Kept
    BY <1>3, SightingRows
  <1>4. ASSUME NEW i \in DOMAIN rows, Open(i) PROVE Kept
    BY <1>4 DEF Open, SetStatus
  <1> QED
    BY <1>0, <1>1, <1>2, <1>3, <1>4 DEF Next, vars, Close, Register, Unsubscribe

LEMMA StoryEmailRow ==
  ASSUME TypeOK, NEW w \in Workers, NEW u \in Users, StoryEmail(w, u)
  PROVE  \/ rows' = rows
         \/ \E d \in Devices, st \in {"SENT", "FAILED"} :
              Owner[d] = u /\ NewRow(d, "story_email", st)
  BY DEF StoryEmail

LEMMA StoryRowsKept ==
  Base /\ [Next]_vars =>
    \/ \A i \in DOMAIN rows' \ DOMAIN rows : rows'[i].kind # "story"
    \/ \E w \in Workers, d \in Devices : StoryRow(w, d)
  <1> SUFFICES ASSUME Base, NEW w \in Workers, NEW u \in Users, StoryEmail(w, u)
               PROVE  \A i \in DOMAIN rows' \ DOMAIN rows : rows'[i].kind # "story"
    BY ThanksKept DEF NoThanks
  <1>1. ASSUME NEW d \in Devices, NEW st \in {"SENT", "FAILED"}, NewRow(d, "story_email", st)
        PROVE  /\ DOMAIN rows' = DOMAIN rows \cup {Len(rows) + 1}
               /\ rows'[Len(rows) + 1].kind = "story_email"
    <2>1. TypeOK /\ st \in {"QUEUED", "SENT", "FAILED"}
      BY DEF Base
    <2>2. /\ DOMAIN rows' = DOMAIN rows \cup {Len(rows) + 1}
          /\ rows'[Len(rows) + 1] = [device |-> d, kind |-> "story_email", status |-> st, job |-> 0]
      BY <1>1, <2>1, NewRowEffect
    <2> QED
      BY <2>2
  <1> QED
    BY <1>1, StoryEmailRow DEF Base

\* How a worker comes past the claim, and what it then has left to do.
StoryStep(w) ==
  \/ StoryClaim(w) /\ ~claimed /\ At(w, "story_read")'
  \/ StoryRecipients(w) /\ At(w, "story_create")'
  \/ \E d \in Devices :
       StoryRow(w, d) /\ work'[w].targets = work[w].targets \ {d} /\ At(w, "story_add")'
  \/ StoryAdd(w) /\ work'[w].targets = work[w].targets /\ At(w, "story_create")'
  \/ \E u \in Users :
       /\ StoryEmail(w, u) /\ work'[w].targets = {} /\ At(w, "story_create")'
       /\ work'[w].users \subseteq work[w].users

\* There is no other way, and none to the claim but the job.
LEMMA StoryJob ==
  ASSUME Base, [Next]_vars, NEW w \in Workers, IsStory(w)'
  PROVE  work'[w] = work[w] \/ (StoryRead(w) /\ At(w, "story_claim")') \/ StoryStep(w)
  <1> DEFINE Claims == StoryRead(w) /\ At(w, "story_claim")'
             Goal == work'[w] = work[w] \/ Claims \/ StoryStep(w)
  <1> HIDE DEF Goal
  <1>t. TypeOK
    BY DEF Base
  <1>h. work[w] \in Work /\ work \in [Workers -> Work]
    BY DEF Base, TypeOK
  <1>n. work'[w].pc \in {"story_claim", "story_read", "story_create", "story_add"}
    BY DEF IsStory
  <1>0. work'[w] = work[w] => Goal
    BY DEF Goal
  <1>s. StoryStep(w) => Goal
    BY DEF Goal
  <1>d. ~Done(w)
    BY <1>h, <1>n DEF Done, Idle
  <1>p. ASSUME NEW p \in Steps, Goto(w, p)
        PROVE  work'[w].pc = p /\ work'[w].targets = work[w].targets
    BY <1>h, <1>p DEF Goto, Work
  <1>1. ASSUME Job(w) PROVE Goal
    <2>1. ASSUME NEW v \in Waves, WaveStart(w, v) PROVE Goal
      <3>1. work' = work \/ work'[w].pc = "push"
        BY <1>h, <2>1, StartEffect
      <3> QED
        BY <1>0, <1>n, <3>1
    <2>2. ASSUME NEW m \in Match, PushUser(w, m) \/ EmailUser(w, m) PROVE Goal
      BY <1>n, <1>t, <2>2, PushUserEffect, EmailUserEffect
    <2>3. ASSUME NEW d \in Devices, CreateRow(w, d) PROVE Goal
      <3>1. work'[w].pc = "add"
        BY <1>h, <2>3 DEF CreateRow, Work
      <3> QED
        BY <1>n, <3>1
    <2>4. ASSUME NEW d \in Devices, StoryRow(w, d) PROVE Goal
      <3>1. work'[w].pc = "story_add" /\ work'[w].targets = work[w].targets \ {d}
        BY <1>h, <2>4 DEF StoryRow, Work
      <3> QED
        BY <1>s, <2>4, <3>1 DEF StoryStep, At
    <2>5. CASE AddJob(w)
      <3>1. work'[w].pc \in {"push", "create"}
        BY <1>p, <2>5 DEF AddJob, Steps
      <3> QED
        BY <1>n, <3>1
    <2>6. CASE PushPassDone(w)
      <3>1. work'[w].pc = "email"
        BY <1>d, <1>t, <2>6, PushPassEnds
      <3> QED
        BY <1>n, <3>1
    <2>7. CASE RecordEmail(w)
      <3>1. work'[w].pc = "email"
        BY <1>h, <2>7 DEF RecordEmail, Work
      <3> QED
        BY <1>n, <3>1
    <2>8. ASSUME NEW i \in DOMAIN rows, PushRead(w, i) PROVE Goal
      <3>1. work' = work \/ work'[w].pc = "send"
        BY <1>h, <2>8, PushReadEffect
      <3> QED
        BY <1>0, <1>n, <3>1
    <2>9. CASE PushSend(w) \/ PushSettle(w) \/ PushRetry(w) \/ ClearToken(w)
      <3>1. \E p \in Steps \ {"story_claim", "story_read", "story_create", "story_add"} : Goto(w, p)
        BY <1>d, <2>9
        DEF PushSend, PushSettle, PushRetry, ClearToken, fcmSend, apnsSend, webPushSend, Answers, Steps
      <3> QED
        BY <1>n, <1>p, <3>1
    <2>10. CASE StoryRead(w)
      <3>1. work' = work \/ work'[w].pc = "story_claim"
        BY <1>h, <2>10 DEF StoryRead, Become, Idle
      <3> QED
        BY <1>0, <2>10, <3>1 DEF Goal, At
    <2>11. CASE StoryClaim(w)
      BY <1>d, <1>p, <1>s, <2>11 DEF StoryClaim, StoryStep, Steps, At
    <2>12. CASE StoryRecipients(w)
      <3>1. work'[w].pc = "story_create"
        BY <1>h, <2>12 DEF StoryRecipients, Work
      <3> QED
        BY <1>s, <2>12, <3>1 DEF StoryStep, At
    <2>13. CASE StoryAdd(w)
      BY <1>p, <1>s, <2>13 DEF StoryAdd, StoryStep, Steps, At
    <2>14. ASSUME NEW u \in Users, StoryEmail(w, u) PROVE Goal
      <3>1. /\ work'[w].targets = work[w].targets /\ work'[w].pc = work[w].pc
            /\ work'[w].users = work[w].users \ {u}
        BY <1>h, <2>14 DEF StoryEmail, Work
      <3> QED
        BY <1>s, <2>14, <3>1 DEF StoryStep, StoryEmail, At
    <2> QED
      BY <1>1, <1>d, <2>1, <2>2, <2>3, <2>4, <2>5, <2>6, <2>7, <2>8, <2>9, <2>10, <2>11, <2>12,
         <2>13, <2>14
      DEF Job, WaveDone, StoryDone
  <1>2. ASSUME Crash(w) \/ PushThrows(w) \/ Stall(w) PROVE Goal
    BY <1>0, <1>2, <1>d, <1>n, <1>p DEF Crash, PushThrows, Stall, Steps
  <1>3. ASSUME NEW v \in Workers, v # w, Job(v) \/ Crash(v) \/ PushThrows(v) \/ Stall(v) PROVE Goal
    BY <1>0, <1>3, <1>t, OneMoves
  <1>4. Goal
    BY <1>0, <1>1, <1>2, <1>3, SightingFrame DEF Next, vars, Close, Open, Register, Unsubscribe
  <1> QED
    BY <1>4 DEF Goal

LEMMA StoryWork ==
  ASSUME Base, [Next]_vars, NEW w \in Workers, InStory(w)'
  PROVE  work'[w] = work[w] \/ StoryStep(w)
  <1>1. IsStory(w)' /\ ~At(w, "story_claim")'
    BY DEF InStory, IsStory, At
  <1> QED
    BY <1>1, StoryJob

LEMMA StepClaim == Base /\ Claim /\ StoryOnce /\ [Next]_vars => Claim' /\ StoryOnce'
  <1> SUFFICES ASSUME Base, Claim, StoryOnce, [Next]_vars PROVE Claim' /\ StoryOnce'
    OBVIOUS
  <1>t. TypeOK /\ Bookkeeping
    BY DEF Base
  <1>w. \A w \in Workers : work[w] \in Work /\ work[w].targets \subseteq Devices
    BY <1>t DEF TypeOK, Work
  <1>g. RowsGrow /\ (claimed => claimed')
    BY <1>t, StepRows, StepGrow DEF Grow
  <1>s. ASSUME NEW v \in Workers, StoryStep(v)
        PROVE  \A w \in Workers : w # v => work'[w] = work[w]
    BY <1>s, <1>t, OneMoves DEF StoryStep, Job
  <1>c. ASSUME NEW w \in Workers, InStory(w)' PROVE claimed'
    <2>1. work'[w] = work[w] => InStory(w)
      BY <1>c DEF InStory
    <2>2. StoryStep(w) => InStory(w) \/ claimed'
      BY DEF StoryStep, StoryClaim, StoryRecipients, StoryRow, StoryAdd, StoryEmail, InStory, At
    <2> QED
      BY <1>c, <1>g, <2>1, <2>2, StoryWork DEF Claim, Claimant
  <1>o. ASSUME NEW v \in Workers, NEW w \in Workers, InStory(v)', InStory(w)' PROVE v = w
    <2>1. ASSUME NEW x \in Workers, StoryStep(x) PROVE InStory(x) \/ \A y \in Workers : ~InStory(y)
      BY <2>1
      DEF StoryStep, StoryClaim, StoryRecipients, StoryRow, StoryAdd, StoryEmail, InStory, At,
          Claim, Claimant
    <2>2. ASSUME NEW x \in Workers, work'[x] = work[x] PROVE InStory(x)' => InStory(x)
      BY <2>2 DEF InStory
    <2>3. CASE work'[v] = work[v] /\ work'[w] = work[w]
      BY <1>o, <2>2, <2>3 DEF Claim
    <2>4. CASE StoryStep(v) \/ StoryStep(w)
      BY <1>o, <1>s, <2>1, <2>2, <2>4 DEF Claim
    <2> QED
      BY <1>o, <2>3, <2>4, StoryWork
  <1>1. CASE \A i \in DOMAIN rows' \ DOMAIN rows : rows'[i].kind # "story"
    <2>1. \A d \in Devices : StoryRowOf(d)' => StoryRowOf(d)
      BY <1>1, <1>g DEF StoryRowOf, RowsGrow
    <2>2. StoryOnce'
      BY <1>1, <1>g DEF StoryOnce, RowsGrow
    <2>3. ASSUME NEW w \in Workers PROVE Claimant(w)'
      <3>1. CASE ~InStory(w)'
        BY <3>1 DEF Claimant
      <3>2. CASE work'[w] = work[w]
        BY <1>g, <1>w, <2>1, <3>2 DEF Claim, Claimant, InStory, At
      <3>3. CASE InStory(w)' /\ StoryStep(w)
        <4>0. work'[w].targets \subseteq Devices
          BY <1>t, StepWork DEF Work
        <4>1. CASE StoryClaim(w) /\ ~claimed
          <5>1. \A d \in Devices : ~StoryRowOf(d)
            BY <4>1 DEF Claim
          <5> QED
            BY <1>c, <2>1, <3>3, <4>0, <5>1 DEF Claimant
        <4>2. CASE StoryRecipients(w) /\ At(w, "story_create")'
          <5>1. \A d \in Devices : ~StoryRowOf(d)
            BY <4>2 DEF StoryRecipients, Claim, Claimant, InStory, At
          <5> QED
            BY <1>c, <2>1, <3>3, <4>0, <4>2, <5>1 DEF Claimant
        <4>3. ASSUME NEW d \in Devices, StoryRow(w, d), work'[w].targets = work[w].targets \ {d},
                     At(w, "story_add")'
              PROVE  Claimant(w)'
          BY <1>c, <1>w, <2>1, <3>3, <4>3 DEF StoryRow, Claim, Claimant, InStory, At
        <4>4. CASE StoryAdd(w) /\ work'[w].targets = work[w].targets /\ At(w, "story_create")'
          BY <1>c, <1>w, <2>1, <3>3, <4>4 DEF StoryAdd, Claim, Claimant, InStory, At
        <4>5. CASE work'[w].targets = {} /\ At(w, "story_create")'
          BY <1>c, <3>3, <4>5 DEF Claimant, At
        <4> QED
          BY <3>3, <4>1, <4>2, <4>3, <4>4, <4>5 DEF StoryStep
      <3> QED
        BY <3>1, <3>2, <3>3, StoryWork
    <2> QED
      BY <1>g, <1>o, <2>1, <2>2, <2>3 DEF Claim
  <1>2. ASSUME NEW w \in Workers, NEW d \in Devices, StoryRow(w, d) PROVE Claim' /\ StoryOnce'
    <2>1. /\ At(w, "story_create") /\ InStory(w) /\ d \in work[w].targets
          /\ work'[w].targets = work[w].targets \ {d} /\ At(w, "story_add")'
      BY <1>2, <1>t, <1>w DEF StoryRow, At, InStory, TypeOK, Work
    <2>2. claimed /\ claimed' /\ ~StoryRowOf(d) /\ \A e \in work[w].targets : ~StoryRowOf(e)
      BY <1>g, <2>1 DEF Claim, Claimant
    <2>3. /\ DOMAIN rows' = DOMAIN rows \cup {Len(rows) + 1} /\ Len(rows) + 1 \notin DOMAIN rows
          /\ \A i \in DOMAIN rows : rows'[i] = rows[i]
          /\ rows'[Len(rows) + 1] = [device |-> d, kind |-> "story", status |-> "QUEUED", job |-> 0]
      BY <1>2, <1>t, NewRowEffect DEF StoryRow
    <2>4. \A e \in Devices : StoryRowOf(e)' => StoryRowOf(e) \/ e = d
      BY <2>3 DEF StoryRowOf
    <2>5. StoryOnce'
      BY <2>2, <2>3 DEF StoryOnce, StoryRowOf
    <2>6. Claimant(w)'
      BY <1>w, <2>1, <2>2, <2>4 DEF Claimant, At
    <2>7. ASSUME NEW v \in Workers, v # w PROVE Claimant(v)'
      <3>1. ~InStory(v)
        BY <2>1, <2>7 DEF Claim
      <3>2. work'[v] = work[v]
        BY <1>2, <1>t, <2>7, OneMoves DEF Job
      <3> QED
        BY <3>1, <3>2 DEF Claimant, InStory
    <2> QED
      BY <1>o, <2>2, <2>5, <2>6, <2>7 DEF Claim
  <1> QED
    BY <1>1, <1>2, StoryRowsKept

\* "A retried/duplicate job can never fan out twice": whatever jobs crash, stall and run
\* again, no device gets two success-story rows.
THEOREM StoryOnceSafe == Spec => []StoryOnce
  <1>1. Init => Claim /\ StoryOnce
    BY DEF Init, Idle, Claim, Claimant, InStory, StoryRowOf, StoryOnce
  <1>2. Base /\ Claim /\ StoryOnce /\ [Next]_vars => (Base /\ Claim /\ StoryOnce)'
    BY StepBase, StepClaim
  <1> QED
    BY <1>1, <1>2, InitBase, PTL DEF Spec

\* A row that is SENT, or is a thank-you, belongs to a user the alert reached.
LEMMA StepRowHelped ==
  Base /\ Helpers /\ [Next]_vars => \A i \in DOMAIN rows' : RowHelped(i)'
  <1> DEFINE Rows == \A i \in DOMAIN rows' : RowHelped(i)'
  <1> SUFFICES ASSUME Base, Helpers, [Next]_vars PROVE Rows
    OBVIOUS
  <1>t. TypeOK /\ Bookkeeping
    BY DEF Base
  <1>r. \A i \in DOMAIN rows : rows[i] \in Row /\ rows[i].device \in Devices
    BY <1>t, RowType DEF Row
  <1>g. RowsGrow /\ Grow
    BY <1>t, StepRows, StepGrow
  <1>h. \A u \in Users : (Helped(u) => Helped(u)') /\ (Helper(u) => Helper(u)')
    BY <1>g DEF Grow, Helped, Helper
  <1>o. \A d \in Devices : Owner[d] \in Users
    BY FanoutAssumption
  <1>k. ASSUME NEW i \in DOMAIN rows, rows'[i].status \in {rows[i].status, "QUEUED", "FAILED"}
        PROVE  RowHelped(i)'
    <2>1. RowHelped(i) /\ Owner[rows[i].device] \in Users
      BY <1>o, <1>r DEF Helpers
    <2> QED
      BY <1>g, <1>h, <1>k, <2>1 DEF RowHelped, RowsGrow
  <1>0. UNCHANGED rows => Rows
    BY <1>k
  <1>n. ASSUME NEW d \in Devices, NEW k \in {"alert", "email", "story", "story_email"},
               NEW st \in {"QUEUED", "SENT", "FAILED"}, NewRow(d, k, st),
               st = "SENT" => Helped(Owner[d])', k \in {"story", "story_email"} => Helper(Owner[d])'
        PROVE  Rows
    <2>1. /\ DOMAIN rows' = DOMAIN rows \cup {Len(rows) + 1}
          /\ \A i \in DOMAIN rows : rows'[i] = rows[i]
          /\ rows'[Len(rows) + 1] = [device |-> d, kind |-> k, status |-> st, job |-> 0]
      BY <1>n, <1>t, NewRowEffect
    <2>2. PICK new : new = Len(rows) + 1
      OBVIOUS
    <2>3. RowHelped(new)'
      BY <1>n, <2>1, <2>2 DEF RowHelped
    <2> QED
      BY <1>k, <2>1, <2>2, <2>3
  <1>u. ASSUME NEW i \in DOMAIN rows, NEW st \in {"QUEUED", "SENT", "FAILED"}, NEW n \in Nat,
               SetRow(i, st, n),
               st = "SENT" /\ st # rows[i].status =>
                 \A x \in Users : x = Owner[rows[i].device] => Helped(x)'
        PROVE  Rows
    <2>1. /\ DOMAIN rows' = DOMAIN rows /\ rows'[i].status = st
          /\ \A j \in DOMAIN rows : j # i => rows'[j] = rows[j]
      BY <1>t, <1>u, RowEffect
    <2>2. RowHelped(i)'
      <3>1. CASE st \in {rows[i].status, "QUEUED", "FAILED"}
        BY <1>k, <2>1, <3>1
      <3>2. CASE st = "SENT" /\ st # rows[i].status
        <4>1. rows'[i].device = rows[i].device /\ rows'[i].kind = rows[i].kind
          BY <1>g DEF RowsGrow
        <4>2. RowHelped(i) /\ Owner[rows[i].device] \in Users
          BY <1>o, <1>r DEF Helpers
        <4>3. PICK x \in Users : x = Owner[rows[i].device]
          BY <4>2
        <4>4. Helped(x)' /\ (Helper(x) => Helper(x)')
          BY <1>h, <1>u, <3>2, <4>3
        <4> QED
          BY <4>1, <4>2, <4>3, <4>4 DEF RowHelped
      <3> QED
        BY <3>1, <3>2
    <2> QED
      BY <1>k, <2>1, <2>2
  <1>w. ASSUME NEW w \in Workers
        PROVE  /\ work[w].tries \in Nat /\ work[w].targets \subseteq Devices
               /\ work[w].pc \in RowSteps => work[w].row \in DOMAIN rows
               /\ work[w].pc \in PushSteps => work[w].tries > 0
               /\ WorkHelped(w)
    BY <1>t DEF TypeOK, Work, Bookkeeping, HoldsRow, Helpers
  <1>s. \A i \in DOMAIN rows : rows[i].status \in {"QUEUED", "SENT", "FAILED"} /\ rows[i].job \in Nat
    BY <1>r DEF Row
  <1>1. ASSUME NEW w \in Workers, Job(w) PROVE Rows
    <2>1. ASSUME NEW d \in Devices, CreateRow(w, d) PROVE Rows
      BY <1>n, <2>1 DEF CreateRow
    <2>2. ASSUME NEW d \in Devices, StoryRow(w, d) PROVE Rows
      <3>1. Helper(Owner[d])
        BY <1>w, <2>2 DEF StoryRow, At, WorkHelped
      <3>2. Helper(Owner[d])'
        BY <1>h, <1>o, <3>1
      <3> QED
        BY <1>n, <2>2, <3>2 DEF StoryRow
    <2>3. CASE AddJob(w) \/ StoryAdd(w)
      <3>1. work[w].row \in DOMAIN rows /\ Attempts \in Nat
        BY <1>w, <2>3, FanoutAssumption DEF AddJob, StoryAdd, At, RowSteps
      <3> QED
        BY <1>s, <1>u, <2>3, <3>1 DEF AddJob, StoryAdd, SetRow
    <2>4. CASE RecordEmail(w)
      <3>1. ASSUME NEW d \in work[w].targets,
                   NewRow(d, "email", IF work[w].read = "good" THEN "SENT" ELSE "FAILED")
            PROVE  Rows
        <4>1. PICK st \in {"SENT", "FAILED"} :
                NewRow(d, "email", st) /\ (st = "SENT" => emailed[Owner[d]] > 0)
          BY <1>w, <2>4, <3>1 DEF RecordEmail, WorkHelped, At
        <4>2. d \in Devices /\ (emailed[Owner[d]] > 0 => Helped(Owner[d]))
          BY <1>w DEF Helped
        <4>3. emailed[Owner[d]] > 0 => Helped(Owner[d])'
          BY <1>h, <1>o, <4>2
        <4> QED
          BY <1>n, <4>1, <4>2, <4>3
      <3> QED
        BY <1>0, <2>4, <3>1 DEF RecordEmail
    <2>5. ASSUME NEW i \in DOMAIN rows, PushRead(w, i) PROVE Rows
      <3>1. PICK st \in {rows[i].status, "FAILED"} : rows' = [rows EXCEPT ![i].job = 0, ![i].status = st]
        BY <2>5 DEF PushRead
      <3> QED
        BY <1>s, <1>u, <3>1 DEF SetRow
    <2>6. CASE PushSettle(w) \/ PushRetry(w)
      <3>0. PICK i : i = work[w].row
        OBVIOUS
      <3>1. i \in DOMAIN rows /\ work[w].tries - 1 \in Nat
        BY <1>w, <2>6, <3>0 DEF PushSettle, PushRetry, At, PushSteps, RowSteps
      <3>2. CASE At(w, "sent") /\ SetStatus(i, "SENT")
        <4>1. Helped(Owner[rows[i].device])
          BY <1>w, <3>0, <3>2 DEF WorkHelped
        <4>2. \A x \in Users : x = Owner[rows[i].device] => Helped(x)'
          BY <1>h, <4>1
        <4> QED
          BY <1>s, <1>u, <3>1, <3>2, <4>2 DEF SetStatus, SetRow
      <3>3. CASE SetStatus(i, "FAILED")
        BY <1>s, <1>u, <3>1, <3>3 DEF SetStatus, SetRow
      <3>4. CASE rows' = [rows EXCEPT ![i].status = "FAILED", ![i].job = work[w].tries - 1]
        BY <1>u, <3>1, <3>4 DEF SetRow
      <3> QED
        BY <2>6, <3>0, <3>2, <3>3, <3>4 DEF PushSettle, PushRetry
    <2>7. ASSUME NEW u \in Users, StoryEmail(w, u) PROVE Rows
      <3>1. Helper(u)
        BY <1>w, <2>7 DEF StoryEmail, At, WorkHelped
      <3>2. Helper(u)' /\ Helped(u)'
        BY <1>h, <3>1 DEF Helper
      <3>3. \/ UNCHANGED rows
            \/ \E d \in Devices, st \in {"SENT", "FAILED"} : Owner[d] = u /\ NewRow(d, "story_email", st)
        BY <2>7 DEF StoryEmail
      <3> QED
        BY <1>0, <1>n, <3>2, <3>3
    <2> QED
      BY <1>0, <1>1, <2>1, <2>2, <2>3, <2>4, <2>5, <2>6, <2>7
      DEF Job, WaveStart, PushUser, EmailUser, PushPassDone, WaveDone, PushSend, ClearToken,
          StoryRead, StoryClaim, StoryRecipients, StoryDone
  <1>2. ASSUME NEW w \in Workers, Crash(w) \/ PushThrows(w) \/ Stall(w) PROVE Rows
    <2>1. ASSUME Requeue(w), IsPush(w) PROVE Rows
      <3>1. work[w].row \in DOMAIN rows /\ rows' = [rows EXCEPT ![work[w].row].job = work[w].tries]
        BY <1>w, <2>1 DEF Requeue, IsPush, PushSteps, RowSteps
      <3> QED
        <4>1. PICK i : i = work[w].row
          OBVIOUS
        <4>2. i \in DOMAIN rows /\ work[w].tries \in Nat
          BY <1>w, <3>1, <4>1 DEF Work
        <4>3. SetRow(i, rows[i].status, work[w].tries)
          BY <3>1, <4>1 DEF SetRow
        <4> QED
          BY <1>s, <1>u, <4>2, <4>3
    <2> QED
      BY <1>0, <1>2, <2>1 DEF Crash, PushThrows, Stall, Requeue
  <1>3. ASSUME NEW p \in Reports, Sighting(p) PROVE Rows
    <2>1. /\ \A i \in DOMAIN rows : rows'[i] = rows[i]
          /\ \A i \in DOMAIN rows' \ DOMAIN rows :
               rows'[i].kind = "sighting" /\ rows'[i].status = "QUEUED"
      BY <1>3, <1>t, SightingRows
    <2>2. \A i \in DOMAIN rows' \ DOMAIN rows : RowHelped(i)'
      BY <2>1 DEF RowHelped
    <2> QED
      BY <1>k, <2>1, <2>2
  <1>4. ASSUME NEW i \in DOMAIN rows, Open(i) PROVE Rows
    <2>1. Helped(Owner[rows[i].device])
      BY <1>4, <1>r DEF Open, Helped
    <2>2. \A x \in Users : x = Owner[rows[i].device] => Helped(x)'
      BY <1>h, <2>1
    <2> QED
      BY <1>4, <1>s, <1>u, <2>2 DEF Open, SetStatus, SetRow
  <1> QED
    BY <1>0, <1>1, <1>2, <1>3, <1>4 DEF Next, vars, Close, Register, Unsubscribe

\* A worker comes to "sent" by a push that a provider took, to "record" with a sent email by
\* sending it.
LEMMA SentWork ==
  ASSUME Base, [Next]_vars, NEW w \in Workers, work'[w].pc \in {"sent", "record"}
  PROVE  \/ work'[w] = work[w]
         \/ PushSend(w) /\ At(w, "sent")'
         \/ \E m \in Match : EmailUser(w, m) /\ At(w, "record")'
  <1> DEFINE Goal == \/ work'[w] = work[w]
                     \/ PushSend(w) /\ At(w, "sent")'
                     \/ \E m \in Match : EmailUser(w, m) /\ At(w, "record")'
  <1>t. TypeOK
    BY DEF Base
  <1>h. work[w] \in Work /\ work \in [Workers -> Work]
    BY DEF Base, TypeOK
  <1>d. ~Done(w)
    BY <1>h DEF Done, Idle
  <1>p. ASSUME NEW p \in Steps, Goto(w, p) PROVE p \in {"sent", "record"} /\ work'[w].pc = p
    BY <1>h, <1>p DEF Goto, Work
  <1>1. ASSUME Job(w) PROVE Goal
    <2>1. ASSUME NEW v \in Waves, WaveStart(w, v) PROVE Goal
      <3>1. work' = work \/ work'[w].pc = "push"
        BY <1>h, <2>1, StartEffect
      <3> QED
        BY <3>1
    <2>2. ASSUME NEW m \in Match, PushUser(w, m) PROVE Goal
      BY <1>t, <2>2, PushUserEffect
    <2>3. ASSUME NEW m \in Match, EmailUser(w, m) PROVE Goal
      BY <1>t, <2>3, EmailUserEffect DEF At
    <2>4. ASSUME NEW d \in Devices, CreateRow(w, d) \/ StoryRow(w, d) PROVE Goal
      <3>1. work'[w].pc \in {"add", "story_add"}
        BY <1>h, <2>4 DEF CreateRow, StoryRow, Work
      <3> QED
        BY <3>1
    <2>5. CASE AddJob(w) \/ PushSettle(w) \/ PushRetry(w) \/ StoryClaim(w) \/ StoryAdd(w)
      BY <1>d, <1>p, <2>5 DEF AddJob, PushSettle, PushRetry, StoryClaim, StoryAdd, Steps
    <2>6. CASE PushPassDone(w)
      <3>1. work'[w].pc = "email"
        BY <1>d, <1>t, <2>6, PushPassEnds
      <3> QED
        BY <3>1
    <2>7. CASE RecordEmail(w) \/ StoryRecipients(w)
      <3>1. work'[w].pc \in {"email", "story_create"}
        BY <1>h, <2>7 DEF RecordEmail, StoryRecipients, Work
      <3> QED
        BY <3>1
    <2>8. ASSUME NEW i \in DOMAIN rows, PushRead(w, i) PROVE Goal
      <3>1. work' = work \/ work'[w].pc = "send"
        BY <1>h, <2>8, PushReadEffect
      <3> QED
        BY <3>1
    <2>9. CASE PushSend(w)
      <3>1. PICK p \in Steps \ {"record"} : Goto(w, p)
        BY <2>9 DEF PushSend, fcmSend, apnsSend, webPushSend, Answers, Steps
      <3> QED
        BY <1>p, <2>9, <3>1 DEF At
    <2>10. CASE StoryRead(w)
      <3>1. work' = work \/ work'[w].pc = "story_claim"
        BY <1>h, <2>10 DEF StoryRead, Become, Idle
      <3> QED
        BY <3>1
    <2>11. ASSUME NEW u \in Users, StoryEmail(w, u) PROVE Goal
      <3>1. work'[w].pc = work[w].pc
        BY <1>h, <2>11 DEF StoryEmail, Work
      <3> QED
        BY <2>11, <3>1 DEF StoryEmail, At
    <2> QED
      BY <1>1, <1>d, <2>1, <2>2, <2>3, <2>4, <2>5, <2>6, <2>7, <2>8, <2>9, <2>10, <2>11
      DEF Job, WaveDone, ClearToken, StoryDone
  <1>2. ASSUME Crash(w) \/ PushThrows(w) \/ Stall(w) PROVE Goal
    BY <1>2, <1>d, <1>p DEF Crash, PushThrows, Stall, Steps
  <1>3. ASSUME NEW v \in Workers, v # w, Job(v) \/ Crash(v) \/ PushThrows(v) \/ Stall(v) PROVE Goal
    BY <1>3, <1>t, OneMoves
  <1> QED
    BY <1>1, <1>2, <1>3, SightingFrame DEF Next, vars, Close, Open, Register, Unsubscribe

\* What a worker is about to write on a row, and whom it is about to thank, is true.
LEMMA StepWorkHelped ==
  Base /\ Helpers /\ [Next]_vars => \A w \in Workers : WorkHelped(w)'
  <1> SUFFICES ASSUME Base, Helpers, [Next]_vars, NEW w \in Workers PROVE WorkHelped(w)'
    OBVIOUS
  <1>t. TypeOK /\ Bookkeeping
    BY DEF Base
  <1>r. \A i \in DOMAIN rows : rows[i] \in Row /\ rows[i].device \in Devices
    BY <1>t, RowType DEF Row
  <1>g. RowsGrow /\ Grow
    BY <1>t, StepRows, StepGrow
  <1>o. \A d \in Devices : Owner[d] \in Users
    BY FanoutAssumption
  <1>h. \A u \in Users : (Helped(u) => Helped(u)') /\ (Helper(u) => Helper(u)')
    BY <1>g DEF Grow, Helped, Helper
  <1>w. /\ work[w] \in Work /\ work[w].targets \subseteq Devices /\ work[w].users \subseteq Users
        /\ WorkHelped(w)
        /\ work[w].pc \in PushSteps => work[w].row \in DOMAIN rows
    BY <1>t DEF TypeOK, Work, Helpers, Bookkeeping, HoldsRow, RowSteps
  <1>n. work' \in [Workers -> Work]
    BY <1>t, StepWork
  <1>1. At(w, "sent")' => \A u \in Users : u = Owner[rows'[work'[w].row].device] => Helped(u)'
    <2> SUFFICES ASSUME At(w, "sent")', NEW u \in Users, u = Owner[rows'[work'[w].row].device]
                 PROVE  Helped(u)'
      OBVIOUS
    <2>1. CASE work'[w] = work[w]
      <3>1. At(w, "sent") /\ work[w].row \in DOMAIN rows
        BY <1>w, <2>1 DEF At, PushSteps
      <3>2. u = Owner[rows[work[w].row].device]
        BY <1>g, <2>1, <3>1 DEF RowsGrow
      <3> QED
        BY <1>h, <1>w, <3>1, <3>2 DEF WorkHelped
    <2>2. CASE PushSend(w)
      <3>0. PICK i : i = work[w].row
        OBVIOUS
      <3>1. i \in DOMAIN rows /\ Goto(w, "sent") /\ rows' = rows
        <4>1. PICK p \in Steps : Goto(w, p)
          BY <2>2 DEF PushSend, fcmSend, apnsSend, webPushSend, Answers, Steps
        <4>2. p = "sent"
          BY <1>t, <1>w, <4>1 DEF Goto, TypeOK, Work, At
        <4> QED
          BY <1>w, <2>2, <3>0, <4>1, <4>2 DEF PushSend, At, PushSteps
      <3>2. u = Owner[rows[i].device] /\ rows[i].device \in Devices
        BY <1>r, <1>t, <1>w, <3>0, <3>1 DEF Goto, TypeOK, Work
      <3>3. CASE rows[i].kind = "story"
        <4>1. Helper(u)
          BY <3>1, <3>2, <3>3 DEF Helpers, RowHelped
        <4> QED
          BY <1>h, <4>1 DEF Helper
      <3>4. CASE rows[i].kind # "story"
        <4>1. pushed' = [pushed EXCEPT ![rows[i].device] = @ + 1]
          <5>1. PICK answer : /\ Goto(w, answer)
                              /\ pushed' = [pushed EXCEPT ![rows[i].device] =
                                   IF answer = "sent" /\ buildPushPayload(i) = "alert" THEN @ + 1 ELSE @]
            BY <2>2, <3>0 DEF PushSend
          <5>2. answer = "sent"
            BY <1>t, <1>w, <5>1 DEF Goto, TypeOK, Work, At
          <5> QED
            BY <3>4, <5>1, <5>2 DEF buildPushPayload
        <4>2. pushed'[rows[i].device] > 0
          BY <1>t, <3>2, <4>1 DEF TypeOK
        <4> QED
          BY <3>2, <4>2 DEF Helped
      <3> QED
        BY <3>3, <3>4
    <2> QED
      BY <2>1, <2>2, SentWork DEF At, EmailUser
  <1>2. At(w, "record")' /\ work'[w].read = "good" =>
          \A d \in work'[w].targets : emailed'[Owner[d]] > 0
    <2> SUFFICES ASSUME At(w, "record")', work'[w].read = "good", NEW d \in work'[w].targets
                 PROVE  emailed'[Owner[d]] > 0
      OBVIOUS
    <2>1. CASE work'[w] = work[w]
      BY <1>g, <1>o, <1>w, <2>1 DEF WorkHelped, Grow, At
    <2>2. ASSUME NEW m \in Match, EmailUser(w, m) PROVE emailed'[Owner[d]] > 0
      <3>1. OwnerOf(m) \in Users
        BY <1>o DEF OwnerOf, Match
      <3>2. work'[w].targets = {m.device} /\ emailed' = [emailed EXCEPT ![OwnerOf(m)] = @ + 1]
        BY <1>t, <2>2, EmailUserEffect DEF At
      <3> QED
        BY <1>t, <3>1, <3>2 DEF TypeOK, OwnerOf
    <2> QED
      BY <2>1, <2>2, SentWork DEF At, PushSend
  <1>3. work'[w].pc \in {"story_create", "story_add"} =>
          /\ \A u \in work'[w].users : Helper(u)'
          /\ \A d \in work'[w].targets : Helper(Owner[d])'
    <2> DEFINE Thanks == /\ \A u \in work'[w].users : Helper(u)'
                         /\ \A d \in work'[w].targets : Helper(Owner[d])'
    <2> SUFFICES ASSUME work'[w].pc \in {"story_create", "story_add"} PROVE Thanks
      OBVIOUS
    <2>1. ASSUME work[w].pc \in {"story_create", "story_add"},
                 work'[w].users \subseteq work[w].users, work'[w].targets \subseteq work[w].targets
          PROVE  Thanks
      <3>1. /\ \A u \in work[w].users : u \in Users /\ Helper(u)
            /\ \A d \in work[w].targets : Owner[d] \in Users /\ Helper(Owner[d])
        BY <1>o, <1>w, <2>1 DEF WorkHelped
      <3> QED
        BY <1>h, <2>1, <3>1
    <2>2. CASE StoryRecipients(w)
      <3> DEFINE helpers == (Reached \cup reporters) \ {Creator}
      <3>1. \A u \in helpers : u \in Users /\ Helper(u)
        <4>1. \A i \in DOMAIN rows : rows[i].status = "SENT" =>
                Owner[rows[i].device] \in Users /\ Helped(Owner[rows[i].device])
          BY <1>o, <1>r DEF Helpers, RowHelped
        <4>2. \A u \in reporters : u \in Users /\ Helped(u)
          BY <1>t DEF TypeOK, Helped
        <4> QED
          BY <4>1, <4>2 DEF Reached, Helper
      <3>2. \A u \in helpers : Helper(u)'
        BY <1>h, <3>1
      <3>3. work'[w].users = helpers /\ \A d \in work'[w].targets : Owner[d] \in helpers
        BY <1>t, <1>w, <2>2 DEF StoryRecipients, TypeOK, Work
      <3> HIDE DEF helpers
      <3> QED
        BY <3>2, <3>3
    <2>3. ASSUME NEW d \in Devices, StoryRow(w, d), work'[w].targets = work[w].targets \ {d}
          PROVE  Thanks
      <3>1. work'[w].users = work[w].users /\ work[w].pc = "story_create"
        BY <1>t, <1>w, <2>3 DEF StoryRow, TypeOK, Work, At
      <3> QED
        BY <2>1, <2>3, <3>1
    <2>4. CASE StoryAdd(w) /\ work'[w].targets = work[w].targets
      <3>1. work'[w].users = work[w].users /\ work[w].pc = "story_add"
        BY <1>t, <1>w, <2>4 DEF StoryAdd, Goto, TypeOK, Work, At
      <3> QED
        BY <2>1, <2>4, <3>1
    <2>5. ASSUME NEW u \in Users, StoryEmail(w, u), work'[w].targets = {},
                 work'[w].users \subseteq work[w].users
          PROVE  Thanks
      BY <2>1, <2>5 DEF StoryEmail, At
    <2>6. CASE work'[w] = work[w]
      BY <2>1, <2>6
    <2> QED
      BY <2>2, <2>3, <2>4, <2>5, <2>6, StoryWork DEF StoryStep, InStory, At
  <1>4. At(w, "sent")' => Owner[rows'[work'[w].row].device] \in Users
    <2>1. rows' \in Seq(Row) /\ (At(w, "sent")' => work'[w].row \in DOMAIN rows')
      BY <1>t, StepRows, StepBookkeeping DEF Bookkeeping, HoldsRow, At, RowSteps, PushSteps
    <2>2. At(w, "sent")' => rows'[work'[w].row] \in Row
      BY <2>1, LenProperties, ElementOfSeq
    <2> QED
      BY <1>o, <2>2 DEF Row
  <1> QED
    BY <1>1, <1>2, <1>3, <1>4 DEF WorkHelped

\* The thanks go to users whom an accepted push or email reached, or who reported a
\* sighting, and never to the owner: whatever is sent, opened, repeated or lost meanwhile.
THEOREM StoryHelpersSafe == Spec => []StoryToHelpers
  <1>1. Init => Helpers
    BY DEF Init, Idle, Helpers, RowHelped, WorkHelped, At
  <1>2. Base /\ Helpers /\ [Next]_vars => (Base /\ Helpers)'
    BY StepBase, StepRowHelped, StepWorkHelped DEF Helpers
  <1>3. Helpers => StoryToHelpers
    BY DEF Helpers, RowHelped, Helper, Helped, StoryToHelpers
  <1> QED
    BY <1>1, <1>2, <1>3, InitBase, PTL DEF Spec

--------------------------------------------------------------------------------
(* The contract of the success story *)

\* Nothing happens to the alert, the claim and those who helped, and a story job comes from
\* another one only.
Uneventful ==
  /\ UNCHANGED <<status, claimed, reporters, pushed, emailed>>
  /\ story' => story \/ \E w \in Workers : IsStory(w)

Event ==
  \/ \E share \in BOOLEAN : Close(share)
  \/ \E p \in Reports : Sighting(p)
  \/ \E w \in Workers : StoryClaim(w) \/ PushSend(w) \/ \E m \in Match : EmailUser(w, m)

LEMMA Events == [Next]_vars => Uneventful \/ Event
  <1> SUFFICES ASSUME [Next]_vars, ~Event PROVE Uneventful
    OBVIOUS
  <1>1. ASSUME NEW w \in Workers, Job(w) PROVE Uneventful
    <2>1. ASSUME NEW v \in Waves, WaveStart(w, v) PROVE Uneventful
      BY <2>1 DEF WaveStart, history, Uneventful
    <2>2. ASSUME NEW m \in Match, PushUser(w, m) PROVE Uneventful
      BY <2>2 DEF PushUser, queue, history, Uneventful
    <2>3. ASSUME NEW d \in Devices, CreateRow(w, d) \/ StoryRow(w, d) PROVE Uneventful
      BY <2>3 DEF CreateRow, StoryRow, queue, history, Uneventful
    <2>4. CASE AddJob(w) \/ PushPassDone(w) \/ WaveDone(w) \/ StoryAdd(w) \/ StoryDone(w)
      BY <2>4 DEF AddJob, PushPassDone, WaveDone, StoryAdd, StoryDone, queue, history, Uneventful
    <2>5. CASE RecordEmail(w) \/ StoryRecipients(w) \/ ClearToken(w)
      BY <2>5 DEF RecordEmail, StoryRecipients, ClearToken, queue, history, Uneventful
    <2>6. ASSUME NEW i \in DOMAIN rows, PushRead(w, i) PROVE Uneventful
      BY <2>6 DEF PushRead, queue, history, Uneventful
    <2>7. CASE PushSettle(w) \/ PushRetry(w)
      BY <2>7 DEF PushSettle, PushRetry, queue, history, Uneventful
    <2>8. CASE StoryRead(w)
      BY <2>8 DEF StoryRead, history, Uneventful
    <2>9. ASSUME NEW u \in Users, StoryEmail(w, u) PROVE Uneventful
      BY <2>9 DEF StoryEmail, queue, history, Uneventful
    <2> QED
      BY <1>1, <2>1, <2>2, <2>3, <2>4, <2>5, <2>6, <2>7, <2>8, <2>9 DEF Job, Event
  <1>2. ASSUME NEW w \in Workers, Crash(w) \/ PushThrows(w) \/ Stall(w) PROVE Uneventful
    <2>1. Requeue(w) => (story' => story \/ IsStory(w))
      BY DEF Requeue
    <2>2. CASE Crash(w)
      BY <2>1, <2>2 DEF Crash, queue, history, Uneventful
    <2>3. CASE PushThrows(w)
      BY <2>3 DEF PushThrows, queue, history, Uneventful
    <2>4. CASE Stall(w)
      BY <2>1, <2>4 DEF Stall, history, Uneventful
    <2> QED
      BY <1>2, <2>2, <2>3, <2>4
  <1>3. ASSUME NEW i \in DOMAIN rows, Open(i) PROVE Uneventful
    BY <1>3 DEF Open, queue, history, Uneventful
  <1>4. ASSUME NEW d \in Devices, Register(d) \/ Unsubscribe(d) PROVE Uneventful
    BY <1>4 DEF Register, Unsubscribe, queue, history, Uneventful
  <1>5. CASE UNCHANGED vars
    BY <1>5 DEF vars, queue, history, Uneventful
  <1> QED
    BY <1>1, <1>2, <1>3, <1>4, <1>5 DEF Next, Event

\* Before the alert is closed there is no story job, no worker at one and no claim.
AfterClose ==
  /\ story \/ claimed => status # "ACTIVE"
  /\ \A w \in Workers : IsStory(w) => status # "ACTIVE"

LEMMA StepAfterClose == Base /\ AfterClose /\ [Next]_vars => AfterClose'
  <1> SUFFICES ASSUME Base, AfterClose, [Next]_vars PROVE AfterClose'
    OBVIOUS
  <1>1. status # "ACTIVE" => status' # "ACTIVE"
    BY Events, SightingFrame DEF Uneventful, Event, Close, StoryClaim, PushSend, EmailUser
  <1>2. story' \/ claimed' => \/ story \/ claimed \/ status' # "ACTIVE"
                             \/ \E w \in Workers : IsStory(w)
    BY Events, SightingFrame DEF Uneventful, Event, Close, StoryClaim, PushSend, EmailUser, queue,
                  IsStory, At
  <1>3. ASSUME NEW w \in Workers, IsStory(w)' PROVE status' # "ACTIVE"
    <2>1. work'[w] = work[w] => IsStory(w)
      BY <1>3 DEF IsStory
    <2>2. StoryRead(w) => story
      BY DEF StoryRead
    <2>3. StoryStep(w) => IsStory(w)
      BY DEF StoryStep, StoryClaim, StoryRecipients, StoryRow, StoryAdd, StoryEmail, IsStory, At
    <2> QED
      BY <1>1, <1>3, <2>1, <2>2, <2>3, StoryJob DEF AfterClose
  <1> QED
    BY <1>1, <1>2, <1>3 DEF AfterClose

MailRowOf(u) == \E i \in DOMAIN rows : i \in StoryMails(u)

\* A worker past the claim has mailed none of the helpers on its list.
Mailer(w) ==
  InStory(w) =>
    /\ At(w, "story_read") => \A u \in Users : ~MailRowOf(u)
    /\ \A u \in work[w].users : ~MailRowOf(u)

MailClaim ==
  /\ \A u \in Users : MailRowOf(u) => claimed
  /\ \A w \in Workers : Mailer(w)

\* Thank-you emails and success-story rows are new rows of their kind only.
LEMMA MailsKept ==
  ASSUME RowsGrow, \A i \in DOMAIN rows' \ DOMAIN rows : rows'[i].kind # "story_email"
  PROVE  \A u : StoryMails(u)' = StoryMails(u)
  BY DEF RowsGrow, StoryMails, RowsOf

LEMMA StoriesKept ==
  ASSUME RowsGrow, \A i \in DOMAIN rows' \ DOMAIN rows : rows'[i].kind # "story"
  PROVE  \A d : StoryRows(d)' = StoryRows(d)
  BY DEF RowsGrow, StoryRows

\* The row that StoryRow or StoryEmail inserts.
LEMMA ThanksRow ==
  ASSUME TypeOK, NEW d \in Devices, NEW k \in {"story", "story_email"},
         NEW st \in {"QUEUED", "SENT", "FAILED"}, NewRow(d, k, st)
  PROVE  \E new \in Nat :
           /\ DOMAIN rows' = DOMAIN rows \cup {new} /\ new \notin DOMAIN rows
           /\ \A i \in DOMAIN rows : rows'[i] = rows[i]
           /\ rows'[new].device = d /\ rows'[new].kind = k
  <1>1. /\ DOMAIN rows' = DOMAIN rows \cup {Len(rows) + 1} /\ Len(rows) + 1 \notin DOMAIN rows
        /\ \A i \in DOMAIN rows : rows'[i] = rows[i]
        /\ rows'[Len(rows) + 1] = [device |-> d, kind |-> k, status |-> st, job |-> 0]
    BY NewRowEffect
  <1>2. Len(rows) + 1 \in Nat
    BY LenProperties DEF TypeOK
  <1> QED
    BY <1>1, <1>2

LEMMA StepMailClaim ==
  Base /\ Claim /\ MailClaim /\ [Next]_vars => MailClaim'
  <1> SUFFICES ASSUME Base, Claim, MailClaim, [Next]_vars PROVE MailClaim'
    OBVIOUS
  <1>t. TypeOK /\ Bookkeeping
    BY DEF Base
  <1>w. \A w \in Workers : work[w] \in Work /\ work[w].users \subseteq Users
    BY <1>t DEF TypeOK, Work
  <1>v. \A w \in Workers : work'[w].users \subseteq Users
    BY <1>t, StepWork DEF Work
  <1>g. RowsGrow /\ (claimed => claimed')
    BY <1>t, StepRows, StepGrow DEF Grow
  <1>1. ASSUME \A u : StoryMails(u)' = StoryMails(u) PROVE MailClaim'
    <2>1. \A u : MailRowOf(u)' => MailRowOf(u)
      BY <1>1 DEF MailRowOf, StoryMails, RowsOf
    <2>2. ASSUME NEW w \in Workers, InStory(w)' PROVE Mailer(w)'
      <3>1. CASE work'[w] = work[w]
        BY <2>1, <3>1 DEF MailClaim, Mailer, InStory, At
      <3>2. CASE StoryClaim(w) /\ ~claimed
        BY <1>v, <2>1, <3>2 DEF MailClaim, Mailer
      <3>3. CASE StoryRecipients(w) /\ At(w, "story_create")'
        BY <1>v, <2>1, <3>3 DEF StoryRecipients, MailClaim, Mailer, InStory, At
      <3>4. ASSUME NEW d \in Devices, StoryRow(w, d), At(w, "story_add")' PROVE Mailer(w)'
        <4>1. work'[w].users = work[w].users /\ InStory(w)
          BY <1>t, <1>w, <3>4 DEF StoryRow, TypeOK, Work, InStory, At
        <4> QED
          BY <2>1, <3>4, <4>1 DEF MailClaim, Mailer, At
      <3>5. CASE StoryAdd(w) /\ At(w, "story_create")'
        <4>1. work'[w].users = work[w].users /\ InStory(w)
          BY <1>t, <1>w, <3>5 DEF StoryAdd, Goto, TypeOK, Work, InStory, At
        <4> QED
          BY <2>1, <3>5, <4>1 DEF MailClaim, Mailer, At
      <3>6. ASSUME NEW u \in Users, StoryEmail(w, u), work'[w].users \subseteq work[w].users,
                   At(w, "story_create")'
            PROVE  Mailer(w)'
        BY <2>1, <3>6 DEF StoryEmail, MailClaim, Mailer, InStory, At
      <3> QED
        BY <2>2, <3>1, <3>2, <3>3, <3>4, <3>5, <3>6, StoryWork DEF StoryStep
    <2> QED
      BY <1>g, <2>1, <2>2 DEF MailClaim, Mailer
  <1>2. ASSUME NEW w \in Workers, NEW u \in Users, StoryEmail(w, u),
               NEW d \in Devices, Owner[d] = u, NEW st \in {"SENT", "FAILED"},
               NewRow(d, "story_email", st)
        PROVE  MailClaim'
    <2>1. PICK new \in Nat : /\ DOMAIN rows' = DOMAIN rows \cup {new} /\ new \notin DOMAIN rows
                             /\ \A i \in DOMAIN rows : rows'[i] = rows[i]
                             /\ rows'[new].device = d /\ rows'[new].kind = "story_email"
      BY <1>2, <1>t, ThanksRow
    <2>2. \A x : MailRowOf(x)' => MailRowOf(x) \/ x = u
      BY <1>2, <2>1 DEF MailRowOf, StoryMails, RowsOf
    <2>3. InStory(w) /\ At(w, "story_create") /\ claimed
      BY <1>2 DEF StoryEmail, InStory, At, Claim, Claimant
    <2>4. work'[w].users = work[w].users \ {u} /\ At(w, "story_create")'
      BY <1>2, <1>t, <1>w, <2>3 DEF StoryEmail, TypeOK, Work, At
    <2>5. Mailer(w)'
      BY <2>2, <2>3, <2>4 DEF MailClaim, Mailer, At
    <2>6. ASSUME NEW v \in Workers, v # w PROVE Mailer(v)'
      <3>1. ~InStory(v)
        BY <2>3, <2>6 DEF Claim
      <3>2. work'[v] = work[v]
        BY <1>2, <1>t, <2>6, OneMoves DEF Job
      <3> QED
        BY <3>1, <3>2 DEF Mailer, InStory
    <2> QED
      BY <1>g, <2>3, <2>5, <2>6 DEF MailClaim
  <1>3. ASSUME NEW w \in Workers, NEW d \in Devices, StoryRow(w, d) PROVE MailClaim'
    <2>1. PICK new \in Nat : /\ DOMAIN rows' = DOMAIN rows \cup {new} /\ new \notin DOMAIN rows
                             /\ rows'[new].kind = "story"
      BY <1>3, <1>t, ThanksRow DEF StoryRow
    <2> QED
      BY <1>1, <1>g, <2>1, MailsKept
  <1>4. CASE NoThanks
    BY <1>1, <1>4, <1>g, MailsKept DEF NoThanks
  <1>5. ASSUME NEW w \in Workers, NEW u \in Users, StoryEmail(w, u) PROVE MailClaim'
    <2>1. CASE rows' = rows
      BY <1>1, <1>g, <2>1, MailsKept
    <2> QED
      BY <1>2, <1>5, <1>t, <2>1, StoryEmailRow
  <1> QED
    BY <1>3, <1>4, <1>5, ThanksKept

\* Every step of the delivery is one of the contract, or none.
LEMMA StepContract ==
  ASSUME Base, Base', Claim, Helpers, AfterClose, MailClaim, [Next]_vars
  PROVE  [Promise!Next]_(Promise!vars)
  <1> DEFINE helpers == {u \in Users : Helped(u)}
             thanks == [d \in Devices |-> Cardinality(StoryRows(d))]
             mails == [u \in Users |-> Cardinality(StoryMails(u))]
  <1>t. TypeOK /\ Bookkeeping
    BY DEF Base
  <1>g. RowsGrow
    BY <1>t, StepRows
  <1>o. \A d \in Devices : Owner[d] \in Users
    BY FanoutAssumption
  <1>k. UNCHANGED <<reporters, pushed, emailed>> => helpers' = helpers
    BY DEF Helped
  <1>z. ASSUME NEW S, S = {} PROVE Cardinality(S) = 0
    BY <1>z, FS_EmptySet
  <1>1. ASSUME thanks' = thanks, mails' = mails PROVE [Promise!Next]_(Promise!vars)
    <2>1. CASE Uneventful
      BY <1>1, <1>k, <2>1 DEF Uneventful, Promise!vars
    <2>2. ASSUME NEW share \in BOOLEAN, Close(share) PROVE Promise!Close
      BY <1>1, <1>k, <2>2 DEF Close, history, Promise!Close
    <2>3. ASSUME NEW u \in Users, helpers' = helpers \cup {u}, UNCHANGED <<status, claimed>>
          PROVE  Promise!Help(u)
      BY <1>1, <2>3 DEF Promise!Help
    <2>4. ASSUME NEW p \in Reports, Sighting(p)
          PROVE  (\E u \in Users : Promise!Help(u)) \/ UNCHANGED Promise!vars
      <3>1. UNCHANGED <<status, claimed, pushed, emailed>>
        BY <2>4, SightingFrame
      <3>2. CASE UNCHANGED reporters
        BY <1>1, <1>k, <3>1, <3>2 DEF Promise!vars
      <3>3. ASSUME NEW u \in Users, reporters' = reporters \cup {u} PROVE Promise!Help(u)
        <4>1. helpers' = helpers \cup {u}
          BY <3>1, <3>3 DEF Helped
        <4> QED
          BY <2>3, <3>1, <4>1
      <3> QED
        BY <1>t, <2>4, <3>2, <3>3, SightingReports
    <2>5. ASSUME NEW w \in Workers, StoryClaim(w) PROVE Promise!Announce \/ UNCHANGED Promise!vars
      <3>1. status # "ACTIVE"
        BY <2>5 DEF StoryClaim, IsStory, At, AfterClose
      <3> QED
        BY <1>1, <1>k, <1>t, <2>5, <3>1
        DEF StoryClaim, history, TypeOK, Promise!Announce, Promise!vars
    <2>6. ASSUME NEW w \in Workers, PushSend(w)
          PROVE  (\E u \in Users : Promise!Help(u)) \/ UNCHANGED Promise!vars
      <3>1. PICK d \in Devices : pushed' = pushed \/ pushed' = [pushed EXCEPT ![d] = @ + 1]
        <4>1. work[w].row \in DOMAIN rows
          BY <1>t, <2>6 DEF PushSend, At, Bookkeeping, HoldsRow, RowSteps, PushSteps
        <4>2. PICK d \in Devices : d = rows[work[w].row].device
          BY <1>t, <4>1, RowType DEF Row
        <4>3. PICK i, answer : /\ i = work[w].row
                               /\ pushed' = [pushed EXCEPT ![rows[i].device] =
                                    IF answer = "sent" /\ buildPushPayload(i) = "alert" THEN @ + 1 ELSE @]
          BY <2>6 DEF PushSend
        <4>4. CASE answer = "sent" /\ buildPushPayload(i) = "alert"
          BY <4>2, <4>3, <4>4
        <4>5. CASE ~(answer = "sent" /\ buildPushPayload(i) = "alert")
          BY <1>t, <4>3, <4>5 DEF TypeOK
        <4> QED
          BY <4>2, <4>4, <4>5
      <3>2. reporters' = reporters /\ emailed' = emailed
        BY <2>6 DEF PushSend
      <3>3. CASE pushed' = pushed
        BY <1>1, <1>k, <2>6, <3>2, <3>3 DEF PushSend, Promise!vars
      <3>4. CASE pushed' = [pushed EXCEPT ![d] = @ + 1]
        <4>1. \A e \in Devices : pushed'[e] > 0 <=> pushed[e] > 0 \/ e = d
          BY <1>t, <3>4 DEF TypeOK
        <4>2. \A u \in Users : Helped(u)' <=> Helped(u) \/ u = Owner[d]
          BY <3>2, <4>1 DEF Helped
        <4>3. helpers' = helpers \cup {Owner[d]}
          BY <1>o, <4>2
        <4> QED
          BY <1>o, <2>3, <2>6, <4>3 DEF PushSend
      <3> QED
        BY <3>1, <3>3, <3>4
    <2>7. ASSUME NEW w \in Workers, NEW m \in Match, EmailUser(w, m)
          PROVE  (\E u \in Users : Promise!Help(u)) \/ UNCHANGED Promise!vars
      <3>1. PICK u \in Users : emailed' = emailed \/ emailed' = [emailed EXCEPT ![u] = @ + 1]
        <4>1. PICK u \in Users : u = OwnerOf(m)
          BY <1>o DEF OwnerOf, Match
        <4>2. \/ emailed' = emailed
              \/ \E sent \in BOOLEAN : emailed' = [emailed EXCEPT ![u] = IF sent THEN @ + 1 ELSE @]
          BY <1>t, <2>7, <4>1, EmailUserEffect
        <4>3. [emailed EXCEPT ![u] = @] = emailed
          BY <1>t DEF TypeOK
        <4> QED
          BY <4>2, <4>3
      <3>2. UNCHANGED <<status, claimed, reporters, pushed>>
        BY <2>7 DEF EmailUser
      <3>3. CASE emailed' = emailed
        BY <1>1, <1>k, <3>2, <3>3 DEF Promise!vars
      <3>4. CASE emailed' = [emailed EXCEPT ![u] = @ + 1]
        <4>1. \A x \in Users : emailed'[x] > 0 <=> emailed[x] > 0 \/ x = u
          BY <1>t, <3>4 DEF TypeOK
        <4>2. \A x \in Users : Helped(x)' <=> Helped(x) \/ x = u
          BY <3>2, <4>1 DEF Helped
        <4>3. helpers' = helpers \cup {u}
          BY <4>2
        <4> QED
          BY <2>3, <3>2, <4>3
      <3> QED
        BY <3>1, <3>3, <3>4
    <2> QED
      BY <2>1, <2>2, <2>4, <2>5, <2>6, <2>7, Events DEF Event, Promise!Next
  <1>2. ASSUME NEW w \in Workers, NEW d \in Devices, StoryRow(w, d) PROVE Promise!Thank(d)
    <2>1. /\ claimed /\ ~StoryRowOf(d) /\ Helper(Owner[d])
          /\ UNCHANGED <<status, claimed, reporters, pushed, emailed>>
      BY <1>2 DEF StoryRow, At, InStory, Claim, Claimant, Helpers, WorkHelped, history
    <2>2. PICK new \in Nat : /\ DOMAIN rows' = DOMAIN rows \cup {new} /\ new \notin DOMAIN rows
                             /\ \A i \in DOMAIN rows : rows'[i] = rows[i]
                             /\ rows'[new].device = d /\ rows'[new].kind = "story"
      BY <1>2, <1>t, ThanksRow DEF StoryRow
    <2>3. \A u : StoryMails(u)' = StoryMails(u)
      BY <1>g, <2>2, MailsKept
    <2>4. StoryRows(d) = {} /\ StoryRows(d)' = {new}
      BY <2>1, <2>2 DEF StoryRows, StoryRowOf
    <2>5. ASSUME NEW e \in Devices, e # d PROVE StoryRows(e)' = StoryRows(e)
      BY <2>2, <2>5 DEF StoryRows
    <2>6. thanks[d] = 0 /\ thanks' = [thanks EXCEPT ![d] = 1]
      BY <2>4, <2>5, FS_EmptySet, FS_Singleton
    <2>7. helpers' = helpers /\ Owner[d] \in helpers \ {Creator} /\ mails' = mails
      BY <1>k, <1>o, <2>1, <2>3 DEF Helper
    <2> QED
      BY <2>1, <2>6, <2>7 DEF Promise!Thank
  <1>3. ASSUME NEW w \in Workers, NEW u \in Users, StoryEmail(w, u), rows' # rows
        PROVE  Promise!Mail(u)
    <2>1. /\ claimed /\ ~MailRowOf(u) /\ Helper(u)
          /\ UNCHANGED <<status, claimed, reporters, pushed, emailed>>
      BY <1>3
      DEF StoryEmail, At, InStory, Claim, Claimant, MailClaim, Mailer, Helpers, WorkHelped, history
    <2>2. PICK d \in Devices, st \in {"SENT", "FAILED"} :
            Owner[d] = u /\ NewRow(d, "story_email", st)
      BY <1>3, <1>t, StoryEmailRow
    <2>3. PICK new \in Nat : /\ DOMAIN rows' = DOMAIN rows \cup {new} /\ new \notin DOMAIN rows
                             /\ \A i \in DOMAIN rows : rows'[i] = rows[i]
                             /\ rows'[new].device = d /\ rows'[new].kind = "story_email"
      BY <1>t, <2>2, ThanksRow
    <2>4. \A e : StoryRows(e)' = StoryRows(e)
      BY <1>g, <2>3, StoriesKept
    <2>5. StoryMails(u) = {} /\ StoryMails(u)' = {new}
      BY <2>1, <2>2, <2>3 DEF StoryMails, RowsOf, MailRowOf
    <2>6. ASSUME NEW x \in Users, x # u PROVE StoryMails(x)' = StoryMails(x)
      BY <2>2, <2>3, <2>6 DEF StoryMails, RowsOf
    <2>7. mails[u] = 0 /\ mails' = [mails EXCEPT ![u] = 1]
      BY <2>5, <2>6, FS_EmptySet, FS_Singleton
    <2>8. helpers' = helpers /\ u \in helpers \ {Creator} /\ thanks' = thanks
      BY <1>k, <2>1, <2>4 DEF Helper
    <2> QED
      BY <2>1, <2>7, <2>8 DEF Promise!Mail
  <1>4. NoThanks => thanks' = thanks /\ mails' = mails
    BY <1>g, MailsKept, StoriesKept DEF NoThanks
  <1>5. rows' = rows => thanks' = thanks /\ mails' = mails
    BY DEF StoryRows, StoryMails, RowsOf
  <1> QED
    BY <1>1, <1>2, <1>3, <1>4, <1>5, ThanksKept DEF Promise!Next

\* The delivery keeps the promise of ThankYou, whatever jobs crash, stall and run again: one
\* announcement, after the alert was closed, then one row per device and one email per user
\* on record, for those who helped.
THEOREM ImplementsStoryContract == Spec => StoryContract
  <1>1. Init => Promise!Init
    <2> SUFFICES ASSUME Init PROVE Promise!Init
      OBVIOUS
    <2>1. DOMAIN rows = {}
      BY DEF Init
    <2>2. /\ \A d \in Devices : StoryRows(d) = {}
          /\ \A u \in Users : StoryMails(u) = {}
      BY <2>1 DEF StoryRows, StoryMails, RowsOf
    <2>3. Cardinality({}) = 0
      BY FS_EmptySet
    <2>4. \A u \in Users : ~Helped(u)
      BY DEF Init, Helped
    <2>5. /\ [d \in Devices |-> Cardinality(StoryRows(d))] = [d \in Devices |-> 0]
          /\ [u \in Users |-> Cardinality(StoryMails(u))] = [u \in Users |-> 0]
      BY <2>2, <2>3
    <2> QED
      BY <2>4, <2>5 DEF Init, Promise!Init
  <1> DEFINE Inv == Base /\ Claim /\ StoryOnce /\ Helpers /\ AfterClose /\ MailClaim
  <1>2. Init => Inv
    <2> SUFFICES ASSUME Init PROVE Inv
      OBVIOUS
    <2>1. DOMAIN rows = {} /\ \A w \in Workers : work[w].pc = "idle"
      BY DEF Init, Idle
    <2>2. Claim /\ StoryOnce /\ Helpers
      BY <2>1 DEF Init, Claim, Claimant, InStory, StoryRowOf, StoryOnce, Helpers, WorkHelped, At
    <2>3. AfterClose /\ MailClaim
      BY <2>1 DEF Init, AfterClose, IsStory, MailClaim, Mailer, MailRowOf, InStory
    <2> QED
      BY <2>2, <2>3, InitBase
  <1>3. Inv /\ [Next]_vars => Inv'
    BY StepBase, StepClaim, StepRowHelped, StepWorkHelped, StepAfterClose, StepMailClaim DEF Helpers
  <1>4. Inv /\ Inv' /\ [Next]_vars => [Promise!Next]_(Promise!vars)
    BY StepContract
  <1> QED
    BY <1>1, <1>2, <1>3, <1>4, PTL DEF Spec, StoryContract, Promise!Spec

--------------------------------------------------------------------------------
(* What is paid for: emails and pushes after the first *)

\* Rows that are, or may become, push jobs are made by the two push passes.
Pushable == {"alert", "story"}

RowJobs(i) == rows[i].job > 0 => rows[i].kind \in Pushable /\ rows[i].job <= Attempts

WorkJobs(w) ==
  /\ work[w].pc \in RowSteps => rows[work[w].row].kind \in Pushable
  /\ At(w, "story_add") => rows[work[w].row].kind = "story"
  /\ work[w].pc \in PushSteps => work[w].tries <= Attempts
  /\ At(w, "record") => \E d \in Devices : work[w].targets = {d}

\* Push jobs are of rows that were made to be pushed, and have the attempts they were given.
Jobs == (\A i \in DOMAIN rows : RowJobs(i)) /\ (\A w \in Workers : WorkJobs(w))

\* A push job belongs to a row of the push passes.
LEMMA StepRowJobs == Base /\ Jobs /\ [Next]_vars => \A i \in DOMAIN rows' : RowJobs(i)'
  <1> DEFINE Rows == \A i \in DOMAIN rows' : RowJobs(i)'
  <1> SUFFICES ASSUME Base, Jobs, [Next]_vars PROVE Rows
    OBVIOUS
  <1>t. TypeOK /\ Bookkeeping
    BY DEF Base
  <1>g. RowsGrow
    BY <1>t, StepRows
  <1>s. \A i \in DOMAIN rows : rows[i].status \in {"QUEUED", "SENT", "FAILED"} /\ rows[i].job \in Nat
    BY <1>t, RowType DEF Row
  <1>k. ASSUME NEW i \in DOMAIN rows, rows'[i].job \in {rows[i].job, 0} PROVE RowJobs(i)'
    BY <1>g, <1>k, <1>s DEF Jobs, RowJobs, RowsGrow
  <1>0. UNCHANGED rows => Rows
    BY <1>k
  <1>n. ASSUME NEW d \in Devices, NEW k \in {"alert", "email", "story", "story_email"},
               NEW st \in {"QUEUED", "SENT", "FAILED"}, NewRow(d, k, st)
        PROVE  Rows
    <2>1. /\ DOMAIN rows' = DOMAIN rows \cup {Len(rows) + 1}
          /\ \A i \in DOMAIN rows : rows'[i] = rows[i]
          /\ rows'[Len(rows) + 1] = [device |-> d, kind |-> k, status |-> st, job |-> 0]
      BY <1>n, <1>t, NewRowEffect
    <2>2. PICK new : new = Len(rows) + 1
      OBVIOUS
    <2>3. RowJobs(new)'
      BY <1>n, <2>1, <2>2 DEF RowJobs
    <2> QED
      BY <1>k, <2>1, <2>2, <2>3
  <1>u. ASSUME NEW i \in DOMAIN rows, NEW st \in {"QUEUED", "SENT", "FAILED"}, NEW n \in Nat,
               SetRow(i, st, n),
               n \in {rows[i].job, 0} \/ (rows[i].kind \in Pushable /\ n <= Attempts)
        PROVE  Rows
    <2>1. /\ DOMAIN rows' = DOMAIN rows /\ rows'[i].job = n
          /\ \A j \in DOMAIN rows : j # i => rows'[j] = rows[j]
      BY <1>t, <1>u, RowEffect
    <2>2. RowJobs(i)'
      BY <1>g, <1>k, <1>u, <2>1 DEF RowJobs, RowsGrow
    <2> QED
      BY <1>k, <2>1, <2>2
  <1>f. ASSUME NEW i \in DOMAIN rows, NEW st \in {"QUEUED", "SENT", "FAILED"}, SetStatus(i, st)
        PROVE  Rows
    <2>1. SetRow(i, st, rows[i].job) /\ rows[i].job \in Nat
      BY <1>f, <1>s DEF SetStatus, SetRow
    <2> QED
      BY <1>u, <2>1
  <1>w. ASSUME NEW w \in Workers
        PROVE  /\ work[w].tries \in Nat /\ work[w].targets \subseteq Devices
               /\ work[w].pc \in RowSteps =>
                    work[w].row \in DOMAIN rows /\ rows[work[w].row].kind \in Pushable
               /\ work[w].pc \in PushSteps => work[w].tries > 0 /\ work[w].tries <= Attempts
    BY <1>t DEF TypeOK, Work, Bookkeeping, HoldsRow, Jobs, WorkJobs
  <1>1. ASSUME NEW w \in Workers, Job(w) PROVE Rows
    <2>1. ASSUME NEW d \in Devices, CreateRow(w, d) \/ StoryRow(w, d) PROVE Rows
      BY <1>n, <2>1 DEF CreateRow, StoryRow
    <2>2. CASE AddJob(w) \/ StoryAdd(w)
      <3>1. /\ work[w].row \in DOMAIN rows /\ rows[work[w].row].kind \in Pushable
            /\ Attempts \in Nat /\ Attempts <= Attempts
        BY <1>w, <2>2, FanoutAssumption DEF AddJob, StoryAdd, At, RowSteps
      <3> QED
        BY <1>s, <1>u, <2>2, <3>1 DEF AddJob, StoryAdd, SetRow
    <2>3. CASE RecordEmail(w)
      BY <1>0, <1>n, <1>w, <2>3 DEF RecordEmail
    <2>4. ASSUME NEW i \in DOMAIN rows, PushRead(w, i) PROVE Rows
      <3>1. PICK st \in {rows[i].status, "FAILED"} : rows' = [rows EXCEPT ![i].job = 0, ![i].status = st]
        BY <2>4 DEF PushRead
      <3>2. SetRow(i, st, 0) /\ st \in {"QUEUED", "SENT", "FAILED"}
        BY <1>s, <3>1 DEF SetRow
      <3> QED
        BY <1>u, <3>2
    <2>5. CASE PushSettle(w) \/ PushRetry(w)
      <3>0. PICK i : i = work[w].row
        OBVIOUS
      <3>1. /\ i \in DOMAIN rows /\ rows[i].kind \in Pushable
            /\ work[w].tries - 1 \in Nat /\ work[w].tries - 1 <= Attempts
        BY <1>w, <2>5, <3>0, FanoutAssumption DEF PushSettle, PushRetry, At, PushSteps, RowSteps
      <3>2. CASE SetStatus(i, "FAILED") \/ SetStatus(i, "SENT")
        BY <1>f, <3>1, <3>2
      <3>3. CASE rows' = [rows EXCEPT ![i].status = "FAILED", ![i].job = work[w].tries - 1]
        BY <1>u, <3>1, <3>3 DEF SetRow
      <3> QED
        BY <2>5, <3>0, <3>2, <3>3 DEF PushSettle, PushRetry
    <2>6. ASSUME NEW u \in Users, StoryEmail(w, u) PROVE Rows
      <3>1. \/ UNCHANGED rows
            \/ \E d \in Devices, st \in {"SENT", "FAILED"} : NewRow(d, "story_email", st)
        BY <2>6 DEF StoryEmail
      <3> QED
        BY <1>0, <1>n, <3>1
    <2> QED
      BY <1>0, <1>1, <2>1, <2>2, <2>3, <2>4, <2>5, <2>6
      DEF Job, WaveStart, PushUser, EmailUser, PushPassDone, WaveDone, PushSend, ClearToken,
          StoryRead, StoryClaim, StoryRecipients, StoryDone
  <1>2. ASSUME NEW w \in Workers, Crash(w) \/ PushThrows(w) \/ Stall(w) PROVE Rows
    <2>1. ASSUME Requeue(w), IsPush(w) PROVE Rows
      <3>1. /\ work[w].row \in DOMAIN rows /\ rows[work[w].row].kind \in Pushable
            /\ work[w].tries <= Attempts
            /\ rows' = [rows EXCEPT ![work[w].row].job = work[w].tries]
        BY <1>w, <2>1 DEF Requeue, IsPush, PushSteps, RowSteps
      <3> QED
        <4>1. PICK i : i = work[w].row
          OBVIOUS
        <4>2. i \in DOMAIN rows /\ work[w].tries \in Nat
          BY <1>w, <3>1, <4>1 DEF Work
        <4> QED
          BY <1>s, <1>u, <1>w, <3>1, <4>1, <4>2 DEF SetRow
    <2> QED
      BY <1>0, <1>2, <2>1 DEF Crash, PushThrows, Stall, Requeue
  <1>3. ASSUME NEW p \in Reports, Sighting(p) PROVE Rows
    <2>1. /\ \A i \in DOMAIN rows : rows'[i] = rows[i]
          /\ \A i \in DOMAIN rows' \ DOMAIN rows : rows'[i].job = 0
      BY <1>3, <1>t, SightingRows
    <2>2. \A i \in DOMAIN rows' \ DOMAIN rows : RowJobs(i)'
      BY <2>1 DEF RowJobs
    <2> QED
      BY <1>k, <2>1, <2>2
  <1>4. ASSUME NEW i \in DOMAIN rows, Open(i) PROVE Rows
    BY <1>4, <1>f DEF Open
  <1> QED
    BY <1>0, <1>1, <1>2, <1>3, <1>4 DEF Next, vars, Close, Register, Unsubscribe

\* A worker comes to a row by inserting it for the push passes or by taking its push job.
LEMMA StepWorkJobs == Base /\ Jobs /\ [Next]_vars => \A w \in Workers : WorkJobs(w)'
  <1> SUFFICES ASSUME Base, Jobs, [Next]_vars, NEW w \in Workers PROVE WorkJobs(w)'
    OBVIOUS
  <1>t. TypeOK /\ Bookkeeping
    BY DEF Base
  <1>g. RowsGrow
    BY <1>t, StepRows
  <1>h. /\ work[w] \in Work /\ work \in [Workers -> Work] /\ WorkJobs(w)
        /\ work[w].pc \in RowSteps => work[w].row \in DOMAIN rows
    BY <1>t DEF TypeOK, Jobs, Bookkeeping, HoldsRow
  <1>n. work'[w].pc \notin RowSteps \cup {"record"} => WorkJobs(w)'
    BY DEF WorkJobs, RowSteps, PushSteps, At
  <1>0. work'[w] = work[w] => WorkJobs(w)'
    BY <1>g, <1>h DEF WorkJobs, RowsGrow, RowSteps, At
  <1>d. Done(w) => WorkJobs(w)'
    BY <1>h, <1>n DEF Done, Idle, RowSteps, PushSteps
  <1>p. ASSUME NEW p \in Steps, Goto(w, p)
        PROVE  /\ work'[w].pc = p /\ work'[w].row = work[w].row /\ work'[w].tries = work[w].tries
               /\ work'[w].targets = work[w].targets
    BY <1>h, <1>p DEF Goto, Work
  <1>s. ASSUME NEW p \in PushSteps, Goto(w, p), work[w].pc \in PushSteps
        PROVE  WorkJobs(w)'
    <2>1. /\ work'[w].pc = p /\ work'[w].row = work[w].row /\ work'[w].tries = work[w].tries
      BY <1>p, <1>s DEF PushSteps, Steps
    <2> QED
      BY <1>g, <1>h, <1>s, <2>1 DEF WorkJobs, RowsGrow, RowSteps, PushSteps, At
  <1>1. ASSUME Job(w) PROVE WorkJobs(w)'
    <2>1. ASSUME NEW v \in Waves, WaveStart(w, v) PROVE WorkJobs(w)'
      <3>1. work' = work \/ work'[w].pc = "push"
        BY <1>h, <2>1, StartEffect
      <3> QED
        BY <1>0, <1>n, <3>1 DEF RowSteps, PushSteps
    <2>2. ASSUME NEW m \in Match, PushUser(w, m) PROVE WorkJobs(w)'
      <3>1. work'[w].pc \in {"push", "create"}
        BY <1>t, <2>2, PushUserEffect
      <3> QED
        BY <1>n, <3>1 DEF RowSteps, PushSteps
    <2>3. ASSUME NEW m \in Match, EmailUser(w, m) PROVE WorkJobs(w)'
      <3>1. work'[w].pc = "email" \/ (work'[w].pc = "record" /\ work'[w].targets = {m.device})
        <4>1. CASE work'[w].pc = "email"
          BY <4>1
        <4>2. CASE work'[w].pc # "email"
          BY <1>t, <2>3, <4>2, EmailUserEffect
        <4> QED
          BY <4>1, <4>2
      <3>2. m.device \in Devices
        BY DEF Match
      <3> QED
        BY <3>1, <3>2 DEF WorkJobs, RowSteps, PushSteps, At
    <2>4. ASSUME NEW d \in Devices, CreateRow(w, d) \/ StoryRow(w, d) PROVE WorkJobs(w)'
      <3>1. PICK k \in Pushable : NewRow(d, k, "QUEUED") /\ (StoryRow(w, d) => k = "story")
        BY <2>4 DEF CreateRow, StoryRow, Pushable, At
      <3>2. rows'[Len(rows) + 1] = [device |-> d, kind |-> k, status |-> "QUEUED", job |-> 0]
        BY <1>t, <3>1, NewRowEffect DEF Pushable
      <3>3. /\ work'[w].pc \in {"add", "story_add"} /\ work'[w].row = Len(rows) + 1
            /\ work'[w].pc = "story_add" => StoryRow(w, d)
        BY <1>h, <2>4 DEF CreateRow, StoryRow, Work
      <3> QED
        BY <3>1, <3>2, <3>3 DEF WorkJobs, PushSteps, At
    <2>5. CASE AddJob(w)
      <3>1. work'[w].pc \in {"push", "create"}
        BY <1>p, <2>5 DEF AddJob, Steps
      <3> QED
        BY <1>n, <3>1 DEF RowSteps, PushSteps
    <2>6. CASE PushPassDone(w)
      <3>1. Done(w) \/ work'[w].pc = "email"
        BY <1>t, <2>6, PushPassEnds
      <3> QED
        BY <1>d, <1>n, <3>1 DEF RowSteps, PushSteps
    <2>7. CASE RecordEmail(w) \/ StoryRecipients(w)
      <3>1. work'[w].pc \in {"email", "story_create"}
        BY <1>h, <2>7 DEF RecordEmail, StoryRecipients, Work
      <3> QED
        BY <1>n, <3>1 DEF RowSteps, PushSteps
    <2>8. ASSUME NEW i \in DOMAIN rows, PushRead(w, i) PROVE WorkJobs(w)'
      <3>1. \/ work' = work
            \/ work'[w].pc = "send" /\ work'[w].row = i /\ work'[w].tries = rows[i].job
        BY <1>h, <2>8, PushReadEffect
      <3>2. rows[i].kind \in Pushable /\ rows[i].job <= Attempts
        BY <2>8 DEF PushRead, Jobs, RowJobs
      <3> QED
        BY <1>0, <1>g, <3>1, <3>2 DEF WorkJobs, RowsGrow, At
    <2>9. CASE PushSend(w)
      <3>1. PICK p \in PushSteps : Goto(w, p)
        BY <2>9 DEF PushSend, fcmSend, apnsSend, webPushSend, Answers, PushSteps
      <3> QED
        BY <1>s, <2>9, <3>1 DEF PushSend, At, PushSteps
    <2>10. CASE PushSettle(w) \/ PushRetry(w)
      <3>1. Done(w) \/ (At(w, "dead") /\ Goto(w, "clear"))
        BY <2>10 DEF PushSettle, PushRetry
      <3> QED
        BY <1>d, <1>s, <3>1 DEF At, PushSteps
    <2>11. CASE StoryRead(w)
      <3>1. work' = work \/ work'[w].pc = "story_claim"
        BY <1>h, <2>11 DEF StoryRead, Become, Idle
      <3> QED
        BY <1>0, <1>n, <3>1 DEF RowSteps, PushSteps
    <2>12. CASE StoryClaim(w) \/ StoryAdd(w)
      <3>1. Done(w) \/ work'[w].pc \in {"story_read", "story_create"}
        BY <1>p, <2>12 DEF StoryClaim, StoryAdd, Steps
      <3> QED
        BY <1>d, <1>n, <3>1 DEF RowSteps, PushSteps
    <2>13. ASSUME NEW u \in Users, StoryEmail(w, u) PROVE WorkJobs(w)'
      <3>1. work'[w].pc = "story_create"
        BY <1>h, <2>13 DEF StoryEmail, Work, At
      <3> QED
        BY <1>n, <3>1 DEF RowSteps, PushSteps
    <2> QED
      BY <1>1, <1>d, <2>1, <2>2, <2>3, <2>4, <2>5, <2>6, <2>7, <2>8, <2>9, <2>10, <2>11, <2>12,
         <2>13
      DEF Job, WaveDone, ClearToken, StoryDone
  <1>2. ASSUME Crash(w) \/ PushThrows(w) \/ Stall(w) PROVE WorkJobs(w)'
    BY <1>0, <1>2, <1>d, <1>s DEF Crash, PushThrows, Stall, IsPush, PushSteps
  <1>3. ASSUME NEW v \in Workers, v # w, Job(v) \/ Crash(v) \/ PushThrows(v) \/ Stall(v)
        PROVE  WorkJobs(w)'
    BY <1>0, <1>3, <1>t, OneMoves
  <1> QED
    BY <1>0, <1>1, <1>2, <1>3, SightingFrame DEF Next, vars, Close, Open, Register, Unsubscribe

\* The record of an email is not written again: only rows to be pushed are.
LEMMA EmailRowsStay ==
  Base /\ Jobs /\ [Next]_vars =>
    \A i \in DOMAIN rows : rows[i].kind = "email" => rows'[i].status = rows[i].status
  <1> DEFINE Stay == \A i \in DOMAIN rows : rows[i].kind = "email" => rows'[i].status = rows[i].status
  <1> SUFFICES ASSUME Base, Jobs, [Next]_vars PROVE Stay
    OBVIOUS
  <1>t. TypeOK /\ Bookkeeping
    BY DEF Base
  <1>s. \A i \in DOMAIN rows : rows[i] \in Row
    BY <1>t, RowType
  <1>0. UNCHANGED rows => Stay
    OBVIOUS
  <1>n. ASSUME NEW d \in Devices, NEW k \in {"alert", "email", "story", "story_email"},
               NEW st \in {"QUEUED", "SENT", "FAILED"}, NewRow(d, k, st)
        PROVE  Stay
    BY <1>n, <1>t, NewRowEffect
  <1>u. ASSUME NEW i \in DOMAIN rows, NEW r, rows' = [rows EXCEPT ![i] = r], rows[i].kind # "email"
        PROVE  Stay
    BY <1>u
  <1>j. ASSUME NEW i \in DOMAIN rows, NEW n, rows' = [rows EXCEPT ![i].job = n] PROVE Stay
    BY <1>j, <1>s DEF Row
  <1>w. ASSUME NEW w \in Workers, work[w].pc \in RowSteps
        PROVE  work[w].row \in DOMAIN rows /\ rows[work[w].row].kind # "email"
    BY <1>t, <1>w DEF Bookkeeping, HoldsRow, Jobs, WorkJobs, Pushable
  <1>1. ASSUME NEW w \in Workers, Job(w) PROVE Stay
    <2>1. ASSUME NEW d \in Devices, CreateRow(w, d) \/ StoryRow(w, d) PROVE Stay
      BY <1>n, <2>1 DEF CreateRow, StoryRow
    <2>2. CASE AddJob(w) \/ StoryAdd(w)
      BY <1>j, <1>w, <2>2 DEF AddJob, StoryAdd, At, RowSteps
    <2>3. CASE RecordEmail(w)
      <3>1. work[w].targets \subseteq Devices
        BY <1>t DEF TypeOK, Work
      <3> QED
        BY <1>0, <1>n, <2>3, <3>1 DEF RecordEmail
    <2>4. ASSUME NEW i \in DOMAIN rows, PushRead(w, i) PROVE Stay
      <3>1. rows[i].kind # "email"
        BY <2>4 DEF PushRead, Jobs, RowJobs, Pushable
      <3> QED
        BY <1>u, <2>4, <3>1 DEF PushRead
    <2>5. CASE PushSettle(w) \/ PushRetry(w)
      <3>1. work[w].row \in DOMAIN rows /\ rows[work[w].row].kind # "email"
        BY <1>w, <2>5 DEF PushSettle, PushRetry, At, RowSteps, PushSteps
      <3> QED
        BY <1>u, <2>5, <3>1 DEF PushSettle, PushRetry, SetStatus
    <2>6. ASSUME NEW u \in Users, StoryEmail(w, u) PROVE Stay
      <3>1. \/ UNCHANGED rows
            \/ \E d \in Devices, st \in {"SENT", "FAILED"} : NewRow(d, "story_email", st)
        BY <2>6 DEF StoryEmail
      <3> QED
        BY <1>0, <1>n, <3>1
    <2> QED
      BY <1>0, <1>1, <2>1, <2>2, <2>3, <2>4, <2>5, <2>6
      DEF Job, WaveStart, PushUser, EmailUser, PushPassDone, WaveDone, PushSend, ClearToken,
          StoryRead, StoryClaim, StoryRecipients, StoryDone
  <1>2. ASSUME NEW w \in Workers, Crash(w) \/ PushThrows(w) \/ Stall(w) PROVE Stay
    <2>1. ASSUME Requeue(w), IsPush(w) PROVE Stay
      BY <1>j, <1>w, <2>1 DEF Requeue, IsPush, PushSteps, RowSteps
    <2> QED
      BY <1>0, <1>2, <2>1 DEF Crash, PushThrows, Stall, Requeue
  <1>3. ASSUME NEW p \in Reports, Sighting(p) PROVE Stay
    BY <1>3, <1>t, SightingRows
  <1>4. ASSUME NEW i \in DOMAIN rows, Open(i) PROVE Stay
    BY <1>4, <1>u DEF Open, SetStatus
  <1> QED
    BY <1>0, <1>1, <1>2, <1>3, <1>4 DEF Next, vars, Close, Register, Unsubscribe

--------------------------------------------------------------------------------
(* The ledger of a device *)

\* The pushes of a device that are still to come are those of its alert rows whose job is
\* queued, and of the workers at one of them (or about to find that their push failed).
AlertRow(i, d) == i \in DOMAIN rows /\ rows[i].kind = "alert" /\ rows[i].device = d
Waiting(i, d) == AlertRow(i, d) /\ rows[i].job > 0
Standing(i, d) == AlertRow(i, d) /\ rows[i].status # "FAILED"
Busy(w, d) ==
  work[w].pc \in {"add", "send", "terminal", "dead", "error"} /\ AlertRow(work[w].row, d)

\* A worker that decided to push this device has no row for it yet.
Planned(w, d) == work[w].pc \in {"create", "add"} /\ d \in work[w].targets

WaitingRows(d) == {i \in DOMAIN rows : Waiting(i, d)}
StandingRows(d) == {i \in DOMAIN rows : Standing(i, d)}
BusyWorkers(d) == {w \in Workers : Busy(w, d)}
PlannedWorkers(d) == {w \in Workers : Planned(w, d)}

\* Pushes that happened and pushes to come.
Owed(d) == pushed[d] + Cardinality(WaitingRows(d)) + Cardinality(BusyWorkers(d))

\* Each of them stands on a row that did not fail, or was made by a second attempt or a failure.
\* So a device whose rows all failed owes nothing but these, and whoever finds it so may plan a
\* push of it: no more of them do than there are workers.
Backed(d) == Owed(d) <= Cardinality(StandingRows(d)) + retried[d] + faults
Covered(d) ==
  Owed(d) + Cardinality(PlannedWorkers(d)) <= Cardinality(Workers) + retried[d] + faults
Ledger(d) == Backed(d) /\ Covered(d)

One(P) == IF P THEN 1 ELSE 0

\* Two sets that differ at most in e.
LEMMA Recount ==
  ASSUME NEW S, IsFiniteSet(S), NEW T, IsFiniteSet(T), NEW e, S \ {e} = T \ {e}
  PROVE  /\ Cardinality(S) \in Nat /\ Cardinality(T) \in Nat
         /\ Cardinality(T) + One(e \in S) = Cardinality(S) + One(e \in T)
  <1>1. /\ Cardinality(S \ {e}) = IF e \in S THEN Cardinality(S) - 1 ELSE Cardinality(S)
        /\ Cardinality(T \ {e}) = IF e \in T THEN Cardinality(T) - 1 ELSE Cardinality(T)
    BY FS_RemoveElement
  <1>2. Cardinality(S) \in Nat /\ Cardinality(T) \in Nat
    BY FS_CardinalityType
  <1>3. Cardinality(S \ {e}) = Cardinality(T \ {e})
    OBVIOUS
  <1> QED
    BY <1>1, <1>2, <1>3 DEF One

Sized(d) ==
  /\ IsFiniteSet(WaitingRows(d)) /\ IsFiniteSet(StandingRows(d))
  /\ IsFiniteSet(BusyWorkers(d)) /\ IsFiniteSet(PlannedWorkers(d))
  /\ Cardinality(WaitingRows(d)) \in Nat /\ Cardinality(StandingRows(d)) \in Nat
  /\ Cardinality(BusyWorkers(d)) \in Nat /\ Cardinality(PlannedWorkers(d)) \in Nat
  /\ Cardinality(PlannedWorkers(d)) <= Cardinality(Workers)
  /\ pushed[d] \in Nat /\ retried[d] \in Nat /\ faults \in Nat

LEMMA WorkersCount == IsFiniteSet(Workers) /\ Cardinality(Workers) \in Nat
  BY FanoutAssumption, FS_CardinalityType

\* What the ledger counts can be counted.
LEMMA LedgerSized == Base => \A e \in Devices : Sized(e)
  <1> SUFFICES ASSUME Base, NEW d \in Devices PROVE Sized(d)
    OBVIOUS
  <1>1. rows \in Seq(Row) /\ Len(rows) \in Nat /\ DOMAIN rows = 1..Len(rows)
    BY LenProperties DEF Base, TypeOK
  <1>2. IsFiniteSet(DOMAIN rows)
    BY <1>1, FS_Interval
  <1>3. IsFiniteSet(Workers) /\ Cardinality(Workers) \in Nat
    BY WorkersCount
  <1>4. WaitingRows(d) \in SUBSET DOMAIN rows /\ StandingRows(d) \in SUBSET DOMAIN rows
    BY DEF WaitingRows, StandingRows
  <1>5. BusyWorkers(d) \in SUBSET Workers /\ PlannedWorkers(d) \in SUBSET Workers
    BY DEF BusyWorkers, PlannedWorkers
  <1>6. /\ IsFiniteSet(WaitingRows(d)) /\ Cardinality(WaitingRows(d)) \in Nat
        /\ IsFiniteSet(StandingRows(d)) /\ Cardinality(StandingRows(d)) \in Nat
    BY <1>2, <1>4, FS_Subset, FS_CardinalityType
  <1>7. /\ IsFiniteSet(BusyWorkers(d)) /\ Cardinality(BusyWorkers(d)) \in Nat
        /\ IsFiniteSet(PlannedWorkers(d)) /\ Cardinality(PlannedWorkers(d)) \in Nat
        /\ Cardinality(PlannedWorkers(d)) <= Cardinality(Workers)
    BY <1>3, <1>5, FS_Subset, FS_CardinalityType
  <1>8. pushed[d] \in Nat /\ retried[d] \in Nat /\ faults \in Nat
    BY DEF Base, TypeOK
  <1> QED
    BY <1>6, <1>7, <1>8 DEF Sized

LEMMA LedgerSets == ASSUME Base, Base', NEW d \in Devices PROVE Sized(d) /\ Sized(d)'
  <1>1. Base' => (\A e \in Devices : Sized(e))'
    BY LedgerSized, PTL
  <1> QED
    BY <1>1, LedgerSized

\* Most steps write no alert row, fail none and leave their worker at none.
Calm ==
  /\ \A i \in DOMAIN rows :
       rows[i].kind = "alert" =>
         /\ rows'[i].job > 0 => rows[i].job > 0
         /\ rows[i].status # "FAILED" => rows'[i].status # "FAILED"
  /\ \A i \in DOMAIN rows' \ DOMAIN rows : rows'[i].kind # "alert"
  /\ \A w \in Workers :
       work'[w] = work[w] \/
       work'[w].pc \notin {"create", "add", "send", "terminal", "dead", "error"}
  /\ pushed' = pushed /\ retried' = retried /\ faults' >= faults

LEMMA CalmStep ==
  ASSUME Base, Base', RowsGrow, Calm, NEW d \in Devices, Ledger(d)
  PROVE  Ledger(d)'
  <1>w. \A w \in Workers : work[w].pc \in {"add", "send", "terminal", "dead", "error"} =>
                             work[w].row \in DOMAIN rows
    BY DEF Base, Bookkeeping, HoldsRow, RowSteps, PushSteps
  <1>1. WaitingRows(d)' \subseteq WaitingRows(d)
    BY DEF WaitingRows, Waiting, AlertRow, RowsGrow, Calm
  <1>2. StandingRows(d) \subseteq StandingRows(d)'
    BY DEF StandingRows, Standing, AlertRow, RowsGrow, Calm
  <1>3. BusyWorkers(d)' \subseteq BusyWorkers(d)
    BY <1>w DEF BusyWorkers, Busy, AlertRow, RowsGrow, Calm
  <1>4. PlannedWorkers(d)' \subseteq PlannedWorkers(d)
    BY DEF PlannedWorkers, Planned, Calm
  <1>5. Sized(d) /\ Sized(d)' /\ Cardinality(Workers) \in Nat
    BY LedgerSets, WorkersCount
  <1>6. /\ Cardinality(WaitingRows(d)') <= Cardinality(WaitingRows(d))
        /\ Cardinality(StandingRows(d)) <= Cardinality(StandingRows(d)')
        /\ Cardinality(BusyWorkers(d)') <= Cardinality(BusyWorkers(d))
        /\ Cardinality(PlannedWorkers(d)') <= Cardinality(PlannedWorkers(d))
    BY <1>1, <1>2, <1>3, <1>4, <1>5, FS_Subset DEF Sized
  <1>8. pushed'[d] = pushed[d] /\ retried'[d] = retried[d] /\ faults' >= faults
    BY DEF Calm
  <1> QED
    BY <1>5, <1>6, <1>8 DEF Sized, Ledger, Backed, Covered, Owed

\* The other steps change one alert row and one worker, and pay for what they add.
Touches(i, w) ==
  /\ \A j \in DOMAIN rows : j # i => rows'[j] = rows[j]
  /\ DOMAIN rows' \ DOMAIN rows \subseteq {i}
  /\ \A v \in Workers : v # w => work'[v] = work[v]

StandingPays(d, i, w) ==
  pushed'[d] + One(Waiting(i, d)') + One(Busy(w, d)') + One(Standing(i, d)) + retried[d] + faults
    <= pushed[d] + One(Waiting(i, d)) + One(Busy(w, d)) + One(Standing(i, d)')
         + retried'[d] + faults'

PlanPays(d, i, w) ==
  pushed'[d] + One(Waiting(i, d)') + One(Busy(w, d)') + One(Planned(w, d)') + retried[d] + faults
    <= pushed[d] + One(Waiting(i, d)) + One(Busy(w, d)) + One(Planned(w, d))
         + retried'[d] + faults'

LEMMA PaidStep ==
  ASSUME Base, Base', RowsGrow, NEW d \in Devices, Ledger(d), NEW i, NEW w \in Workers,
         Touches(i, w)
  PROVE  /\ StandingPays(d, i, w) => Backed(d)'
         /\ PlanPays(d, i, w) => Covered(d)'
  <1>w. \A v \in Workers : work[v].pc \in {"add", "send", "terminal", "dead", "error"} =>
                             work[v].row \in DOMAIN rows
    BY DEF Base, Bookkeeping, HoldsRow, RowSteps, PushSteps
  <1>1. WaitingRows(d)' \ {i} = WaitingRows(d) \ {i}
    BY DEF WaitingRows, Waiting, AlertRow, RowsGrow, Touches
  <1>2. StandingRows(d)' \ {i} = StandingRows(d) \ {i}
    BY DEF StandingRows, Standing, AlertRow, RowsGrow, Touches
  <1>3. BusyWorkers(d)' \ {w} = BusyWorkers(d) \ {w}
    BY <1>w DEF BusyWorkers, Busy, AlertRow, RowsGrow, Touches
  <1>4. PlannedWorkers(d)' \ {w} = PlannedWorkers(d) \ {w}
    BY DEF PlannedWorkers, Planned, Touches
  <1>5. Sized(d) /\ Sized(d)' /\ Cardinality(Workers) \in Nat
    BY LedgerSets, WorkersCount
  <1>m. /\ (i \in WaitingRows(d)) = Waiting(i, d) /\ (i \in WaitingRows(d)') = Waiting(i, d)'
        /\ (i \in StandingRows(d)) = Standing(i, d) /\ (i \in StandingRows(d)') = Standing(i, d)'
        /\ (w \in BusyWorkers(d)) = Busy(w, d) /\ (w \in BusyWorkers(d)') = Busy(w, d)'
        /\ (w \in PlannedWorkers(d)) = Planned(w, d)
        /\ (w \in PlannedWorkers(d)') = Planned(w, d)'
    BY DEF WaitingRows, StandingRows, BusyWorkers, PlannedWorkers, Waiting, Standing, Busy,
           Planned, AlertRow
  <1>7. /\ Cardinality(WaitingRows(d)) \in Nat /\ Cardinality(WaitingRows(d)') \in Nat
        /\ Cardinality(WaitingRows(d)') + One(Waiting(i, d))
             = Cardinality(WaitingRows(d)) + One(Waiting(i, d)')
    BY <1>1, <1>5, <1>m, Recount DEF Sized
  <1>8. /\ Cardinality(StandingRows(d)) \in Nat /\ Cardinality(StandingRows(d)') \in Nat
        /\ Cardinality(StandingRows(d)') + One(Standing(i, d))
             = Cardinality(StandingRows(d)) + One(Standing(i, d)')
    BY <1>2, <1>5, <1>m, Recount DEF Sized
  <1>9. /\ Cardinality(BusyWorkers(d)) \in Nat /\ Cardinality(BusyWorkers(d)') \in Nat
        /\ Cardinality(BusyWorkers(d)') + One(Busy(w, d))
             = Cardinality(BusyWorkers(d)) + One(Busy(w, d)')
    BY <1>3, <1>5, <1>m, Recount DEF Sized
  <1>10. /\ Cardinality(PlannedWorkers(d)) \in Nat /\ Cardinality(PlannedWorkers(d)') \in Nat
         /\ Cardinality(PlannedWorkers(d)') + One(Planned(w, d))
              = Cardinality(PlannedWorkers(d)) + One(Planned(w, d)')
    BY <1>4, <1>5, <1>m, Recount DEF Sized
  <1>11. /\ One(Waiting(i, d)) \in Nat /\ One(Waiting(i, d)') \in Nat
         /\ One(Standing(i, d)) \in Nat /\ One(Standing(i, d)') \in Nat
         /\ One(Busy(w, d)) \in Nat /\ One(Busy(w, d)') \in Nat
         /\ One(Planned(w, d)) \in Nat /\ One(Planned(w, d)') \in Nat
    BY DEF One
  <1>12. StandingPays(d, i, w) => Backed(d)'
    BY <1>5, <1>7, <1>8, <1>9, <1>11 DEF Sized, Ledger, Backed, Owed, StandingPays
  <1>13. PlanPays(d, i, w) => Covered(d)'
    BY <1>5, <1>7, <1>9, <1>10, <1>11 DEF Sized, Ledger, Covered, Owed, PlanPays
  <1> QED
    BY <1>12, <1>13

\* The steps that are not calm.
Paying(w) ==
  \/ \E m \in Match : PushUser(w, m)
  \/ \E d \in Devices : CreateRow(w, d)
  \/ \E i \in DOMAIN rows : PushRead(w, i)
  \/ AddJob(w) \/ PushSend(w) \/ PushSettle(w) \/ PushRetry(w)
  \/ Crash(w) \/ PushThrows(w) \/ Stall(w)

LEMMA CalmActions ==
  ASSUME Base, Jobs, [Next]_vars PROVE Calm \/ \E w \in Workers : Paying(w)
  <1> DEFINE CalmRows ==
               /\ \A i \in DOMAIN rows :
                    rows[i].kind = "alert" =>
                      /\ rows'[i].job > 0 => rows[i].job > 0
                      /\ rows[i].status # "FAILED" => rows'[i].status # "FAILED"
               /\ \A i \in DOMAIN rows' \ DOMAIN rows : rows'[i].kind # "alert"
             CalmWork(w) == work'[w].pc \notin {"create", "add", "send", "terminal", "dead", "error"}
  <1>t. TypeOK /\ Bookkeeping
    BY DEF Base
  <1>r. /\ \A i \in DOMAIN rows : rows[i] \in Row
        /\ work \in [Workers -> Work] /\ \A w \in Workers : work[w] \in Work
        /\ faults \in Nat
    BY <1>t, RowType DEF TypeOK
  <1>0. UNCHANGED rows => CalmRows
    OBVIOUS
  <1>n. ASSUME NEW d \in Devices, NEW k \in {"email", "story", "story_email"},
               NEW st \in {"QUEUED", "SENT", "FAILED"}, NewRow(d, k, st)
        PROVE  CalmRows
    <2>1. /\ DOMAIN rows' = DOMAIN rows \cup {Len(rows) + 1}
          /\ \A i \in DOMAIN rows : rows'[i] = rows[i]
          /\ rows'[Len(rows) + 1] = [device |-> d, kind |-> k, status |-> st, job |-> 0]
      BY <1>n, <1>t, NewRowEffect
    <2> QED
      BY <2>1
  <1>c. ASSUME CalmRows, NEW w \in Workers, Job(w), work' = work \/ CalmWork(w),
               pushed' = pushed, retried' = retried, faults' >= faults
        PROVE  Calm
    <2>1. \A v \in Workers : v # w => work'[v] = work[v]
      BY <1>c, <1>t, OneMoves
    <2> QED
      BY <1>c, <2>1 DEF Calm
  <1>q. ASSUME CalmRows, UNCHANGED work, pushed' = pushed, retried' = retried, UNCHANGED faults
        PROVE  Calm
    BY <1>q, <1>r DEF Calm
  <1>d. ASSUME NEW w \in Workers, Done(w) PROVE CalmWork(w)
    BY <1>d, <1>r DEF Done, Idle
  <1>p. ASSUME NEW w \in Workers, NEW p \in Steps, Goto(w, p) PROVE work'[w].pc = p
    BY <1>p, <1>r DEF Goto, Work
  <1>1. ASSUME NEW w \in Workers, Job(w), ~Paying(w) PROVE Calm
    <2>1. ASSUME NEW v \in Waves, WaveStart(w, v) PROVE Calm
      <3>1. work' = work \/ work'[w].pc = "push"
        BY <1>r, <2>1, StartEffect
      <3>2. /\ UNCHANGED rows /\ pushed' = pushed /\ retried' = retried /\ faults' = faults
        BY <2>1 DEF WaveStart, bounds, history
      <3>3. CalmRows /\ faults' >= faults
        BY <1>0, <1>r, <3>2
      <3>4. work' = work \/ CalmWork(w)
        BY <3>1
      <3> QED
        BY <1>1, <1>c, <3>2, <3>3, <3>4
    <2>2. ASSUME NEW m \in Match, EmailUser(w, m) PROVE Calm
      <3>1. work'[w].pc \in {"email", "record"}
        BY <1>t, <2>2, EmailUserEffect
      <3>2. /\ UNCHANGED rows /\ pushed' = pushed /\ retried' = retried /\ faults' = faults
        BY <2>2 DEF EmailUser, bounds
      <3>3. CalmRows /\ faults' >= faults
        BY <1>0, <1>r, <3>2
      <3>4. CalmWork(w)
        BY <3>1
      <3> QED
        BY <1>1, <1>c, <3>2, <3>3, <3>4
    <2>3. ASSUME NEW d \in Devices, StoryRow(w, d) PROVE Calm
      <3>1. CalmRows
        BY <1>n, <2>3 DEF StoryRow
      <3>2. work'[w].pc = "story_add"
        BY <1>r, <2>3 DEF StoryRow, Work
      <3> QED
        BY <1>1, <1>c, <1>r, <2>3, <3>1, <3>2 DEF StoryRow, bounds, history
    <2>4. CASE PushPassDone(w)
      <3>1. Done(w) \/ work'[w].pc = "email"
        BY <1>t, <2>4, PushPassEnds
      <3> QED
        BY <1>0, <1>1, <1>c, <1>d, <1>r, <2>4, <3>1 DEF PushPassDone, bounds, history
    <2>5. CASE RecordEmail(w)
      <3>1. work[w].targets \subseteq Devices
        BY <1>r DEF Work
      <3>2. CalmRows
        BY <1>0, <1>n, <2>5, <3>1 DEF RecordEmail
      <3>3. work'[w].pc = "email"
        BY <1>r, <2>5 DEF RecordEmail, Work
      <3>4. faults' >= faults
        BY <1>r, <2>5 DEF RecordEmail
      <3> QED
        BY <1>1, <1>c, <2>5, <3>2, <3>3, <3>4 DEF RecordEmail, history
    <2>6. CASE WaveDone(w) \/ ClearToken(w) \/ StoryDone(w)
      BY <1>0, <1>1, <1>c, <1>d, <1>r, <2>6 DEF WaveDone, ClearToken, StoryDone, bounds, history
    <2>7. CASE StoryRead(w)
      <3>1. work' = work \/ work'[w].pc = "story_claim"
        BY <1>r, <2>7 DEF StoryRead, Become, Idle
      <3> QED
        BY <1>0, <1>1, <1>c, <1>r, <2>7, <3>1 DEF StoryRead, bounds, history
    <2>8. CASE StoryClaim(w)
      <3>1. Done(w) \/ work'[w].pc = "story_read"
        BY <1>p, <2>8 DEF StoryClaim, Steps
      <3> QED
        BY <1>0, <1>1, <1>c, <1>d, <1>r, <2>8, <3>1 DEF StoryClaim, bounds, history
    <2>9. CASE StoryRecipients(w)
      <3>1. work'[w].pc = "story_create"
        BY <1>r, <2>9 DEF StoryRecipients, Work
      <3> QED
        BY <1>0, <1>1, <1>c, <1>r, <2>9, <3>1 DEF StoryRecipients, bounds, history
    <2>10. CASE StoryAdd(w)
      <3>1. PICK i : i = work[w].row
        OBVIOUS
      <3>2. i \in DOMAIN rows /\ rows[i].kind = "story"
        BY <1>t, <2>10, <3>1 DEF StoryAdd, At, Bookkeeping, HoldsRow, RowSteps, Jobs, WorkJobs
      <3>3. rows' = [rows EXCEPT ![i].job = Attempts]
        BY <2>10, <3>1 DEF StoryAdd
      <3>4. CalmRows
        BY <3>2, <3>3
      <3>5. work'[w].pc = "story_create"
        BY <1>p, <2>10 DEF StoryAdd, Steps
      <3> QED
        BY <1>1, <1>c, <1>r, <2>10, <3>4, <3>5 DEF StoryAdd, bounds, history
    <2>11. ASSUME NEW u \in Users, StoryEmail(w, u) PROVE Calm
      <3>1. \/ UNCHANGED rows
            \/ \E d \in Devices, st \in {"SENT", "FAILED"} : NewRow(d, "story_email", st)
        BY <2>11 DEF StoryEmail
      <3>2. CalmRows
        BY <1>0, <1>n, <3>1
      <3>3. work'[w].pc = "story_create"
        BY <1>r, <2>11 DEF StoryEmail, Work, At
      <3> QED
        BY <1>1, <1>c, <1>r, <2>11, <3>2, <3>3 DEF StoryEmail, bounds, history
    <2> QED
      BY <1>1, <2>1, <2>2, <2>3, <2>4, <2>5, <2>6, <2>7, <2>8, <2>9, <2>10, <2>11 DEF Job, Paying
  <1>2. ASSUME NEW p \in Reports, Sighting(p) PROVE Calm
    <2>1. /\ \A i \in DOMAIN rows : rows'[i] = rows[i]
          /\ \A i \in DOMAIN rows' \ DOMAIN rows : rows'[i].kind = "sighting"
      BY <1>2, <1>t, SightingRows
    <2>2. CalmRows
      BY <2>1
    <2> QED
      BY <1>2, <1>q, <2>2, SightingFrame
  <1>3. ASSUME NEW i \in DOMAIN rows, Open(i) PROVE Calm
    <2>1. rows' = [rows EXCEPT ![i].status = "SENT"]
      BY <1>3 DEF Open, SetStatus
    <2>2. SetRow(i, "SENT", rows[i].job) /\ rows[i].job \in Nat
      BY <1>r, <2>1 DEF SetRow, Row
    <2>3. /\ DOMAIN rows' = DOMAIN rows /\ rows'[i].status = "SENT" /\ rows'[i].job = rows[i].job
          /\ \A j \in DOMAIN rows : j # i => rows'[j] = rows[j]
      BY <1>t, <2>2, RowEffect
    <2>4. CalmRows
      BY <2>3
    <2> QED
      BY <1>3, <1>q, <2>4 DEF Open, bounds, history
  <1>4. ASSUME NEW d \in Devices, Register(d) \/ Unsubscribe(d) PROVE Calm
    BY <1>0, <1>4, <1>q DEF Register, Unsubscribe, history
  <1>5. ASSUME NEW share \in BOOLEAN, Close(share) PROVE Calm
    BY <1>0, <1>5, <1>q DEF Close, bounds, history
  <1>6. CASE UNCHANGED vars
    BY <1>0, <1>6, <1>q DEF vars, bounds, history
  <1> QED
    BY <1>1, <1>2, <1>3, <1>4, <1>5, <1>6 DEF Next, Paying

\* Every step of the passes and of the push jobs pays for what it adds to the ledger: a row
\* that is written stands, an attempt that is queued again is counted, and so is a failure.
LEMMA PayingStep ==
  ASSUME Base, Base', Jobs, [Next]_vars, NEW w \in Workers, Paying(w), NEW d \in Devices, Ledger(d)
  PROVE  Ledger(d)'
  <1>t. TypeOK /\ Bookkeeping
    BY DEF Base
  <1>g. RowsGrow
    BY <1>t, StepRows
  <1>r. /\ \A i \in DOMAIN rows : rows[i] \in Row
        /\ work \in [Workers -> Work] /\ work[w] \in Work
        /\ pushed \in [Devices -> Nat] /\ retried \in [Devices -> Nat] /\ faults \in Nat
    BY <1>t, RowType DEF TypeOK
  <1>n. /\ pushed[d] \in Nat /\ retried[d] \in Nat /\ faults \in Nat
        /\ pushed'[d] \in Nat /\ retried'[d] \in Nat /\ faults' \in Nat
    BY DEF Base, TypeOK
  <1>w. /\ work[w].tries \in Nat
        /\ work[w].pc \in RowSteps =>
             work[w].row \in DOMAIN rows /\ rows[work[w].row].kind \in Pushable
        /\ work[w].pc \in PushSteps => work[w].tries > 0
    BY <1>r, <1>t DEF Work, Bookkeeping, HoldsRow, Jobs, WorkJobs
  <1>o. \A v \in Workers : v # w => work'[v] = work[v]
    <2>1. Job(w) \/ Crash(w) \/ PushThrows(w) \/ Stall(w)
      BY DEF Paying, Job
    <2> QED
      BY <1>t, <2>1, OneMoves
  <1>d. Done(w) => work'[w] = Idle
    BY <1>r DEF Done
  <1>i. Idle.pc = "idle"
    BY DEF Idle
  <1>p. ASSUME NEW p \in Steps, Goto(w, p)
        PROVE  /\ work'[w].pc = p /\ work'[w].row = work[w].row
               /\ work'[w].targets = work[w].targets
    BY <1>p, <1>r DEF Goto, Work
  <1>a. \A i \in DOMAIN rows : AlertRow(i, d)' <=> AlertRow(i, d)
    BY <1>g DEF AlertRow, RowsGrow
  <1>s. ASSUME NEW i, Touches(i, w), StandingPays(d, i, w), PlanPays(d, i, w) PROVE Ledger(d)'
    BY <1>g, <1>s, PaidStep DEF Ledger
  \* Writing the status and the job of a row touches no other row.
  <1>u. ASSUME NEW i \in DOMAIN rows, NEW st \in {"QUEUED", "SENT", "FAILED"}, NEW n \in Nat,
               SetRow(i, st, n)
        PROVE  /\ Touches(i, w)
               /\ Waiting(i, d)' <=> AlertRow(i, d) /\ n > 0
               /\ Standing(i, d)' <=> AlertRow(i, d) /\ st # "FAILED"
    <2>1. /\ DOMAIN rows' = DOMAIN rows /\ rows'[i].status = st /\ rows'[i].job = n
          /\ \A j \in DOMAIN rows : j # i => rows'[j] = rows[j]
      BY <1>t, <1>u, RowEffect
    <2> QED
      BY <1>a, <1>o, <2>1 DEF Touches, Waiting, Standing
  <1>k. ASSUME UNCHANGED rows, NEW i \in DOMAIN rows
        PROVE  /\ Touches(i, w)
               /\ Waiting(i, d)' <=> Waiting(i, d)
               /\ Standing(i, d)' <=> Standing(i, d)
    BY <1>k, <1>o DEF Touches, Waiting, Standing, AlertRow
  <1>1. ASSUME NEW m \in Match, PushUser(w, m) PROVE Ledger(d)'
    <2>1. /\ work[w].pc = "push" /\ UNCHANGED rows
          /\ pushed' = pushed /\ retried' = retried /\ faults' = faults
      BY <1>1 DEF PushUser, At, bounds, history
    <2>2. /\ work'[w].pc \in {"push", "create"} /\ work'[w].targets \subseteq Targets(w, m)
          /\ work'[w].targets # {} => ~hasBeenNotified(OwnerOf(m), "PUSH")
      BY <1>1, <1>t, PushUserEffect
    <2>3. /\ Touches(0, w)
          /\ Waiting(0, d)' <=> Waiting(0, d)
          /\ Standing(0, d)' <=> Standing(0, d)
      BY <1>o, <2>1 DEF Touches, Waiting, Standing, AlertRow
    <2>4. ~Busy(w, d) /\ ~Busy(w, d)' /\ ~Planned(w, d)
      BY <2>1, <2>2 DEF Busy, Planned
    <2>5. StandingPays(d, 0, w)
      BY <1>n, <2>1, <2>3, <2>4 DEF StandingPays, One
    <2>6. CASE d \notin work'[w].targets
      <3>1. ~Planned(w, d)'
        BY <2>6 DEF Planned
      <3>2. PlanPays(d, 0, w)
        BY <1>n, <2>1, <2>3, <2>4, <3>1 DEF PlanPays, One
      <3> QED
        BY <1>s, <2>3, <2>5, <3>2
    <2>7. CASE d \in work'[w].targets
      <3>1. Owner[d] = OwnerOf(m) /\ ~hasBeenNotified(OwnerOf(m), "PUSH")
        BY <2>2, <2>7 DEF Targets
      <3>2. StandingRows(d)' = {}
        <4>1. \A i \in DOMAIN rows : ~Standing(i, d)
          BY <3>1 DEF hasBeenNotified, RowsOf, Channel, Standing, AlertRow
        <4> QED
          BY <2>1, <4>1 DEF StandingRows, Standing, AlertRow
      <3>3. Backed(d)'
        BY <1>g, <2>3, <2>5, PaidStep
      <3>4. Sized(d)' /\ Cardinality(Workers) \in Nat
        BY LedgerSets, WorkersCount
      <3>5. Cardinality(StandingRows(d)') = 0
        BY <3>2, FS_EmptySet
      <3>6. Covered(d)'
        BY <3>3, <3>4, <3>5 DEF Backed, Covered, Sized, Owed
      <3> QED
        BY <3>3, <3>6 DEF Ledger
    <2> QED
      BY <2>6, <2>7
  <1>2. ASSUME NEW e \in Devices, CreateRow(w, e) PROVE Ledger(d)'
    <2>0. PICK i : i = Len(rows) + 1
      OBVIOUS
    <2>1. /\ DOMAIN rows' = DOMAIN rows \cup {i} /\ i \notin DOMAIN rows
          /\ \A j \in DOMAIN rows : rows'[j] = rows[j]
          /\ rows'[i] = [device |-> e, kind |-> "alert", status |-> "QUEUED", job |-> 0]
      BY <1>2, <1>t, <2>0, NewRowEffect DEF CreateRow
    <2>2. /\ work[w].pc = "create" /\ e \in work[w].targets
          /\ work'[w].pc = "add" /\ work'[w].row = i /\ work'[w].targets = work[w].targets \ {e}
      BY <1>2, <1>r, <2>0 DEF CreateRow, At, Work
    <2>3. pushed' = pushed /\ retried' = retried /\ faults' = faults
      BY <1>2 DEF CreateRow, bounds, history
    <2>4. /\ ~Waiting(i, d) /\ ~Standing(i, d) /\ ~Waiting(i, d)'
          /\ Standing(i, d)' <=> e = d
      BY <2>1 DEF Waiting, Standing, AlertRow
    <2>5. /\ ~Busy(w, d) /\ (Busy(w, d)' <=> e = d)
          /\ Planned(w, d) <=> d \in work[w].targets
          /\ Planned(w, d)' <=> d \in work[w].targets /\ d # e
      BY <2>1, <2>2 DEF Busy, Planned, AlertRow
    <2>6. Touches(i, w)
      BY <1>o, <2>1 DEF Touches
    <2>7. StandingPays(d, i, w)
      BY <1>n, <2>3, <2>4, <2>5 DEF StandingPays, One
    <2>8. PlanPays(d, i, w)
      BY <1>n, <2>2, <2>3, <2>4, <2>5 DEF PlanPays, One
    <2> QED
      BY <1>s, <2>6, <2>7, <2>8
  <1>3. CASE AddJob(w)
    <2>0. PICK i : i = work[w].row
      OBVIOUS
    <2>1. i \in DOMAIN rows /\ work[w].pc = "add"
      BY <1>3, <1>w, <2>0 DEF AddJob, At, RowSteps
    <2>2. /\ rows[i].status \in {"QUEUED", "SENT", "FAILED"} /\ Attempts \in Nat /\ Attempts > 0
          /\ SetRow(i, rows[i].status, Attempts)
      BY <1>3, <1>r, <2>0, <2>1, FanoutAssumption DEF AddJob, SetRow, Row
    <2>3. /\ Touches(i, w) /\ (Waiting(i, d)' <=> AlertRow(i, d))
          /\ Standing(i, d)' <=> Standing(i, d)
      BY <1>u, <2>1, <2>2 DEF Standing
    <2>4. /\ work'[w].pc \in {"push", "create"} /\ work'[w].targets = work[w].targets
          /\ pushed' = pushed /\ retried' = retried /\ faults' = faults
      BY <1>3, <1>p DEF AddJob, bounds, history, Steps
    <2>5. (Busy(w, d) <=> AlertRow(i, d)) /\ ~Busy(w, d)' /\ (Planned(w, d)' => Planned(w, d))
      BY <2>0, <2>1, <2>4 DEF Busy, Planned
    <2>6. StandingPays(d, i, w)
      BY <1>n, <2>3, <2>4, <2>5 DEF StandingPays, One
    <2>7. PlanPays(d, i, w)
      BY <1>n, <2>3, <2>4, <2>5 DEF PlanPays, One
    <2> QED
      BY <1>s, <2>3, <2>6, <2>7
  <1>4. ASSUME NEW i \in DOMAIN rows, PushRead(w, i) PROVE Ledger(d)'
    <2>1. /\ work[w].pc = "idle" /\ rows[i].job > 0
          /\ pushed' = pushed /\ retried' = retried /\ faults' = faults
      BY <1>4 DEF PushRead, At, bounds, history
    <2>2. \/ work' = work
          \/ work'[w].pc = "send" /\ work'[w].row = i
      BY <1>4, <1>r, PushReadEffect
    <2>3. PICK st \in {"QUEUED", "SENT", "FAILED"} :
            /\ SetRow(i, st, 0)
            /\ IF work'[w].pc = "idle" THEN st = "FAILED" ELSE st = rows[i].status
      <3>1. CASE token[rows[i].device] = "none"
        <4>1. SetRow(i, "FAILED", 0) /\ work' = work
          BY <1>4, <3>1 DEF PushRead, SetRow
        <4> QED
          BY <2>1, <4>1
      <3>2. CASE token[rows[i].device] # "none"
        <4>1. SetRow(i, rows[i].status, 0) /\ rows[i].status \in {"QUEUED", "SENT", "FAILED"}
          BY <1>4, <1>r, <3>2 DEF PushRead, SetRow, Row
        <4>2. work'[w].pc # "idle"
          <5>1. PICK job : job = [Idle EXCEPT !.pc = "send", !.row = i, !.tries = rows[i].job,
                                              !.read = token[rows[i].device]]
            OBVIOUS
          <5>2. job.pc = "send"
            BY <5>1 DEF Idle
          <5>3. Become(w, job)
            BY <1>4, <3>2, <5>1 DEF PushRead
          <5> QED
            BY <1>r, <5>2, <5>3 DEF Become
        <4> QED
          BY <4>1, <4>2
      <3> QED
        BY <3>1, <3>2
    <2>4. /\ Touches(i, w) /\ ~Waiting(i, d)'
          /\ Standing(i, d)' <=> AlertRow(i, d) /\ st # "FAILED"
      BY <1>u, <2>3
    <2>5. (Waiting(i, d) <=> AlertRow(i, d)) /\ ~Busy(w, d) /\ ~Planned(w, d) /\ ~Planned(w, d)'
      BY <2>1, <2>2 DEF Waiting, Busy, Planned
    <2>6. \/ ~Busy(w, d)' /\ ~Standing(i, d)'
          \/ /\ Busy(w, d)' <=> AlertRow(i, d)
             /\ Standing(i, d)' <=> Standing(i, d)
      BY <1>a, <2>1, <2>2, <2>3, <2>4 DEF Busy, Standing
    <2>7. Standing(i, d) => AlertRow(i, d)
      BY DEF Standing
    <2>8. StandingPays(d, i, w)
      BY <1>n, <2>1, <2>4, <2>5, <2>6, <2>7 DEF StandingPays, One
    <2>9. PlanPays(d, i, w)
      BY <1>n, <2>1, <2>4, <2>5, <2>6 DEF PlanPays, One
    <2> QED
      BY <1>s, <2>4, <2>8, <2>9
  <1>5. CASE PushSend(w)
    <2>0. PICK i : i = work[w].row
      OBVIOUS
    <2>1. /\ i \in DOMAIN rows /\ rows[i].kind \in Pushable /\ work[w].pc = "send"
          /\ UNCHANGED rows /\ retried' = retried /\ faults' = faults
      BY <1>5, <1>w, <2>0 DEF PushSend, At, RowSteps, PushSteps, bounds
    <2>2. PICK answer \in {"terminal", "error", "sent", "dead"} :
            /\ Goto(w, answer)
            /\ pushed' = [pushed EXCEPT ![rows[i].device] =
                            IF answer = "sent" /\ buildPushPayload(i) = "alert" THEN @ + 1 ELSE @]
      BY <1>5, <2>0 DEF PushSend, fcmSend, apnsSend, webPushSend, Answers
    <2>3. work'[w].pc = answer /\ work'[w].row = i
      BY <1>p, <2>0, <2>2 DEF Steps
    <2>4. pushed'[d] = pushed[d] + One(answer = "sent" /\ AlertRow(i, d))
      <3>1. rows[i].device \in Devices
        BY <1>r, <2>1 DEF Row
      <3>2. buildPushPayload(i) = "alert" <=> rows[i].kind = "alert"
        BY <2>1 DEF buildPushPayload, Pushable
      <3>3. CASE rows[i].device # d
        BY <1>n, <1>r, <2>2, <3>1, <3>3 DEF One, AlertRow
      <3>4. CASE rows[i].device = d
        BY <1>n, <1>r, <2>1, <2>2, <3>1, <3>2, <3>4 DEF One, AlertRow
      <3> QED
        BY <3>3, <3>4
    <2>5. /\ Touches(i, w) /\ (Waiting(i, d)' <=> Waiting(i, d))
          /\ Standing(i, d)' <=> Standing(i, d)
      BY <1>k, <2>1
    <2>6. /\ Busy(w, d) <=> AlertRow(i, d)
          /\ Busy(w, d)' <=> AlertRow(i, d) /\ answer # "sent"
          /\ ~Planned(w, d) /\ ~Planned(w, d)'
      BY <1>a, <2>0, <2>1, <2>2, <2>3 DEF Busy, Planned
    <2>7. StandingPays(d, i, w)
      BY <1>n, <2>1, <2>4, <2>5, <2>6 DEF StandingPays, One
    <2>8. PlanPays(d, i, w)
      BY <1>n, <2>1, <2>4, <2>5, <2>6 DEF PlanPays, One
    <2> QED
      BY <1>s, <2>5, <2>7, <2>8
  <1>6. CASE PushSettle(w)
    <2>0. PICK i : i = work[w].row
      OBVIOUS
    <2>1. /\ i \in DOMAIN rows /\ work[w].pc \in {"sent", "terminal", "dead"}
          /\ pushed' = pushed /\ retried' = retried /\ faults' = faults
      BY <1>6, <1>w, <2>0 DEF PushSettle, At, RowSteps, PushSteps, bounds, history
    <2>2. PICK st \in {"SENT", "FAILED"} :
            SetStatus(i, st) /\ (st = "FAILED" => work[w].pc \in {"terminal", "dead"})
                             /\ (st = "SENT" => work[w].pc = "sent")
      BY <1>6, <2>0 DEF PushSettle, At
    <2>3. rows[i].job \in Nat /\ SetRow(i, st, rows[i].job)
      BY <1>r, <2>1, <2>2 DEF SetStatus, SetRow, Row
    <2>4. /\ Touches(i, w) /\ (Waiting(i, d)' <=> Waiting(i, d))
          /\ Standing(i, d)' <=> AlertRow(i, d) /\ st = "SENT"
      <3>1. st # "FAILED" <=> st = "SENT"
        BY <2>2
      <3>2. /\ Touches(i, w)
            /\ Waiting(i, d)' <=> AlertRow(i, d) /\ rows[i].job > 0
            /\ Standing(i, d)' <=> AlertRow(i, d) /\ st # "FAILED"
        BY <1>u, <2>1, <2>2, <2>3
      <3> QED
        BY <3>1, <3>2 DEF Waiting
    <2>5. work'[w].pc \in {"idle", "clear"}
      BY <1>6, <1>d, <1>i, <1>p DEF PushSettle, Steps
    <2>6. /\ Busy(w, d) <=> AlertRow(i, d) /\ st = "FAILED"
          /\ ~Busy(w, d)' /\ ~Planned(w, d) /\ ~Planned(w, d)'
      BY <2>0, <2>1, <2>2, <2>5 DEF Busy, Planned
    <2>7. Standing(i, d) => AlertRow(i, d)
      BY DEF Standing
    <2>8. StandingPays(d, i, w)
      BY <1>n, <2>1, <2>2, <2>4, <2>6, <2>7 DEF StandingPays, One
    <2>9. PlanPays(d, i, w)
      BY <1>n, <2>1, <2>4, <2>6 DEF PlanPays, One
    <2> QED
      BY <1>s, <2>4, <2>8, <2>9
  <1>7. CASE PushRetry(w)
    <2>0. PICK i, n : i = work[w].row /\ n = work[w].tries - 1
      OBVIOUS
    <2>1. /\ i \in DOMAIN rows /\ work[w].pc = "error" /\ rows[i].kind \in Pushable /\ n \in Nat
          /\ work'[w].pc = "idle" /\ pushed' = pushed /\ faults' = faults
      BY <1>7, <1>d, <1>i, <1>w, <2>0 DEF PushRetry, At, RowSteps, PushSteps, bounds
    <2>2. SetRow(i, "FAILED", n)
      BY <1>7, <2>0 DEF PushRetry, SetRow
    <2>3. /\ Touches(i, w) /\ (Waiting(i, d)' <=> AlertRow(i, d) /\ n > 0) /\ ~Standing(i, d)'
      BY <1>u, <2>1, <2>2
    <2>4. /\ Busy(w, d) <=> AlertRow(i, d)
          /\ ~Busy(w, d)' /\ ~Planned(w, d) /\ ~Planned(w, d)'
      BY <2>0, <2>1 DEF Busy, Planned
    <2>5. retried'[d] = retried[d] + One(AlertRow(i, d) /\ n > 0)
      <3>1. rows[i].device \in Devices
        BY <1>r, <2>1 DEF Row
      <3>2. buildPushPayload(i) = "alert" <=> rows[i].kind = "alert"
        BY <2>1 DEF buildPushPayload, Pushable
      <3>3. work[w].tries > 1 <=> n > 0
        BY <1>w, <2>0
      <3>4. retried' = [retried EXCEPT ![rows[i].device] =
                          IF buildPushPayload(i) = "alert" /\ work[w].tries > 1 THEN @ + 1 ELSE @]
        BY <1>7, <2>0 DEF PushRetry
      <3>5. CASE rows[i].device # d
        BY <1>n, <1>r, <3>1, <3>4, <3>5 DEF One, AlertRow
      <3>6. CASE rows[i].device = d
        BY <1>n, <1>r, <2>1, <3>1, <3>2, <3>3, <3>4, <3>6 DEF One, AlertRow
      <3> QED
        BY <3>5, <3>6
    <2>6. Standing(i, d) => AlertRow(i, d)
      BY DEF Standing
    <2>7. StandingPays(d, i, w)
      BY <1>n, <2>1, <2>3, <2>4, <2>5, <2>6 DEF StandingPays, One
    <2>8. PlanPays(d, i, w)
      BY <1>n, <2>1, <2>3, <2>4, <2>5 DEF PlanPays, One
    <2> QED
      BY <1>s, <2>3, <2>7, <2>8
  <1>8. CASE Crash(w) \/ PushThrows(w) \/ Stall(w)
    <2>0. PICK i : i = work[w].row
      OBVIOUS
    <2>1. faults' = faults + 1 /\ pushed' = pushed /\ retried' = retried
      BY <1>8 DEF Crash, PushThrows, Stall, history
    <2>2. \/ UNCHANGED rows
          \/ i \in DOMAIN rows /\ work[w].tries \in Nat /\ rows' = [rows EXCEPT ![i].job = work[w].tries]
      BY <1>8, <1>w, <2>0 DEF Crash, PushThrows, Stall, Requeue, IsPush, RowSteps, PushSteps
    <2>3. \/ UNCHANGED work \/ work'[w].pc = "idle"
          \/ UNCHANGED rows /\ work'[w].pc = "error"
      BY <1>8, <1>d, <1>i, <1>p DEF Crash, PushThrows, Stall, Steps
    <2>4. Planned(w, d)' => Planned(w, d)
      BY <2>3 DEF Planned
    <2>5. CASE UNCHANGED rows
      <3>1. /\ Touches(i, w) /\ (Waiting(i, d)' <=> Waiting(i, d))
            /\ Standing(i, d)' <=> Standing(i, d)
        BY <1>o, <2>5 DEF Touches, Waiting, Standing, AlertRow
      <3>2. StandingPays(d, i, w) /\ PlanPays(d, i, w)
        BY <1>n, <2>1, <2>4, <3>1 DEF StandingPays, PlanPays, One
      <3> QED
        BY <1>s, <3>1, <3>2
    <2>6. CASE /\ i \in DOMAIN rows /\ work[w].tries \in Nat
               /\ rows' = [rows EXCEPT ![i].job = work[w].tries]
               /\ ~UNCHANGED rows
      <3>1. rows[i].status \in {"QUEUED", "SENT", "FAILED"} /\ SetRow(i, rows[i].status, work[w].tries)
        BY <1>r, <2>6 DEF SetRow, Row
      <3>2. Touches(i, w) /\ (Standing(i, d)' <=> Standing(i, d))
        BY <1>u, <2>6, <3>1 DEF Standing
      <3>3. Busy(w, d)' => Busy(w, d)
        BY <1>a, <2>0, <2>3, <2>6 DEF Busy
      <3>4. StandingPays(d, i, w) /\ PlanPays(d, i, w)
        BY <1>n, <2>1, <2>4, <3>2, <3>3 DEF StandingPays, PlanPays, One
      <3> QED
        BY <1>s, <3>2, <3>4
    <2> QED
      BY <2>2, <2>5, <2>6
  <1> QED
    BY <1>1, <1>2, <1>3, <1>4, <1>5, <1>6, <1>7, <1>8 DEF Paying

\* Base and Jobs together: what the ledgers rest on.
Sound == Base /\ Jobs

LEMMA StepSound == Sound /\ [Next]_vars => Sound'
  BY StepBase, StepRowJobs, StepWorkJobs DEF Sound, Jobs

LEMMA InitSound == Init => Sound
  <1> SUFFICES ASSUME Init PROVE Jobs
    BY InitBase DEF Sound
  <1>1. DOMAIN rows = {} /\ \A w \in Workers : work[w].pc = "idle"
    BY DEF Init, Idle
  <1> QED
    BY <1>1 DEF Jobs, WorkJobs, RowSteps, PushSteps, At

LEMMA StepLedger ==
  Sound /\ (\A d \in Devices : Ledger(d)) /\ [Next]_vars => (\A d \in Devices : Ledger(d)')
  <1> SUFFICES ASSUME Base, Jobs, [Next]_vars, NEW d \in Devices, Ledger(d) PROVE Ledger(d)'
    BY DEF Sound
  <1>1. Base'
    BY StepBase
  <1>2. RowsGrow
    BY StepRows DEF Base
  <1>3. CASE Calm
    BY <1>1, <1>2, <1>3, CalmStep
  <1>4. ASSUME NEW w \in Workers, Paying(w) PROVE Ledger(d)'
    BY <1>1, <1>4, PayingStep
  <1> QED
    BY <1>3, <1>4, CalmActions

LEMMA InitLedger == Init => \A d \in Devices : Ledger(d)
  <1> SUFFICES ASSUME Init, NEW d \in Devices PROVE Ledger(d)
    OBVIOUS
  <1>1. DOMAIN rows = {} /\ \A w \in Workers : work[w].pc = "idle"
    BY DEF Init, Idle
  <1>2. WaitingRows(d) = {} /\ StandingRows(d) = {} /\ BusyWorkers(d) = {} /\ PlannedWorkers(d) = {}
    BY <1>1 DEF WaitingRows, StandingRows, BusyWorkers, PlannedWorkers, Busy, Planned
  <1>3. Cardinality(WaitingRows(d)) = 0 /\ Cardinality(StandingRows(d)) = 0
        /\ Cardinality(BusyWorkers(d)) = 0 /\ Cardinality(PlannedWorkers(d)) = 0
    BY <1>2, FS_EmptySet
  <1>4. pushed[d] = 0 /\ retried[d] = 0 /\ faults = 0
    BY DEF Init
  <1> QED
    BY <1>3, <1>4, WorkersCount DEF Ledger, Backed, Covered, Owed

\* Whatever fails, stalls and is tried again, every push of a device beyond one per worker was
\* made by a second attempt or paid for by a failure: hasBeenNotified, which overlooks FAILED
\* rows, lets no push through that these do not explain.
THEOREM PushesPaidSafe == Spec => []PushesPaid
  <1> DEFINE All == \A d \in Devices : Ledger(d)
  <1>1. Init => Sound /\ All
    BY InitSound, InitLedger
  <1>2. Sound /\ All /\ [Next]_vars => (Sound /\ All)'
    BY StepSound, StepLedger
  <1>3. Sound /\ All => PushesPaid
    <2> SUFFICES ASSUME Sound, All, NEW d \in Devices
                 PROVE  pushed[d] <= Cardinality(Workers) + retried[d] + faults
      BY DEF PushesPaid
    <2>1. Sized(d) /\ Cardinality(Workers) \in Nat
      BY WorkersCount, LedgerSized DEF Sound
    <2> QED
      BY <2>1 DEF Sized, Ledger, Covered, Owed
  <1> QED
    BY <1>1, <1>2, <1>3, PTL DEF Spec

--------------------------------------------------------------------------------
(* The ledger of a user's emails *)

SentEmails(u) ==
  {i \in DOMAIN rows : /\ rows[i].kind = "email" /\ rows[i].status = "SENT"
                       /\ Owner[rows[i].device] = u}
Recorders(u) ==
  {w \in Workers : /\ At(w, "record") /\ work[w].read = "good"
                   /\ \E d \in work[w].targets : Owner[d] = u}

\* An email that was sent has its row, or is about to get it, or its row was lost to a failure.
EmailLedger(u) ==
  /\ emailed[u] <= Cardinality(SentEmails(u)) + Cardinality(Recorders(u)) + faults
  /\ emailed[u] <= Cardinality(Workers) + faults

EmailsSized(u) ==
  /\ IsFiniteSet(SentEmails(u)) /\ Cardinality(SentEmails(u)) \in Nat
  /\ IsFiniteSet(Recorders(u)) /\ Cardinality(Recorders(u)) \in Nat
  /\ Cardinality(Recorders(u)) <= Cardinality(Workers)
  /\ emailed[u] \in Nat /\ faults \in Nat

LEMMA EmailSized == Base => \A x \in Users : EmailsSized(x)
  <1> SUFFICES ASSUME Base, NEW u \in Users PROVE EmailsSized(u)
    OBVIOUS
  <1>1. rows \in Seq(Row) /\ Len(rows) \in Nat /\ DOMAIN rows = 1..Len(rows)
    BY LenProperties DEF Base, TypeOK
  <1>2. IsFiniteSet(DOMAIN rows) /\ IsFiniteSet(Workers) /\ Cardinality(Workers) \in Nat
    BY <1>1, FS_Interval, WorkersCount
  <1>3. SentEmails(u) \in SUBSET DOMAIN rows /\ Recorders(u) \in SUBSET Workers
    BY DEF SentEmails, Recorders
  <1>4. /\ IsFiniteSet(SentEmails(u)) /\ Cardinality(SentEmails(u)) \in Nat
        /\ IsFiniteSet(Recorders(u)) /\ Cardinality(Recorders(u)) \in Nat
        /\ Cardinality(Recorders(u)) <= Cardinality(Workers)
    BY <1>2, <1>3, FS_Subset, FS_CardinalityType
  <1> QED
    BY <1>4 DEF EmailsSized, Base, TypeOK

LEMMA NextEmailSized == Base' => (\A x \in Users : EmailsSized(x))'
  BY EmailSized, PTL

\* Only the email pass sends alert emails; it ends their recording, or its worker stops.
LEMMA EmailWork ==
  ASSUME Base, [Next]_vars
  PROVE  \/ \E w \in Workers, m \in Match : EmailUser(w, m)
         \/ \E w \in Workers : RecordEmail(w) \/ Crash(w)
         \/ /\ UNCHANGED emailed /\ faults' >= faults
            /\ \A w \in Workers : At(w, "record") => work'[w] = work[w]
  <1> DEFINE Idles == /\ UNCHANGED emailed /\ faults' >= faults
                      /\ \A w \in Workers : At(w, "record") => work'[w] = work[w]
  <1> HIDE DEF Idles
  <1>t. TypeOK /\ faults \in Nat
    BY DEF Base, TypeOK
  <1>0. UNCHANGED <<emailed, work>> /\ faults' \in {faults, faults + 1} => Idles
    BY <1>t DEF Idles
  <1>1. ASSUME NEW w \in Workers, Job(w), ~At(w, "record"), UNCHANGED <<emailed, faults>> PROVE Idles
    BY <1>1, <1>t, OneMoves DEF Idles
  <1>2. ASSUME NEW w \in Workers, Job(w), \A m \in Match : ~EmailUser(w, m), ~RecordEmail(w)
        PROVE  Idles
    <2>1. ASSUME NEW v \in Waves, WaveStart(w, v) PROVE Idles
      BY <1>1, <1>2, <2>1 DEF WaveStart, At, history, bounds
    <2>2. ASSUME NEW m \in Match, PushUser(w, m) PROVE Idles
      BY <1>1, <1>2, <2>2 DEF PushUser, At, history, bounds
    <2>3. ASSUME NEW d \in Devices, CreateRow(w, d) \/ StoryRow(w, d) PROVE Idles
      BY <1>1, <1>2, <2>3 DEF CreateRow, StoryRow, At, history, bounds
    <2>4. CASE AddJob(w) \/ PushPassDone(w) \/ WaveDone(w)
      BY <1>1, <1>2, <2>4 DEF AddJob, PushPassDone, WaveDone, At, history, bounds
    <2>5. ASSUME NEW i \in DOMAIN rows, PushRead(w, i) PROVE Idles
      BY <1>1, <1>2, <2>5 DEF PushRead, At, history, bounds
    <2>6. CASE PushSend(w) \/ PushSettle(w) \/ PushRetry(w) \/ ClearToken(w)
      BY <1>1, <1>2, <2>6 DEF PushSend, PushSettle, PushRetry, ClearToken, At, history, bounds
    <2>7. CASE StoryRead(w) \/ StoryClaim(w) \/ StoryRecipients(w) \/ StoryAdd(w) \/ StoryDone(w)
      BY <1>1, <1>2, <2>7
      DEF StoryRead, StoryClaim, StoryRecipients, StoryAdd, StoryDone, At, history, bounds
    <2>8. ASSUME NEW u \in Users, StoryEmail(w, u) PROVE Idles
      BY <1>1, <1>2, <2>8 DEF StoryEmail, At, history, bounds
    <2> QED
      BY <1>2, <2>1, <2>2, <2>3, <2>4, <2>5, <2>6, <2>7, <2>8 DEF Job
  <1>3. ASSUME NEW w \in Workers, PushThrows(w) \/ Stall(w) PROVE Idles
    <2>1. ~At(w, "record") \/ UNCHANGED work
      BY <1>3 DEF PushThrows, Stall, IsPush, At
    <2>2. UNCHANGED emailed /\ faults' = faults + 1
      BY <1>3 DEF PushThrows, Stall, history
    <2>3. \A v \in Workers : v # w => work'[v] = work[v]
      BY <1>3, <1>t, OneMoves
    <2> QED
      BY <1>t, <2>1, <2>2, <2>3 DEF Idles
  <1> QED
    BY <1>0, <1>2, <1>3, SightingFrame DEF Next, vars, Close, Open, Register, Unsubscribe, history, bounds, Idles

\* The email pass looks for the record of an earlier email, and writes its own before it goes on.
LEMMA StepEmailLedger ==
  Sound /\ (\A u \in Users : EmailLedger(u)) /\ [Next]_vars => (\A u \in Users : EmailLedger(u)')
  <1> SUFFICES ASSUME Base, Jobs, [Next]_vars, NEW u \in Users, EmailLedger(u) PROVE EmailLedger(u)'
    BY DEF Sound
  <1>t. TypeOK
    BY DEF Base
  <1>b. Base'
    BY StepBase
  <1>g. RowsGrow
    BY StepRows DEF Base
  <1>s. /\ EmailsSized(u) /\ EmailsSized(u)'
        /\ IsFiniteSet(Workers) /\ Cardinality(Workers) \in Nat
    BY <1>b, EmailSized, NextEmailSized, WorkersCount
  <1>k. SentEmails(u) \subseteq SentEmails(u)'
    <2>1. \A i \in DOMAIN rows : rows[i].kind = "email" => rows'[i].status = rows[i].status
      BY EmailRowsStay
    <2> QED
      BY <1>g, <2>1 DEF SentEmails, RowsGrow
  <1>c. Cardinality(SentEmails(u)) <= Cardinality(SentEmails(u)')
    BY <1>k, <1>s, FS_Subset DEF EmailsSized
  <1>r. work \in [Workers -> Work]
    BY <1>t DEF TypeOK
  <1>d. ASSUME NEW w
        PROVE  /\ IsFiniteSet(Recorders(u) \ {w}) /\ Cardinality(Recorders(u) \ {w}) \in Nat
               /\ Cardinality(Recorders(u)) <= Cardinality(Recorders(u) \ {w}) + 1
    <2>1. IsFiniteSet(Recorders(u)) /\ Cardinality(Recorders(u)) \in Nat
      BY <1>s DEF EmailsSized
    <2>2. /\ IsFiniteSet(Recorders(u) \ {w})
          /\ Cardinality(Recorders(u) \ {w}) =
               IF w \in Recorders(u) THEN Cardinality(Recorders(u)) - 1 ELSE Cardinality(Recorders(u))
      BY <2>1, FS_RemoveElement
    <2>3. Cardinality(Recorders(u) \ {w}) \in Nat
      BY <2>2, FS_CardinalityType
    <2> QED
      BY <2>1, <2>2, <2>3
  \* Nobody sends, and the records to come are still to come.
  <1>q. ASSUME emailed'[u] = emailed[u], Recorders(u) \subseteq Recorders(u)', faults' >= faults
        PROVE  EmailLedger(u)'
    <2>1. Cardinality(Recorders(u)) <= Cardinality(Recorders(u)')
      BY <1>q, <1>s, FS_Subset DEF EmailsSized
    <2> QED
      BY <1>c, <1>q, <1>s, <2>1 DEF EmailLedger, EmailsSized
  \* A worker that stops, or fails to write the record, is one failure.
  <1>f. ASSUME NEW w, emailed' = emailed, Recorders(u) \ {w} \subseteq Recorders(u)',
               faults' = faults + 1
        PROVE  EmailLedger(u)'
    <2>1. /\ IsFiniteSet(Recorders(u) \ {w}) /\ Cardinality(Recorders(u) \ {w}) \in Nat
          /\ Cardinality(Recorders(u)) <= Cardinality(Recorders(u) \ {w}) + 1
      BY <1>d
    <2>2. Cardinality(Recorders(u) \ {w}) <= Cardinality(Recorders(u)')
      BY <1>f, <1>s, FS_Subset DEF EmailsSized
    <2> QED
      BY <1>c, <1>f, <1>s, <2>1, <2>2 DEF EmailLedger, EmailsSized
  <1>1. ASSUME NEW w \in Workers, NEW m \in Match, EmailUser(w, m) PROVE EmailLedger(u)'
    <2>1. work[w].pc = "email" /\ UNCHANGED rows /\ faults' = faults
      BY <1>1 DEF EmailUser, At, bounds
    <2>2. \A v \in Workers : v # w => work'[v] = work[v]
      BY <1>1, <1>t, OneMoves DEF Job
    <2>3. w \notin Recorders(u) /\ Recorders(u) \subseteq Recorders(u)'
      BY <2>1, <2>2 DEF Recorders, At
    <2>4. OwnerOf(m) = Owner[m.device] /\ OwnerOf(m) \in Users /\ emailed \in [Users -> Nat]
      BY <1>t, FanoutAssumption DEF OwnerOf, Match, TypeOK
    <2>5. CASE emailed'[u] = emailed[u]
      BY <1>q, <1>s, <2>1, <2>3, <2>5 DEF EmailsSized
    <2>6. CASE emailed'[u] # emailed[u]
      <3>1. /\ ~hasBeenNotified(u, "EMAIL") /\ emailed'[u] = emailed[u] + 1
            /\ work'[w].pc = "record" /\ work'[w].read = "good" /\ work'[w].targets = {m.device}
            /\ Owner[m.device] = u
        BY <1>1, <1>t, <2>4, <2>6, EmailUserEffect
      <3>2. SentEmails(u) = {}
        BY <3>1 DEF hasBeenNotified, RowsOf, Channel, SentEmails
      <3>3. Recorders(u)' = Recorders(u) \cup {w}
        BY <2>1, <2>2, <3>1 DEF Recorders, At
      <3>4. Cardinality(SentEmails(u)) = 0 /\ Cardinality(Recorders(u)') = Cardinality(Recorders(u)) + 1
        BY <1>s, <2>3, <3>2, <3>3, FS_EmptySet, FS_AddElement DEF EmailsSized
      <3> QED
        BY <1>s, <2>1, <3>1, <3>4 DEF EmailLedger, EmailsSized
    <2> QED
      BY <2>5, <2>6
  <1>2. ASSUME NEW w \in Workers, RecordEmail(w) PROVE EmailLedger(u)'
    <2>1. /\ work[w].pc = "record" /\ emailed' = emailed
          /\ \A v \in Workers : v # w => work'[v] = work[v]
      BY <1>2, <1>t, OneMoves DEF RecordEmail, At, Job, history
    <2>2. Recorders(u) \ {w} \subseteq Recorders(u)'
      BY <2>1 DEF Recorders, At
    <2>3. CASE faults' = faults + 1
      BY <1>f, <2>1, <2>2, <2>3
    <2>4. CASE faults' # faults + 1
      <3>1. PICK d \in work[w].targets :
              NewRow(d, "email", IF work[w].read = "good" THEN "SENT" ELSE "FAILED")
        BY <1>2, <2>4 DEF RecordEmail
      <3>2. faults' = faults
        BY <1>2, <2>4 DEF RecordEmail
      <3>3. d \in Devices /\ work[w].targets = {d}
        BY <1>t, <2>1, <3>1 DEF Jobs, WorkJobs, At
      <3>4. PICK new : /\ new \in DOMAIN rows' /\ new \notin DOMAIN rows
                       /\ rows'[new] = [device |-> d, kind |-> "email", job |-> 0, status |->
                                          IF work[w].read = "good" THEN "SENT" ELSE "FAILED"]
        BY <1>t, <3>1, <3>3, NewRowEffect
      <3>5. CASE w \in Recorders(u)
        <4>1. new \in SentEmails(u)' /\ new \notin SentEmails(u)
          BY <3>3, <3>4, <3>5 DEF SentEmails, Recorders
        <4>2. SentEmails(u) \cup {new} \subseteq SentEmails(u)'
          BY <1>k, <4>1
        <4>3. /\ IsFiniteSet(SentEmails(u) \cup {new})
              /\ Cardinality(SentEmails(u) \cup {new}) = Cardinality(SentEmails(u)) + 1
          BY <1>s, <4>1, FS_AddElement DEF EmailsSized
        <4>4. Cardinality(SentEmails(u)) + 1 <= Cardinality(SentEmails(u)')
          BY <1>s, <4>2, <4>3, FS_Subset DEF EmailsSized
        <4>5. /\ IsFiniteSet(Recorders(u) \ {w}) /\ Cardinality(Recorders(u) \ {w}) \in Nat
              /\ Cardinality(Recorders(u)) <= Cardinality(Recorders(u) \ {w}) + 1
          BY <1>d
        <4>6. Cardinality(Recorders(u) \ {w}) <= Cardinality(Recorders(u)')
          BY <1>s, <2>2, FS_Subset DEF EmailsSized
        <4> QED
          BY <1>s, <2>1, <3>2, <4>4, <4>5, <4>6 DEF EmailLedger, EmailsSized
      <3>6. CASE w \notin Recorders(u)
        <4>1. Recorders(u) \subseteq Recorders(u)'
          BY <2>2, <3>6
        <4> QED
          BY <1>q, <1>s, <2>1, <3>2, <4>1 DEF EmailsSized
      <3> QED
        BY <3>5, <3>6
    <2> QED
      BY <2>3, <2>4
  <1>3. ASSUME NEW w \in Workers, Crash(w) PROVE EmailLedger(u)'
    <2>1. /\ emailed' = emailed /\ faults' = faults + 1
          /\ \A v \in Workers : v # w => work'[v] = work[v]
      BY <1>3, <1>t, OneMoves DEF Crash, history
    <2>2. Recorders(u) \ {w} \subseteq Recorders(u)'
      BY <2>1 DEF Recorders, At
    <2> QED
      BY <1>f, <2>1, <2>2
  <1>4. CASE /\ UNCHANGED emailed /\ faults' >= faults
             /\ \A w \in Workers : At(w, "record") => work'[w] = work[w]
    <2>1. Recorders(u) \subseteq Recorders(u)'
      BY <1>4 DEF Recorders, At
    <2> QED
      BY <1>4, <1>q, <2>1
  <1> QED
    BY <1>1, <1>2, <1>3, <1>4, EmailWork

\* Whatever fails, stalls and is tried again, a user gets one email per worker, and another one
\* only for a failure: the HIGH wave records an email before it looks at the next user.
THEOREM EmailsPaidSafe == Spec => []EmailsPaid
  <1> DEFINE All == \A u \in Users : EmailLedger(u)
  <1>1. Init => Sound /\ All
    <2> SUFFICES ASSUME Init, NEW u \in Users PROVE EmailLedger(u)
      BY InitSound
    <2>1. emailed[u] = 0 /\ faults = 0
      BY DEF Init
    <2>2. EmailsSized(u) /\ Cardinality(Workers) \in Nat
      BY EmailSized, InitSound, WorkersCount DEF Sound
    <2> QED
      BY <2>1, <2>2 DEF EmailLedger, EmailsSized
  <1>2. Sound /\ All /\ [Next]_vars => (Sound /\ All)'
    BY StepSound, StepEmailLedger
  <1>3. Sound /\ All => EmailsPaid
    BY DEF EmailLedger, EmailsPaid
  <1> QED
    BY <1>1, <1>2, <1>3, PTL DEF Spec
================================================================================
