------------------------------- MODULE Sightings -------------------------------
(***************************************************************************)
(* SightingService and SightingController: reports on one alert, dismissed *)
(* by its creator, and photos that the reporter adds for some hours.  The  *)
(* upload is authorised on one read, the photos are stored from another.   *)
(***************************************************************************)
EXTENDS Naturals, Sequences, FiniteSets

CONSTANTS
  Users, Nobody,
  Creator,      \* who made the alert
  SightingIds,  \* ids the table may hand out (bound)
  MaxPhotos,    \* MAX_SIGHTING_PHOTOS
  Batch,        \* files of one upload (bound)
  MaxUploads,   \* uploads made (bound)
  Calls         \* calls in flight (bound)

VARIABLES
  alert,        \* "ACTIVE" or "closed"
  sighting,     \* rows
  call,         \* calls in flight
  uploads,      \* number of photos that reached the store
  mails,        \* history: sightings whose creator got the mail
  stored,       \* history: photos appended by calls whose row nobody changed in between
  overtaken     \* history: how often a list was written over one its writer had not read

sightingVars == <<alert, sighting, call, uploads, mails, stored, overtaken>>

\* A photo is the number of its upload; photo is photo_url (0: null).
NoSighting == [by |-> Nobody, photo |-> 0, photos |-> <<>>, dismissed |-> FALSE, late |-> FALSE]
Photo == 1..(MaxUploads * Batch)
Sighting == [by : Users \cup {Nobody}, photo : {0} \cup Photo, photos : Seq(Photo),
             dismissed : BOOLEAN, late : BOOLEAN]

NoCall == [pc |-> "free", by |-> Nobody, id |-> 0, files |-> 0, new |-> <<>>, read |-> <<>>]
Call == [pc : {"free", "insert", "notify", "mail", "dismiss", "upload", "append", "write"},
         by : Users \cup {Nobody}, id : {0} \cup SightingIds, files : 0..Batch, new : Seq(Photo), read : Seq(Photo)]

TypeOK ==
  /\ alert \in {"ACTIVE", "closed"}
  /\ sighting \in [SightingIds -> Sighting]
  /\ call \in [Calls -> Call]
  /\ uploads \in {0} \cup Photo
  /\ mails \subseteq SightingIds
  /\ stored \in [SightingIds -> SUBSET Photo]
  /\ overtaken \in [SightingIds -> Nat]

Init ==
  /\ alert = "ACTIVE"
  /\ sighting = [s \in SightingIds |-> NoSighting]
  /\ call = [f \in Calls |-> NoCall]
  /\ uploads = 0 /\ mails = {}
  /\ stored = [s \in SightingIds |-> {}]
  /\ overtaken = [s \in SightingIds |-> 0]

Exists(s) == sighting[s].by # Nobody
Start(f, entry) == call[f].pc = "free" /\ call' = [call EXCEPT ![f] = entry]
Goto(f, pc) == [call EXCEPT ![f].pc = pc]
End(f) == [call EXCEPT ![f] = NoCall]

--------------------------------------------------------------------------------
(* Reports *)

\* The alert is read; the report is inserted later, and the alert may be closed by then.
create(f, u) ==
  /\ alert = "ACTIVE"
  /\ Start(f, [NoCall EXCEPT !.pc = "insert", !.by = u])
  /\ UNCHANGED <<alert, sighting, uploads, mails, stored, overtaken>>

\* One photo may come with the report: it is photo_url and the first of photos.
InsertSighting(f, s, photo) ==
  /\ call[f].pc = "insert"
  /\ ~Exists(s)
  /\ uploads' = uploads + (IF photo THEN 1 ELSE 0) /\ uploads' \in {0} \cup Photo
  /\ sighting' = [sighting EXCEPT ![s] =
                    [NoSighting EXCEPT !.by = call[f].by, !.photo = IF photo THEN uploads' ELSE 0,
                                       !.photos = IF photo THEN <<uploads'>> ELSE <<>>]]
  /\ stored' = [stored EXCEPT ![s] = IF photo THEN {uploads'} ELSE {}]
  /\ call' = [call EXCEPT ![f].pc = "notify", ![f].id = s]
  /\ UNCHANGED <<alert, mails, overtaken>>

\* Rows and jobs of the queue; a failure is logged (see NotificationFanout).
notifyCreatorOfSighting(f) ==
  /\ call[f].pc = "notify"
  /\ call' = Goto(f, "mail")
  /\ UNCHANGED <<alert, sighting, uploads, mails, stored, overtaken>>

\* The mail to the creator; a failure is logged, the report stands.
sendSightingReportedEmail(f) ==
  /\ call[f].pc = "mail"
  /\ mails' \in {mails, mails \cup {call[f].id}}
  /\ call' = End(f)
  /\ UNCHANGED <<alert, sighting, uploads, stored, overtaken>>

\* What a reader of the alert sees: dismissed reports only if he made the alert.
findByAlert(u) == {s \in SightingIds : Exists(s) /\ (u = Creator \/ ~sighting[s].dismissed)}

dismiss(f, u, s) ==
  /\ Exists(s) /\ u = Creator /\ ~sighting[s].dismissed
  /\ Start(f, [NoCall EXCEPT !.pc = "dismiss", !.id = s])
  /\ UNCHANGED <<alert, sighting, uploads, mails, stored, overtaken>>

WriteDismissed(f) ==
  /\ call[f].pc = "dismiss"
  /\ sighting' = [sighting EXCEPT ![call[f].id].dismissed = TRUE]
  /\ call' = End(f)
  /\ UNCHANGED <<alert, uploads, mails, stored, overtaken>>

--------------------------------------------------------------------------------
(* Photos *)

\* The reporter, an active alert, the window of hours, at least a file, and room for all.
authorizePhotoUpload(u, s, n) ==
  /\ Exists(s) /\ sighting[s].by = u
  /\ alert = "ACTIVE" /\ ~sighting[s].late
  /\ n >= 1 /\ Len(sighting[s].photos) + n <= MaxPhotos

\* POST /sightings/:id/photos, and /photo with one file.
uploadPhotos(f, u, s, n) ==
  /\ authorizePhotoUpload(u, s, n)
  /\ Start(f, [NoCall EXCEPT !.pc = "upload", !.by = u, !.id = s, !.files = n])
  /\ UNCHANGED <<alert, sighting, uploads, mails, stored, overtaken>>

\* UploadService.uploadImages: all files, or an error.
uploadImages(f) ==
  LET n == call[f].files IN
  /\ call[f].pc = "upload"
  /\ \/ /\ uploads + n \in Photo
        /\ uploads' = uploads + n
        /\ call' = [call EXCEPT ![f].pc = "append", ![f].files = 0,
                                ![f].new = [i \in 1..n |-> uploads + i]]
     \/ call' = End(f) /\ UNCHANGED uploads
  /\ UNCHANGED <<alert, sighting, mails, stored, overtaken>>

appendPhotos(f) ==
  /\ call[f].pc = "append"
  /\ call' = [call EXCEPT ![f].pc = "write", ![f].read = sighting[call[f].id].photos]
  /\ UNCHANGED <<alert, sighting, uploads, mails, stored, overtaken>>

\* Mutant: photo_url is the newest photo.
Mut_Appended_newest(row, photos) == [row EXCEPT !.photos = photos, !.photo = photos[Len(photos)]]

Appended(row, photos) == [row EXCEPT !.photos = photos, !.photo = photos[1]]

\* The list that was read and the new photos, with photo_url equal to the first.
\* stored: an overtaken call takes back what it had not read.
WritePhotos(f) ==
  LET me == call[f]  photos == me.read \o me.new IN
  /\ me.pc = "write"
  /\ sighting' = [sighting EXCEPT ![me.id] = Appended(@, photos)]
  /\ stored' = [stored EXCEPT ![me.id] =
                  IF sighting[me.id].photos = me.read THEN @ \cup {me.new[i] : i \in DOMAIN me.new}
                  ELSE {photos[i] : i \in DOMAIN photos}]
  /\ overtaken' = [overtaken EXCEPT ![me.id] = IF sighting[me.id].photos = me.read THEN @ ELSE @ + 1]
  /\ call' = End(f)
  /\ UNCHANGED <<alert, uploads, mails>>

--------------------------------------------------------------------------------
\* AlertService closes the alert; the upload window ends.
CloseAlert ==
  /\ alert = "ACTIVE"
  /\ alert' = "closed"
  /\ UNCHANGED <<sighting, call, uploads, mails, stored, overtaken>>

WindowEnds(s) ==
  /\ Exists(s) /\ ~sighting[s].late
  /\ sighting' = [sighting EXCEPT ![s].late = TRUE]
  /\ UNCHANGED <<alert, call, uploads, mails, stored, overtaken>>

\* SightingController; readers see what findByAlert gives them.
ReportEndpoints(f, u) == create(f, u) \/ \E s \in findByAlert(u) : dismiss(f, u, s)
PhotoEndpoints(f, u) == \E s \in SightingIds, n \in 1..Batch : uploadPhotos(f, u, s, n)

Next ==
  \/ \E f \in Calls :
       \/ notifyCreatorOfSighting(f) \/ sendSightingReportedEmail(f) \/ WriteDismissed(f)
       \/ uploadImages(f) \/ appendPhotos(f) \/ WritePhotos(f)
       \/ \E u \in Users : ReportEndpoints(f, u) \/ PhotoEndpoints(f, u)
       \/ \E s \in SightingIds, photo \in BOOLEAN : InsertSighting(f, s, photo)
  \/ CloseAlert \/ \E s \in SightingIds : WindowEnds(s)

Spec == Init /\ [][Next]_sightingVars

--------------------------------------------------------------------------------
(* Properties *)

\* appendPhotos writes the list it read with its own photos
\* (sighting.service.ts:512).  Nothing is lost but what another upload stored
\* between the two, and photo_url stays the first of photos, however reports,
\* uploads and dismissals overlap.
SightingPhotosKept ==
  \A s \in SightingIds :
    LET row == sighting[s]  seen == {row.photos[i] : i \in DOMAIN row.photos} IN
    /\ seen = stored[s]
    /\ row.photo = IF row.photos = <<>> THEN 0 ELSE row.photos[1]

\* The number of photos is checked before the upload (line 468) and not again: the
\* limit is exceeded at most by what the other calls in flight bring, and by as much
\* again for every upload that wrote over photos it had not read, and so made room
\* for others that the next writer counts in addition.
PhotosOvershootBounded ==
  \A s \in SightingIds :
    Len(sighting[s].photos) <= MaxPhotos + Batch * (Cardinality(Calls) - 1) * (overtaken[s] + 1)
================================================================================
