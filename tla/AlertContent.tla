------------------------------ MODULE AlertContent ------------------------------
(***************************************************************************)
(* What an alert shows: the photos of the pet, copied into the alert and   *)
(* refreshed by PetService when the pet changes, extended by the owner's   *)
(* edits and uploads, and what each viewer may see of the contact details. *)
(* One pet and one alert; the life of an alert is in AlertLifecycle.       *)
(***************************************************************************)
EXTENDS Naturals, FiniteSets

CONSTANTS
  Users, Nobody,
  Owner,        \* of the pet and its alert
  Photos,       \* photos of the pet and of the alert
  Calls         \* calls in flight (bound)

VARIABLES
  pet,          \* photos of the pet, primary photo first in the copy
  alert,        \* status: "none", "ACTIVE" or "closed"
  copy,         \* alert.pet_photos
  phonePublic,  \* is_phone_public
  call,         \* calls in flight
  follows       \* history: the pet was copied since, and no edit wrote an older list

contentVars == <<pet, alert, copy, phonePublic, call, follows>>

NoCall == [pc |-> "free", by |-> Nobody, read |-> {}, new |-> {}, old |-> FALSE]
Call == [pc : {"free", "insert", "edit", "append", "pet"}, by : Users \cup {Nobody},
         read : SUBSET Photos, new : SUBSET Photos, old : BOOLEAN]

TypeOK ==
  /\ pet \subseteq Photos /\ copy \subseteq Photos
  /\ alert \in {"none", "ACTIVE", "closed"}
  /\ phonePublic \in BOOLEAN /\ follows \in BOOLEAN
  /\ call \in [Calls -> Call]

Init ==
  /\ pet \in SUBSET Photos /\ copy = {}
  /\ alert = "none" /\ phonePublic = FALSE
  /\ call = [f \in Calls |-> NoCall]
  /\ follows = FALSE

Start(f, entry) == call[f].pc = "free" /\ call' = [call EXCEPT ![f] = entry]
End(f) == [call EXCEPT ![f] = NoCall]

\* History: edits that have read the list before the pet is copied into it.
Outdate(f) ==
  [g \in Calls |-> IF g = f THEN NoCall
                   ELSE IF call[g].pc = "edit" THEN [call[g] EXCEPT !.old = TRUE] ELSE call[g]]

--------------------------------------------------------------------------------
(* AlertService *)

\* The photos are the ones the client sends, not the pet's.
create(f, u, new) ==
  /\ alert = "none" /\ u = Owner
  /\ Start(f, [NoCall EXCEPT !.pc = "insert", !.by = u, !.new = new])
  /\ UNCHANGED <<pet, alert, copy, phonePublic, follows>>

\* A second alert for the pet is not followed (bound).
InsertAlert(f) ==
  /\ call[f].pc = "insert"
  /\ IF alert = "none"
     THEN alert' = "ACTIVE" /\ copy' = call[f].new /\ phonePublic' \in BOOLEAN
     ELSE UNCHANGED <<alert, copy, phonePublic>>
  /\ call' = End(f)
  /\ UNCHANGED <<pet, follows>>

\* The owner's edit, in any status: the new photos go after the ones that were read.
update(f, u, new) ==
  /\ alert # "none" /\ u = Owner
  /\ Start(f, [NoCall EXCEPT !.pc = "edit", !.by = u, !.read = copy, !.new = new])
  /\ UNCHANGED <<pet, alert, copy, phonePublic, follows>>

\* Without new photos the list is left alone.
WriteEdit(f) ==
  LET me == call[f] IN
  /\ me.pc = "edit"
  /\ copy' = IF me.new = {} THEN copy ELSE me.read \cup me.new
  /\ follows' = (follows /\ (me.new = {} \/ ~me.old))
  /\ call' = End(f)
  /\ UNCHANGED <<pet, alert, phonePublic>>

\* POST /alerts/:id/photos by any signed-in user: addPhotos reads the alert as
\* that user sees it, and compares nothing.
uploadPhotos(f, u, new) ==
  /\ alert # "none"
  /\ Start(f, [NoCall EXCEPT !.pc = "append", !.by = u, !.new = new])
  /\ UNCHANGED <<pet, alert, copy, phonePublic, follows>>

\* array_cat in the database
addPhotos(f) ==
  /\ call[f].pc = "append"
  /\ copy' = copy \cup call[f].new
  /\ call' = End(f)
  /\ UNCHANGED <<pet, alert, phonePublic, follows>>

\* resolve, cancel or expiry (AlertLifecycle)
CloseAlert ==
  /\ alert = "ACTIVE"
  /\ alert' = "closed"
  /\ UNCHANGED <<pet, copy, phonePublic, call, follows>>

--------------------------------------------------------------------------------
(* PetService *)

\* PUT /pets/:id and PUT /users/:userId/pets/:petId
updatePet(f, u, new) ==
  /\ u = Owner
  /\ Start(f, [NoCall EXCEPT !.pc = "pet", !.by = u, !.new = new])
  /\ UNCHANGED <<pet, alert, copy, phonePublic, follows>>

\* orderedPetPhotos: all of them, the primary one first.
orderedPetPhotos(photos) == photos

\* Mutant: the alert keeps its photos when it has any.
Mut_syncAlertSnapshots_keeps(photos) == IF alert = "ACTIVE" /\ copy = {} THEN photos ELSE copy

\* Open alerts only.
syncAlertSnapshots(photos) == IF alert = "ACTIVE" THEN orderedPetPhotos(photos) ELSE copy

\* One transaction.
WritePet(f) ==
  /\ call[f].pc = "pet"
  /\ pet' = call[f].new
  /\ copy' = syncAlertSnapshots(call[f].new)
  /\ follows' = (follows \/ alert = "ACTIVE")
  /\ call' = IF alert = "ACTIVE" THEN Outdate(f) ELSE End(f)
  /\ UNCHANGED <<alert, phonePublic>>

--------------------------------------------------------------------------------
(* Viewers *)

Fields == {"photos", "phone", "email", "notes", "creatorId", "exactPlace"}

\* The list: no email for anybody, the phone if it is public.
mapRawToResponseDto == Fields \ ({"email"} \cup (IF phonePublic THEN {} ELSE {"phone"}))

\* The detail: the owner sees his contact details.
mapToResponseDto(u) == IF u = Owner THEN Fields ELSE mapRawToResponseDto

\* A caller with a client key only (Nobody) sees less, and a rounded place.
applyViewerRedaction(dto, u) ==
  IF u # Nobody THEN dto ELSE dto \ {"creatorId", "email", "notes", "exactPlace"}

findById(u) == IF alert = "none" THEN {} ELSE applyViewerRedaction(mapToResponseDto(u), u)
findActiveByTagId(u) == IF alert = "ACTIVE" THEN findById(u) ELSE {}
findNearby(u) == IF alert = "none" THEN {} ELSE applyViewerRedaction(mapRawToResponseDto, u)

--------------------------------------------------------------------------------
(* Controllers *)

\* A caller without a bearer token has to present a configured key.
ClientKeyGuard(u, keyed) == u # Nobody \/ keyed

DetailRoute(u, keyed) == IF ClientKeyGuard(u, keyed) THEN findById(u) ELSE {}
TagRoute(u, keyed) == IF ClientKeyGuard(u, keyed) THEN findActiveByTagId(u) ELSE {}
ListRoute(u, keyed) == IF ClientKeyGuard(u, keyed) THEN findNearby(u) ELSE {}

CreateEndpoint(f, u, new) == create(f, u, new)
EditEndpoint(f, u, new) == update(f, u, new)
PhotoEndpoint(f, u, new) == new # {} /\ uploadPhotos(f, u, new)
PetEndpoints(f, u, new) == updatePet(f, u, new)

Next ==
  \/ \E f \in Calls :
       \/ InsertAlert(f) \/ WriteEdit(f) \/ addPhotos(f) \/ WritePet(f)
       \/ \E u \in Users, new \in SUBSET Photos :
            \/ CreateEndpoint(f, u, new) \/ EditEndpoint(f, u, new)
            \/ PhotoEndpoint(f, u, new) \/ PetEndpoints(f, u, new)
  \/ CloseAlert

Spec == Init /\ [][Next]_contentVars

--------------------------------------------------------------------------------
(* Properties *)

\* Once a change of the pet was copied into its open alert (pet.service.ts:235),
\* the alert goes on showing the pet as it is, whatever edits and uploads
\* overlap - unless an edit writes the list it had read before the copy
\* (alert.service.ts:418).  No viewer sees more in the public list than in the
\* detail of the alert, and only the owner sees an address; without a key and
\* without an account nothing is seen.
AlertShowsPet ==
  /\ follows /\ alert = "ACTIVE" => pet \subseteq copy
  /\ \A u \in Users \cup {Nobody}, keyed \in BOOLEAN :
       /\ TagRoute(u, keyed) \cup ListRoute(u, keyed) \subseteq DetailRoute(u, keyed)
       /\ "phone" \in DetailRoute(u, keyed) => u = Owner \/ phonePublic
       /\ "email" \in DetailRoute(u, keyed) => u = Owner
       /\ u = Nobody /\ ~keyed => DetailRoute(u, keyed) = {}
================================================================================
