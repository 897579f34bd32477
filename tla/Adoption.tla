-------------------------------- MODULE Adoption --------------------------------
(***************************************************************************)
(* AdoptionService with PetService, PetTypesService and UploadService: one *)
(* pet that its owner keeps or offers (and that is not made again once it  *)
(* is deleted), the listing, the photos of the pet and the types a pet may *)
(* have.  The flag of a missing pet is in AlertLifecycle.  Handlers read   *)
(* the listing, check it, and write by id.                                 *)
(***************************************************************************)
EXTENDS Naturals, FiniteSets

CONSTANTS
  Users, Nobody,
  PetTypes,
  MaxPetPhotos,       \* MAX_PET_PHOTOS: what a pet update may store
  MaxAdoptionPhotos,  \* MAX_ADOPTION_PHOTOS
  MaxFiles,           \* DEFAULT_MAX_FILES_PER_UPLOAD
  Calls               \* calls in flight (bound)

VARIABLES
  petType,      \* rows of pet_type
  pet,          \* row of pet: owner Nobody when there is none
  listing,      \* row of adoption_listing: "none", its status, or "deleted"
  adoptedAt,    \* adopted_at is set
  call,         \* calls in flight
  shown,        \* ids findAvailable read, before it reads the rows
  lost          \* history: a status was written over one the writer had not read

adoptionVars == <<petType, pet, listing, adoptedAt, call, shown, lost>>

Statuses == {"AVAILABLE", "ADOPTED", "WITHDRAWN"}
NoPetRow == [owner |-> Nobody, type |-> "none", photos |-> 0]
\* What one statement may store, by the limits of the pet and of the listing.
Limit == IF MaxPetPhotos > MaxAdoptionPhotos THEN MaxPetPhotos ELSE MaxAdoptionPhotos

NoCall == [pc |-> "free", user |-> Nobody, read |-> "none", files |-> 0, type |-> "none", new |-> "none"]
Call == [pc : {"free", "insert", "status", "edit", "delete", "uploaded", "push"},
         user : Users \cup {Nobody}, read : Statuses \cup {"none"}, files : Nat,
         type : PetTypes \cup {"none"}, new : Statuses \cup {"none"}]

TypeOK ==
  /\ petType \subseteq PetTypes
  /\ pet \in [owner : Users \cup {Nobody}, type : PetTypes \cup {"none"}, photos : Nat]
  /\ listing \in Statuses \cup {"none", "deleted"}
  /\ adoptedAt \in BOOLEAN /\ shown \in BOOLEAN /\ lost \in BOOLEAN
  /\ call \in [Calls -> Call]

Init ==
  /\ petType = {}
  /\ pet = NoPetRow /\ listing = "none" /\ adoptedAt = FALSE
  /\ call = [f \in Calls |-> NoCall]
  /\ shown = FALSE /\ lost = FALSE

Start(f, entry) == call[f].pc = "free" /\ call' = [call EXCEPT ![f] = entry]
End(f) == [call EXCEPT ![f] = NoCall]

--------------------------------------------------------------------------------
(* PetTypesService.  An update writes the names of a type. *)

createPetType(t) ==
  /\ t \notin petType
  /\ petType' = petType \cup {t}
  /\ UNCHANGED <<pet, listing, adoptedAt, call, shown, lost>>

\* pet_type_id: ON DELETE RESTRICT
removePetType(t) ==
  /\ t \in petType /\ pet.type # t
  /\ petType' = petType \ {t}
  /\ UNCHANGED <<pet, listing, adoptedAt, call, shown, lost>>

findAllPetTypes == petType

--------------------------------------------------------------------------------
(* PetService *)

requirePetType(t) == t \in petType
validatePhotos(n) == n <= MaxPetPhotos
findOnePet(u) == pet.owner = u

\* Pets with a listing are left out of GET /pets.
findAllByUser(u) == findOnePet(u) /\ listing \notin Statuses

\* POST /adoptions: the type is looked up, pet and listing are inserted in one
\* transaction.  The listing's pet is a new one, so pet_id cannot collide.
create(f, u, t, n) ==
  /\ requirePetType(t) /\ validatePhotos(n)
  /\ listing = "none" /\ pet = NoPetRow
  /\ Start(f, [NoCall EXCEPT !.pc = "insert", !.user = u, !.type = t, !.files = n, !.new = "AVAILABLE"])
  /\ UNCHANGED <<petType, pet, listing, adoptedAt, shown, lost>>

\* POST /pets and POST /users/:userId/pets: a pet that is not offered.
registerPet(f, u, t, n) ==
  /\ requirePetType(t) /\ validatePhotos(n)
  /\ listing = "none" /\ pet = NoPetRow
  /\ Start(f, [NoCall EXCEPT !.pc = "insert", !.user = u, !.type = t, !.files = n])
  /\ UNCHANGED <<petType, pet, listing, adoptedAt, shown, lost>>

\* The foreign key refuses a type that is gone.
createPet(f) ==
  LET me == call[f] IN
  /\ me.pc = "insert"
  /\ IF me.type \in petType /\ listing = "none" /\ pet = NoPetRow
     THEN /\ pet' = [owner |-> me.user, type |-> me.type, photos |-> me.files]
          /\ listing' = me.new
     ELSE UNCHANGED <<pet, listing>>
  /\ call' = End(f)
  /\ UNCHANGED <<petType, adoptedAt, shown, lost>>

--------------------------------------------------------------------------------
(* AdoptionService *)

requireOwned(u) == listing \in Statuses /\ pet.owner = u

\* Mutant: an adopted listing may be listed again.
Mut_Allowed_adopted(new) == IF new = "AVAILABLE" THEN {"WITHDRAWN", "ADOPTED"} ELSE {"AVAILABLE"}

\* The statuses markAdopted, withdraw and relist accept.
Allowed(new) == IF new = "AVAILABLE" THEN {"WITHDRAWN"} ELSE {"AVAILABLE"}

ChangeStatus(f, u, new) ==
  /\ requireOwned(u)
  /\ listing \in Allowed(new)
  /\ Start(f, [NoCall EXCEPT !.pc = "status", !.read = listing, !.new = new])
  /\ UNCHANGED <<petType, pet, listing, adoptedAt, shown, lost>>

markAdopted(f, u) == ChangeStatus(f, u, "ADOPTED")
withdraw(f, u) == ChangeStatus(f, u, "WITHDRAWN")
relist(f, u) == ChangeStatus(f, u, "AVAILABLE")

\* UPDATE by id; a listing that is gone is an error.
WriteStatus(f) ==
  LET me == call[f] IN
  /\ me.pc = "status"
  /\ IF listing \in Statuses
     THEN /\ listing' = me.new
          /\ adoptedAt' = (adoptedAt \/ me.new = "ADOPTED")
          /\ lost' = (lost \/ listing # me.read)
     ELSE UNCHANGED <<listing, adoptedAt, lost>>
  /\ call' = End(f)
  /\ UNCHANGED <<petType, pet, shown>>

\* Fields of the listing and of the pet in one transaction; n photos when they are sent.
update(f, u, n) ==
  /\ requireOwned(u) /\ validatePhotos(n)
  /\ Start(f, [NoCall EXCEPT !.pc = "edit", !.files = n])
  /\ UNCHANGED <<petType, pet, listing, adoptedAt, shown, lost>>

updatePet(f) ==
  /\ call[f].pc = "edit"
  /\ pet' = IF pet = NoPetRow THEN pet ELSE [pet EXCEPT !.photos = call[f].files]
  /\ call' = End(f)
  /\ UNCHANGED <<petType, listing, adoptedAt, shown, lost>>

\* requireOwned, then the pet's owner, then the row; the listing goes with it.
remove(f, u) ==
  /\ requireOwned(u)
  /\ Start(f, [NoCall EXCEPT !.pc = "delete", !.user = u])
  /\ UNCHANGED <<petType, pet, listing, adoptedAt, shown, lost>>

deletePet(f) ==
  /\ call[f].pc = "delete"
  /\ IF findOnePet(call[f].user)
     THEN /\ pet' = NoPetRow /\ listing' = "deleted" /\ adoptedAt' = FALSE /\ lost' = FALSE
     ELSE UNCHANGED <<pet, listing, adoptedAt, lost>>
  /\ call' = End(f)
  /\ UNCHANGED <<petType, shown>>

\* PUT and DELETE /users/:userId/pets/:petId, and /pets/:id: the owner of the
\* pet, listed or not.
updateUserPet(f, u, n) ==
  /\ findOnePet(u) /\ validatePhotos(n)
  /\ Start(f, [NoCall EXCEPT !.pc = "edit", !.files = n])
  /\ UNCHANGED <<petType, pet, listing, adoptedAt, shown, lost>>

deleteUserPet(f, u) ==
  /\ findOnePet(u)
  /\ Start(f, [NoCall EXCEPT !.pc = "delete", !.user = u])
  /\ UNCHANGED <<petType, pet, listing, adoptedAt, shown, lost>>

--------------------------------------------------------------------------------
(* Photos *)

\* UploadService.uploadImages: too many files, a wrong type or size, or a failure
\* of Cloudinary refuse them all.
uploadImages(n) == n <= MaxFiles

\* POST /adoptions/:id/photos
uploadPhotos(f, u, n) ==
  /\ requireOwned(u) /\ uploadImages(n)
  /\ Start(f, [NoCall EXCEPT !.pc = "uploaded", !.user = u, !.files = n])
  /\ UNCHANGED <<petType, pet, listing, adoptedAt, shown, lost>>

\* The listing is read again and the photos are counted; the push comes later.
addPhotos(f) ==
  /\ call[f].pc = "uploaded"
  /\ call' = IF requireOwned(call[f].user) /\ pet.photos + call[f].files <= MaxAdoptionPhotos
             THEN [call EXCEPT ![f].pc = "push"] ELSE End(f)
  /\ UNCHANGED <<petType, pet, listing, adoptedAt, shown, lost>>

PushPhotos(f) ==
  /\ call[f].pc = "push"
  /\ pet' = IF pet = NoPetRow THEN pet ELSE [pet EXCEPT !.photos = @ + call[f].files]
  /\ call' = End(f)
  /\ UNCHANGED <<petType, listing, adoptedAt, shown, lost>>

--------------------------------------------------------------------------------
(* Readers *)

findMine(u) == IF requireOwned(u) THEN {listing} ELSE {}

\* A listing that is not AVAILABLE exists for its owner only.
findOneForRequester(u) == listing = "AVAILABLE" \/ requireOwned(u)

\* Ids of AVAILABLE listings, then the rows of those ids, whatever their status.
findAvailable ==
  /\ ~shown /\ listing = "AVAILABLE"
  /\ shown' = TRUE
  /\ UNCHANGED <<petType, pet, listing, adoptedAt, call, lost>>

ShowRows ==
  /\ shown
  /\ shown' = FALSE
  /\ UNCHANGED <<petType, pet, listing, adoptedAt, call, lost>>

--------------------------------------------------------------------------------
(* Controllers: the user of the session *)

PetTypesController == \E t \in PetTypes : createPetType(t) \/ removePetType(t)

ListingEndpoints(f, u) ==
  \/ markAdopted(f, u) \/ withdraw(f, u) \/ relist(f, u) \/ remove(f, u)
  \/ \E n \in 0..MaxPetPhotos : update(f, u, n) \/ \E t \in findAllPetTypes : create(f, u, t, n)

PhotoEndpoint(f, u) == \E n \in 1..MaxFiles : uploadPhotos(f, u, n)

PetRoutes(f, u) ==
  \/ \E n \in 0..MaxPetPhotos :
       updateUserPet(f, u, n) \/ \E t \in findAllPetTypes : registerPet(f, u, t, n)
  \/ deleteUserPet(f, u)

\* GET /users/:userId/pets and GET /users/:userId/pets/:petId: the user's own only.
getUserPets(by, u) == by = u /\ findAllByUser(u)
getUserPet(by, u) == by = u /\ findOnePet(u)

\* The caller's listings, any listing by its id; the caller's pets, a pet of
\* the caller by its id, and any pet by its tag.
Seen(u) == [mine |-> findMine(u), one |-> findOneForRequester(u)]
SeenPets(u) == [all |-> findAllByUser(u), one |-> findOnePet(u), tag |-> pet # NoPetRow]

Next ==
  \/ PetTypesController
  \/ \E f \in Calls :
       \/ createPet(f) \/ WriteStatus(f) \/ updatePet(f) \/ deletePet(f) \/ addPhotos(f) \/ PushPhotos(f)
       \/ \E u \in Users : ListingEndpoints(f, u) \/ PhotoEndpoint(f, u) \/ PetRoutes(f, u)
  \/ findAvailable \/ ShowRows

Spec == Init /\ [][Next]_adoptionVars

--------------------------------------------------------------------------------
(* Properties *)

\* An adopted pet is off the board for good (adoption.service.ts:391 says that
\* adopted listings cannot be relisted) and only its owner can still read the
\* listing, unless a call that had read another status wrote over it:
\* markAdopted, withdraw and relist check what they read and update by id.  The
\* pet is not among its owner's own, and its tag is still known.
AdoptedStaysOffBoard ==
  adoptedAt /\ ~lost =>
    \A u \in Users : /\ Seen(u).mine \subseteq {"ADOPTED"}
                     /\ Seen(u).one => SeenPets(u).one /\ getUserPet(u, u)
                     /\ ~SeenPets(u).all /\ ~getUserPets(u, u) /\ SeenPets(u).tag

\* The photos are counted on a read and pushed later (adoption.service.ts:430):
\* the greater of the two limits is exceeded at most by what the other calls in
\* flight brought.
PhotosOvershootBounded ==
  pet.photos <= Limit + MaxFiles * (Cardinality(Calls) - 1)
================================================================================
