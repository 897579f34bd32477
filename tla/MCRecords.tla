------------------------------- MODULE MCRecords -------------------------------
(***************************************************************************)
(* Six services that keep records, each explored on its own in one run:    *)
(* part says which one moves.                                              *)
(***************************************************************************)
EXTENDS Naturals, Sequences, FiniteSets, TLC

CONSTANTS
  Users, Creator, Keepers, Nobody, Calls,
  Tokens, NoToken, MaxFix,
  ZoneIds, MaxZones,
  Devices, Holder, FRESH, STALE, Base, Expanded, Far, MaxTime,
  PetTypes, MaxPetPhotos, MaxAdoptionPhotos, MaxFiles,
  SightingIds, MaxSightingPhotos, Batch, MaxUploads, Uploaders,
  Photos

VARIABLES
  part,
  dev, devCall, push, fixes, expect, torn, stale,
  zone, cache, zoneCall, excused,
  now, row, moving, zoned, sought, query, found, staleAt, changed,
  petType, pet, listing, adoptedAt, adoptionCall, shown, lost,
  alert, sighting, sightingCall, uploads, mails, stored, overtaken,
  petPhotos, alertStatus, copy, phonePublic, contentCall, follows

D == INSTANCE Devices WITH Users <- Keepers, call <- devCall
Z == INSTANCE Zones WITH op <- zoneCall
M == INSTANCE Matching WITH
       Users <- {Holder[d] : d \in Devices}, Owner <- Holder, alert <- sought
O == INSTANCE Adoption WITH Users <- Keepers, call <- adoptionCall
S == INSTANCE Sightings WITH
       MaxPhotos <- MaxSightingPhotos, Calls <- Uploaders, call <- sightingCall
C == INSTANCE AlertContent WITH
       Owner <- Creator, pet <- petPhotos, alert <- alertStatus, call <- contentCall

\* The stand-ins for null are none of the values, calls in flight are finitely many, a limit
\* allows at least one photo, the clock shows at least 1, and the circle for older fixes is the
\* wider one.
ASSUME RecordsAssumption ==
  /\ Nobody \notin Users \cup Keepers /\ NoToken \notin Tokens
  /\ IsFiniteSet(Calls) /\ Calls # {} /\ IsFiniteSet(Uploaders) /\ Uploaders # {}
  /\ IsFiniteSet(ZoneIds) /\ IsFiniteSet(Devices) /\ Holder \in [Devices -> Users]
  /\ \A n \in {MaxFix, MaxZones, FRESH, STALE, Base, Expanded, Far, MaxTime, MaxPetPhotos,
               MaxAdoptionPhotos, MaxFiles, MaxUploads} : n \in Nat
  /\ MaxTime # 0 /\ Base <= Expanded
  /\ MaxSightingPhotos \in Nat \ {0} /\ Batch \in Nat \ {0}

deviceVars == <<dev, devCall, push, fixes, expect, torn, stale>>
zoneVars == <<zone, cache, zoneCall, excused>>
matchVars == <<now, row, moving, zoned, sought, query, found, staleAt, changed>>
adoptionVars == <<petType, pet, listing, adoptedAt, adoptionCall, shown, lost>>
sightingVars == <<alert, sighting, sightingCall, uploads, mails, stored, overtaken>>
contentVars == <<petPhotos, alertStatus, copy, phonePublic, contentCall, follows>>
vars == <<part, deviceVars, zoneVars, matchVars, adoptionVars, sightingVars, contentVars>>

\* The variables of a part that does not move.
DevicesOff ==
  /\ dev = 0 /\ devCall = 0 /\ push = 0 /\ fixes = 0 /\ expect = 0 /\ torn = 0 /\ stale = 0
ZonesOff ==
  /\ zone = 0 /\ cache = 0 /\ zoneCall = 0 /\ excused = 0
MatchingOff ==
  /\ now = 0 /\ row = 0 /\ moving = 0 /\ zoned = 0 /\ sought = 0 /\ query = 0 /\ found = 0
  /\ staleAt = 0 /\ changed = 0
AdoptionOff ==
  /\ petType = 0 /\ pet = 0 /\ listing = 0 /\ adoptedAt = 0 /\ adoptionCall = 0 /\ shown = 0
  /\ lost = 0
SightingsOff ==
  /\ alert = 0 /\ sighting = 0 /\ sightingCall = 0 /\ uploads = 0 /\ mails = 0 /\ stored = 0
  /\ overtaken = 0
ContentOff ==
  /\ petPhotos = 0 /\ alertStatus = 0 /\ copy = 0 /\ phonePublic = 0 /\ contentCall = 0
  /\ follows = 0

Init ==
  /\ part \in {"devices", "zones", "matching", "adoption", "sightings", "content"}
  /\ IF part = "devices" THEN D!Init ELSE DevicesOff
  /\ IF part = "zones" THEN Z!Init ELSE ZonesOff
  /\ IF part = "matching" THEN M!Init ELSE MatchingOff
  /\ IF part = "adoption" THEN O!Init ELSE AdoptionOff
  /\ IF part = "sightings" THEN S!Init ELSE SightingsOff
  /\ IF part = "content" THEN C!Init ELSE ContentOff

Next ==
  \/ /\ part = "devices" /\ D!Next
     /\ UNCHANGED <<part, zoneVars, matchVars, adoptionVars, sightingVars, contentVars>>
  \/ /\ part = "zones" /\ Z!Next
     /\ UNCHANGED <<part, deviceVars, matchVars, adoptionVars, sightingVars, contentVars>>
  \/ /\ part = "matching" /\ M!Next
     /\ UNCHANGED <<part, deviceVars, zoneVars, adoptionVars, sightingVars, contentVars>>
  \/ /\ part = "adoption" /\ O!Next
     /\ UNCHANGED <<part, deviceVars, zoneVars, matchVars, sightingVars, contentVars>>
  \/ /\ part = "sightings" /\ S!Next
     /\ UNCHANGED <<part, deviceVars, zoneVars, matchVars, adoptionVars, contentVars>>
  \/ /\ part = "content" /\ C!Next
     /\ UNCHANGED <<part, deviceVars, zoneVars, matchVars, adoptionVars, sightingVars>>

Spec == Init /\ [][Next]_vars

DeviceRowExplained == part = "devices" => D!DeviceRowExplained
CacheExplained == part = "zones" => Z!CacheExplained
NobodyMissed == part = "matching" => M!NobodyMissed
BestMatchKept == part = "matching" => M!BestMatchKept
AdoptedStaysOffBoard == part = "adoption" => O!AdoptedStaysOffBoard
SightingPhotosKept == part = "sightings" => S!SightingPhotosKept
AlertShowsPet == part = "content" => C!AlertShowsPet

\* A limit that is checked on a read and used by a later write is exceeded at
\* most by what the other calls in flight bring: zones of a user, photos of an
\* adoption, photos of a sighting.
LimitsOvershootBounded ==
  CASE part = "zones" -> Z!ZonesOvershootBounded
    [] part = "adoption" -> O!PhotosOvershootBounded
    [] part = "sightings" -> S!PhotosOvershootBounded
    [] OTHER -> TRUE

\* All devices are the creator's of some other alert.
HolderDef == [d \in Devices |-> Creator]

\* Names that no part tells apart.
Symmetry == Permutations(Tokens) \cup Permutations(Keepers) \cup Permutations(Devices)
            \cup Permutations(Calls)
================================================================================
