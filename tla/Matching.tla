-------------------------------- MODULE Matching --------------------------------
(***************************************************************************)
(* LocationService.findDevicesForAlert: one wave's search for devices.  Six*)
(* queries run one after the other on tables that change meanwhile, and    *)
(* time passes between them; the matches are then reduced to one per user. *)
(* Distances are classes around the alert's radius.                        *)
(***************************************************************************)
EXTENDS Naturals, Sequences, FiniteSets

CONSTANTS
  Devices, Users,
  Owner,            \* the user of each device
  FRESH, STALE,     \* ages (hours in the code) that bound the two GPS queries
  Base, Expanded,   \* alert radius, and with STALE_GPS_EXPANSION_KM
  Far,              \* greatest distance
  MaxTime           \* bound on the clock

VARIABLES
  now,
  row,          \* device: time of the fix (0: null), its distance, token, postal code in the area
  moving,       \* devices whose new time is written and whose new point is not
  zoned,        \* users with an active alert zone in range who are not banned
  alert,        \* "ACTIVE", "closed", or "nowhere" (active, a coordinate missing or 0)
  query,        \* the query that runs next
  found,        \* allMatches, in the order of the queries
  staleAt,      \* history: when the query for older fixes ran
  changed       \* history: devices whose row changed during the search

matchVars == <<now, row, moving, zoned, alert, query, found, staleAt, changed>>

Row == [at : 0..MaxTime, dist : 1..Far, token : BOOLEAN, postal : BOOLEAN]
Unknown == Far + 1      \* distance of a match by postal code

\* key: most queries return ids as numbers, the one on alert zones as strings;
\* a Map tells the two apart.
Match == [device : Devices, user : Users, key : {"number", "string"}, token : BOOLEAN,
          priority : 1..5, dist : 1..Unknown]

Steps == {"idle", "zones", "fresh", "stale", "postal", "ip", "done"}

TypeOK ==
  /\ now \in 1..MaxTime /\ staleAt \in 0..MaxTime
  /\ row \in [Devices -> Row]
  /\ moving \subseteq Devices /\ changed \subseteq Devices
  /\ zoned \subseteq Users
  /\ alert \in {"ACTIVE", "closed", "nowhere"}
  /\ query \in Steps
  /\ found \in Seq(Match)

Init ==
  /\ now = 1
  /\ row \in [Devices -> {r \in Row : r.at \in {0, 1} /\ (r.at = 0 => r.dist = Far)}]
  /\ moving = {} /\ changed = {}
  /\ zoned \in SUBSET Users
  /\ alert \in {"ACTIVE", "nowhere"}
  /\ query = "idle" /\ found = <<>> /\ staleAt = 0

--------------------------------------------------------------------------------
(* Queries *)

match(d, priority, dist, key) ==
  [device |-> d, user |-> Owner[d], key |-> key, token |-> row[d].token,
   priority |-> priority, dist |-> dist]

\* ORDER BY distance; matches at one distance come in any order.
ByDistance(seq) == \A i, j \in DOMAIN seq : i < j => seq[i].dist <= seq[j].dist
Nearest(S) ==
  {seq \in [1..Cardinality(S) -> S] : ByDistance(seq) /\ \A m \in S : \E i \in DOMAIN seq : seq[i] = m}

\* Rows of saved_zone: none can be made through the service.
findSavedZoneMatches == <<>>

\* The owner's zone, every device of his, with a token or without.
findAlertZoneMatches ==
  Nearest({match(d, 1, 1, "string") : d \in {x \in Devices : Owner[x] \in zoned}})

\* gps_updated_at >= now - FRESH
findFreshGpsMatches ==
  Nearest({match(d, 2, row[d].dist, "number") :
             d \in {x \in Devices : /\ row[x].at # 0 /\ row[x].token
                                    /\ row[x].at + FRESH >= now
                                    /\ row[x].dist <= Base}})

\* The rest of the fixes down to now - STALE, in a wider circle.
findStaleGpsMatches ==
  Nearest({match(d, 3, row[d].dist, "number") :
             d \in {x \in Devices : /\ row[x].at # 0 /\ row[x].token
                                    /\ row[x].at + FRESH < now /\ row[x].at + STALE >= now
                                    /\ row[x].dist <= Expanded}})

findPostalCodeMatches ==
  Nearest({match(d, 4, Unknown, "number") : d \in {x \in Devices : row[x].token /\ row[x].postal}})

\* ip_point: written nowhere.
findIpGeoMatches == <<>>

--------------------------------------------------------------------------------
(* deduplicateMatches *)

\* The Maps of the two passes, by device and then by user.
Key(by, m) == <<m.key, IF by = "device" THEN m.device ELSE m.user>>

\* Mutant: on a tie the nearer device wins, with a token or without.
Mut_Better_nearest(by, m, e) ==
  \/ m.priority < e.priority
  \/ by = "user" /\ m.priority = e.priority /\ m.dist < e.dist

\* The better source; on a tie the device of a user that can be reached, then the nearer one.
Better(by, m, e) ==
  \/ m.priority < e.priority
  \/ /\ by = "user" /\ m.priority = e.priority
     /\ \/ m.token /\ ~e.token
        \/ m.token = e.token /\ m.dist < e.dist

\* A match enters the Map, or replaces in place the one that it beats.
Enter(by, kept, m) ==
  IF \E i \in DOMAIN kept : Key(by, kept[i]) = Key(by, m)
  THEN [i \in DOMAIN kept |-> IF Key(by, kept[i]) = Key(by, m) /\ Better(by, m, kept[i])
                              THEN m ELSE kept[i]]
  ELSE Append(kept, m)

\* kept[n]: the Map after the first n matches.
Keep(by, seq) ==
  LET kept[n \in 0..Len(seq)] == IF n = 0 THEN <<>> ELSE Enter(by, kept[n - 1], seq[n])
  IN  kept[Len(seq)]

deduplicateMatches(matches) == Keep("user", Keep("device", matches))

--------------------------------------------------------------------------------
(* findDevicesForAlert *)

\* A missing alert, a closed one, or a coordinate that is null or 0 ends the search.
findDevicesForAlert ==
  /\ query = "idle"
  /\ query' = IF alert = "ACTIVE" THEN "zones" ELSE "done"
  /\ UNCHANGED <<now, row, moving, zoned, alert, found, staleAt, changed>>

\* One of the answers the query may give.
Ask(step, next, answers) ==
  /\ query = step
  /\ query' = next
  /\ \E rows \in answers : found' = found \o rows
  /\ UNCHANGED <<now, row, moving, zoned, alert, changed>>

AskZones == Ask("zones", "fresh", {findSavedZoneMatches \o rows : rows \in findAlertZoneMatches}) /\ UNCHANGED staleAt
AskFresh == Ask("fresh", "stale", findFreshGpsMatches) /\ UNCHANGED staleAt

\* Mutant: the two GPS queries in the other order.
Mut_AskGps_swapped ==
  \/ Ask("fresh", "stale", findStaleGpsMatches) /\ staleAt' = now
  \/ Ask("stale", "postal", findFreshGpsMatches) /\ UNCHANGED staleAt

AskGps == AskFresh \/ (Ask("stale", "postal", findStaleGpsMatches) /\ staleAt' = now)
AskPostal == Ask("postal", "ip", findPostalCodeMatches) /\ UNCHANGED staleAt
AskIp == Ask("ip", "done", {findIpGeoMatches}) /\ UNCHANGED staleAt

--------------------------------------------------------------------------------
(* The world meanwhile *)

\* A device changes in one way during a search (bound).
Touch(d) == query \notin {"idle", "done"} /\ changed' = changed \cup {d}

\* DeviceService.updateLocation: the time first, then the point.
WriteTime(d) ==
  /\ d \notin changed
  /\ row' = [row EXCEPT ![d].at = now]
  /\ moving' = moving \cup {d}
  /\ Touch(d)
  /\ UNCHANGED <<now, zoned, alert, query, found, staleAt>>

WritePoint(d) ==
  /\ d \in moving
  /\ \E x \in 1..Far : row' = [row EXCEPT ![d].dist = x]
  /\ moving' = moving \ {d}
  /\ Touch(d)
  /\ UNCHANGED <<now, zoned, alert, query, found, staleAt>>

ChangeToken(d) ==
  /\ d \notin changed
  /\ row' = [row EXCEPT ![d].token = ~@]
  /\ Touch(d)
  /\ UNCHANGED <<now, moving, zoned, alert, query, found, staleAt>>

CloseAlert ==
  /\ query = "idle" /\ alert # "closed"
  /\ alert' = "closed"
  /\ UNCHANGED <<now, row, moving, zoned, query, found, staleAt, changed>>

Tick ==
  /\ query \notin {"idle", "done"} /\ now < MaxTime
  /\ now' = now + 1
  /\ UNCHANGED <<row, moving, zoned, alert, query, found, staleAt, changed>>

Next ==
  \/ findDevicesForAlert \/ AskZones \/ AskGps \/ AskPostal \/ AskIp
  \/ \E d \in Devices : WriteTime(d) \/ WritePoint(d) \/ ChangeToken(d)
  \/ CloseAlert \/ Tick

Spec == Init /\ [][Next]_matchVars

--------------------------------------------------------------------------------
(* Properties *)

InFound(d) == \E i \in DOMAIN found : found[i].device = d

\* A reachable device inside the alert's radius whose row does not change
\* during the search is found, although its fix grows older from one query to
\* the next (location.service.ts:132): it falls into no gap between the tiers.
NobodyMissed ==
  query = "done" /\ staleAt # 0 =>
    \A d \in Devices \ changed :
      /\ row[d].token /\ row[d].at # 0
      /\ row[d].at + STALE >= staleAt /\ row[d].dist <= Base
      => InFound(d)

\* deduplicateMatches (location.service.ts:511) against its intent: for each
\* representation of a user's id exactly one match is kept, and no other match
\* under that id has a better source, can be reached when the kept one cannot,
\* or is nearer at the same source and reach.
BestMatchKept ==
  query = "done" =>
    LET kept == deduplicateMatches(found) IN
    /\ \A i, j \in DOMAIN kept : Key("user", kept[i]) = Key("user", kept[j]) => i = j
    /\ \A n \in DOMAIN found : \E i \in DOMAIN kept :
         LET k == kept[i]  m == found[n] IN
         /\ Key("user", k) = Key("user", m)
         /\ k.priority <= m.priority
         /\ k.priority = m.priority => /\ m.token => k.token
                                       /\ k.token = m.token => k.dist <= m.dist
================================================================================
