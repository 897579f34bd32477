--------------------------------- MODULE Zones ---------------------------------
(***************************************************************************)
(* AlertZoneService and AlertZoneCacheService: the alert zones of one user,*)
(* and the cache of all active zones, kept in Redis for five minutes and   *)
(* deleted after every change.  (Saved zones of a device cannot be made:   *)
(* the insert names a table that does not exist.)                          *)
(***************************************************************************)
EXTENDS Naturals, FiniteSets

CONSTANTS
  ZoneIds,      \* ids the table may hand out (bound)
  MaxZones,     \* MAX_ZONES_PER_USER
  Calls         \* calls in flight (bound)

VARIABLES
  zone,         \* rows: "none", "on" (is_active) or "off"
  cache,        \* {} or {S}, S the active zones as they were cached
  op,           \* calls in flight
  excused       \* history: the entry was stored by a read that a change overtook, or a change's
                \* own call stopped before it had deleted the entry

zoneVars == <<zone, cache, op, excused>>

Free == [pc |-> "free", seen |-> {}, late |-> FALSE]
Op == [pc : {"free", "insert", "reread", "del", "fetch", "set"},
       seen : SUBSET ZoneIds,   \* the zones a reader found; the zone written, for a reread
       late : BOOLEAN]

TypeOK ==
  /\ zone \in [ZoneIds -> {"none", "on", "off"}]
  /\ \A S \in cache : S \subseteq ZoneIds
  /\ Cardinality(cache) <= 1
  /\ op \in [Calls -> Op]
  /\ excused \in BOOLEAN

Init ==
  /\ zone = [z \in ZoneIds |-> "none"]
  /\ cache = {}
  /\ op = [f \in Calls |-> Free]
  /\ excused = FALSE

findByUser == {z \in ZoneIds : zone[z] # "none"}
findOne(z) == z \in findByUser

\* fetchActiveZonesFromDB
fetchActiveZonesFromDB == {z \in ZoneIds : zone[z] = "on"}

\* The call that changed a row goes on.  History: reads of the table it overtakes.
Overtake(f, next) ==
  [g \in Calls |-> IF g = f THEN next
                   ELSE IF op[g].pc = "set" THEN [op[g] EXCEPT !.late = TRUE] ELSE op[g]]

--------------------------------------------------------------------------------
(* AlertZoneService *)

\* What a call does after its write: it reads its row back, or deletes the entry.
Rereading(z) == [Free EXCEPT !.pc = "reread", !.seen = {z}]
Deleting == [Free EXCEPT !.pc = "del"]

\* Mutant: one zone more is let through.
Mut_create_atLimit(f) ==
  /\ op[f].pc = "free"
  /\ Cardinality(findByUser) <= MaxZones
  /\ op' = [op EXCEPT ![f].pc = "insert"]
  /\ UNCHANGED <<zone, cache, excused>>

\* The rows are counted; the insert comes later.
create(f) ==
  /\ op[f].pc = "free"
  /\ Cardinality(findByUser) < MaxZones
  /\ op' = [op EXCEPT ![f].pc = "insert"]
  /\ UNCHANGED <<zone, cache, excused>>

InsertZone(f, z) ==
  /\ op[f].pc = "insert"
  /\ zone[z] = "none"
  /\ \E a \in {"on", "off"} : zone' = [zone EXCEPT ![z] = a]
  /\ op' = Overtake(f, Rereading(z))
  /\ UNCHANGED <<cache, excused>>

update(f, z) ==
  /\ op[f].pc = "free"
  /\ findOne(z)
  /\ \E a \in {"on", "off"} : zone' = [zone EXCEPT ![z] = a]
  /\ op' = Overtake(f, Rereading(z))
  /\ UNCHANGED <<cache, excused>>

\* create and update read the row they wrote before they delete the entry; a row
\* deleted since ends the call there with a 404.
Reread(f) ==
  /\ op[f].pc = "reread"
  /\ \/ op[f].seen \subseteq findByUser /\ op' = [op EXCEPT ![f] = Deleting]
     \/ ~(op[f].seen \subseteq findByUser) /\ op' = [op EXCEPT ![f] = Free]
  /\ UNCHANGED <<zone, cache, excused>>

\* Mutant: the cache is left alone.
Mut_delete_noInvalidate(f, z) ==
  /\ op[f].pc = "free"
  /\ findOne(z)
  /\ zone' = [zone EXCEPT ![z] = "none"]
  /\ op' = Overtake(f, Free)
  /\ UNCHANGED <<cache, excused>>

delete(f, z) ==
  /\ op[f].pc = "free"
  /\ findOne(z)
  /\ zone' = [zone EXCEPT ![z] = "none"]
  /\ op' = Overtake(f, Deleting)
  /\ UNCHANGED <<cache, excused>>

\* A statement throws or the process stops.  After the write the entry is not
\* deleted any more; a reader stores nothing.
Stop(f) ==
  /\ op[f].pc \notin {"free", "del"}
  /\ op' = [op EXCEPT ![f] = Free]
  /\ excused' = (excused \/ op[f].pc = "reread")
  /\ UNCHANGED <<zone, cache>>

--------------------------------------------------------------------------------
(* AlertZoneCacheService *)

\* A failure of the cache is logged and the change goes on; so it is when the
\* process stops before the delete.
invalidateCache(f) ==
  /\ op[f].pc = "del"
  /\ \/ cache' = {} /\ excused' = FALSE
     \/ UNCHANGED cache /\ excused' = TRUE
  /\ op' = [op EXCEPT ![f] = Free]
  /\ UNCHANGED zone

\* A hit answers from the cache; a miss goes on to the table.
getActiveAlertZones(f) ==
  /\ op[f].pc = "free"
  /\ cache = {}
  /\ op' = [op EXCEPT ![f].pc = "fetch"]
  /\ UNCHANGED <<zone, cache, excused>>

FetchZones(f) ==
  /\ op[f].pc = "fetch"
  /\ op' = [op EXCEPT ![f] = [pc |-> "set", seen |-> fetchActiveZonesFromDB, late |-> FALSE]]
  /\ UNCHANGED <<zone, cache, excused>>

Populate(f) ==
  /\ op[f].pc = "set"
  /\ cache' = {op[f].seen}
  /\ excused' = op[f].late
  /\ op' = [op EXCEPT ![f] = Free]
  /\ UNCHANGED zone

\* The time to live of the entry ends.
Expire ==
  /\ cache # {}
  /\ cache' = {} /\ excused' = FALSE
  /\ UNCHANGED <<zone, op>>

\* When the server starts, and at the first search after the entry is gone.
warmCache(f) == getActiveAlertZones(f)

\* UserController, /users/me/alert-zones
AlertZoneEndpoints(f) == create(f) \/ \E z \in ZoneIds : update(f, z) \/ delete(f, z)

Next ==
  \/ \E f \in Calls :
       \/ AlertZoneEndpoints(f)
       \/ Reread(f) \/ Stop(f)
       \/ warmCache(f) \/ FetchZones(f) \/ Populate(f) \/ invalidateCache(f)
       \/ \E z \in ZoneIds : InsertZone(f, z)
  \/ Expire

Spec == Init /\ [][Next]_zoneVars

--------------------------------------------------------------------------------
(* Properties *)

\* The limit is checked on a count and the row inserted later
\* (alert-zone.service.ts:66): a user has at most as many zones too many as
\* requests were in flight with the last one.
ZonesOvershootBounded == Cardinality(findByUser) <= MaxZones + Cardinality(Calls) - 1

\* A cached list that is not the table's is about to be deleted by a call that
\* has changed a row which is still there or deleted one, was stored by a read that
\* a change overtook (alert-zone-cache.service.ts:71), or outlived a change whose
\* call failed or stopped between its write and the delete (alert-zone.service.ts:107
\* and :331, alert-zone-cache.service.ts:122).  No other change is forgotten, the
\* one whose row is deleted before it is read back included.
CacheExplained ==
  \A S \in cache :
    S # fetchActiveZonesFromDB =>
      \/ excused
      \/ \E f \in Calls : op[f].pc = "del"
      \/ \E f \in Calls : op[f].pc = "reread" /\ op[f].seen \subseteq findByUser
================================================================================
