--------------------------- MODULE MCNotificationFanout ---------------------------
(* Instances of NotificationFanout for TLC. *)
EXTENDS NotificationFanout, TLC

CONSTANTS owner, helper, d1, d2, d3

\* The owner of the pet has d1, the helper d2 and, where it exists, d3.
OwnerDef == [d \in Devices |-> IF d = d1 THEN owner ELSE helper]
CapDef == [v \in Waves |-> 10]
TightCapDef == [v \in Waves |-> 2]

\* Bounds of the story run.  The owner, who is never thanked, reports no sighting of the
\* own pet.  Where a sighting is reported, or the owner's device is matched or can be told of
\* one, workers take turns and nothing fails; rows count up to OwnersRows with that device.
OwnersRows == 5
NeighboursReport == \A p \in Reports : sightings[p].pc # "none" => sightings[p].by # Creator
Reported == \E p \in Reports : sightings[p].pc # "none"
Busy == {w \in Workers : ~At(w, "idle")}
OwnersDevice ==
  \/ token[d1] # "none"
  \/ \E w \in Workers : \E m \in work[w].matches \cup work[w].todo : m.device = d1
  \/ \E i \in DOMAIN rows : rows[i].device = d1
Apart ==
  /\ NeighboursReport
  /\ OwnersDevice \/ Reported => Cardinality(Busy) <= 1 /\ faults = 0
  /\ OwnersDevice => Len(rows) <= OwnersRows

Symmetry == Permutations(Workers)
================================================================================
