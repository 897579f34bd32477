----------------------------- MODULE RecordsProofs -----------------------------
(***************************************************************************)
(* What MCRecords promises, for every value of its constants.  Each part   *)
(* has an invariant of its own, shown for the part's steps and then        *)
(* carried to Spec, in which the other parts stand still.                  *)
(***************************************************************************)
EXTENDS MCRecords, FiniteSetTheorems, WellFoundedInduction, TLAPS

\* Each part moves by the steps of its own module only.
LEMMA Parts ==
  [Next]_vars =>
    /\ part' = part
    /\ part = "devices" => [D!Next]_deviceVars
    /\ part = "zones" => [Z!Next]_zoneVars
    /\ part = "matching" => [M!Next]_matchVars
    /\ part = "adoption" => [O!Next]_adoptionVars
    /\ part = "sightings" => [S!Next]_sightingVars
    /\ part = "content" => [C!Next]_contentVars
  BY DEF Next, vars, deviceVars, zoneVars, matchVars, adoptionVars, sightingVars, contentVars

LEMMA Counts ==
  \A X : Z!Cardinality(X) = Cardinality(X) /\ O!Cardinality(X) = Cardinality(X)
         /\ S!Cardinality(X) = Cardinality(X) /\ M!Cardinality(X) = Cardinality(X)
  BY DEF Z!Cardinality, O!Cardinality, S!Cardinality, M!Cardinality, Cardinality

\* Calls of some kind: one more, one less, and never more than all of them.
LEMMA OneMore ==
  ASSUME NEW X, IsFiniteSet(X), NEW R \in SUBSET X, NEW f \in X \ R
  PROVE  /\ Cardinality(R) \in Nat /\ Cardinality(X) \in Nat /\ Cardinality(R) + 1 <= Cardinality(X)
         /\ Cardinality(R \cup {f}) = Cardinality(R) + 1
  <1>1. IsFiniteSet(R) /\ IsFiniteSet(R \cup {f}) /\ R \cup {f} \subseteq X
    BY FS_Subset
  <1>2. Cardinality(R \cup {f}) = Cardinality(R) + 1
    BY <1>1, FS_AddElement
  <1>3. Cardinality(R \cup {f}) <= Cardinality(X)
    BY <1>1, FS_Subset
  <1> QED
    BY <1>1, <1>2, <1>3, FS_CardinalityType

LEMMA OneLess ==
  ASSUME NEW X, IsFiniteSet(X), NEW R \in SUBSET X, NEW f \in R
  PROVE  /\ Cardinality(R) \in Nat /\ Cardinality(X) \in Nat /\ Cardinality(R) <= Cardinality(X)
         /\ Cardinality(R \ {f}) \in Nat /\ Cardinality(R) = Cardinality(R \ {f}) + 1
  <1> DEFINE Q == R \ {f}
  <1>1. Q \in SUBSET X /\ f \in X \ Q /\ Q \cup {f} = R
    OBVIOUS
  <1> HIDE DEF Q
  <1>2. Cardinality(Q) \in Nat /\ Cardinality(X) \in Nat /\ Cardinality(Q) + 1 <= Cardinality(X)
        /\ Cardinality(Q \cup {f}) = Cardinality(Q) + 1
    BY <1>1, OneMore
  <1> QED
    BY <1>1, <1>2 DEF Q

\* Photos of n uploads of F.
LEMMA Product ==
  ASSUME NEW F \in Nat, NEW n \in Nat
  PROVE  F * n \in Nat /\ F * (n + 1) = F * n + F
  OBVIOUS

LEMMA Fewer ==
  ASSUME NEW F \in Nat, NEW n \in Nat, NEW m \in Nat, n <= m
  PROVE  F * n \in Nat /\ F * m \in Nat /\ F * n <= F * m
  <1>1. m - n \in Nat /\ F * (m - n) \in Nat
    OBVIOUS
  <1>2. F * m = F * n + F * (m - n)
    OBVIOUS
  <1> QED
    BY <1>1, <1>2

\* x photos, and uploads R on their way with size[f] <= F photos each: either all of them fit
\* under the bound, whatever their sizes, or all but one whose size is known.
Fit(x, R, size, F, bound) ==
  \/ x + F * Cardinality(R) <= bound
  \/ \E f \in R : x + size[f] + F * Cardinality(R \ {f}) <= bound

LEMMA FitLess ==
  ASSUME NEW X, IsFiniteSet(X), NEW R \in SUBSET X, NEW f \in R, NEW F \in Nat, NEW size \in [X -> Nat],
         size[f] <= F, NEW x \in Nat, NEW y \in Nat, y <= x + size[f], NEW bound \in Nat,
         Fit(x, R, size, F, bound)
  PROVE  Fit(y, R \ {f}, size, F, bound)
  <1> DEFINE Q == R \ {f}
  <1>1. Cardinality(Q) \in Nat /\ Cardinality(R) = Cardinality(Q) + 1
    BY OneLess
  <1>2. Q \in SUBSET X
    OBVIOUS
  <1>3. F * Cardinality(R) = F * Cardinality(Q) + F /\ F * Cardinality(Q) \in Nat
    BY <1>1, Product
  <1>4. size[f] \in Nat
    OBVIOUS
  <1>5. CASE x + F * Cardinality(R) <= bound
    <2>1. y + F * Cardinality(Q) <= bound
      BY <1>3, <1>4, <1>5
    <2> QED
      BY <2>1 DEF Fit
  <1>6. ASSUME NEW g \in R, x + size[g] + F * Cardinality(R \ {g}) <= bound
        PROVE  Fit(y, Q, size, F, bound)
    <2>1. CASE g = f
      <3>1. y + F * Cardinality(Q) <= bound
        BY <1>3, <1>4, <1>6, <2>1
      <3> QED
        BY <3>1 DEF Fit
    <2>2. CASE g # f
      <3> DEFINE T == Q \ {g}
      <3>1. g \in Q /\ f \in R \ {g} /\ (R \ {g}) \ {f} = T /\ R \ {g} \in SUBSET X
        BY <2>2
      <3>2. Cardinality(T) \in Nat /\ Cardinality(R \ {g}) = Cardinality(T) + 1
        <4>1. Cardinality((R \ {g}) \ {f}) \in Nat /\ Cardinality(R \ {g}) = Cardinality((R \ {g}) \ {f}) + 1
          <5> DEFINE U == R \ {g}
          <5>1. U \in SUBSET X /\ f \in U
            BY <3>1
          <5> HIDE DEF U
          <5>2. Cardinality(U \ {f}) \in Nat /\ Cardinality(U) = Cardinality(U \ {f}) + 1
            BY <5>1, OneLess
          <5> QED
            BY <5>2 DEF U
        <4> QED
          BY <3>1, <4>1
      <3>3. F * Cardinality(R \ {g}) = F * Cardinality(T) + F /\ F * Cardinality(T) \in Nat
        BY <3>2, Product
      <3>4. size[g] \in Nat
        OBVIOUS
      <3>5. y + size[g] + F * Cardinality(T) <= bound
        BY <1>4, <1>6, <3>3, <3>4
      <3> QED
        BY <3>1, <3>5 DEF Fit
    <2> QED
      BY <2>1, <2>2
  <1> QED
    BY <1>5, <1>6 DEF Fit

LEMMA FitMore ==
  ASSUME NEW X, IsFiniteSet(X), NEW R \in SUBSET X, NEW f \in X \ R, NEW F \in Nat, NEW size \in [X -> Nat],
         NEW x \in Nat, NEW limit \in Nat, x + size[f] <= limit,
         NEW bound \in Nat, limit + F * (Cardinality(X) - 1) <= bound
  PROVE  Fit(x, R \cup {f}, size, F, bound)
  <1>1. Cardinality(R) \in Nat /\ Cardinality(X) \in Nat /\ Cardinality(R) + 1 <= Cardinality(X)
    BY OneMore
  <1>2. Cardinality(R) <= Cardinality(X) - 1 /\ Cardinality(X) - 1 \in Nat
    BY <1>1
  <1>3. /\ F * Cardinality(R) \in Nat /\ F * (Cardinality(X) - 1) \in Nat
        /\ F * Cardinality(R) <= F * (Cardinality(X) - 1)
    BY <1>1, <1>2, Fewer
  <1>4. (R \cup {f}) \ {f} = R
    OBVIOUS
  <1>5. size[f] \in Nat
    OBVIOUS
  <1>7. x + size[f] + F * Cardinality(R) <= bound
    BY <1>3, <1>5
  <1>6. x + size[f] + F * Cardinality((R \cup {f}) \ {f}) <= bound
    BY <1>4, <1>7
  <1> QED
    BY <1>6 DEF Fit

LEMMA FitReset ==
  ASSUME NEW X, IsFiniteSet(X), NEW R \in SUBSET X, NEW f \in X \ R, NEW F \in Nat, NEW size,
         NEW x \in Nat, NEW limit \in Nat, x <= limit,
         NEW bound \in Nat, limit + F * (Cardinality(X) - 1) <= bound
  PROVE  Fit(x, R, size, F, bound)
  <1>1. Cardinality(R) \in Nat /\ Cardinality(X) \in Nat /\ Cardinality(R) + 1 <= Cardinality(X)
    BY OneMore
  <1>2. Cardinality(R) <= Cardinality(X) - 1 /\ Cardinality(X) - 1 \in Nat
    BY <1>1
  <1>3. /\ F * Cardinality(R) \in Nat /\ F * (Cardinality(X) - 1) \in Nat
        /\ F * Cardinality(R) <= F * (Cardinality(X) - 1)
    BY <1>1, <1>2, Fewer
  <1>4. x + F * Cardinality(R) <= bound
    BY <1>3
  <1> QED
    BY <1>4 DEF Fit

LEMMA FitKept ==
  ASSUME NEW X, NEW R \in SUBSET X, NEW F, NEW size, NEW old, NEW x, NEW bound,
         \A f \in R : size[f] = old[f],
         Fit(x, R, old, F, bound)
  PROVE  Fit(x, R, size, F, bound)
  BY DEF Fit

\* There is room for every upload on its way.
LEMMA FitRoom ==
  ASSUME NEW X, IsFiniteSet(X), NEW R \in SUBSET X, NEW F \in Nat, NEW size \in [X -> Nat],
         \A f \in R : size[f] <= F, NEW x \in Nat, NEW bound \in Nat, Fit(x, R, size, F, bound)
  PROVE  \A f \in R : x + size[f] <= bound
  <1> SUFFICES ASSUME NEW f \in R PROVE x + size[f] <= bound
    OBVIOUS
  <1>1. \A T \in SUBSET X : Cardinality(T) \in Nat /\ F * Cardinality(T) \in Nat
    BY FS_Subset, FS_CardinalityType, Product
  <1>2. \A g \in R : /\ R \ {g} \in SUBSET X /\ Cardinality(R \ {g}) \in Nat /\ F * Cardinality(R \ {g}) \in Nat
                     /\ size[g] \in Nat
    <2>1. \A g \in R : R \ {g} \in SUBSET X
      OBVIOUS
    <2> QED
      BY <1>1, <2>1
  \* Those of a set with f in it bring at least F.
  <1>3. ASSUME NEW T \in SUBSET X, f \in T PROVE F * Cardinality(T) \in Nat /\ size[f] <= F * Cardinality(T)
    <2>1. Cardinality(T \ {f}) \in Nat /\ Cardinality(T) = Cardinality(T \ {f}) + 1
      BY <1>3, OneLess
    <2>2. F * Cardinality(T) = F * Cardinality(T \ {f}) + F /\ F * Cardinality(T \ {f}) \in Nat
      BY <2>1, Product
    <2>3. size[f] \in Nat /\ size[f] <= F
      OBVIOUS
    <2> QED
      BY <2>2, <2>3
  <1>4. CASE x + F * Cardinality(R) <= bound
    <2>1. size[f] \in Nat /\ F * Cardinality(R) \in Nat /\ size[f] <= F * Cardinality(R)
      BY <1>2, <1>3
    <2> QED
      BY <1>4, <2>1
  <1>5. ASSUME NEW g \in R, x + size[g] + F * Cardinality(R \ {g}) <= bound
        PROVE  x + size[f] <= bound
    <2>1. CASE g = f
      BY <1>2, <1>5, <2>1
    <2>2. CASE g # f
      <3>1. f \in R \ {g} /\ R \ {g} \in SUBSET X
        BY <2>2
      <3>2. F * Cardinality(R \ {g}) \in Nat /\ size[f] <= F * Cardinality(R \ {g})
        BY <1>3, <3>1
      <3>3. size[f] \in Nat /\ size[g] \in Nat
        OBVIOUS
      <3> QED
        BY <1>5, <3>2, <3>3
    <2> QED
      BY <2>1, <2>2
  <1> QED
    BY <1>4, <1>5 DEF Fit

LEMMA FitRaise ==
  ASSUME NEW X, IsFiniteSet(X), NEW R \in SUBSET X, NEW F \in Nat, NEW size \in [X -> Nat],
         NEW x \in Nat, NEW bound \in Nat, NEW more \in Nat, bound <= more, Fit(x, R, size, F, bound)
  PROVE  Fit(x, R, size, F, more)
  <1>1. \A T \in SUBSET X : F * Cardinality(T) \in Nat
    BY FS_Subset, FS_CardinalityType, Product
  <1>2. F * Cardinality(R) \in Nat /\ \A f \in R : F * Cardinality(R \ {f}) \in Nat /\ size[f] \in Nat
    <2>1. \A f \in R : R \ {f} \in SUBSET X
      OBVIOUS
    <2> QED
      BY <1>1, <2>1
  <1>3. CASE x + F * Cardinality(R) <= bound
    <2>1. x + F * Cardinality(R) <= more
      BY <1>2, <1>3
    <2> QED
      BY <2>1 DEF Fit
  <1>4. ASSUME NEW f \in R, x + size[f] + F * Cardinality(R \ {f}) <= bound
        PROVE  Fit(x, R, size, F, more)
    <2>1. x + size[f] + F * Cardinality(R \ {f}) <= more
      BY <1>2, <1>4
    <2> QED
      BY <2>1 DEF Fit
  <1> QED
    BY <1>3, <1>4 DEF Fit

LEMMA FitBound ==
  ASSUME NEW X, IsFiniteSet(X), NEW R \in SUBSET X, NEW F \in Nat, NEW size \in [X -> Nat],
         NEW x \in Nat, NEW bound \in Nat, Fit(x, R, size, F, bound)
  PROVE  x <= bound
  <1>1. \A T \in SUBSET X : F * Cardinality(T) \in Nat
    BY FS_Subset, FS_CardinalityType, Product
  <1>2. F * Cardinality(R) \in Nat /\ \A f \in R : F * Cardinality(R \ {f}) \in Nat /\ size[f] \in Nat
    <2>1. \A f \in R : R \ {f} \in SUBSET X
      OBVIOUS
    <2> QED
      BY <1>1, <2>1
  <1>3. CASE x + F * Cardinality(R) <= bound
    BY <1>2, <1>3
  <1>4. ASSUME NEW f \in R, x + size[f] + F * Cardinality(R \ {f}) <= bound PROVE x <= bound
    BY <1>2, <1>4
  <1> QED
    BY <1>3, <1>4 DEF Fit

--------------------------------------------------------------------------------
(* Zones *)

Inserting == {f \in Calls : zoneCall[f].pc = "insert"}

\* Zones there are and zones on their way.
ZonesInv ==
  /\ zone \in [ZoneIds -> {"none", "on", "off"}]
  /\ zoneCall \in [Calls -> Z!Op]
  /\ excused \in BOOLEAN
  /\ Cardinality(Z!findByUser) + Cardinality(Inserting) <= MaxZones + Cardinality(Calls) - 1
  \* What a call has read and nobody has changed is still the table's.
  /\ \A f \in Calls : zoneCall[f].pc = "set" /\ ~zoneCall[f].late
                        => zoneCall[f].seen = Z!fetchActiveZonesFromDB
  /\ Z!CacheExplained

LEMMA ZonesInit == Z!Init => ZonesInv
  <1> SUFFICES ASSUME Z!Init PROVE ZonesInv
    OBVIOUS
  <1>1. zone \in [ZoneIds -> {"none", "on", "off"}] /\ zoneCall \in [Calls -> Z!Op] /\ excused \in BOOLEAN
    BY DEF Z!Init, Z!Free, Z!Op
  <1>2. Z!findByUser = {} /\ Inserting = {}
    BY DEF Z!Init, Z!findByUser, Inserting, Z!Free
  <1>3. Cardinality({}) = 0 /\ Cardinality(Calls) \in Nat /\ Cardinality(Calls) > 0
    <2>1. IsFiniteSet(Calls) /\ Calls # {}
      BY RecordsAssumption
    <2> QED
      BY <2>1, FS_EmptySet, FS_CardinalityType
  <1>4. MaxZones \in Nat
    BY RecordsAssumption
  <1>5. Cardinality(Z!findByUser) + Cardinality(Inserting) <= MaxZones + Cardinality(Calls) - 1
    BY <1>2, <1>3, <1>4
  <1>6. \A f \in Calls : zoneCall[f].pc # "set"
    BY DEF Z!Init, Z!Free
  <1>7. Z!CacheExplained
    BY DEF Z!Init, Z!CacheExplained
  <1> QED
    BY <1>1, <1>5, <1>6, <1>7 DEF ZonesInv

\* A step of a call that owes no delete, which leaves rows and list alone, leaves the list explained.
LEMMA Pends ==
  ASSUME ZonesInv, NEW f \in Calls, zone' = zone, cache' = cache, excused => excused',
         \A g \in Calls : g # f => zoneCall'[g] = zoneCall[g],
         \/ zoneCall[f].pc \notin {"del", "reread"}
         \/ zoneCall[f].pc = "reread" /\ ~(zoneCall[f].seen \subseteq Z!findByUser)
         \/ zoneCall'[f].pc = "del"
         \/ excused'
  PROVE  Z!CacheExplained'
  <1> USE DEF Z!CacheExplained, Z!fetchActiveZonesFromDB, Z!findByUser
  <1> SUFFICES ASSUME NEW L \in cache, L # {z \in ZoneIds : zone[z] = "on"}, ~excused'
               PROVE  \/ \E g \in Calls : zoneCall'[g].pc = "del"
                      \/ \E g \in Calls : zoneCall'[g].pc = "reread"
                                          /\ zoneCall'[g].seen \subseteq {z \in ZoneIds : zone[z] # "none"}
    OBVIOUS
  <1>1. \/ \E g \in Calls : zoneCall[g].pc = "del"
        \/ \E g \in Calls : zoneCall[g].pc = "reread"
                            /\ zoneCall[g].seen \subseteq {z \in ZoneIds : zone[z] # "none"}
    BY DEF ZonesInv
  <1> QED
    BY <1>1

LEMMA ZonesNext == ZonesInv /\ [Z!Next]_zoneVars => ZonesInv'
  <1> SUFFICES ASSUME ZonesInv, [Z!Next]_zoneVars PROVE ZonesInv'
    OBVIOUS
  <1> DEFINE n == Cardinality(Z!findByUser)
             p == Cardinality(Inserting)
             c == Cardinality(Calls)
  <1>0. /\ IsFiniteSet(Calls) /\ IsFiniteSet(ZoneIds) /\ MaxZones \in Nat
        /\ Inserting \in SUBSET Calls /\ Z!findByUser \in SUBSET ZoneIds
    BY RecordsAssumption DEF Inserting, Z!findByUser
  <1>1. n \in Nat /\ p \in Nat /\ c \in Nat
    BY <1>0, FS_Subset, FS_CardinalityType
  <1>2. CASE UNCHANGED zoneVars
    BY <1>2
    DEF ZonesInv, zoneVars, Inserting, Z!findByUser, Z!fetchActiveZonesFromDB, Z!CacheExplained
  <1>3. ASSUME NEW f \in Calls, Z!create(f)
        PROVE  ZonesInv'
    <2>1. zoneCall' \in [Calls -> Z!Op] /\ zoneCall[f].pc = "free"
          /\ Z!findByUser' = Z!findByUser /\ n < MaxZones
      BY <1>3, Counts DEF ZonesInv, Z!create, Z!Op, Z!findByUser
    <2>2. f \in Calls \ Inserting /\ Inserting' = Inserting \cup {f}
      BY <1>3 DEF ZonesInv, Z!create, Z!Op, Inserting
    <2>3. p + 1 <= c /\ Cardinality(Inserting') = p + 1
      BY <1>0, <2>2, OneMore
    <2>4. Cardinality(Z!findByUser') + Cardinality(Inserting') <= MaxZones + c - 1
      BY <1>0, <1>1, <2>1, <2>3
    <2>5. /\ Z!fetchActiveZonesFromDB' = Z!fetchActiveZonesFromDB /\ cache' = cache /\ excused' = excused
          /\ zone' = zone
          /\ \A g \in Calls : g # f => zoneCall'[g] = zoneCall[g]
          /\ zoneCall'[f].pc = "insert" /\ zoneCall[f].pc = "free"
      BY <1>3 DEF ZonesInv, Z!create, Z!Op, Z!fetchActiveZonesFromDB
    <2>7. Z!CacheExplained'
      BY <2>1, <2>5, Pends DEF ZonesInv
    <2>8. \A g \in Calls : zoneCall'[g].pc = "set" /\ ~zoneCall'[g].late
                            => zoneCall'[g].seen = Z!fetchActiveZonesFromDB'
      BY <2>5 DEF ZonesInv
    <2> QED
      BY <2>1, <2>4, <2>5, <2>7, <2>8 DEF ZonesInv
  \* What every change of the table does to the calls in flight.
  <1>4. ASSUME NEW f \in Calls, zoneCall[f].pc \in {"free", "insert"},
               NEW next \in Z!Op, next.pc \in {"reread", "del"}, zoneCall' = Z!Overtake(f, next)
        PROVE  /\ zoneCall' \in [Calls -> Z!Op]
               /\ zoneCall'[f] = next
               /\ \A g \in Calls : zoneCall'[g].pc = "set" => zoneCall'[g].late
               /\ Inserting' = Inserting \ {f}
    <2>1. zoneCall' \in [Calls -> Z!Op]
      <3>2. ASSUME NEW g \in Calls PROVE [zoneCall[g] EXCEPT !.late = TRUE] \in Z!Op
        BY DEF ZonesInv, Z!Op
      <3> QED
        BY <1>4, <3>2 DEF ZonesInv, Z!Overtake
    <2>2. zoneCall'[f] = next
      BY <1>4 DEF Z!Overtake
    <2>3. ASSUME NEW g \in Calls, g # f
          PROVE  zoneCall'[g].pc = zoneCall[g].pc /\ (zoneCall'[g].pc = "set" => zoneCall'[g].late)
      <3>1. zoneCall'[g] = IF zoneCall[g].pc = "set" THEN [zoneCall[g] EXCEPT !.late = TRUE] ELSE zoneCall[g]
        BY <1>4, <2>3 DEF Z!Overtake
      <3>2. zoneCall[g] \in Z!Op
        BY DEF ZonesInv
      <3> QED
        BY <3>1, <3>2 DEF Z!Op
    <2> QED
      BY <1>4, <2>1, <2>2, <2>3 DEF Inserting
  \* What a call goes on with after its write.
  <1>n. /\ Z!Deleting \in Z!Op /\ Z!Deleting.pc = "del"
        /\ \A z \in ZoneIds : /\ Z!Rereading(z) \in Z!Op
                              /\ Z!Rereading(z).pc = "reread" /\ Z!Rereading(z).seen = {z}
    BY DEF Z!Deleting, Z!Rereading, Z!Op, Z!Free
  <1>5. ASSUME NEW f \in Calls, NEW z \in ZoneIds, Z!InsertZone(f, z)
        PROVE  ZonesInv'
    <2>1. /\ zoneCall[f].pc = "insert" /\ f \in Inserting /\ zoneCall' = Z!Overtake(f, Z!Rereading(z))
          /\ cache' = cache /\ excused' = excused
          /\ zone' \in [ZoneIds -> {"none", "on", "off"}]
          /\ z \in ZoneIds \ Z!findByUser
          /\ Z!findByUser' = Z!findByUser \cup {z}
      BY <1>5 DEF Z!InsertZone, ZonesInv, Inserting, Z!findByUser
    <2>2. Cardinality(Z!findByUser') = n + 1
      BY <1>0, <2>1, OneMore
    <2>5. /\ Inserting' = Inserting \ {f} /\ zoneCall' \in [Calls -> Z!Op]
          /\ zoneCall'[f] = Z!Rereading(z)
          /\ \A g \in Calls : zoneCall'[g].pc = "set" => zoneCall'[g].late
      BY <1>4, <1>n, <2>1
    <2>6. Cardinality(Inserting \ {f}) \in Nat /\ p = Cardinality(Inserting \ {f}) + 1
      BY <1>0, <2>1, OneLess
    <2>3. Cardinality(Inserting') \in Nat /\ p = Cardinality(Inserting') + 1
      BY <2>5, <2>6
    <2>4. Cardinality(Z!findByUser') + Cardinality(Inserting') <= MaxZones + c - 1
      BY <1>0, <1>1, <2>2, <2>3 DEF ZonesInv
    <2>7. Z!CacheExplained'
      BY <1>n, <2>1, <2>5 DEF Z!CacheExplained
    <2> QED
      BY <2>1, <2>4, <2>5, <2>7 DEF ZonesInv
  <1>6. ASSUME NEW f \in Calls, NEW z \in ZoneIds, Z!update(f, z) \/ Z!delete(f, z)
        PROVE  ZonesInv'
    <2>1. /\ zoneCall[f].pc = "free" /\ f \notin Inserting
          /\ cache' = cache /\ excused' = excused
          /\ zone' \in [ZoneIds -> {"none", "on", "off"}]
          /\ Z!findByUser' \in SUBSET Z!findByUser
          /\ \/ zoneCall' = Z!Overtake(f, Z!Deleting)
             \/ zoneCall' = Z!Overtake(f, Z!Rereading(z)) /\ z \in Z!findByUser'
      BY <1>6 DEF Z!update, Z!delete, ZonesInv, Inserting, Z!findByUser, Z!findOne
    <2>2. /\ Inserting' = Inserting /\ zoneCall' \in [Calls -> Z!Op]
          /\ \A g \in Calls : zoneCall'[g].pc = "set" => zoneCall'[g].late
          /\ \/ zoneCall'[f].pc = "del"
             \/ zoneCall'[f] = Z!Rereading(z) /\ z \in Z!findByUser'
      <3>1. CASE zoneCall' = Z!Overtake(f, Z!Deleting)
        <4>1. /\ zoneCall' \in [Calls -> Z!Op] /\ zoneCall'[f] = Z!Deleting /\ Inserting' = Inserting \ {f}
              /\ \A g \in Calls : zoneCall'[g].pc = "set" => zoneCall'[g].late
          BY <1>4, <1>n, <2>1, <3>1
        <4> QED
          BY <1>n, <2>1, <4>1
      <3>2. CASE zoneCall' = Z!Overtake(f, Z!Rereading(z)) /\ z \in Z!findByUser'
        <4>1. /\ zoneCall' \in [Calls -> Z!Op] /\ zoneCall'[f] = Z!Rereading(z) /\ Inserting' = Inserting \ {f}
              /\ \A g \in Calls : zoneCall'[g].pc = "set" => zoneCall'[g].late
          BY <1>4, <1>n, <2>1, <3>2
        <4> QED
          BY <2>1, <3>2, <4>1
      <3> QED
        BY <2>1, <3>1, <3>2
    <2>3. Cardinality(Z!findByUser') \in Nat /\ Cardinality(Z!findByUser') <= n
      BY <1>0, <2>1, FS_Subset, FS_CardinalityType
    <2>4. Cardinality(Z!findByUser') + Cardinality(Inserting') <= MaxZones + c - 1
      BY <1>0, <1>1, <2>2, <2>3 DEF ZonesInv
    <2>5. Z!CacheExplained'
      BY <1>n, <2>2 DEF Z!CacheExplained
    <2> QED
      BY <2>1, <2>2, <2>4, <2>5 DEF ZonesInv
  \* Steps that leave the table and the inserts alone.
  <1>7. ASSUME zone' = zone, zoneCall' \in [Calls -> Z!Op], excused' \in BOOLEAN, Inserting' \in SUBSET Inserting,
               \A f \in Calls : zoneCall'[f].pc = "set" /\ ~zoneCall'[f].late
                                  => zoneCall'[f].seen = Z!fetchActiveZonesFromDB,
               Z!CacheExplained'
        PROVE  ZonesInv'
    <2>1. Cardinality(Inserting') \in Nat /\ Cardinality(Inserting') <= p
      BY <1>0, <1>7, FS_Subset, FS_CardinalityType
    <2>2. Z!findByUser' = Z!findByUser /\ Z!fetchActiveZonesFromDB' = Z!fetchActiveZonesFromDB
      BY <1>7 DEF Z!findByUser, Z!fetchActiveZonesFromDB
    <2>4. Cardinality(Z!findByUser') = n /\ n + p <= MaxZones + c - 1
      BY <2>2 DEF ZonesInv
    <2>3. Cardinality(Z!findByUser') + Cardinality(Inserting') <= MaxZones + c - 1
      BY <1>0, <1>1, <2>1, <2>4
    <2> QED
      BY <1>7, <2>2, <2>3 DEF ZonesInv
  <1>8. ASSUME NEW f \in Calls, Z!invalidateCache(f)
        PROVE  ZonesInv'
    <2>1. /\ zone' = zone /\ zoneCall' \in [Calls -> Z!Op] /\ excused' \in BOOLEAN /\ Inserting' = Inserting
          /\ \A g \in Calls : g # f => zoneCall'[g] = zoneCall[g]
          /\ zoneCall'[f].pc = "free"
      BY <1>8 DEF Z!invalidateCache, ZonesInv, Z!Op, Z!Free, Inserting
    <2>2. Z!CacheExplained'
      BY <1>8 DEF Z!invalidateCache, Z!CacheExplained
    <2> QED
      BY <1>7, <2>1, <2>2 DEF ZonesInv
  <1>9. ASSUME NEW f \in Calls, Z!getActiveAlertZones(f) \/ Z!FetchZones(f)
        PROVE  ZonesInv'
    <2> Z!fetchActiveZonesFromDB \in SUBSET ZoneIds
      BY DEF Z!fetchActiveZonesFromDB
    <2> DEFINE e == IF zoneCall[f].pc = "free" THEN [zoneCall[f] EXCEPT !.pc = "fetch"]
                    ELSE [pc |-> "set", seen |-> Z!fetchActiveZonesFromDB, late |-> FALSE]
    <2>3. /\ zone' = zone /\ cache' = cache /\ excused' = excused
          /\ zoneCall[f].pc \in {"free", "fetch"}
          /\ zoneCall \in [Calls -> Z!Op]
          /\ zoneCall' = [zoneCall EXCEPT ![f] = e]
      BY <1>9 DEF Z!getActiveAlertZones, Z!FetchZones, ZonesInv, Z!Op
    <2>4. zoneCall[f] \in Z!Op
      BY <2>3
    <2>5. e \in Z!Op /\ e.pc \in {"fetch", "set"} /\ (e.pc = "set" => e.seen = Z!fetchActiveZonesFromDB)
      BY <2>3, <2>4 DEF Z!Op
    <2> HIDE DEF e
    <2>1. /\ zone' = zone /\ cache' = cache /\ excused' = excused /\ Inserting' = Inserting
          /\ zoneCall[f].pc \notin {"del", "reread"}
          /\ zoneCall' \in [Calls -> Z!Op]
          /\ \A g \in Calls : g # f => zoneCall'[g] = zoneCall[g]
          /\ zoneCall'[f].pc = "set" => zoneCall'[f].seen = Z!fetchActiveZonesFromDB
      BY <2>3, <2>5 DEF Inserting
    <2>2. Z!CacheExplained'
      BY <2>1, Pends
    <2> QED
      BY <1>7, <2>1, <2>2 DEF ZonesInv
  <1>10. ASSUME NEW f \in Calls, Z!Populate(f)
         PROVE  ZonesInv'
    <2>1. /\ zone' = zone /\ zoneCall' \in [Calls -> Z!Op] /\ excused' \in BOOLEAN /\ Inserting' = Inserting
          /\ \A g \in Calls : g # f => zoneCall'[g] = zoneCall[g]
          /\ zoneCall'[f].pc = "free"
      BY <1>10 DEF Z!Populate, ZonesInv, Z!Op, Z!Free, Inserting
    <2>2. Z!CacheExplained'
      BY <1>10 DEF Z!Populate, Z!CacheExplained, ZonesInv, Z!fetchActiveZonesFromDB
    <2> QED
      BY <1>7, <2>1, <2>2 DEF ZonesInv
  <1>11. ASSUME Z!Expire
         PROVE  ZonesInv'
    <2>1. zone' = zone /\ zoneCall' = zoneCall /\ excused' = FALSE /\ cache' = {} /\ Inserting' = Inserting
      BY <1>11 DEF Z!Expire, Inserting
    <2> QED
      BY <1>7, <2>1 DEF ZonesInv, Z!CacheExplained
  <1>12. ASSUME NEW f \in Calls, Z!Reread(f)
         PROVE  ZonesInv'
    <2>1. /\ zone' = zone /\ cache' = cache /\ excused' = excused /\ zoneCall[f].pc = "reread"
          /\ \A g \in Calls : g # f => zoneCall'[g] = zoneCall[g]
          /\ zoneCall' \in [Calls -> Z!Op] /\ zoneCall'[f].pc # "set" /\ Inserting' = Inserting
          /\ zoneCall'[f].pc = "del" \/ ~(zoneCall[f].seen \subseteq Z!findByUser)
      <3>1. PICK e \in {Z!Deleting, Z!Free} : zoneCall' = [zoneCall EXCEPT ![f] = e]
                 /\ (e = Z!Deleting \/ ~(zoneCall[f].seen \subseteq Z!findByUser))
        BY <1>12 DEF Z!Reread
      <3>2. e \in Z!Op /\ e.pc \in {"del", "free"} /\ (e = Z!Deleting => e.pc = "del")
        <4>1. Z!Free \in Z!Op /\ Z!Free.pc = "free"
          BY DEF Z!Free, Z!Op
        <4> QED
          BY <1>n, <3>1, <4>1
      <3>3. /\ zoneCall \in [Calls -> Z!Op] /\ zoneCall[f].pc = "reread"
            /\ zone' = zone /\ cache' = cache /\ excused' = excused
        BY <1>12 DEF Z!Reread, ZonesInv
      <3> QED
        BY <3>1, <3>2, <3>3 DEF Inserting
    <2>2. Z!CacheExplained'
      BY <2>1, Pends
    <2> QED
      BY <1>7, <2>1, <2>2 DEF ZonesInv
  <1>13. ASSUME NEW f \in Calls, Z!Stop(f)
         PROVE  ZonesInv'
    <2>1. /\ zone' = zone /\ cache' = cache /\ zoneCall[f].pc # "del"
          /\ excused' \in BOOLEAN /\ (excused => excused') /\ (zoneCall[f].pc = "reread" => excused')
          /\ \A g \in Calls : g # f => zoneCall'[g] = zoneCall[g]
          /\ zoneCall' \in [Calls -> Z!Op] /\ zoneCall'[f].pc = "free"
          /\ Inserting' \in SUBSET Inserting
      BY <1>13 DEF Z!Stop, ZonesInv, Z!Op, Z!Free, Inserting
    <2>2. Z!CacheExplained'
      BY <2>1, Pends
    <2> QED
      BY <1>7, <2>1, <2>2 DEF ZonesInv
  <1> QED
    BY <1>2, <1>3, <1>5, <1>6, <1>8, <1>9, <1>10, <1>11, <1>12, <1>13
    DEF Z!Next, Z!AlertZoneEndpoints, Z!warmCache

\* The zones a user can have are bounded, and a cached list that is not the table's has a
\* reason: alert-zone.service.ts and alert-zone-cache.service.ts.
THEOREM CacheSafe == Spec => []CacheExplained
  <1> DEFINE Inv == part = "zones" => ZonesInv
  <1>1. Init => Inv
    BY ZonesInit DEF Init
  <1>2. Inv /\ [Next]_vars => Inv'
    BY Parts, ZonesNext
  <1>3. Inv => CacheExplained
    BY DEF ZonesInv, CacheExplained
  <1> QED
    BY <1>1, <1>2, <1>3, PTL DEF Spec
--------------------------------------------------------------------------------
(* Devices *)

\* The row's coordinates and their time are of fix n.
Whole(n) == dev.lat = n /\ dev.time = n

\* What a call knows: nothing, unless it runs alone.
CallOK(f) ==
  LET me == devCall[f] IN
  /\ me.pc = "insert" => me.user # Nobody
  /\ me.pc \in {"register", "locate", "point"} => dev.owner # Nobody
  /\ me.pc = "locate" => me.token = NoToken
  /\ me.pc # "free" /\ me.alone => \A g \in Calls : g # f => devCall[g].pc = "free"
  /\ me.pc \in {"register", "locate"} /\ me.alone =>
       me.read.lat = dev.lat /\ me.read.time = dev.time
  /\ me.pc = "point" /\ me.alone => Whole(me.fix) /\ expect.fix = me.fix

\* What the row says whatever calls are in flight.
RowOK ==
  /\ dev.owner = Nobody => dev = D!NoDevice /\ expect = [fix |-> 0, token |-> NoToken]
  /\ ~stale => dev.token = expect.token
  /\ ~torn => Whole(expect.fix) /\ dev.point = expect.fix

DevicesInv == D!TypeOK /\ RowOK /\ \A f \in Calls : CallOK(f)

LEMMA DeviceConstants ==
  /\ MaxFix \in Nat /\ 0 \in 0..MaxFix /\ NoToken \notin Tokens /\ Nobody \notin Keepers
  /\ D!NoDevice \in D!Device /\ D!NoCall \in D!Call /\ D!NoCall.pc = "free"
  BY RecordsAssumption DEF D!NoDevice, D!Device, D!NoCall, D!Call

LEMMA DevicesInit == D!Init => DevicesInv
  <1> SUFFICES ASSUME D!Init PROVE DevicesInv
    OBVIOUS
  <1>1. devCall \in [Calls -> D!Call] /\ dev \in D!Device
    BY DeviceConstants DEF D!Init
  <1>2. expect \in [fix : 0..MaxFix, token : Tokens \cup {NoToken}] /\ fixes \in 0..MaxFix
    BY DeviceConstants DEF D!Init
  <1>3. D!TypeOK
    BY <1>1, <1>2 DEF D!Init, D!TypeOK
  <1>4. \A f \in Calls : devCall[f].pc = "free"
    BY DEF D!Init, D!NoCall
  <1> QED
    BY <1>3, <1>4 DEF DevicesInv, D!Init, D!NoDevice, RowOK, CallOK, Whole

\* A call in flight is why no other call runs alone.
LEMMA OtherCalls ==
  ASSUME DevicesInv, NEW f \in Calls, devCall[f].pc # "free",
         \A g \in Calls : g # f => devCall'[g] = devCall[g],
         dev.owner # Nobody => dev'.owner # Nobody
  PROVE  \A g \in Calls : g # f => CallOK(g)'
  <1> SUFFICES ASSUME NEW g \in Calls, g # f PROVE CallOK(g)'
    OBVIOUS
  <1>1. CallOK(g) /\ devCall'[g] = devCall[g]
    BY DEF DevicesInv
  <1>2. devCall[g].pc # "free" => ~devCall[g].alone
    BY <1>1 DEF CallOK
  <1> QED
    BY <1>1, <1>2 DEF CallOK

LEMMA EnterCalls ==
  ASSUME DevicesInv, NEW f \in Calls, NEW entry \in D!Call,
         entry.pc \in {"insert", "register", "locate"},
         entry.pc = "insert" => entry.user # Nobody,
         entry.pc = "locate" => entry.token = NoToken,
         entry.pc # "insert" => dev.owner # Nobody /\ entry.read.lat = dev.lat /\ entry.read.time = dev.time,
         D!Enter(f, entry)
  PROVE  DevicesInv'
  <1>1. PICK k \in {0, fixes + 1} \cap (0..MaxFix) :
          /\ fixes' = IF k = 0 THEN fixes ELSE k
          /\ devCall' = [D!Overlapped EXCEPT ![f] = [entry EXCEPT !.fix = k, !.alone = ~D!Busy]]
    BY DEF D!Enter
  <1>2. devCall[f].pc = "free" /\ UNCHANGED <<dev, push, expect, torn, stale>>
    BY DEF D!Enter
  <1>3. fixes \in 0..MaxFix /\ devCall \in [Calls -> D!Call] /\ D!TypeOK
    BY DEF DevicesInv, D!TypeOK
  <1> DEFINE e == [entry EXCEPT !.fix = k, !.alone = ~D!Busy]
  <1>4. /\ e \in D!Call /\ e.pc = entry.pc /\ e.user = entry.user /\ e.token = entry.token
        /\ e.read = entry.read /\ e.alone = ~D!Busy
    BY DEF D!Call, D!Busy
  <1> HIDE DEF e
  <1>5. ASSUME NEW g \in Calls
        PROVE  /\ D!Overlapped[g] \in D!Call
               /\ devCall[g].pc = "free" => D!Overlapped[g] = devCall[g]
               /\ devCall[g].pc # "free" => ~D!Overlapped[g].alone
               /\ D!Overlapped[g].pc = devCall[g].pc /\ D!Overlapped[g].user = devCall[g].user
               /\ D!Overlapped[g].token = devCall[g].token
    <2>1. devCall[g] \in D!Call
      BY <1>3
    <2>2. D!Overlapped[g] = IF devCall[g].pc = "free" THEN devCall[g] ELSE [devCall[g] EXCEPT !.alone = FALSE]
      BY DEF D!Overlapped
    <2> DEFINE o == [devCall[g] EXCEPT !.alone = FALSE]
    <2>3. /\ o \in D!Call /\ o.pc = devCall[g].pc /\ o.user = devCall[g].user
          /\ o.token = devCall[g].token /\ o.alone = FALSE
      BY <2>1 DEF D!Call
    <2> HIDE DEF o
    <2> QED
      BY <2>1, <2>2, <2>3 DEF o
  <1>6. D!Overlapped \in [Calls -> D!Call]
    <2>1. D!Overlapped = [g \in Calls |-> D!Overlapped[g]]
      BY DEF D!Overlapped
    <2> QED
      BY <2>1, <1>5
  <1>7. /\ devCall' \in [Calls -> D!Call] /\ devCall'[f] = e
        /\ \A g \in Calls : g # f => devCall'[g] = D!Overlapped[g]
    BY <1>1, <1>4, <1>6 DEF e
  <1>8. fixes' \in 0..MaxFix
    BY <1>1, <1>3
  <1>9. D!TypeOK'
    BY <1>2, <1>3, <1>7, <1>8 DEF D!TypeOK
  <1>10. RowOK'
    BY <1>2 DEF DevicesInv, RowOK, Whole
  <1>11. ASSUME NEW g \in Calls, g # f PROVE CallOK(g)'
    <2>1. CallOK(g) /\ devCall'[g] = D!Overlapped[g]
      BY <1>7, <1>11 DEF DevicesInv
    <2>2. devCall'[g].pc # "free" => ~devCall'[g].alone
      BY <2>1, <1>5
    <2>3. /\ devCall'[g].pc = devCall[g].pc /\ devCall'[g].user = devCall[g].user
          /\ devCall'[g].token = devCall[g].token
      BY <2>1, <1>5
    <2> QED
      BY <1>2, <2>1, <2>2, <2>3 DEF CallOK
  <1>12. CallOK(f)'
    <2>1. e.alone => \A g \in Calls : g # f => devCall'[g].pc = "free"
      BY <1>4, <1>5, <1>7 DEF D!Busy
    <2> QED
      BY <1>2, <1>4, <1>7, <2>1 DEF CallOK
  <1> QED
    BY <1>9, <1>10, <1>11, <1>12 DEF DevicesInv

\* A statement of call f ends in e; the row and its history are given.
LEMMA StepCalls ==
  ASSUME DevicesInv, NEW f \in Calls, devCall[f].pc # "free", NEW e \in D!Call,
         devCall' = [devCall EXCEPT ![f] = e],
         dev' \in D!Device, expect' \in [fix : 0..MaxFix, token : Tokens \cup {NoToken}],
         torn' \in BOOLEAN, stale' \in BOOLEAN, push' = push, fixes' = fixes,
         RowOK', e.pc \in {"free", "point"},
         dev.owner # Nobody => dev'.owner # Nobody,
         e.pc = "point" => dev'.owner # Nobody,
         e.pc = "point" /\ e.alone =>
           /\ devCall[f].alone /\ dev'.lat = e.fix /\ dev'.time = e.fix /\ expect'.fix = e.fix
  PROVE  DevicesInv'
  <1>1. devCall \in [Calls -> D!Call]
    BY DEF DevicesInv, D!TypeOK
  <1>2. /\ devCall' \in [Calls -> D!Call] /\ devCall'[f] = e
        /\ \A g \in Calls : g # f => devCall'[g] = devCall[g]
    BY <1>1
  <1>3. D!TypeOK'
    BY <1>2 DEF DevicesInv, D!TypeOK
  <1>4. \A g \in Calls : g # f => CallOK(g)'
    BY <1>2, OtherCalls
  <1>5. CallOK(f)'
    <2>1. CallOK(f)
      BY DEF DevicesInv
    <2>2. devCall[f].alone => \A g \in Calls : g # f => devCall'[g].pc = "free"
      BY <1>2, <2>1 DEF CallOK
    <2> QED
      BY <1>2, <2>2 DEF CallOK, Whole
  <1> QED
    BY <1>3, <1>4, <1>5 DEF DevicesInv

\* The end of a first statement: the point follows if there was a fix.
LEMMA WithPointStep ==
  ASSUME DevicesInv, NEW f \in Calls, devCall' = D!WithPoint(f)
  PROVE  \E e \in D!Call :
           /\ devCall' = [devCall EXCEPT ![f] = e]
           /\ e.pc = IF devCall[f].fix = 0 THEN "free" ELSE "point"
           /\ e.pc = "point" => e.fix = devCall[f].fix /\ e.alone = devCall[f].alone
  <1>1. devCall[f] \in D!Call /\ devCall \in [Calls -> D!Call]
    BY DEF DevicesInv, D!TypeOK
  <1> DEFINE p == [D!NoCall EXCEPT !.pc = "point", !.fix = devCall[f].fix, !.alone = devCall[f].alone]
             e == IF devCall[f].fix = 0 THEN D!NoCall ELSE p
  <1>2. p \in D!Call /\ p.pc = "point" /\ p.fix = devCall[f].fix /\ p.alone = devCall[f].alone
    BY <1>1, DeviceConstants DEF D!NoCall, D!Call
  <1>3. devCall' = [devCall EXCEPT ![f] = e]
    BY <1>1 DEF D!WithPoint
  <1> HIDE DEF p
  <1>4. e \in D!Call /\ e.pc = IF devCall[f].fix = 0 THEN "free" ELSE "point"
    BY <1>2, DeviceConstants
  <1> QED
    BY <1>2, <1>3, <1>4, DeviceConstants

LEMMA DevicesNext == DevicesInv /\ [D!Next]_deviceVars => DevicesInv'
  <1> SUFFICES ASSUME DevicesInv, [D!Next]_deviceVars PROVE DevicesInv'
    OBVIOUS
  <1>0. /\ dev \in D!Device /\ devCall \in [Calls -> D!Call]
        /\ expect \in [fix : 0..MaxFix, token : Tokens \cup {NoToken}]
        /\ torn \in BOOLEAN /\ stale \in BOOLEAN
        /\ RowOK
    BY DEF DevicesInv, D!TypeOK
  <1>1. CASE UNCHANGED deviceVars
    BY <1>1 DEF deviceVars, DevicesInv, D!TypeOK, RowOK, CallOK, Whole
  \* What register and updateLocation read.
  <1>2. /\ D!Read \in D!Device /\ D!Read.lat = dev.lat /\ D!Read.time = dev.time
        /\ [D!Read EXCEPT !.token = NoToken] \in D!Device
        /\ [D!Read EXCEPT !.token = NoToken].lat = dev.lat
        /\ [D!Read EXCEPT !.token = NoToken].time = dev.time
    BY <1>0, DeviceConstants DEF D!Read, D!Device, D!NoDevice
  <1>3. ASSUME NEW f \in Calls, NEW u \in Keepers, NEW t \in Tokens \cup {NoToken}, D!register(f, u, t)
        PROVE  DevicesInv'
    <2> DEFINE a == [D!NoCall EXCEPT !.pc = "register", !.token = t, !.read = D!Read]
               b == [D!NoCall EXCEPT !.pc = "insert", !.token = t, !.user = u]
    <2>1. a \in D!Call /\ a.pc = "register" /\ a.read = D!Read
      BY <1>2, DeviceConstants DEF D!NoCall, D!Call
    <2>2. b \in D!Call /\ b.pc = "insert" /\ b.user = u /\ u # Nobody
      BY DeviceConstants DEF D!NoCall, D!Call
    <2>3. (dev.owner = u /\ D!Enter(f, a)) \/ D!Enter(f, b)
      <3>1. CASE dev.owner = u
        BY <1>3, <3>1 DEF D!register
      <3>2. CASE dev.owner # u
        BY <1>3, <3>2 DEF D!register
      <3> QED
        BY <3>1, <3>2
    <2> HIDE DEF a, b
    <2>4. CASE dev.owner = u /\ D!Enter(f, a)
      BY <1>2, <2>1, DeviceConstants, <2>4, EnterCalls
    <2>5. CASE D!Enter(f, b)
      BY <2>2, <2>5, EnterCalls
    <2> QED
      BY <2>3, <2>4, <2>5
  <1>4. ASSUME NEW f \in Calls, NEW u \in Keepers, D!updateLocation(f, u)
        PROVE  DevicesInv'
    <2> DEFINE a == [D!NoCall EXCEPT !.pc = "locate", !.read = [D!Read EXCEPT !.token = NoToken]]
    <2>1. a \in D!Call /\ a.pc = "locate" /\ a.token = NoToken /\ a.read = [D!Read EXCEPT !.token = NoToken]
      BY <1>2, DeviceConstants DEF D!NoCall, D!Call
    <2>2. D!Enter(f, a) /\ dev.owner # Nobody
      BY <1>4, DeviceConstants DEF D!updateLocation
    <2> HIDE DEF a
    <2> QED
      BY <1>2, <2>1, <2>2, EnterCalls
  <1>5. ASSUME NEW f \in Calls, D!InsertDevice(f)
        PROVE  DevicesInv'
    <2> DEFINE me == devCall[f]
    <2>1. me \in D!Call /\ me.pc = "insert" /\ CallOK(f) /\ push' = push /\ fixes' = fixes /\ stale' = stale
      BY <1>0, <1>5 DEF D!InsertDevice, DevicesInv
    <2>2. CASE dev.owner # Nobody
      <3>1. devCall' = [devCall EXCEPT ![f] = D!NoCall] /\ UNCHANGED <<dev, expect, torn>>
        BY <1>5, <2>2 DEF D!InsertDevice
      <3>2. RowOK'
        BY <1>0, <2>1, <3>1 DEF RowOK, Whole
      <3> QED
        BY <1>0, <2>1, <3>1, <3>2, DeviceConstants, StepCalls
    <2>3. CASE dev.owner = Nobody
      <3>1. /\ dev' = [owner |-> me.user, token |-> me.token, lat |-> me.fix, time |-> me.fix, point |-> 0]
            /\ devCall' = D!WithPoint(f)
            /\ torn' = (torn \/ me.fix # 0 \/ ~me.alone)
            /\ expect' = [fix |-> D!Or(me.fix, expect.fix, 0), token |-> D!Or(me.token, expect.token, NoToken)]
        BY <1>5, <2>3 DEF D!InsertDevice, D!Accepted
      <3>2. PICK e \in D!Call :
              /\ devCall' = [devCall EXCEPT ![f] = e]
              /\ e.pc = IF me.fix = 0 THEN "free" ELSE "point"
              /\ e.pc = "point" => e.fix = me.fix /\ e.alone = me.alone
        BY <3>1, WithPointStep
      <3>3. dev = D!NoDevice /\ expect = [fix |-> 0, token |-> NoToken]
        BY <1>0, <2>3 DEF RowOK
      <3>4. dev'.lat = me.fix /\ dev'.time = me.fix /\ dev'.owner = me.user /\ dev'.token = me.token /\ dev'.point = 0
        BY <3>1
      <3>5. expect'.fix = me.fix /\ expect'.token = me.token
        BY <3>1, <3>3 DEF D!Or
      <3>6. dev' \in D!Device /\ expect' \in [fix : 0..MaxFix, token : Tokens \cup {NoToken}]
        BY <2>1, <3>1, <3>3, DeviceConstants DEF D!Call, D!Device, D!Or
      <3>7. RowOK'
        BY <1>0, <2>1, <3>1, <3>4, <3>5 DEF RowOK, Whole, CallOK
      <3>8. torn' \in BOOLEAN
        BY <3>1
      <3> QED
        BY <1>0, <2>1, <3>2, <3>4, <3>5, <3>6, <3>7, <3>8, StepCalls DEF CallOK
    <2> QED
      BY <2>2, <2>3
  <1>6. ASSUME NEW f \in Calls, D!RegisterUpdate(f) \/ D!LocationUpdate(f)
        PROVE  DevicesInv'
    <2> DEFINE me == devCall[f]
    <2>1. /\ me \in D!Call /\ me.pc \in {"register", "locate"} /\ CallOK(f)
          /\ me.read \in D!Device /\ push' = push /\ fixes' = fixes
          /\ devCall' = D!WithPoint(f)
          /\ torn' = (torn \/ me.fix # 0 \/ ~me.alone)
          /\ expect' = [fix |-> D!Or(me.fix, expect.fix, 0), token |-> D!Or(me.token, expect.token, NoToken)]
      BY <1>0, <1>6 DEF D!RegisterUpdate, D!LocationUpdate, DevicesInv, D!Accepted, D!Call
    <2>2. PICK e \in D!Call :
            /\ devCall' = [devCall EXCEPT ![f] = e]
            /\ e.pc = IF me.fix = 0 THEN "free" ELSE "point"
            /\ e.pc = "point" => e.fix = me.fix /\ e.alone = me.alone
      BY <2>1, WithPointStep
    <2>3. PICK t \in Tokens \cup {NoToken} :
            /\ dev' = [dev EXCEPT !.token = t, !.lat = D!Or(me.fix, me.read.lat, 0),
                                  !.time = D!Or(me.fix, me.read.time, 0)]
            /\ stale' \in BOOLEAN
            /\ ~stale' => t = D!Or(me.token, expect.token, NoToken)
      <3>1. CASE D!RegisterUpdate(f)
        <4>1. /\ dev' = [dev EXCEPT !.token = D!Or(me.token, me.read.token, NoToken),
                                    !.lat = D!Or(me.fix, me.read.lat, 0), !.time = D!Or(me.fix, me.read.time, 0)]
              /\ stale' = (me.token = NoToken /\ (stale \/ me.read.token # dev.token))
          BY <3>1 DEF D!RegisterUpdate
        <4>2. D!Or(me.token, me.read.token, NoToken) \in Tokens \cup {NoToken}
          BY <2>1 DEF D!Call, D!Device, D!Or
        <4>3. ~stale' => D!Or(me.token, me.read.token, NoToken) = D!Or(me.token, expect.token, NoToken)
          BY <1>0, <4>1 DEF D!Or, RowOK
        <4> QED
          BY <4>1, <4>2, <4>3
      <3>2. CASE D!LocationUpdate(f)
        <4>1. /\ dev' = [dev EXCEPT !.lat = D!Or(me.fix, me.read.lat, 0), !.time = D!Or(me.fix, me.read.time, 0)]
              /\ stale' = stale /\ me.pc = "locate"
          BY <3>2 DEF D!LocationUpdate
        <4>2. dev.token \in Tokens \cup {NoToken} /\ me.token = NoToken
          BY <1>0, <2>1, <4>1 DEF D!Device, CallOK
        <4>3. dev' = [dev EXCEPT !.token = dev.token, !.lat = D!Or(me.fix, me.read.lat, 0),
                                 !.time = D!Or(me.fix, me.read.time, 0)]
          BY <1>0, <4>1 DEF D!Device
        <4> QED
          BY <1>0, <4>1, <4>2, <4>3 DEF D!Or, RowOK
      <3> QED
        BY <1>6, <3>1, <3>2
    <2> HIDE DEF me
    <2>4. D!Or(me.fix, me.read.lat, 0) \in 0..MaxFix /\ D!Or(me.fix, me.read.time, 0) \in 0..MaxFix
      BY <2>1 DEF D!Call, D!Device, D!Or
    <2>5. /\ dev' \in D!Device /\ dev'.owner = dev.owner /\ dev'.token = t /\ dev'.point = dev.point
          /\ dev'.lat = D!Or(me.fix, me.read.lat, 0) /\ dev'.time = D!Or(me.fix, me.read.time, 0)
      BY <1>0, <2>3, <2>4 DEF D!Device
    <2>6. /\ expect' \in [fix : 0..MaxFix, token : Tokens \cup {NoToken}]
          /\ expect'.fix = D!Or(me.fix, expect.fix, 0) /\ expect'.token = D!Or(me.token, expect.token, NoToken)
      BY <1>0, <2>1 DEF D!Call, D!Or
    <2>7. dev.owner # Nobody
      BY <2>1 DEF CallOK, me
    <2>8. RowOK'
      BY <1>0, <2>1, <2>3, <2>5, <2>6, <2>7 DEF RowOK, Whole, CallOK, D!Or, me
    <2>9. e.pc = "point" => me.fix # 0
      BY <2>2
    <2>10. e.pc = "point" /\ e.alone =>
             me.alone /\ dev'.lat = e.fix /\ dev'.time = e.fix /\ expect'.fix = e.fix
      BY <2>2, <2>5, <2>6, <2>9 DEF D!Or
    <2> QED
      BY <1>0, <2>1, <2>2, <2>3, <2>5, <2>6, <2>7, <2>8, <2>10, StepCalls DEF me
  <1>7. ASSUME NEW f \in Calls, D!WritePoint(f)
        PROVE  DevicesInv'
    <2>1. /\ devCall[f] \in D!Call /\ devCall[f].pc = "point" /\ CallOK(f)
          /\ dev' = [dev EXCEPT !.point = devCall[f].fix]
          /\ devCall' = [devCall EXCEPT ![f] = D!NoCall] /\ torn' = ~devCall[f].alone
          /\ UNCHANGED <<push, fixes, expect, stale>>
      BY <1>0, <1>7 DEF D!WritePoint, DevicesInv
    <2>2. /\ dev' \in D!Device /\ dev'.owner = dev.owner /\ dev'.token = dev.token
          /\ dev'.lat = dev.lat /\ dev'.time = dev.time /\ dev'.point = devCall[f].fix
      BY <1>0, <2>1 DEF D!Device, D!Call
    <2>3. RowOK'
      BY <1>0, <2>1, <2>2 DEF RowOK, CallOK, Whole
    <2>4. torn' \in BOOLEAN
      BY <2>1
    <2> QED
      BY <1>0, <2>1, <2>2, <2>3, <2>4, DeviceConstants, StepCalls
  <1>8. ASSUME NEW f \in Calls, D!Fail(f)
        PROVE  DevicesInv'
    <2>1. /\ devCall[f].pc # "free" /\ devCall' = [devCall EXCEPT ![f] = D!NoCall]
          /\ UNCHANGED <<dev, push, fixes, expect, torn, stale>>
      BY <1>8 DEF D!Fail
    <2>2. RowOK'
      BY <1>0, <2>1 DEF RowOK, Whole
    <2> QED
      BY <1>0, <2>1, <2>2, DeviceConstants, StepCalls
  \* Steps that touch the token only.
  <1>9. ASSUME dev' \in D!Device, dev'.owner = dev.owner, dev'.lat = dev.lat, dev'.time = dev.time,
               dev'.point = dev.point, push' \subseteq Tokens, stale' \in BOOLEAN,
               expect' \in [fix : 0..MaxFix, token : Tokens \cup {NoToken}], expect'.fix = expect.fix,
               dev.owner = Nobody => dev' = dev /\ expect' = expect,
               ~stale' => dev'.token = expect'.token,
               devCall' = devCall, fixes' = fixes, torn' = torn
        PROVE  DevicesInv'
    <2>1. D!TypeOK'
      BY <1>9 DEF DevicesInv, D!TypeOK
    <2>2. RowOK'
      BY <1>0, <1>9 DEF RowOK, Whole
    <2>3. \A f \in Calls : CallOK(f)'
      BY <1>9 DEF DevicesInv, CallOK, Whole
    <2> QED
      BY <2>1, <2>2, <2>3 DEF DevicesInv
  <1>10. ASSUME NEW u \in Keepers, NEW t \in Tokens, D!updatePushToken(u, t)
         PROVE  DevicesInv'
    <2>1. /\ dev.owner = u /\ dev' = [dev EXCEPT !.token = t] /\ expect' = [expect EXCEPT !.token = t]
          /\ stale' = FALSE /\ UNCHANGED <<devCall, push, fixes, torn>> /\ push \subseteq Tokens
      BY <1>10 DEF D!updatePushToken, DevicesInv, D!TypeOK
    <2>2. /\ dev' \in D!Device /\ dev'.owner = dev.owner /\ dev'.lat = dev.lat /\ dev'.time = dev.time
          /\ dev'.point = dev.point /\ dev'.token = t
      BY <1>0, <2>1 DEF D!Device
    <2>3. /\ expect' \in [fix : 0..MaxFix, token : Tokens \cup {NoToken}] /\ expect'.fix = expect.fix
          /\ expect'.token = t
      BY <1>0, <2>1
    <2> QED
      BY <1>9, <2>1, <2>2, <2>3, DeviceConstants
  <1>11. CASE D!SendPush
    <2>1. push' \subseteq Tokens /\ UNCHANGED <<dev, devCall, fixes, expect, torn, stale>>
      BY <1>0, <1>11 DEF D!SendPush, DevicesInv, D!TypeOK, D!Device
    <2> QED
      BY <1>0, <1>9, <2>1 DEF RowOK
  <1>12. ASSUME NEW t \in Tokens, D!ClearDeadToken(t)
         PROVE  DevicesInv'
    <2>1. /\ dev' = [dev EXCEPT !.token = NoToken] /\ stale' = (t # expect.token)
          /\ expect' = [expect EXCEPT !.token = IF t = expect.token THEN NoToken ELSE expect.token]
          /\ UNCHANGED <<devCall, fixes, torn>> /\ push' \subseteq Tokens
      BY <1>0, <1>12 DEF D!ClearDeadToken, DevicesInv, D!TypeOK
    <2>2. /\ dev' \in D!Device /\ dev'.owner = dev.owner /\ dev'.lat = dev.lat /\ dev'.time = dev.time
          /\ dev'.point = dev.point /\ dev'.token = NoToken
      BY <1>0, <2>1 DEF D!Device
    <2>3. /\ expect' \in [fix : 0..MaxFix, token : Tokens \cup {NoToken}] /\ expect'.fix = expect.fix
          /\ expect'.token = IF t = expect.token THEN NoToken ELSE expect.token
      BY <1>0, <2>1
    <2>4. dev.owner = Nobody => dev' = dev /\ expect' = expect
      <3>1. dev.owner = Nobody => dev = D!NoDevice /\ expect = [fix |-> 0, token |-> NoToken]
        BY <1>0 DEF RowOK
      <3> QED
        BY <1>0, <2>1, <3>1, DeviceConstants DEF D!NoDevice
    <2> QED
      BY <1>9, <2>1, <2>2, <2>3, <2>4
  <1> QED
    BY <1>1, <1>3, <1>4, <1>5, <1>6, <1>7, <1>8, <1>10, <1>11, <1>12
    DEF D!Next, D!DeviceController

\* The row of a phone is explained by the reports that reached it: device.service.ts:217 and
\* notification-queue.processor.ts:643.
THEOREM DeviceRowSafe == Spec => []DeviceRowExplained
  <1> DEFINE Inv == part = "devices" => DevicesInv
  <1>1. Init => Inv
    BY DevicesInit DEF Init
  <1>2. Inv /\ [Next]_vars => Inv'
    BY Parts, DevicesNext
  <1>3. Inv => DeviceRowExplained
    BY DEF DevicesInv, RowOK, Whole, DeviceRowExplained, D!DeviceRowExplained,
       D!ReportsAloneRepair, D!TokensHold
  <1> QED
    BY <1>1, <1>2, <1>3, PTL DEF Spec

--------------------------------------------------------------------------------
(* Adoption *)

Pushing == {f \in Calls : adoptionCall[f].pc = "push"}
PhotoBound == O!Limit + MaxFiles * (Cardinality(Calls) - 1)
PhotosFit == Fit(pet.photos, Pushing, [f \in Calls |-> adoptionCall[f].files], MaxFiles, PhotoBound)

AdoptionCallOK(f) ==
  LET me == adoptionCall[f] IN
  /\ me.pc = "insert" => me.user \in Keepers /\ me.new \in {"none", "AVAILABLE"}
  /\ me.pc \in {"insert", "edit"} => me.files <= MaxPetPhotos
  /\ me.pc \in {"uploaded", "push"} => me.files <= MaxFiles
  /\ me.pc = "status" => me.new \in O!Statuses /\ me.read \in O!Allowed(me.new)

\* The listing of an adopted pet, and whose pet a listing offers.
ListingOK ==
  /\ adoptedAt => listing \in O!Statuses
  /\ adoptedAt /\ ~lost => listing = "ADOPTED"
  /\ listing \in O!Statuses => pet.owner \in Keepers

AdoptionInv == O!TypeOK /\ PhotosFit /\ ListingOK /\ \A f \in Calls : AdoptionCallOK(f)

LEMMA AdoptionConstants ==
  /\ IsFiniteSet(Calls) /\ Cardinality(Calls) \in Nat \ {0} /\ Cardinality(Calls) - 1 \in Nat
  /\ MaxFiles \in Nat /\ MaxPetPhotos \in Nat /\ MaxAdoptionPhotos \in Nat
  /\ O!Limit \in Nat /\ MaxPetPhotos <= O!Limit /\ MaxAdoptionPhotos <= O!Limit
  /\ MaxFiles * (Cardinality(Calls) - 1) \in Nat /\ PhotoBound \in Nat
  /\ O!Limit + MaxFiles * (Cardinality(Calls) - 1) <= PhotoBound
  /\ O!NoCall \in O!Call /\ O!NoPetRow.photos = 0
  /\ O!NoPetRow \in [owner : Keepers \cup {Nobody}, type : PetTypes \cup {"none"}, photos : Nat]
  <1>1. IsFiniteSet(Calls) /\ Calls # {} /\ Nobody \notin Keepers
        /\ MaxFiles \in Nat /\ MaxPetPhotos \in Nat /\ MaxAdoptionPhotos \in Nat
    BY RecordsAssumption
  <1>2. Cardinality(Calls) \in Nat \ {0} /\ Cardinality(Calls) - 1 \in Nat
    BY <1>1, FS_EmptySet, FS_CardinalityType
  <1>3. O!Limit \in Nat /\ MaxPetPhotos <= O!Limit /\ MaxAdoptionPhotos <= O!Limit
    BY <1>1 DEF O!Limit
  <1>4. MaxFiles * (Cardinality(Calls) - 1) \in Nat
    BY <1>1, <1>2, Product
  <1>5. PhotoBound \in Nat /\ O!Limit + MaxFiles * (Cardinality(Calls) - 1) <= PhotoBound
    BY <1>3, <1>4 DEF PhotoBound
  <1> QED
    BY <1>1, <1>2, <1>3, <1>4, <1>5 DEF O!NoCall, O!Call, O!NoPetRow

LEMMA AdoptionInit == O!Init => AdoptionInv
  <1> SUFFICES ASSUME O!Init PROVE AdoptionInv
    OBVIOUS
  <1>1. O!TypeOK
    BY AdoptionConstants DEF O!Init, O!TypeOK
  <1>2. Pushing = {} /\ pet.photos = 0
    BY AdoptionConstants DEF O!Init, O!NoCall, Pushing
  <1>3. PhotosFit
    <2>1. Cardinality(Pushing) = 0
      BY <1>2, FS_EmptySet
    <2>2. pet.photos + MaxFiles * Cardinality(Pushing) <= PhotoBound
      BY <1>2, <2>1, AdoptionConstants
    <2> QED
      BY <2>2 DEF PhotosFit, Fit
  <1>4. \A f \in Calls : adoptionCall[f].pc = "free"
    BY DEF O!Init, O!NoCall
  <1> QED
    BY <1>1, <1>3, <1>4 DEF AdoptionInv, ListingOK, AdoptionCallOK, O!Init, O!Statuses

\* A call goes from one statement to the next, outside the photos.
LEMMA AdoptionStep ==
  ASSUME AdoptionInv, NEW f \in Calls, NEW e \in O!Call, adoptionCall' = [adoptionCall EXCEPT ![f] = e],
         AdoptionCallOK(f)', ListingOK',
         petType' \subseteq PetTypes, listing' \in O!Statuses \cup {"none", "deleted"},
         adoptedAt' \in BOOLEAN, shown' \in BOOLEAN, lost' \in BOOLEAN,
         pet' \in [owner : Keepers \cup {Nobody}, type : PetTypes \cup {"none"}, photos : Nat],
         PhotosFit'
  PROVE  AdoptionInv'
  <1>1. adoptionCall \in [Calls -> O!Call]
    BY DEF AdoptionInv, O!TypeOK
  <1>2. adoptionCall' \in [Calls -> O!Call] /\ \A g \in Calls : g # f => adoptionCall'[g] = adoptionCall[g]
    BY <1>1
  <1>3. O!TypeOK'
    BY <1>2 DEF O!TypeOK
  <1>4. \A g \in Calls : AdoptionCallOK(g)'
    BY <1>2 DEF AdoptionInv, AdoptionCallOK
  <1> QED
    BY <1>3, <1>4 DEF AdoptionInv

\* Who does not push, before or after, leaves the photos on their way alone.
LEMMA NoPush ==
  ASSUME AdoptionInv, NEW f \in Calls, NEW e \in O!Call, adoptionCall' = [adoptionCall EXCEPT ![f] = e],
         adoptionCall[f].pc # "push", e.pc # "push",
         pet' \in [owner : Keepers \cup {Nobody}, type : PetTypes \cup {"none"}, photos : Nat],
         pet'.photos = pet.photos \/ pet'.photos <= O!Limit
  PROVE  PhotosFit'
  <1> DEFINE old == [g \in Calls |-> adoptionCall[g].files]
             new == [g \in Calls |-> adoptionCall'[g].files]
  <1>1. adoptionCall \in [Calls -> O!Call] /\ pet.photos \in Nat /\ pet'.photos \in Nat
    BY DEF AdoptionInv, O!TypeOK
  <1>2. Pushing' = Pushing /\ Pushing \in SUBSET Calls /\ f \in Calls \ Pushing
    BY <1>1 DEF Pushing
  <1>3. \A g \in Pushing : new[g] = old[g]
    BY <1>1, <1>2
  <1>4. Fit(pet'.photos, Pushing, new, MaxFiles, PhotoBound)
    <2>1. CASE pet'.photos = pet.photos
      <3>1. Fit(pet.photos, Pushing, old, MaxFiles, PhotoBound)
        BY DEF AdoptionInv, PhotosFit
      <3> HIDE DEF old, new
      <3> QED
        BY <1>2, <1>3, <2>1, <3>1, FitKept
    <2>2. CASE pet'.photos <= O!Limit
      <3> HIDE DEF old, new
      <3> QED
        BY <1>1, <1>2, <2>2, AdoptionConstants, FitReset
    <2> QED
      BY <2>1, <2>2
  <1> QED
    BY <1>2, <1>4 DEF PhotosFit

LEMMA AdoptionNext == AdoptionInv /\ [O!Next]_adoptionVars => AdoptionInv'
  <1> SUFFICES ASSUME AdoptionInv, [O!Next]_adoptionVars PROVE AdoptionInv'
    OBVIOUS
  <1> DEFINE Pet == [owner : Keepers \cup {Nobody}, type : PetTypes \cup {"none"}, photos : Nat]
  <1>0. /\ petType \subseteq PetTypes /\ pet \in Pet /\ listing \in O!Statuses \cup {"none", "deleted"}
        /\ adoptedAt \in BOOLEAN /\ shown \in BOOLEAN /\ lost \in BOOLEAN
        /\ adoptionCall \in [Calls -> O!Call] /\ ListingOK /\ PhotosFit
        /\ \A f \in Calls : AdoptionCallOK(f)
    BY DEF AdoptionInv, O!TypeOK
  <1> HIDE DEF Pet
  \* Steps that no call makes.
  <1>1. ASSUME adoptionCall' = adoptionCall, pet' = pet, listing' = listing, adoptedAt' = adoptedAt,
               lost' = lost, petType' \subseteq PetTypes, shown' \in BOOLEAN
        PROVE  AdoptionInv'
    <2>1. PhotosFit'
      BY <1>0, <1>1 DEF PhotosFit, Pushing, PhotoBound
    <2>2. ListingOK' /\ \A f \in Calls : AdoptionCallOK(f)'
      BY <1>0, <1>1 DEF ListingOK, AdoptionCallOK
    <2>3. O!TypeOK'
      BY <1>1 DEF AdoptionInv, O!TypeOK
    <2> QED
      BY <2>1, <2>2, <2>3 DEF AdoptionInv
  <1>2. CASE UNCHANGED adoptionVars
    BY <1>0, <1>1, <1>2 DEF adoptionVars
  <1>3. ASSUME NEW t \in PetTypes, O!createPetType(t) \/ O!removePetType(t)
        PROVE  AdoptionInv'
    BY <1>0, <1>1, <1>3 DEF O!createPetType, O!removePetType
  <1>4. CASE O!findAvailable \/ O!ShowRows
    BY <1>0, <1>1, <1>4 DEF O!findAvailable, O!ShowRows
  \* The rows stay as they are while call f reads and checks.
  <1>5. ASSUME NEW f \in Calls, NEW e \in O!Call, adoptionCall[f].pc # "push",
               adoptionCall' = [adoptionCall EXCEPT ![f] = e],
               UNCHANGED <<petType, pet, listing, adoptedAt, shown, lost>>,
               e.pc # "push",
               e.pc = "insert" => e.user \in Keepers /\ e.new \in {"none", "AVAILABLE"},
               e.pc \in {"insert", "edit"} => e.files <= MaxPetPhotos,
               e.pc = "uploaded" => e.files <= MaxFiles,
               e.pc = "status" => e.new \in O!Statuses /\ e.read \in O!Allowed(e.new)
        PROVE  AdoptionInv'
    <2>1. adoptionCall'[f] = e
      BY <1>0, <1>5
    <2>2. AdoptionCallOK(f)'
      BY <1>5, <2>1 DEF AdoptionCallOK
    <2>3. PhotosFit'
      BY <1>0, <1>5, NoPush DEF Pet
    <2>4. ListingOK'
      BY <1>0, <1>5 DEF ListingOK
    <2> QED
      BY <1>0, <1>5, <2>2, <2>3, <2>4, AdoptionStep DEF Pet
  <1>6. ASSUME NEW f \in Calls, NEW u \in Keepers, NEW t \in O!findAllPetTypes, NEW n \in 0..MaxPetPhotos,
               O!create(f, u, t, n) \/ O!registerPet(f, u, t, n)
        PROVE  AdoptionInv'
    <2> DEFINE a == [O!NoCall EXCEPT !.pc = "insert", !.user = u, !.type = t, !.files = n, !.new = "AVAILABLE"]
               b == [O!NoCall EXCEPT !.pc = "insert", !.user = u, !.type = t, !.files = n]
    <2>1. n \in Nat /\ n <= MaxPetPhotos /\ t \in PetTypes
      BY <1>0, AdoptionConstants DEF O!findAllPetTypes
    <2>2. a \in O!Call /\ a.pc = "insert" /\ a.user = u /\ a.files = n /\ a.new = "AVAILABLE"
      BY <2>1 DEF O!NoCall, O!Call, O!Statuses
    <2>3. b \in O!Call /\ b.pc = "insert" /\ b.user = u /\ b.files = n /\ b.new = "none"
      BY <2>1 DEF O!NoCall, O!Call, O!Statuses
    <2>4. CASE O!create(f, u, t, n)
      <3>1. /\ adoptionCall[f].pc = "free" /\ adoptionCall' = [adoptionCall EXCEPT ![f] = a]
            /\ UNCHANGED <<petType, pet, listing, adoptedAt, shown, lost>>
        BY <2>4 DEF O!create, O!Start
      <3> HIDE DEF a
      <3> QED
        BY <1>5, <2>1, <2>2, <3>1
    <2>5. CASE O!registerPet(f, u, t, n)
      <3>1. /\ adoptionCall[f].pc = "free" /\ adoptionCall' = [adoptionCall EXCEPT ![f] = b]
            /\ UNCHANGED <<petType, pet, listing, adoptedAt, shown, lost>>
        BY <2>5 DEF O!registerPet, O!Start
      <3> HIDE DEF b
      <3> QED
        BY <1>5, <2>1, <2>3, <3>1
    <2> QED
      BY <1>6, <2>4, <2>5
  <1>7. ASSUME NEW f \in Calls, NEW u \in Keepers, NEW new \in {"AVAILABLE", "ADOPTED", "WITHDRAWN"},
               O!ChangeStatus(f, u, new)
        PROVE  AdoptionInv'
    <2> DEFINE e == [O!NoCall EXCEPT !.pc = "status", !.read = listing, !.new = new]
    <2>1. /\ adoptionCall[f].pc = "free" /\ adoptionCall' = [adoptionCall EXCEPT ![f] = e]
          /\ listing \in O!Statuses /\ listing \in O!Allowed(new)
          /\ UNCHANGED <<petType, pet, listing, adoptedAt, shown, lost>>
      BY <1>7 DEF O!ChangeStatus, O!Start, O!requireOwned
    <2>2. e \in O!Call /\ e.pc = "status" /\ e.new = new /\ e.read = listing
      BY <2>1, AdoptionConstants DEF O!NoCall, O!Call, O!Statuses
    <2> HIDE DEF e
    <2> QED
      BY <1>5, <2>1, <2>2 DEF O!Statuses
  <1>8. ASSUME NEW f \in Calls, NEW u \in Keepers, NEW n \in 0..MaxPetPhotos,
               O!update(f, u, n) \/ O!updateUserPet(f, u, n)
        PROVE  AdoptionInv'
    <2> DEFINE e == [O!NoCall EXCEPT !.pc = "edit", !.files = n]
    <2>1. /\ adoptionCall[f].pc = "free" /\ adoptionCall' = [adoptionCall EXCEPT ![f] = e]
          /\ UNCHANGED <<petType, pet, listing, adoptedAt, shown, lost>>
      BY <1>8 DEF O!update, O!updateUserPet, O!Start
    <2>3. n \in Nat /\ n <= MaxPetPhotos
      BY AdoptionConstants
    <2>2. e \in O!Call /\ e.pc = "edit" /\ e.files = n
      BY <2>3 DEF O!NoCall, O!Call
    <2> HIDE DEF e
    <2> QED
      BY <1>5, <2>1, <2>2, <2>3
  <1>9. ASSUME NEW f \in Calls, NEW u \in Keepers, O!remove(f, u) \/ O!deleteUserPet(f, u)
        PROVE  AdoptionInv'
    <2> DEFINE e == [O!NoCall EXCEPT !.pc = "delete", !.user = u]
    <2>1. /\ adoptionCall[f].pc = "free" /\ adoptionCall' = [adoptionCall EXCEPT ![f] = e]
          /\ UNCHANGED <<petType, pet, listing, adoptedAt, shown, lost>>
      BY <1>9 DEF O!remove, O!deleteUserPet, O!Start
    <2>2. e \in O!Call /\ e.pc = "delete"
      BY AdoptionConstants DEF O!NoCall, O!Call
    <2> HIDE DEF e
    <2> QED
      BY <1>5, <2>1, <2>2
  <1>10. ASSUME NEW f \in Calls, NEW u \in Keepers, NEW n \in 1..MaxFiles, O!uploadPhotos(f, u, n)
         PROVE  AdoptionInv'
    <2> DEFINE e == [O!NoCall EXCEPT !.pc = "uploaded", !.user = u, !.files = n]
    <2>1. /\ adoptionCall[f].pc = "free" /\ adoptionCall' = [adoptionCall EXCEPT ![f] = e]
          /\ UNCHANGED <<petType, pet, listing, adoptedAt, shown, lost>>
      BY <1>10 DEF O!uploadPhotos, O!Start
    <2>3. n \in Nat /\ n <= MaxFiles
      BY AdoptionConstants
    <2>2. e \in O!Call /\ e.pc = "uploaded" /\ e.files = n
      BY <2>3 DEF O!NoCall, O!Call
    <2> HIDE DEF e
    <2> QED
      BY <1>5, <2>1, <2>2, <2>3
  \* The last statement of call f, for what it writes outside the photos.
  <1>11. ASSUME NEW f \in Calls, adoptionCall[f].pc # "push", adoptionCall' = O!End(f),
                petType' = petType, shown' = shown, ListingOK',
                pet' \in Pet, pet'.photos = pet.photos \/ pet'.photos <= O!Limit,
                listing' \in O!Statuses \cup {"none", "deleted"}, adoptedAt' \in BOOLEAN, lost' \in BOOLEAN
         PROVE  AdoptionInv'
    <2>1. O!NoCall \in O!Call /\ O!NoCall.pc = "free" /\ adoptionCall' = [adoptionCall EXCEPT ![f] = O!NoCall]
      BY <1>11, AdoptionConstants DEF O!End, O!NoCall
    <2>2. adoptionCall'[f] = O!NoCall
      BY <1>0, <2>1
    <2>3. AdoptionCallOK(f)'
      BY <2>1, <2>2 DEF AdoptionCallOK
    <2>4. PhotosFit'
      BY <1>11, <2>1, NoPush DEF Pet
    <2> QED
      BY <1>0, <1>11, <2>1, <2>3, <2>4, AdoptionStep DEF Pet
  <1>12. ASSUME NEW f \in Calls, O!createPet(f)
         PROVE  AdoptionInv'
    <2> DEFINE me == adoptionCall[f]
    <2>1. /\ me \in O!Call /\ me.pc = "insert" /\ AdoptionCallOK(f) /\ adoptionCall' = O!End(f)
          /\ UNCHANGED <<petType, adoptedAt, shown, lost>>
      BY <1>0, <1>12 DEF O!createPet
    <2>2. CASE UNCHANGED <<pet, listing>>
      <3>1. ListingOK'
        BY <1>0, <2>1, <2>2 DEF ListingOK
      <3> QED
        BY <1>0, <1>11, <2>1, <2>2, <3>1
    <2>3. CASE /\ me.type \in petType /\ listing = "none"
               /\ pet' = [owner |-> me.user, type |-> me.type, photos |-> me.files] /\ listing' = me.new
      <3>1. me.user \in Keepers /\ me.new \in {"none", "AVAILABLE"} /\ me.files <= O!Limit /\ me.files \in Nat
        <4>1. me.files \in Nat /\ me.files <= MaxPetPhotos /\ me.user \in Keepers /\ me.new \in {"none", "AVAILABLE"}
          BY <2>1 DEF AdoptionCallOK, O!Call
        <4> QED
          BY <4>1, AdoptionConstants
      <3>2. pet' \in Pet /\ pet'.photos = me.files /\ pet'.owner = me.user
        BY <1>0, <2>3, <3>1 DEF Pet
      <3>3. ListingOK'
        BY <1>0, <2>1, <2>3, <3>1, <3>2 DEF ListingOK, O!Statuses
      <3>4. listing' \in O!Statuses \cup {"none", "deleted"}
        BY <2>3, <3>1 DEF O!Statuses
      <3> QED
        BY <1>0, <1>11, <2>1, <3>1, <3>2, <3>3, <3>4
    <2> QED
      BY <1>12, <2>2, <2>3 DEF O!createPet
  <1>13. ASSUME NEW f \in Calls, O!WriteStatus(f)
         PROVE  AdoptionInv'
    <2> DEFINE me == adoptionCall[f]
    <2>1. /\ me \in O!Call /\ me.pc = "status" /\ AdoptionCallOK(f) /\ adoptionCall' = O!End(f)
          /\ UNCHANGED <<petType, pet, shown>>
      BY <1>0, <1>13 DEF O!WriteStatus
    <2>2. CASE UNCHANGED <<listing, adoptedAt, lost>>
      <3>1. ListingOK'
        BY <1>0, <2>1, <2>2 DEF ListingOK
      <3> QED
        BY <1>0, <1>11, <2>1, <2>2, <3>1
    <2>3. CASE /\ listing \in O!Statuses /\ listing' = me.new
               /\ adoptedAt' = (adoptedAt \/ me.new = "ADOPTED") /\ lost' = (lost \/ listing # me.read)
      <3>1. me.new \in O!Statuses /\ me.read \in O!Allowed(me.new)
        BY <2>1 DEF AdoptionCallOK
      <3>2. me.read # "ADOPTED"
        BY <3>1 DEF O!Allowed
      <3>3. ListingOK'
        BY <1>0, <2>1, <2>3, <3>1, <3>2 DEF ListingOK
      <3> QED
        BY <1>0, <1>11, <2>1, <2>3, <3>1, <3>3
    <2> QED
      BY <1>13, <2>2, <2>3 DEF O!WriteStatus
  <1>14. ASSUME NEW f \in Calls, O!updatePet(f)
         PROVE  AdoptionInv'
    <2> DEFINE me == adoptionCall[f]
    <2>1. /\ me \in O!Call /\ me.pc = "edit" /\ AdoptionCallOK(f) /\ adoptionCall' = O!End(f)
          /\ UNCHANGED <<petType, listing, adoptedAt, shown, lost>>
          /\ pet' = IF pet = O!NoPetRow THEN pet ELSE [pet EXCEPT !.photos = me.files]
      BY <1>0, <1>14 DEF O!updatePet
    <2>2. me.files \in Nat /\ me.files <= O!Limit
      <3>1. me.files \in Nat /\ me.files <= MaxPetPhotos
        BY <2>1 DEF AdoptionCallOK, O!Call
      <3> QED
        BY <3>1, AdoptionConstants
    <2>3. pet' \in Pet /\ pet'.owner = pet.owner /\ (pet'.photos = pet.photos \/ pet'.photos <= O!Limit)
      BY <1>0, <2>1, <2>2 DEF Pet
    <2>4. ListingOK'
      BY <1>0, <2>1, <2>3 DEF ListingOK
    <2> QED
      BY <1>0, <1>11, <2>1, <2>3, <2>4
  <1>15. ASSUME NEW f \in Calls, O!deletePet(f)
         PROVE  AdoptionInv'
    <2>1. /\ adoptionCall[f].pc = "delete" /\ adoptionCall' = O!End(f) /\ UNCHANGED <<petType, shown>>
      BY <1>15 DEF O!deletePet
    <2>2. CASE UNCHANGED <<pet, listing, adoptedAt, lost>>
      <3>1. ListingOK'
        BY <1>0, <2>2 DEF ListingOK
      <3> QED
        BY <1>0, <1>11, <2>1, <2>2, <3>1
    <2>3. CASE pet' = O!NoPetRow /\ listing' = "deleted" /\ adoptedAt' = FALSE /\ lost' = FALSE
      <3>1. ListingOK'
        BY <2>3 DEF ListingOK, O!Statuses
      <3>2. pet' \in Pet /\ pet'.photos <= O!Limit
        BY <2>3, AdoptionConstants DEF Pet
      <3> QED
        BY <1>0, <1>11, <2>1, <2>3, <3>1, <3>2
    <2> QED
      BY <1>15, <2>2, <2>3 DEF O!deletePet
  <1>16. ASSUME NEW f \in Calls, O!addPhotos(f)
         PROVE  AdoptionInv'
    <2> DEFINE me == adoptionCall[f]
    <2>1. /\ me \in O!Call /\ me.pc = "uploaded" /\ AdoptionCallOK(f)
          /\ UNCHANGED <<petType, pet, listing, adoptedAt, shown, lost>>
      BY <1>0, <1>16 DEF O!addPhotos
    <2>2. ListingOK'
      BY <1>0, <2>1 DEF ListingOK
    <2>3. CASE adoptionCall' = O!End(f)
      BY <1>0, <1>11, <2>1, <2>2, <2>3
    <2>4. CASE pet.photos + me.files <= MaxAdoptionPhotos /\ adoptionCall' = [adoptionCall EXCEPT ![f].pc = "push"]
      <3> DEFINE e == [me EXCEPT !.pc = "push"]
                 new == [g \in Calls |-> adoptionCall'[g].files]
      <3>1. e \in O!Call /\ e.pc = "push" /\ e.files = me.files /\ adoptionCall' = [adoptionCall EXCEPT ![f] = e]
        BY <1>0, <2>1, <2>4 DEF O!Call
      <3> HIDE DEF e
      <3>2. adoptionCall'[f] = e /\ \A g \in Calls : g # f => adoptionCall'[g] = adoptionCall[g]
        BY <1>0, <3>1
      <3>3. AdoptionCallOK(f)'
        BY <2>1, <3>1, <3>2 DEF AdoptionCallOK
      <3>4. Pushing \in SUBSET Calls /\ f \in Calls \ Pushing /\ Pushing' = Pushing \cup {f}
        BY <2>1, <3>1, <3>2 DEF Pushing
      <3>5. new \in [Calls -> Nat] /\ new[f] = me.files
        <4>1. \A g \in Calls : adoptionCall'[g] \in O!Call
          BY <1>0, <3>1
        <4> QED
          BY <4>1, <3>1, <3>2 DEF O!Call
      <3>6. pet.photos \in Nat /\ pet.photos + new[f] <= O!Limit
        <4>1. pet.photos \in Nat /\ me.files \in Nat
          BY <1>0, <2>1 DEF Pet, O!Call
        <4> QED
          BY <2>4, <3>5, <4>1, AdoptionConstants
      <3> HIDE DEF new
      <3>7. Fit(pet.photos, Pushing \cup {f}, new, MaxFiles, PhotoBound)
        BY <3>4, <3>5, <3>6, AdoptionConstants, FitMore
      <3>8. PhotosFit'
        BY <2>1, <3>4, <3>7 DEF PhotosFit, new
      <3> QED
        BY <1>0, <2>1, <2>2, <3>1, <3>3, <3>8, AdoptionStep DEF Pet
    <2> QED
      BY <1>16, <2>3, <2>4 DEF O!addPhotos
  <1>17. ASSUME NEW f \in Calls, O!PushPhotos(f)
         PROVE  AdoptionInv'
    <2> DEFINE me == adoptionCall[f]
               old == [g \in Calls |-> adoptionCall[g].files]
               new == [g \in Calls |-> adoptionCall'[g].files]
    <2>1. /\ me \in O!Call /\ me.pc = "push" /\ AdoptionCallOK(f)
          /\ adoptionCall' = [adoptionCall EXCEPT ![f] = O!NoCall]
          /\ UNCHANGED <<petType, listing, adoptedAt, shown, lost>>
          /\ pet' = IF pet = O!NoPetRow THEN pet ELSE [pet EXCEPT !.photos = pet.photos + me.files]
      BY <1>0, <1>17 DEF O!PushPhotos, O!End
    <2>2. /\ adoptionCall'[f] = O!NoCall /\ O!NoCall.pc = "free"
          /\ \A g \in Calls : g # f => adoptionCall'[g] = adoptionCall[g]
      BY <1>0, <2>1 DEF O!NoCall
    <2>3. AdoptionCallOK(f)'
      BY <2>2 DEF AdoptionCallOK
    <2>4. me.files \in Nat /\ me.files <= MaxFiles /\ pet.photos \in Nat
      BY <1>0, <2>1 DEF O!Call, AdoptionCallOK, Pet
    <2>5. pet' \in Pet /\ pet'.owner = pet.owner /\ pet'.photos \in Nat /\ pet'.photos <= pet.photos + me.files
      BY <1>0, <2>1, <2>4 DEF Pet
    <2>6. ListingOK'
      BY <1>0, <2>1, <2>5 DEF ListingOK
    <2>7. /\ Pushing \in SUBSET Calls /\ f \in Pushing /\ Pushing' = Pushing \ {f}
          /\ Pushing \ {f} \in SUBSET Calls
      BY <2>1, <2>2 DEF Pushing
    <2>8. old \in [Calls -> Nat] /\ old[f] = me.files /\ \A g \in Pushing \ {f} : new[g] = old[g]
      BY <1>0, <2>2 DEF O!Call, Pushing
    <2>9. Fit(pet.photos, Pushing, old, MaxFiles, PhotoBound)
      BY <1>0 DEF PhotosFit
    <2> HIDE DEF old, new
    <2>10. Fit(pet'.photos, Pushing \ {f}, old, MaxFiles, PhotoBound)
      BY <2>4, <2>5, <2>7, <2>8, <2>9, AdoptionConstants, FitLess
    <2>11. Fit(pet'.photos, Pushing \ {f}, new, MaxFiles, PhotoBound)
      BY <2>7, <2>8, <2>10, FitKept
    <2>12. PhotosFit'
      BY <2>7, <2>11 DEF PhotosFit, new
    <2> QED
      BY <1>0, <2>1, <2>3, <2>5, <2>6, <2>12, AdoptionConstants, AdoptionStep DEF Pet
  <1>18. ASSUME NEW f \in Calls, NEW u \in Keepers,
                O!ListingEndpoints(f, u) \/ O!PhotoEndpoint(f, u) \/ O!PetRoutes(f, u)
         PROVE  AdoptionInv'
    BY <1>6, <1>7, <1>8, <1>9, <1>10, <1>18
    DEF O!ListingEndpoints, O!PhotoEndpoint, O!PetRoutes, O!markAdopted, O!withdraw, O!relist
  <1> QED
    BY <1>2, <1>3, <1>4, <1>12, <1>13, <1>14, <1>15, <1>16, <1>17, <1>18
    DEF O!Next, O!PetTypesController

\* An adopted pet stays off the board: adoption.service.ts:391.
THEOREM AdoptedSafe == Spec => []AdoptedStaysOffBoard
  <1> DEFINE Inv == part = "adoption" => AdoptionInv
  <1>1. Init => Inv
    BY AdoptionInit DEF Init
  <1>2. Inv /\ [Next]_vars => Inv'
    BY Parts, AdoptionNext
  <1>3. AdoptionInv => O!AdoptedStaysOffBoard
    <2> SUFFICES ASSUME AdoptionInv, adoptedAt, ~lost, NEW u \in Keepers
                 PROVE  /\ O!Seen(u).mine \subseteq {"ADOPTED"}
                        /\ O!Seen(u).one => O!SeenPets(u).one /\ O!getUserPet(u, u)
                        /\ ~O!SeenPets(u).all /\ ~O!getUserPets(u, u) /\ O!SeenPets(u).tag
      BY DEF O!AdoptedStaysOffBoard
    <2>1. listing = "ADOPTED" /\ listing \in O!Statuses /\ pet.owner \in Keepers /\ pet # O!NoPetRow
      BY RecordsAssumption DEF AdoptionInv, ListingOK, O!NoPetRow
    <2> QED
      BY <2>1
      DEF O!Seen, O!SeenPets, O!findMine, O!findOneForRequester, O!requireOwned,
          O!findAllByUser,
                  O!findOnePet, O!getUserPet, O!getUserPets
  <1>4. Inv => AdoptedStaysOffBoard
    BY <1>3 DEF AdoptedStaysOffBoard
  <1> QED
    BY <1>1, <1>2, <1>4, PTL DEF Spec

--------------------------------------------------------------------------------
(* Sightings *)

Row == [by : Users \cup {Nobody}, photo : Nat, photos : Seq(Nat), dismissed : BOOLEAN, late : BOOLEAN]
UploadSteps == {"upload", "append", "write"}
SightingCall == [pc : {"free", "insert", "notify", "mail", "dismiss"} \cup UploadSteps,
                 by : Users \cup {Nobody}, id : {0} \cup SightingIds, files : Nat,
                 new : Seq(Nat), read : Seq(Nat)]

SightingsType ==
  /\ sighting \in [SightingIds -> Row]
  /\ sightingCall \in [Uploaders -> SightingCall]
  /\ uploads \in Nat
  /\ stored \in [SightingIds -> SUBSET Nat]
  /\ overtaken \in [SightingIds -> Nat]

Elements(seq) == {seq[i] : i \in DOMAIN seq}

\* The photos of a row are those its uploads stored, and photo_url is the first.
RowKept(s) ==
  /\ Elements(sighting[s].photos) = stored[s]
  /\ sighting[s].photo = IF sighting[s].photos = <<>> THEN 0 ELSE sighting[s].photos[1]

Adding(s) == {f \in Uploaders : sightingCall[f].pc \in UploadSteps /\ sightingCall[f].id = s}
Size == [f \in Uploaders |-> IF sightingCall[f].pc = "upload" THEN sightingCall[f].files
                             ELSE Len(sightingCall[f].new)]

\* What the other uploads in flight bring, and the bound after n lists written over.
OthersBring == Batch * (Cardinality(Uploaders) - 1)
Bound(n) == MaxSightingPhotos + OthersBring * (n + 1)

SightingFit(s) == Fit(Len(sighting[s].photos), Adding(s), Size, Batch, Bound(overtaken[s]))

\* A list that is about to be written back is not longer than the row's, or leaves room for the others.
ReadFit(f) ==
  LET me == sightingCall[f] IN
  me.pc = "write" =>
    \/ Len(me.read) <= Len(sighting[me.id].photos)
    \/ Len(me.read) + Len(me.new) + OthersBring <= Bound(overtaken[me.id])

UploadOK(f) ==
  LET me == sightingCall[f] IN
  /\ me.pc \in UploadSteps => me.id \in SightingIds /\ sighting[me.id].by # Nobody /\ Size[f] \in 1..Batch

SightingsInv ==
  /\ SightingsType
  /\ \A s \in SightingIds : RowKept(s) /\ SightingFit(s)
  /\ \A f \in Uploaders : UploadOK(f) /\ ReadFit(f)

LEMMA SightingConstants ==
  /\ IsFiniteSet(Uploaders) /\ Cardinality(Uploaders) - 1 \in Nat
  /\ MaxSightingPhotos \in Nat /\ MaxSightingPhotos >= 1 /\ Batch \in Nat /\ Batch >= 1
  /\ OthersBring \in Nat
  /\ \A n \in Nat : /\ Bound(n) \in Nat /\ Bound(n + 1) = Bound(n) + OthersBring
                    /\ MaxSightingPhotos + OthersBring <= Bound(n)
  /\ S!NoCall \in SightingCall /\ S!NoCall.pc = "free" /\ S!NoSighting \in Row
  <1>1. IsFiniteSet(Uploaders) /\ Uploaders # {} /\ MaxSightingPhotos \in Nat /\ MaxSightingPhotos >= 1
        /\ Batch \in Nat /\ Batch >= 1
    BY RecordsAssumption
  <1>2. Cardinality(Uploaders) - 1 \in Nat
    BY <1>1, FS_EmptySet, FS_CardinalityType
  <1>3. OthersBring \in Nat
    BY <1>1, <1>2, Product DEF OthersBring
  <1>4. ASSUME NEW n \in Nat
        PROVE  /\ Bound(n) \in Nat /\ Bound(n + 1) = Bound(n) + OthersBring
               /\ MaxSightingPhotos + OthersBring <= Bound(n)
    <2>1. /\ OthersBring * n \in Nat /\ OthersBring * (n + 1) = OthersBring * n + OthersBring
          /\ OthersBring * ((n + 1) + 1) = OthersBring * (n + 1) + OthersBring
      BY <1>3, Product
    <2> QED
      BY <1>1, <1>3, <2>1 DEF Bound
  <1>5. S!NoCall \in SightingCall /\ S!NoCall.pc = "free" /\ S!NoSighting \in Row
    BY DEF S!NoCall, SightingCall, S!NoSighting, Row
  <1> QED
    BY <1>1, <1>2, <1>3, <1>4, <1>5

LEMMA Concat ==
  ASSUME NEW a \in Seq(Nat), NEW b \in Seq(Nat)
  PROVE  /\ a \o b \in Seq(Nat) /\ Len(a \o b) = Len(a) + Len(b)
         /\ Elements(a \o b) = Elements(a) \cup Elements(b)
  <1>1. a \o b \in Seq(Nat) /\ Len(a \o b) = Len(a) + Len(b) /\ Len(a) \in Nat /\ Len(b) \in Nat
    OBVIOUS
  <1>2. /\ DOMAIN a = 1..Len(a) /\ DOMAIN b = 1..Len(b) /\ DOMAIN (a \o b) = 1..(Len(a) + Len(b))
    BY <1>1
  <1>3. ASSUME NEW i \in DOMAIN a PROVE i \in DOMAIN (a \o b) /\ (a \o b)[i] = a[i]
    BY <1>1, <1>2
  <1>4. ASSUME NEW i \in DOMAIN b PROVE Len(a) + i \in DOMAIN (a \o b) /\ (a \o b)[Len(a) + i] = b[i]
    BY <1>1, <1>2
  <1>5. ASSUME NEW i \in DOMAIN (a \o b)
        PROVE  (i \in DOMAIN a /\ (a \o b)[i] = a[i]) \/ (i - Len(a) \in DOMAIN b /\ (a \o b)[i] = b[i - Len(a)])
    BY <1>1, <1>2
  <1> DEFINE c == a \o b
  <1> HIDE DEF c
  <1>6. Elements(c) \subseteq Elements(a) \cup Elements(b)
    BY <1>5 DEF Elements, c
  <1>7. Elements(a) \subseteq Elements(c)
    BY <1>3 DEF Elements, c
  <1>8. Elements(b) \subseteq Elements(c)
    BY <1>4 DEF Elements, c
  <1> QED
    BY <1>1, <1>6, <1>7, <1>8 DEF c

LEMMA SightingsInit == S!Init => SightingsInv
  <1> SUFFICES ASSUME S!Init PROVE SightingsInv
    OBVIOUS
  <1>1. S!NoSighting \in Row /\ S!NoSighting.photos = <<>> /\ S!NoSighting.photo = 0
    BY DEF S!NoSighting, Row
  <1>2. SightingsType
    BY <1>1, SightingConstants DEF S!Init, SightingsType
  <1>3. \A f \in Uploaders : sightingCall[f].pc = "free"
    BY SightingConstants DEF S!Init
  <1>4. \A f \in Uploaders : UploadOK(f) /\ ReadFit(f)
    BY <1>3 DEF UploadOK, ReadFit, UploadSteps
  <1>5. ASSUME NEW s \in SightingIds PROVE RowKept(s) /\ SightingFit(s)
    <2>1. sighting[s].photos = <<>> /\ sighting[s].photo = 0 /\ stored[s] = {} /\ overtaken[s] = 0
      BY <1>1 DEF S!Init
    <2>2. RowKept(s)
      BY <2>1 DEF RowKept, Elements
    <2>3. Adding(s) = {} /\ Cardinality(Adding(s)) = 0 /\ Len(sighting[s].photos) = 0
      BY <1>3, <2>1, FS_EmptySet DEF Adding, UploadSteps
    <2>4. Len(sighting[s].photos) + Batch * Cardinality(Adding(s)) <= Bound(overtaken[s])
      BY <2>1, <2>3, SightingConstants
    <2> QED
      BY <2>2, <2>4 DEF SightingFit, Fit
  <1> QED
    BY <1>2, <1>4, <1>5 DEF SightingsInv

\* Call f goes to e; what that says of the calls and of the sightings it is not busy with.
LEMMA CallStep ==
  ASSUME SightingsInv, NEW f \in Uploaders, NEW e \in SightingCall,
         sightingCall' = [sightingCall EXCEPT ![f] = e]
  PROVE  /\ sightingCall' \in [Uploaders -> SightingCall] /\ sightingCall'[f] = e
         /\ \A g \in Uploaders : g # f => sightingCall'[g] = sightingCall[g] /\ Size'[g] = Size[g]
         /\ Size'[f] = IF e.pc = "upload" THEN e.files ELSE Len(e.new)
         /\ Size \in [Uploaders -> Nat] /\ Size' \in [Uploaders -> Nat]
  <1>1. sightingCall \in [Uploaders -> SightingCall]
    BY DEF SightingsInv, SightingsType
  <1>2. /\ sightingCall' \in [Uploaders -> SightingCall] /\ sightingCall'[f] = e
        /\ \A g \in Uploaders : g # f => sightingCall'[g] = sightingCall[g]
    BY <1>1
  <1>3. \A g \in Uploaders : /\ sightingCall[g].files \in Nat /\ Len(sightingCall[g].new) \in Nat
                             /\ sightingCall'[g].files \in Nat /\ Len(sightingCall'[g].new) \in Nat
    BY <1>1, <1>2 DEF SightingCall
  <1>4. Size \in [Uploaders -> Nat] /\ Size' \in [Uploaders -> Nat]
    BY <1>3 DEF Size
  <1>5. \A g \in Uploaders : g # f => Size'[g] = Size[g]
    BY <1>2 DEF Size
  <1>6. Size'[f] = IF e.pc = "upload" THEN e.files ELSE Len(e.new)
    BY <1>2 DEF Size
  <1> QED
    BY <1>2, <1>4, <1>5, <1>6

LEMMA AddingStep ==
  ASSUME SightingsInv, NEW f \in Uploaders, NEW e \in SightingCall,
         sightingCall' = [sightingCall EXCEPT ![f] = e], NEW s \in SightingIds
  PROVE  /\ Adding(s) \in SUBSET Uploaders
         /\ Adding(s)' = IF e.pc \in UploadSteps /\ e.id = s THEN Adding(s) \cup {f} ELSE Adding(s) \ {f}
  <1>1. sightingCall'[f] = e /\ \A g \in Uploaders : g # f => sightingCall'[g] = sightingCall[g]
    BY CallStep
  <1> QED
    BY <1>1 DEF Adding

LEMMA OtherSighting ==
  ASSUME SightingsInv, NEW f \in Uploaders, NEW e \in SightingCall,
         sightingCall' = [sightingCall EXCEPT ![f] = e], NEW s \in SightingIds,
         \/ f \notin Adding(s) /\ ~(e.pc \in UploadSteps /\ e.id = s)
         \/ f \in Adding(s) /\ e.pc \in UploadSteps /\ e.id = s /\ Size'[f] = Size[f],
         sighting'[s].photos = sighting[s].photos, overtaken'[s] = overtaken[s]
  PROVE  SightingFit(s)'
  <1> DEFINE old == Size
             new == Size'
  <1>1. Adding(s)' = Adding(s) /\ Adding(s) \in SUBSET Uploaders /\ \A g \in Adding(s) : new[g] = old[g]
    <2>1. Adding(s) \in SUBSET Uploaders
      BY DEF Adding
    <2>2. Adding(s)' = IF e.pc \in UploadSteps /\ e.id = s THEN Adding(s) \cup {f} ELSE Adding(s) \ {f}
      BY AddingStep
    <2>3. \A g \in Uploaders : g # f => Size'[g] = Size[g]
      BY CallStep
    <2>4. Adding(s)' = Adding(s)
      BY <2>2
    <2> QED
      BY <2>1, <2>3, <2>4
  <1>2. Fit(Len(sighting[s].photos), Adding(s), old, Batch, Bound(overtaken[s]))
    BY DEF SightingsInv, SightingFit
  <1> HIDE DEF old, new
  <1>3. Fit(Len(sighting[s].photos), Adding(s), new, Batch, Bound(overtaken[s]))
    BY <1>1, <1>2, FitKept
  <1>4. Fit(Len(sighting'[s].photos), Adding(s)', new, Batch, Bound(overtaken'[s]))
    BY <1>1, <1>3
  <1> QED
    BY <1>4 DEF SightingFit, new

\* What the invariant needs of call f and of the rows, once it is known for the others.
LEMMA SightingStep ==
  ASSUME SightingsInv, NEW f \in Uploaders, NEW e \in SightingCall,
         sightingCall' = [sightingCall EXCEPT ![f] = e],
         sighting' \in [SightingIds -> Row], uploads' \in Nat, stored' \in [SightingIds -> SUBSET Nat],
         overtaken' \in [SightingIds -> Nat],
         \A s \in SightingIds : sighting[s].by # Nobody => sighting'[s].by # Nobody,
         \A s \in SightingIds : RowKept(s)' /\ SightingFit(s)',
         UploadOK(f)', ReadFit(f)',
         \A g \in Uploaders : g # f => ReadFit(g)'
  PROVE  SightingsInv'
  <1>1. SightingsType'
    BY CallStep DEF SightingsType
  <1>2. ASSUME NEW g \in Uploaders, g # f PROVE UploadOK(g)'
    <2>1. sightingCall'[g] = sightingCall[g] /\ Size'[g] = Size[g]
      <3>1. \A h \in Uploaders : h # f => sightingCall'[h] = sightingCall[h] /\ Size'[h] = Size[h]
        BY CallStep
      <3> QED
        BY <1>2, <3>1
    <2>2. UploadOK(g)
      BY DEF SightingsInv
    <2> QED
      BY <2>1, <2>2 DEF UploadOK
  <1> QED
    BY <1>1, <1>2 DEF SightingsInv

\* A call that writes no list, and whose upload, if any, is as it was.
LEMMA QuietStep ==
  ASSUME SightingsInv, NEW f \in Uploaders, NEW e \in SightingCall,
         sightingCall' = [sightingCall EXCEPT ![f] = e],
         \/ sightingCall[f].pc \notin UploadSteps /\ e.pc \notin UploadSteps
         \/ /\ sightingCall[f].pc \in UploadSteps /\ e.pc \in UploadSteps
            /\ e.id = sightingCall[f].id /\ Size'[f] = Size[f],
         sighting' \in [SightingIds -> Row], uploads' \in Nat,
         \A s \in SightingIds : /\ sighting'[s].by = sighting[s].by
                                /\ sighting'[s].photos = sighting[s].photos
                                /\ sighting'[s].photo = sighting[s].photo,
         stored' = stored, overtaken' = overtaken,
         e.pc = "write" => Len(e.read) <= Len(sighting[e.id].photos)
  PROVE  SightingsInv'
  <1>1. sightingCall'[f] = e /\ \A g \in Uploaders : g # f => sightingCall'[g] = sightingCall[g]
    BY CallStep
  <1>2. stored' \in [SightingIds -> SUBSET Nat] /\ overtaken' \in [SightingIds -> Nat]
    BY DEF SightingsInv, SightingsType
  <1>3. ASSUME NEW s \in SightingIds PROVE SightingFit(s)'
    <2>1. \/ f \notin Adding(s) /\ ~(e.pc \in UploadSteps /\ e.id = s)
          \/ f \in Adding(s) /\ e.pc \in UploadSteps /\ e.id = s /\ Size'[f] = Size[f]
      BY DEF Adding
    <2> QED
      BY <1>2, <2>1, OtherSighting
  <1>4. \A s \in SightingIds : RowKept(s)'
    BY DEF SightingsInv, RowKept, Elements
  <1>5. UploadOK(f) /\ (e.pc \in UploadSteps => sightingCall[f].pc \in UploadSteps
                                                 /\ e.id = sightingCall[f].id /\ Size'[f] = Size[f])
    BY DEF SightingsInv
  <1>6. UploadOK(f)'
    BY <1>1, <1>5 DEF UploadOK
  <1>7. ReadFit(f)'
    <2>1. e.pc = "write" => e.id \in SightingIds
      BY <1>5 DEF UploadOK, UploadSteps
    <2> QED
      BY <1>1, <2>1 DEF ReadFit
  <1>8. ASSUME NEW g \in Uploaders, g # f PROVE ReadFit(g)'
    <2>1. sightingCall'[g] = sightingCall[g] /\ ReadFit(g) /\ UploadOK(g)
      BY <1>1, <1>8 DEF SightingsInv
    <2>2. sightingCall[g].pc = "write" => sightingCall[g].id \in SightingIds
      BY <2>1 DEF UploadOK, UploadSteps
    <2> QED
      BY <2>1, <2>2 DEF ReadFit
  <1> QED
    BY <1>2, <1>3, <1>4, <1>6, <1>7, <1>8, SightingStep

\* What is left to fit once f has stored y photos in place of x.
LEMMA FitWritten ==
  ASSUME NEW X, IsFiniteSet(X), NEW R \in SUBSET X, NEW f \in R, NEW F \in Nat,
         NEW old \in [X -> Nat], NEW new \in [X -> Nat], old[f] <= F, \A g \in R : g # f => new[g] = old[g],
         NEW x \in Nat, NEW y \in Nat, NEW r \in Nat, y = r + old[f],
         NEW others \in Nat, others = F * (Cardinality(X) - 1),
         NEW bound \in Nat, NEW more \in Nat, bound <= more, Fit(x, R, old, F, bound),
         r <= x \/ r + old[f] + others <= bound
  PROVE  Fit(y, R \ {f}, new, F, more)
  <1> DEFINE Q == R \ {f}
  <1>1. Q \in SUBSET X /\ f \in X \ Q /\ old[f] \in Nat
    OBVIOUS
  <1>2. ASSUME r <= x
        PROVE  Fit(y, Q, old, F, bound)
    <2>1. y <= x + old[f]
      BY <1>1, <1>2
    <2> QED
      BY <2>1, FitLess
  <1>3. ASSUME r + old[f] + others <= bound
        PROVE  Fit(y, Q, old, F, bound)
    <2> DEFINE limit == y
    <2>1. limit \in Nat /\ y <= limit /\ limit + F * (Cardinality(X) - 1) <= bound
      BY <1>1, <1>3
    <2> HIDE DEF limit, Q
    <2>2. Fit(y, Q, old, F, bound)
      BY <1>1, <2>1, FitReset
    <2> QED
      BY <2>2 DEF Q
  <1>4. Fit(y, Q, old, F, bound)
    BY <1>2, <1>3
  <1> HIDE DEF Q
  <1>5. Fit(y, Q, old, F, more)
    BY <1>1, <1>4, FitRaise
  <1>6. \A g \in Q : new[g] = old[g]
    BY DEF Q
  <1>7. Fit(y, Q, new, F, more)
    BY <1>1, <1>5, <1>6, FitKept
  <1> QED
    BY <1>7 DEF Q

\* A list that was read stays no longer than the row's, or leaves room for the others.
LEMMA ReadAfter ==
  ASSUME NEW x \in Nat, NEW y \in Nat, NEW r \in Nat, NEW a \in Nat, NEW others \in Nat,
         NEW bound \in Nat, NEW more \in Nat, bound <= more,
         r <= x \/ r + a + others <= bound, x + a <= bound,
         x <= y \/ more = bound + others
  PROVE  r <= y \/ r + a + others <= more
  OBVIOUS

\* f writes the list it read, r, with the photos it brings, a, to the row of t.
LEMMA WriteStep ==
  ASSUME SightingsInv, NEW f \in Uploaders, S!WritePhotos(f)
  PROVE  SightingsInv'
  <1>0. /\ sighting \in [SightingIds -> Row] /\ sightingCall \in [Uploaders -> SightingCall]
        /\ uploads \in Nat /\ stored \in [SightingIds -> SUBSET Nat] /\ overtaken \in [SightingIds -> Nat]
        /\ \A s \in SightingIds : sighting[s] \in Row
        /\ \A g \in Uploaders : sightingCall[g] \in SightingCall
    BY DEF SightingsInv, SightingsType
  <1>t. PICK t : t = sightingCall[f].id
    OBVIOUS
  <1>r. PICK r, a : r = sightingCall[f].read /\ a = sightingCall[f].new
    OBVIOUS
  <1>w. PICK was, k : was = sighting[t] /\ k = overtaken[t]
    OBVIOUS
  <1>p. PICK photos : photos = r \o a
    OBVIOUS
  <1>q. PICK q : q = [was EXCEPT !.photos = photos, !.photo = photos[1]]
    OBVIOUS
  <1>d. PICK d : d = IF was.photos = r THEN stored[t] \cup Elements(a) ELSE Elements(photos)
    OBVIOUS
  <1>l. PICK l : l = IF was.photos = r THEN k ELSE k + 1
    OBVIOUS
  <1>R. PICK R, old : R = Adding(t) /\ old = Size
    OBVIOUS
  <1>e. PICK e : e = S!NoCall
    OBVIOUS
  <1>1. /\ sightingCall[f].pc = "write" /\ sightingCall' = [sightingCall EXCEPT ![f] = e] /\ uploads' = uploads
        /\ sighting' = [sighting EXCEPT ![t] = q]
        /\ stored' = [stored EXCEPT ![t] = d]
        /\ overtaken' = [overtaken EXCEPT ![t] = l]
    <2>1. sightingCall[f].pc = "write" /\ sightingCall' = [sightingCall EXCEPT ![f] = e] /\ uploads' = uploads
      BY <1>e DEF S!WritePhotos, S!End
    <2>2. sighting' = [sighting EXCEPT ![t] = q]
      BY <1>t, <1>r, <1>w, <1>p, <1>q DEF S!WritePhotos, S!Appended
    <2>3. stored' = [stored EXCEPT ![t] = d]
      BY <1>t, <1>r, <1>w, <1>p, <1>d DEF S!WritePhotos, Elements
    <2>4. overtaken' = [overtaken EXCEPT ![t] = l]
      BY <1>t, <1>r, <1>w, <1>l DEF S!WritePhotos
    <2> QED
      BY <2>1, <2>2, <2>3, <2>4
  <1>2. t \in SightingIds /\ was.by # Nobody /\ old[f] = Len(a) /\ old[f] \in 1..Batch
    <2>1. UploadOK(f) /\ sightingCall[f].pc \in UploadSteps
      BY <1>1 DEF SightingsInv, UploadSteps
    <2>2. Size[f] = Len(a)
      BY <1>1, <1>r DEF Size
    <2> QED
      BY <2>1, <2>2, <1>t, <1>w, <1>R DEF UploadOK
  <1>3. r \in Seq(Nat) /\ a \in Seq(Nat) /\ was \in Row /\ was.photos \in Seq(Nat) /\ k \in Nat /\ l \in Nat
        /\ stored[t] \in SUBSET Nat
    BY <1>0, <1>2, <1>r, <1>w, <1>l DEF Row, SightingCall
  <1>4. /\ photos \in Seq(Nat) /\ Len(photos) = Len(r) + Len(a)
        /\ Elements(photos) = Elements(r) \cup Elements(a)
    BY <1>3, <1>p, Concat
  <1>5. /\ Len(r) \in Nat /\ Len(a) \in Nat /\ Len(photos) \in Nat /\ Len(photos) >= 1
        /\ Len(was.photos) \in Nat /\ Len(photos) = Len(r) + old[f]
    <2>1. Len(r) \in Nat /\ Len(a) \in Nat /\ Len(was.photos) \in Nat
      BY <1>3
    <2> QED
      BY <1>2, <1>4, <2>1, SightingConstants
  <1>6. photos # <<>> /\ photos[1] \in Nat
    BY <1>4, <1>5
  <1>7. q \in Row /\ q.photos = photos /\ q.photo = photos[1] /\ q.by = was.by
    BY <1>3, <1>4, <1>6, <1>q DEF Row
  <1>8. d \in SUBSET Nat /\ d = Elements(photos)
    <2>1. \A seq \in Seq(Nat) : Elements(seq) \in SUBSET Nat
      BY DEF Elements
    <2>2. Elements(photos) \in SUBSET Nat
      BY <1>4, <2>1
    <2>3. Elements(was.photos) = stored[t]
      BY <1>2, <1>w DEF SightingsInv, RowKept
    <2>4. CASE was.photos = r
      <3>1. d = Elements(r) \cup Elements(a)
        BY <1>d, <2>3, <2>4
      <3> QED
        BY <1>4, <2>2, <3>1
    <2>5. CASE was.photos # r
      BY <1>d, <2>2, <2>5
    <2> QED
      BY <2>4, <2>5
  <1>9. /\ sighting' \in [SightingIds -> Row] /\ stored' \in [SightingIds -> SUBSET Nat]
        /\ overtaken' \in [SightingIds -> Nat]
    <2>1. sighting' \in [SightingIds -> Row]
      BY <1>0, <1>1, <1>7
    <2>2. stored' \in [SightingIds -> SUBSET Nat]
      BY <1>0, <1>1, <1>8
    <2>3. overtaken' \in [SightingIds -> Nat]
      BY <1>0, <1>1, <1>3
    <2> QED
      BY <2>1, <2>2, <2>3
  <1>10. sighting'[t] = q /\ stored'[t] = d /\ overtaken'[t] = l
    BY <1>0, <1>1, <1>2
  <1>11. \A s \in SightingIds : s # t => /\ sighting'[s] = sighting[s] /\ stored'[s] = stored[s]
                                         /\ overtaken'[s] = overtaken[s]
    BY <1>0, <1>1
  <1>12. e \in SightingCall /\ e.pc = "free" /\ e.pc \notin UploadSteps
    BY <1>e, SightingConstants DEF UploadSteps
  <1>13. /\ sightingCall'[f] = e /\ \A g \in Uploaders : g # f => sightingCall'[g] = sightingCall[g]
         /\ \A g \in Uploaders : g # f => Size'[g] = Size[g]
         /\ Size \in [Uploaders -> Nat] /\ Size' \in [Uploaders -> Nat]
    BY <1>1, <1>12, CallStep
  <1>14. R \in SUBSET Uploaders /\ f \in R /\ old \in [Uploaders -> Nat]
    BY <1>1, <1>t, <1>R, <1>13 DEF Adding, UploadSteps
  <1>15. Adding(t)' = R \ {f}
    BY <1>1, <1>2, <1>R, <1>12, AddingStep
  <1>16. \A g \in R : old[g] <= Batch
    <2>1. \A g \in R : Size[g] \in 1..Batch
      BY <1>R DEF SightingsInv, UploadOK, Adding
    <2> QED
      BY <1>R, <2>1, SightingConstants
  <1>17. Fit(Len(was.photos), R, old, Batch, Bound(k))
    BY <1>2, <1>w, <1>R DEF SightingsInv, SightingFit
  <1>18. Bound(k) \in Nat /\ Bound(l) \in Nat /\ Bound(k) <= Bound(l) /\ OthersBring \in Nat
         /\ (was.photos # r => Bound(l) = Bound(k) + OthersBring)
    <2>1. Bound(k) \in Nat /\ OthersBring \in Nat /\ Bound(k + 1) = Bound(k) + OthersBring
      BY <1>3, SightingConstants
    <2>2. CASE was.photos = r
      BY <1>l, <2>1, <2>2
    <2>3. CASE was.photos # r
      BY <1>l, <2>1, <2>3
    <2> QED
      BY <2>2, <2>3
  <1>19. Len(r) <= Len(was.photos) \/ Len(r) + Len(a) + OthersBring <= Bound(k)
    BY <1>1, <1>t, <1>r, <1>w DEF SightingsInv, ReadFit
  <1>20. Fit(Len(photos), R \ {f}, Size', Batch, Bound(l))
    <2> DEFINE x == Len(was.photos)
               y == Len(photos)
               n == Len(r)
               new == Size'
               b == Bound(k)
               m == Bound(l)
    <2>1. /\ x \in Nat /\ y \in Nat /\ n \in Nat /\ y = n + old[f] /\ b \in Nat /\ m \in Nat /\ b <= m
          /\ Fit(x, R, old, Batch, b)
          /\ (n <= x \/ n + old[f] + OthersBring <= b)
      BY <1>2, <1>5, <1>17, <1>18, <1>19
    <2>2. new \in [Uploaders -> Nat] /\ old[f] <= Batch /\ \A g \in R : g # f => new[g] = old[g]
      BY <1>13, <1>14, <1>16, <1>R
    <2>3. IsFiniteSet(Uploaders) /\ Batch \in Nat /\ OthersBring \in Nat
          /\ OthersBring = Batch * (Cardinality(Uploaders) - 1)
      BY SightingConstants DEF OthersBring
    <2> HIDE DEF x, y, n, new, b, m
    <2>4. Fit(y, R \ {f}, new, Batch, m)
      BY <1>14, <2>1, <2>2, <2>3, FitWritten
    <2> QED
      BY <2>4 DEF y, new, m
  <1>21. ASSUME NEW s \in SightingIds PROVE RowKept(s)' /\ SightingFit(s)'
    <2>1. CASE s = t
      <3>1. RowKept(s)'
        <4>1. sighting'[s].photos = photos /\ sighting'[s].photo = photos[1] /\ stored'[s] = Elements(photos)
          BY <1>7, <1>8, <1>10, <2>1
        <4> QED
          BY <1>6, <4>1 DEF RowKept, Elements
      <3>2. SightingFit(s)'
        BY <1>7, <1>10, <1>15, <1>20, <2>1 DEF SightingFit
      <3> QED
        BY <3>1, <3>2
    <2>2. CASE s # t
      <3>1. RowKept(s)'
        BY <1>11, <2>2 DEF SightingsInv, RowKept, Elements
      <3>2. f \notin Adding(s) /\ ~(e.pc \in UploadSteps /\ e.id = s)
        BY <1>t, <1>12, <2>2 DEF Adding
      <3>3. sighting'[s].photos = sighting[s].photos /\ overtaken'[s] = overtaken[s]
        BY <1>11, <2>2
      <3>4. SightingFit(s)'
        BY <1>1, <1>12, <3>2, <3>3, OtherSighting
      <3> QED
        BY <3>1, <3>4
    <2> QED
      BY <2>1, <2>2
  <1>22. UploadOK(f)' /\ ReadFit(f)'
    BY <1>12, <1>13 DEF UploadOK, ReadFit
  <1>23. ASSUME NEW g \in Uploaders, g # f PROVE ReadFit(g)'
    <2>1. sightingCall'[g] = sightingCall[g] /\ ReadFit(g)
          /\ (sightingCall[g].pc = "write" => sightingCall[g].id \in SightingIds)
      BY <1>13, <1>23 DEF SightingsInv, UploadOK, UploadSteps
    <2>2. CASE sightingCall[g].pc # "write"
      BY <2>1, <2>2 DEF ReadFit
    <2>3. CASE sightingCall[g].pc = "write" /\ sightingCall[g].id # t
      <3>1. sighting'[sightingCall[g].id] = sighting[sightingCall[g].id]
            /\ overtaken'[sightingCall[g].id] = overtaken[sightingCall[g].id]
        BY <1>11, <2>1, <2>3
      <3> QED
        BY <2>1, <3>1 DEF ReadFit
    <2>4. CASE sightingCall[g].pc = "write" /\ sightingCall[g].id = t
      <3>1. PICK rg, ag : rg = sightingCall[g].read /\ ag = sightingCall[g].new
        OBVIOUS
      <3>2. Len(rg) \in Nat /\ Len(ag) \in Nat
        BY <1>0, <3>1 DEF SightingCall
      <3>3. g \in R /\ old[g] = Len(ag)
        BY <1>R, <2>4, <3>1 DEF Adding, Size, UploadSteps
      <3>4. Len(rg) <= Len(was.photos) \/ Len(rg) + Len(ag) + OthersBring <= Bound(k)
        BY <1>w, <2>1, <2>4, <3>1 DEF ReadFit
      <3>5. Len(was.photos) + Len(ag) <= Bound(k)
        <4> DEFINE x == Len(was.photos)
                   b == Bound(k)
        <4>1. x \in Nat /\ b \in Nat /\ Fit(x, R, old, Batch, b)
          BY <1>5, <1>17, <1>18
        <4> HIDE DEF x, b
        <4>2. \A h \in R : x + old[h] <= b
          BY <1>14, <1>16, <4>1, SightingConstants, FitRoom
        <4> QED
          BY <3>3, <4>2 DEF x, b
      <3>6. Len(was.photos) <= Len(photos) \/ Bound(l) = Bound(k) + OthersBring
        <4>1. CASE was.photos = r
          <5>1. Len(was.photos) = Len(r)
            BY <4>1
          <5> QED
            BY <1>4, <1>5, <5>1
        <4>2. CASE was.photos # r
          BY <1>18, <4>2
        <4> QED
          BY <4>1, <4>2
      <3>7. Len(rg) <= Len(photos) \/ Len(rg) + Len(ag) + OthersBring <= Bound(l)
        <4> DEFINE x == Len(was.photos)
                   y == Len(photos)
                   m == Len(rg)
                   n == Len(ag)
                   b == Bound(k)
                   c == Bound(l)
        <4>1. /\ x \in Nat /\ y \in Nat /\ m \in Nat /\ n \in Nat /\ b \in Nat /\ c \in Nat /\ b <= c
              /\ OthersBring \in Nat /\ x + n <= b
              /\ (m <= x \/ m + n + OthersBring <= b)
              /\ (x <= y \/ c = b + OthersBring)
          BY <1>5, <1>18, <3>2, <3>4, <3>5, <3>6
        <4> HIDE DEF x, y, m, n, b, c
        <4>2. m <= y \/ m + n + OthersBring <= c
          BY <4>1, ReadAfter
        <4> QED
          BY <4>2 DEF y, m, n, c
      <3> QED
        BY <1>7, <1>10, <2>1, <2>4, <3>1, <3>7 DEF ReadFit
    <2> QED
      BY <2>2, <2>3, <2>4
  <1>24. ASSUME NEW s \in SightingIds, sighting[s].by # Nobody PROVE sighting'[s].by # Nobody
    <2>1. CASE s = t
      BY <1>2, <1>7, <1>10, <2>1
    <2>2. CASE s # t
      BY <1>11, <1>24, <2>2
    <2> QED
      BY <2>1, <2>2
  <1> QED
    BY <1>0, <1>1, <1>9, <1>12, <1>21, <1>22, <1>23, <1>24, SightingStep

LEMMA SightingsNext == SightingsInv /\ [S!Next]_sightingVars => SightingsInv'
  <1> SUFFICES ASSUME SightingsInv, [S!Next]_sightingVars PROVE SightingsInv'
    OBVIOUS
  <1>0. /\ sighting \in [SightingIds -> Row] /\ sightingCall \in [Uploaders -> SightingCall]
        /\ uploads \in Nat /\ stored \in [SightingIds -> SUBSET Nat] /\ overtaken \in [SightingIds -> Nat]
        /\ \A s \in SightingIds : sighting[s] \in Row
        /\ \A f \in Uploaders : sightingCall[f] \in SightingCall
    BY DEF SightingsInv, SightingsType
  \* Steps that no call makes.
  <1>1. ASSUME sightingCall' = sightingCall, sighting' \in [SightingIds -> Row],
               \A s \in SightingIds : /\ sighting'[s].by = sighting[s].by
                                      /\ sighting'[s].photos = sighting[s].photos
                                      /\ sighting'[s].photo = sighting[s].photo,
               UNCHANGED <<uploads, stored, overtaken>>
        PROVE  SightingsInv'
    <2>1. SightingsType'
      BY <1>1 DEF SightingsInv, SightingsType
    <2>2. ASSUME NEW s \in SightingIds PROVE RowKept(s)' /\ SightingFit(s)'
      <3>1. RowKept(s) /\ SightingFit(s)
        BY DEF SightingsInv
      <3>2. RowKept(s)'
        BY <1>1, <3>1 DEF RowKept, Elements
      <3>3. SightingFit(s)'
        BY <1>1, <3>1 DEF SightingFit, Size, Adding
      <3> QED
        BY <3>2, <3>3
    <2>3. ASSUME NEW f \in Uploaders PROVE UploadOK(f)' /\ ReadFit(f)'
      <3>1. UploadOK(f) /\ ReadFit(f)
        BY DEF SightingsInv
      <3>2. Size' = Size /\ sightingCall'[f] = sightingCall[f]
        BY <1>1 DEF Size
      <3>3. sightingCall[f].pc \in UploadSteps => sightingCall[f].id \in SightingIds
        BY <3>1 DEF UploadOK
      <3>4. UploadOK(f)'
        BY <1>1, <3>1, <3>2, <3>3 DEF UploadOK
      <3>5. ReadFit(f)'
        BY <1>1, <3>1, <3>2, <3>3 DEF ReadFit, UploadSteps
      <3> QED
        BY <3>4, <3>5
    <2> QED
      BY <2>1, <2>2, <2>3 DEF SightingsInv
  <1>2. CASE UNCHANGED sightingVars
    BY <1>0, <1>1, <1>2 DEF sightingVars
  <1>3. CASE S!CloseAlert
    BY <1>0, <1>1, <1>3 DEF S!CloseAlert
  <1>4. ASSUME NEW s \in SightingIds, S!WindowEnds(s)
        PROVE  SightingsInv'
    <2>1. sighting' = [sighting EXCEPT ![s].late = TRUE] /\ UNCHANGED <<sightingCall, uploads, stored, overtaken>>
      BY <1>4 DEF S!WindowEnds
    <2> DEFINE q == [sighting[s] EXCEPT !.late = TRUE]
    <2>2. /\ q \in Row /\ q.by = sighting[s].by /\ q.photos = sighting[s].photos /\ q.photo = sighting[s].photo
          /\ sighting' = [sighting EXCEPT ![s] = q]
      BY <1>0, <2>1 DEF Row
    <2> HIDE DEF q
    <2> QED
      BY <1>0, <1>1, <2>1, <2>2
  \* Calls that are not about photos.
  <1>5. ASSUME NEW f \in Uploaders, NEW e \in SightingCall, sightingCall' = [sightingCall EXCEPT ![f] = e],
               sightingCall[f].pc \notin UploadSteps, e.pc \notin UploadSteps,
               UNCHANGED <<sighting, uploads, stored, overtaken>>
        PROVE  SightingsInv'
    <2>1. e.pc # "write"
      BY <1>5 DEF UploadSteps
    <2> QED
      BY <1>0, <1>5, <2>1, QuietStep
  <1>6. ASSUME NEW f \in Uploaders, NEW u \in Users, S!create(f, u)
        PROVE  SightingsInv'
    <2> DEFINE e == [S!NoCall EXCEPT !.pc = "insert", !.by = u]
    <2>1. e \in SightingCall /\ e.pc \notin UploadSteps
      BY SightingConstants DEF SightingCall, UploadSteps
    <2>2. /\ sightingCall[f].pc = "free" /\ sightingCall' = [sightingCall EXCEPT ![f] = e]
          /\ UNCHANGED <<sighting, uploads, stored, overtaken>>
      BY <1>6 DEF S!create, S!Start
    <2> HIDE DEF e
    <2>3. sightingCall[f].pc \notin UploadSteps
      BY <2>2 DEF UploadSteps
    <2> QED
      BY <1>5, <2>1, <2>2, <2>3
  <1>7. ASSUME NEW f \in Uploaders, NEW u \in Users, NEW s \in SightingIds, S!dismiss(f, u, s)
        PROVE  SightingsInv'
    <2> DEFINE e == [S!NoCall EXCEPT !.pc = "dismiss", !.id = s]
    <2>1. e \in SightingCall /\ e.pc \notin UploadSteps
      BY SightingConstants DEF SightingCall, UploadSteps
    <2>2. /\ sightingCall[f].pc = "free" /\ sightingCall' = [sightingCall EXCEPT ![f] = e]
          /\ UNCHANGED <<sighting, uploads, stored, overtaken>>
      BY <1>7 DEF S!dismiss, S!Start
    <2> HIDE DEF e
    <2>3. sightingCall[f].pc \notin UploadSteps
      BY <2>2 DEF UploadSteps
    <2> QED
      BY <1>5, <2>1, <2>2, <2>3
  <1>8. ASSUME NEW f \in Uploaders, S!notifyCreatorOfSighting(f)
        PROVE  SightingsInv'
    <2> DEFINE e == [sightingCall[f] EXCEPT !.pc = "mail"]
    <2>1. e \in SightingCall /\ e.pc \notin UploadSteps
      BY <1>0 DEF SightingCall, UploadSteps
    <2>2. /\ sightingCall[f].pc = "notify" /\ sightingCall' = [sightingCall EXCEPT ![f] = e]
          /\ UNCHANGED <<sighting, uploads, stored, overtaken>>
      BY <1>8 DEF S!notifyCreatorOfSighting, S!Goto
    <2> HIDE DEF e
    <2>3. sightingCall[f].pc \notin UploadSteps
      BY <2>2 DEF UploadSteps
    <2> QED
      BY <1>5, <2>1, <2>2, <2>3
  <1>9. ASSUME NEW f \in Uploaders, S!sendSightingReportedEmail(f)
        PROVE  SightingsInv'
    <2>1. /\ sightingCall[f].pc = "mail" /\ sightingCall' = [sightingCall EXCEPT ![f] = S!NoCall]
          /\ UNCHANGED <<sighting, uploads, stored, overtaken>>
      BY <1>9 DEF S!sendSightingReportedEmail, S!End
    <2>2. sightingCall[f].pc \notin UploadSteps /\ S!NoCall.pc \notin UploadSteps
      BY <2>1, SightingConstants DEF UploadSteps
    <2> QED
      BY <1>5, <2>1, <2>2, SightingConstants
  <1>10. ASSUME NEW f \in Uploaders, S!WriteDismissed(f)
         PROVE  SightingsInv'
    <2> DEFINE t == sightingCall[f].id
               q == [sighting[t] EXCEPT !.dismissed = TRUE]
    <2>1. /\ sightingCall[f].pc = "dismiss" /\ sightingCall' = [sightingCall EXCEPT ![f] = S!NoCall]
          /\ sighting' = [sighting EXCEPT ![t] = q]
          /\ UNCHANGED <<uploads, stored, overtaken>>
      BY <1>10 DEF S!WriteDismissed, S!End
    <2>2. sightingCall[f].pc \notin UploadSteps /\ S!NoCall.pc \notin UploadSteps /\ S!NoCall.pc # "write"
      BY <2>1, SightingConstants DEF UploadSteps
    <2>3. t \in SightingIds => /\ q \in Row /\ q.by = sighting[t].by
                               /\ q.photos = sighting[t].photos /\ q.photo = sighting[t].photo
      BY <1>0 DEF Row
    <2> HIDE DEF q, t
    <2>4. /\ sighting' \in [SightingIds -> Row]
          /\ \A s \in SightingIds : /\ sighting'[s].by = sighting[s].by
                                    /\ sighting'[s].photos = sighting[s].photos
                                    /\ sighting'[s].photo = sighting[s].photo
      BY <1>0, <2>1, <2>3
    <2> QED
      BY <1>0, <2>1, <2>2, <2>4, SightingConstants, QuietStep
  \* What holds of the other calls when the rows they are busy with keep their photos and bound.
  <1>11. ASSUME NEW f \in Uploaders, NEW e \in SightingCall, sightingCall' = [sightingCall EXCEPT ![f] = e],
                NEW g \in Uploaders, g # f,
                sightingCall[g].pc = "write" =>
                  /\ sighting'[sightingCall[g].id].photos = sighting[sightingCall[g].id].photos
                  /\ overtaken'[sightingCall[g].id] = overtaken[sightingCall[g].id]
         PROVE  ReadFit(g)'
    <2>1. sightingCall'[g] = sightingCall[g] /\ ReadFit(g)
      BY <1>11, CallStep DEF SightingsInv
    <2> QED
      BY <1>11, <2>1 DEF ReadFit
  <1>12. ASSUME NEW f \in Uploaders, NEW t \in SightingIds, NEW photo \in BOOLEAN, S!InsertSighting(f, t, photo)
         PROVE  SightingsInv'
    <2> DEFINE e == [[sightingCall[f] EXCEPT !.pc = "notify"] EXCEPT !.id = t]
               q == [S!NoSighting EXCEPT !.by = sightingCall[f].by, !.photo = IF photo THEN uploads' ELSE 0,
                                         !.photos = IF photo THEN <<uploads'>> ELSE <<>>]
               d == IF photo THEN {uploads'} ELSE {}
    <2>1. /\ sightingCall[f].pc = "insert" /\ sighting[t].by = Nobody
          /\ uploads' = uploads + (IF photo THEN 1 ELSE 0)
          /\ sighting' = [sighting EXCEPT ![t] = q]
          /\ stored' = [stored EXCEPT ![t] = d]
          /\ sightingCall' = [sightingCall EXCEPT ![f].pc = "notify", ![f].id = t]
          /\ overtaken' = overtaken
      BY <1>12 DEF S!InsertSighting, S!Exists
    <2>2. sightingCall' = [sightingCall EXCEPT ![f] = e]
      BY <1>0, <2>1
    <2>3. e \in SightingCall /\ e.pc = "notify" /\ e.pc \notin UploadSteps /\ sightingCall[f].pc \notin UploadSteps
      BY <1>0, <2>1 DEF SightingCall, UploadSteps
    <2>4. uploads' \in Nat
      BY <1>0, <2>1
    <2>5. /\ q \in Row /\ q.photos = (IF photo THEN <<uploads'>> ELSE <<>>)
          /\ q.photo = (IF photo THEN uploads' ELSE 0) /\ d \in SUBSET Nat
      <3>1. sightingCall[f].by \in Users \cup {Nobody} /\ <<uploads'>> \in Seq(Nat) /\ <<>> \in Seq(Nat)
        BY <1>0, <2>4 DEF SightingCall
      <3>2. (IF photo THEN <<uploads'>> ELSE <<>>) \in Seq(Nat) /\ (IF photo THEN uploads' ELSE 0) \in Nat
        BY <2>4, <3>1
      <3> QED
        BY <2>4, <3>1, <3>2, SightingConstants DEF Row
    <2>6. /\ Elements(q.photos) = d /\ q.photo = (IF q.photos = <<>> THEN 0 ELSE q.photos[1])
          /\ Len(q.photos) <= 1 /\ Len(q.photos) \in Nat
      <3>1. CASE photo
        BY <2>5, <3>1 DEF Elements
      <3>2. CASE ~photo
        BY <2>5, <3>2 DEF Elements
      <3> QED
        BY <3>1, <3>2
    <2> HIDE DEF e, q, d
    <2>7. /\ sighting' \in [SightingIds -> Row] /\ stored' \in [SightingIds -> SUBSET Nat]
          /\ sighting'[t] = q /\ stored'[t] = d
          /\ \A s \in SightingIds : s # t => sighting'[s] = sighting[s] /\ stored'[s] = stored[s]
      BY <1>0, <2>1, <2>5
    \* No upload is busy with a row that was not there.
    <2>8. \A g \in Uploaders : sightingCall[g].pc \in UploadSteps => sightingCall[g].id # t
      BY <2>1 DEF SightingsInv, UploadOK
    <2>9. ASSUME NEW s \in SightingIds PROVE RowKept(s)' /\ SightingFit(s)'
      <3>1. CASE s = t
        <4>1. RowKept(s)'
          BY <2>6, <2>7, <3>1 DEF RowKept
        <4>2. f \in Uploaders \ Adding(s) /\ Adding(s) \in SUBSET Uploaders
          BY <2>3 DEF Adding
        <4>3. Adding(s)' = Adding(s) \ {f}
          BY <2>2, <2>3, AddingStep
        <4>4. Adding(s)' = Adding(s)
          BY <4>2, <4>3
        <4> DEFINE new == Size'
                   x == Len(sighting'[s].photos)
                   n == overtaken[s]
        <4>5. x \in Nat /\ x <= MaxSightingPhotos /\ n \in Nat /\ overtaken'[s] = n
          BY <1>0, <2>1, <2>6, <2>7, <3>1, SightingConstants
        <4> HIDE DEF new, x, n
        <4>6. Fit(x, Adding(s), new, Batch, Bound(n))
          BY <4>2, <4>5, SightingConstants, FitReset DEF OthersBring
        <4>7. SightingFit(s)'
          BY <4>4, <4>5, <4>6 DEF SightingFit, new, x
        <4> QED
          BY <4>1, <4>7
      <3>2. CASE s # t
        <4>1. RowKept(s)'
          BY <2>7, <3>2 DEF SightingsInv, RowKept
        <4>2. f \notin Adding(s) /\ ~(e.pc \in UploadSteps /\ e.id = s)
          BY <2>3 DEF Adding
        <4>3. sighting'[s].photos = sighting[s].photos /\ overtaken'[s] = overtaken[s]
          BY <2>1, <2>7, <3>2
        <4>4. SightingFit(s)'
          BY <2>2, <2>3, <4>2, <4>3, OtherSighting
        <4> QED
          BY <4>1, <4>4
      <3> QED
        BY <3>1, <3>2
    <2>10. sightingCall'[f] = e
      BY <2>2, <2>3, CallStep
    <2>11. UploadOK(f)' /\ ReadFit(f)'
      BY <2>3, <2>10 DEF UploadOK, ReadFit
    <2>12. ASSUME NEW g \in Uploaders, g # f PROVE ReadFit(g)'
      <3>1. sightingCall[g].pc = "write" => sightingCall[g].id \in SightingIds /\ sightingCall[g].id # t
        BY <2>8 DEF SightingsInv, UploadOK, UploadSteps
      <3> QED
        BY <1>11, <2>1, <2>2, <2>3, <2>7, <2>12, <3>1
    <2>13. \A s \in SightingIds : sighting[s].by # Nobody => sighting'[s].by # Nobody
      BY <2>1, <2>7
    <2> QED
      BY <1>0, <2>1, <2>2, <2>3, <2>4, <2>7, <2>9, <2>11, <2>12, <2>13, SightingStep
  <1>13. ASSUME NEW f \in Uploaders, NEW u \in Users, NEW t \in SightingIds, NEW n \in 1..Batch,
                S!uploadPhotos(f, u, t, n)
         PROVE  SightingsInv'
    <2> DEFINE e == [S!NoCall EXCEPT !.pc = "upload", !.by = u, !.id = t, !.files = n]
    <2>1. /\ sightingCall[f].pc = "free" /\ sightingCall' = [sightingCall EXCEPT ![f] = e]
          /\ sighting[t].by # Nobody /\ Len(sighting[t].photos) + n <= MaxSightingPhotos
          /\ UNCHANGED <<sighting, uploads, stored, overtaken>>
      BY <1>13 DEF S!uploadPhotos, S!authorizePhotoUpload, S!Start, S!Exists
    <2>2. n \in Nat /\ n <= Batch
      BY SightingConstants
    <2>3. e \in SightingCall /\ e.pc = "upload" /\ e.id = t /\ e.files = n
      BY <2>2, SightingConstants DEF SightingCall, UploadSteps
    <2> HIDE DEF e
    <2>4. e.pc \in UploadSteps /\ sightingCall[f].pc \notin UploadSteps
      BY <2>1, <2>3 DEF UploadSteps
    <2>5. Size'[f] = n /\ Size' \in [Uploaders -> Nat] /\ sightingCall'[f] = e
      BY <2>1, <2>3, CallStep
    <2>6. ASSUME NEW s \in SightingIds PROVE SightingFit(s)'
      <3>1. f \notin Adding(s) /\ Adding(s) \in SUBSET Uploaders
        BY <2>4 DEF Adding
      <3>2. CASE s # t
        <4>1. ~(e.pc \in UploadSteps /\ e.id = s)
          BY <2>3, <3>2
        <4> QED
          BY <2>1, <2>3, <3>1, <4>1, OtherSighting
      <3>3. CASE s = t
        <4>1. Adding(s)' = Adding(s) \cup {f}
          BY <2>1, <2>3, <2>4, <3>3, AddingStep
        <4> DEFINE new == Size'
                   x == Len(sighting[s].photos)
                   k == overtaken[s]
        <4>2. x \in Nat /\ x + new[f] <= MaxSightingPhotos /\ k \in Nat
          BY <1>0, <2>1, <2>5, <3>3 DEF Row
        <4>3. new \in [Uploaders -> Nat] /\ f \in Uploaders \ Adding(s)
          BY <2>5, <3>1
        <4> HIDE DEF new, x, k
        <4>4. Fit(x, Adding(s) \cup {f}, new, Batch, Bound(k))
          BY <3>1, <4>2, <4>3, SightingConstants, FitMore DEF OthersBring
        <4> QED
          BY <2>1, <4>1, <4>4 DEF SightingFit, new, x, k
      <3> QED
        BY <3>2, <3>3
    <2>7. \A s \in SightingIds : RowKept(s)'
      BY <2>1 DEF SightingsInv, RowKept, Elements
    <2>8. UploadOK(f)'
      BY <2>1, <2>2, <2>3, <2>5 DEF UploadOK
    <2>9. ReadFit(f)' /\ \A g \in Uploaders : g # f => ReadFit(g)'
      <3>1. ReadFit(f)'
        BY <2>3, <2>5 DEF ReadFit
      <3>2. ASSUME NEW g \in Uploaders, g # f PROVE ReadFit(g)'
        BY <1>11, <2>1, <2>3, <3>2
      <3> QED
        BY <3>1, <3>2
    <2> QED
      BY <1>0, <2>1, <2>3, <2>6, <2>7, <2>8, <2>9, SightingStep
  \* An upload ends without a list.
  <1>14. ASSUME NEW f \in Uploaders, sightingCall[f].pc = "upload",
                sightingCall' = [sightingCall EXCEPT ![f] = S!NoCall],
                UNCHANGED <<sighting, uploads, stored, overtaken>>
         PROVE  SightingsInv'
    <2> DEFINE e == S!NoCall
               t == sightingCall[f].id
    <2>1. e \in SightingCall /\ e.pc = "free" /\ e.pc \notin UploadSteps /\ sightingCall[f].pc \in UploadSteps
      BY <1>14, SightingConstants DEF UploadSteps
    <2>2. t \in SightingIds /\ Size[f] \in Nat /\ Size[f] <= Batch
      BY <2>1, SightingConstants DEF SightingsInv, UploadOK
    <2>3. sightingCall'[f] = e /\ Size \in [Uploaders -> Nat] /\ \A g \in Uploaders : g # f => Size'[g] = Size[g]
      BY <1>14, <2>1, CallStep
    <2>4. ASSUME NEW s \in SightingIds PROVE SightingFit(s)'
      <3>1. CASE s # t
        <4>1. f \notin Adding(s)
          BY <3>1 DEF Adding
        <4> HIDE DEF e
        <4> QED
          BY <1>14, <2>1, <4>1, OtherSighting DEF e
      <3>2. CASE s = t
        <4>1. f \in Adding(s) /\ Adding(s) \in SUBSET Uploaders
          BY <2>1, <3>2 DEF Adding
        <4>2. Adding(s)' = Adding(s) \ {f}
          <5> HIDE DEF e
          <5> QED
            BY <1>14, <2>1, AddingStep DEF e
        <4> DEFINE old == Size
                   new == Size'
                   x == Len(sighting[s].photos)
                   k == overtaken[s]
        <4>3. x \in Nat /\ k \in Nat /\ old \in [Uploaders -> Nat] /\ old[f] <= Batch /\ x <= x + old[f]
          BY <1>0, <2>2, <2>3 DEF Row
        <4>4. Fit(x, Adding(s), old, Batch, Bound(k))
          BY DEF SightingsInv, SightingFit
        <4>5. \A g \in Adding(s) \ {f} : new[g] = old[g]
          BY <2>3, <4>1
        <4> HIDE DEF old, new, x, k
        <4>6. Fit(x, Adding(s) \ {f}, old, Batch, Bound(k))
          BY <4>1, <4>3, <4>4, SightingConstants, FitLess
        <4>7. Fit(x, Adding(s) \ {f}, new, Batch, Bound(k))
          <5>1. Adding(s) \ {f} \in SUBSET Uploaders
            BY <4>1
          <5> QED
            BY <4>5, <4>6, <5>1, FitKept
        <4> QED
          BY <1>14, <4>2, <4>7 DEF SightingFit, new, x, k
      <3> QED
        BY <3>1, <3>2
    <2>5. \A s \in SightingIds : RowKept(s)'
      BY <1>14 DEF SightingsInv, RowKept, Elements
    <2>6. UploadOK(f)' /\ ReadFit(f)'
      BY <2>1, <2>3 DEF UploadOK, ReadFit
    <2>7. ASSUME NEW g \in Uploaders, g # f PROVE ReadFit(g)'
      BY <1>11, <1>14, <2>1, <2>7
    <2> HIDE DEF e
    <2> QED
      BY <1>0, <1>14, <2>1, <2>4, <2>5, <2>6, <2>7, SightingStep DEF e
  <1>15. ASSUME NEW f \in Uploaders, S!uploadImages(f)
         PROVE  SightingsInv'
    <2> DEFINE n == sightingCall[f].files
               list == [i \in 1..n |-> uploads + i]
               e == [sightingCall[f] EXCEPT !.pc = "append", !.files = 0, !.new = list]
    <2>1. sightingCall[f].pc = "upload" /\ UNCHANGED <<sighting, stored, overtaken>>
      BY <1>15 DEF S!uploadImages
    <2>2. CASE uploads' = uploads /\ sightingCall' = [sightingCall EXCEPT ![f] = S!NoCall]
      BY <1>14, <2>1, <2>2
    <2>3. CASE /\ uploads' = uploads + n
               /\ sightingCall' = [sightingCall EXCEPT ![f].pc = "append", ![f].files = 0, ![f].new = list]
      <3>1. n \in Nat /\ list \in Seq(Nat) /\ Len(list) = n
        <4>1. n \in Nat /\ uploads \in Nat
          BY <1>0 DEF SightingCall
        <4>2. list \in [1..n -> Nat]
          BY <4>1
        <4> HIDE DEF list
        <4> QED
          BY <4>1, <4>2
      <3>2. sightingCall' = [sightingCall EXCEPT ![f] = e]
        BY <1>0, <2>3
      <3> HIDE DEF list
      <3>3. e \in SightingCall /\ e.pc = "append" /\ e.id = sightingCall[f].id /\ e.new = list
        BY <1>0, <3>1 DEF SightingCall, UploadSteps
      <3> HIDE DEF e
      <3>4. Size[f] = n
        BY <2>1 DEF Size
      <3>5. Size'[f] = n
        BY <3>1, <3>2, <3>3, CallStep
      <3>6. e.pc \in UploadSteps /\ sightingCall[f].pc \in UploadSteps
        BY <2>1, <3>3 DEF UploadSteps
      <3>7. uploads' \in Nat
        BY <1>0, <2>3, <3>1
      <3> QED
        BY <1>0, <2>1, <3>2, <3>3, <3>4, <3>5, <3>6, <3>7, QuietStep
    <2> QED
      BY <1>15, <2>2, <2>3 DEF S!uploadImages, S!End
  <1>16. ASSUME NEW f \in Uploaders, S!appendPhotos(f)
         PROVE  SightingsInv'
    <2> DEFINE t == sightingCall[f].id
               e == [sightingCall[f] EXCEPT !.pc = "write", !.read = sighting[t].photos]
    <2>1. /\ sightingCall[f].pc = "append" /\ UNCHANGED <<sighting, uploads, stored, overtaken>>
          /\ sightingCall' = [sightingCall EXCEPT ![f].pc = "write", ![f].read = sighting[t].photos]
      BY <1>16 DEF S!appendPhotos
    <2>2. sightingCall[f].pc \in UploadSteps /\ t \in SightingIds
      BY <2>1 DEF SightingsInv, UploadOK, UploadSteps
    <2>3. sighting[t].photos \in Seq(Nat)
      BY <1>0, <2>2 DEF Row
    <2>4. e \in SightingCall /\ e.pc = "write" /\ e.id = t /\ e.read = sighting[t].photos /\ e.new = sightingCall[f].new
      BY <1>0, <2>3 DEF SightingCall, UploadSteps
    <2>5. sightingCall' = [sightingCall EXCEPT ![f] = e]
      BY <1>0, <2>1
    <2> HIDE DEF e
    <2>6. Size[f] = Len(sightingCall[f].new)
      BY <2>1 DEF Size
    <2>9. Size'[f] = IF e.pc = "upload" THEN e.files ELSE Len(e.new)
      BY <2>4, <2>5, CallStep
    <2>7. Size'[f] = Size[f]
      BY <2>4, <2>6, <2>9
    <2>8. e.pc \in UploadSteps /\ Len(e.read) <= Len(sighting[e.id].photos)
      <3>1. Len(sighting[t].photos) \in Nat
        BY <2>3
      <3> QED
        BY <2>4, <3>1 DEF UploadSteps
    <2> QED
      BY <1>0, <2>1, <2>2, <2>4, <2>5, <2>7, <2>8, QuietStep
  <1>17. ASSUME NEW f \in Uploaders, S!WritePhotos(f)
         PROVE  SightingsInv'
    BY <1>17, WriteStep
  <1>18. ASSUME NEW f \in Uploaders, NEW u \in Users, S!ReportEndpoints(f, u) \/ S!PhotoEndpoints(f, u)
         PROVE  SightingsInv'
    BY <1>6, <1>7, <1>13, <1>18 DEF S!ReportEndpoints, S!PhotoEndpoints, S!findByAlert
  <1> QED
    BY <1>2, <1>3, <1>4, <1>8, <1>9, <1>10, <1>12, <1>14, <1>15, <1>16, <1>17, <1>18 DEF S!Next

\* Photos of a sighting are kept, but for what an overtaken upload had not read: sighting.service.ts:512.
THEOREM SightingPhotosSafe == Spec => []SightingPhotosKept
  <1> DEFINE Inv == part = "sightings" => SightingsInv
  <1>1. Init => Inv
    BY SightingsInit DEF Init
  <1>2. Inv /\ [Next]_vars => Inv'
    BY Parts, SightingsNext
  <1>3. Inv => SightingPhotosKept
    BY DEF SightingsInv, RowKept, Elements, SightingPhotosKept, S!SightingPhotosKept
  <1> QED
    BY <1>1, <1>2, <1>3, PTL DEF Spec

\* A limit that is checked on a read and used by a later write is exceeded at most by what the
\* other calls in flight bring: zones, photos of an adoption, photos of a sighting.
THEOREM LimitsSafe == Spec => []LimitsOvershootBounded
  <1> DEFINE Inv == /\ part = "zones" => ZonesInv
                    /\ part = "adoption" => AdoptionInv
                    /\ part = "sightings" => SightingsInv
  <1>1. Init => Inv
    BY ZonesInit, AdoptionInit, SightingsInit DEF Init
  <1>2. Inv /\ [Next]_vars => Inv'
    BY Parts, ZonesNext, AdoptionNext, SightingsNext
  <1>3. ZonesInv => Z!ZonesOvershootBounded
    <2> SUFFICES ASSUME ZonesInv PROVE Cardinality(Z!findByUser) <= MaxZones + Cardinality(Calls) - 1
      BY Counts DEF Z!ZonesOvershootBounded
    <2>1. Z!findByUser \in SUBSET ZoneIds /\ Inserting \in SUBSET Calls /\ IsFiniteSet(ZoneIds)
          /\ IsFiniteSet(Calls) /\ MaxZones \in Nat
      BY RecordsAssumption DEF Z!findByUser, Inserting
    <2>2. Cardinality(Z!findByUser) \in Nat /\ Cardinality(Inserting) \in Nat /\ Cardinality(Calls) \in Nat
      BY <2>1, FS_Subset, FS_CardinalityType
    <2> QED
      BY <2>1, <2>2 DEF ZonesInv
  <1>4. AdoptionInv => O!PhotosOvershootBounded
    <2> SUFFICES ASSUME AdoptionInv PROVE pet.photos <= PhotoBound
      BY Counts DEF O!PhotosOvershootBounded, PhotoBound
    <2> DEFINE size == [f \in Calls |-> adoptionCall[f].files]
    <2>1. pet.photos \in Nat /\ size \in [Calls -> Nat] /\ Pushing \in SUBSET Calls
      BY DEF AdoptionInv, O!TypeOK, O!Call, Pushing
    <2>2. Fit(pet.photos, Pushing, size, MaxFiles, PhotoBound)
      BY DEF AdoptionInv, PhotosFit
    <2> HIDE DEF size
    <2> QED
      BY <2>1, <2>2, AdoptionConstants, FitBound
  <1>5. SightingsInv => S!PhotosOvershootBounded
    <2> SUFFICES ASSUME SightingsInv, NEW s \in SightingIds
                 PROVE  Len(sighting[s].photos) <= Bound(overtaken[s])
      BY Counts DEF S!PhotosOvershootBounded, Bound, OthersBring
    <2>1. Len(sighting[s].photos) \in Nat /\ overtaken[s] \in Nat /\ Adding(s) \in SUBSET Uploaders
      BY DEF SightingsInv, SightingsType, Row, Adding
    <2>2. Size \in [Uploaders -> Nat]
      <3>1. \A f \in Uploaders : sightingCall[f] \in SightingCall
        BY DEF SightingsInv, SightingsType
      <3>2. \A f \in Uploaders : sightingCall[f].files \in Nat /\ Len(sightingCall[f].new) \in Nat
        BY <3>1 DEF SightingCall
      <3> QED
        BY <3>2 DEF Size
    <2> DEFINE x == Len(sighting[s].photos)
               k == overtaken[s]
    <2>3. Fit(x, Adding(s), Size, Batch, Bound(k)) /\ Bound(k) \in Nat
      BY <2>1, SightingConstants DEF SightingsInv, SightingFit
    <2> HIDE DEF x, k
    <2>4. x <= Bound(k)
      BY <2>1, <2>2, <2>3, SightingConstants, FitBound DEF x, k
    <2> QED
      BY <2>4 DEF x, k
  <1>6. Inv => LimitsOvershootBounded
    BY <1>3, <1>4, <1>5 DEF LimitsOvershootBounded
  <1> QED
    BY <1>1, <1>2, <1>6, PTL DEF Spec
--------------------------------------------------------------------------------
(* Content of an alert *)

\* An edit that read the list after the pet was copied into it has read the pet's photos.
ContentInv ==
  /\ C!TypeOK
  /\ alertStatus = "none" => ~follows
  /\ follows /\ alertStatus = "ACTIVE" =>
       /\ petPhotos \subseteq copy
       /\ \A f \in Calls : contentCall[f].pc = "edit" /\ ~contentCall[f].old => petPhotos \subseteq contentCall[f].read

LEMMA ContentInit == C!Init => ContentInv
  <1> SUFFICES ASSUME C!Init PROVE ContentInv
    OBVIOUS
  <1>1. C!NoCall \in C!Call
    BY DEF C!NoCall, C!Call
  <1> QED
    BY <1>1 DEF C!Init, ContentInv, C!TypeOK

LEMMA ContentNext == ContentInv /\ [C!Next]_contentVars => ContentInv'
  <1> SUFFICES ASSUME ContentInv, [C!Next]_contentVars PROVE ContentInv'
    OBVIOUS
  <1>0. /\ petPhotos \subseteq Photos /\ copy \subseteq Photos /\ alertStatus \in {"none", "ACTIVE", "closed"}
        /\ phonePublic \in BOOLEAN /\ follows \in BOOLEAN /\ contentCall \in [Calls -> C!Call]
        /\ \A f \in Calls : contentCall[f] \in C!Call
    BY DEF ContentInv, C!TypeOK
  <1>1. C!NoCall \in C!Call /\ C!NoCall.pc = "free" /\ C!NoCall.old = FALSE
    BY DEF C!NoCall, C!Call
  <1>2. CASE UNCHANGED contentVars
    BY <1>2 DEF contentVars, ContentInv, C!TypeOK
  <1>3. CASE C!CloseAlert
    BY <1>3 DEF C!CloseAlert, ContentInv, C!TypeOK
  \* A call that starts; an edit has read the list as it is.
  <1>4. ASSUME NEW f \in Calls, NEW e \in C!Call, contentCall' = [contentCall EXCEPT ![f] = e],
               e.pc = "edit" => e.read = copy,
               UNCHANGED <<petPhotos, alertStatus, copy, phonePublic, follows>>
        PROVE  ContentInv'
    <2>1. contentCall' \in [Calls -> C!Call]
      BY <1>0, <1>4
    <2>2. contentCall'[f] = e /\ \A g \in Calls : g # f => contentCall'[g] = contentCall[g]
      BY <1>0, <1>4
    <2>3. C!TypeOK'
      BY <1>0, <1>4, <2>1 DEF C!TypeOK
    <2> QED
      BY <1>4, <2>2, <2>3 DEF ContentInv
  <1>5. ASSUME NEW f \in Calls, NEW u \in Users, NEW new \in SUBSET Photos, C!CreateEndpoint(f, u, new)
        PROVE  ContentInv'
    <2> DEFINE e == [C!NoCall EXCEPT !.pc = "insert", !.by = u, !.new = new]
    <2>1. e \in C!Call /\ e.pc = "insert"
      BY <1>1 DEF C!Call
    <2>2. contentCall' = [contentCall EXCEPT ![f] = e] /\ UNCHANGED <<petPhotos, alertStatus, copy, phonePublic, follows>>
      BY <1>5 DEF C!CreateEndpoint, C!create, C!Start
    <2> HIDE DEF e
    <2> QED
      BY <1>4, <2>1, <2>2
  <1>6. ASSUME NEW f \in Calls, NEW u \in Users, NEW new \in SUBSET Photos, C!EditEndpoint(f, u, new)
        PROVE  ContentInv'
    <2> DEFINE e == [C!NoCall EXCEPT !.pc = "edit", !.by = u, !.read = copy, !.new = new]
    <2>1. e \in C!Call /\ e.read = copy
      BY <1>0, <1>1 DEF C!Call
    <2>2. contentCall' = [contentCall EXCEPT ![f] = e] /\ UNCHANGED <<petPhotos, alertStatus, copy, phonePublic, follows>>
      BY <1>6 DEF C!EditEndpoint, C!update, C!Start
    <2> HIDE DEF e
    <2> QED
      BY <1>4, <2>1, <2>2
  <1>7. ASSUME NEW f \in Calls, NEW u \in Users, NEW new \in SUBSET Photos, C!PhotoEndpoint(f, u, new)
        PROVE  ContentInv'
    <2> DEFINE e == [C!NoCall EXCEPT !.pc = "append", !.by = u, !.new = new]
    <2>1. e \in C!Call /\ e.pc = "append"
      BY <1>1 DEF C!Call
    <2>2. contentCall' = [contentCall EXCEPT ![f] = e] /\ UNCHANGED <<petPhotos, alertStatus, copy, phonePublic, follows>>
      BY <1>7 DEF C!PhotoEndpoint, C!uploadPhotos, C!Start
    <2> HIDE DEF e
    <2> QED
      BY <1>4, <2>1, <2>2
  <1>8. ASSUME NEW f \in Calls, NEW u \in Users, NEW new \in SUBSET Photos, C!PetEndpoints(f, u, new)
        PROVE  ContentInv'
    <2> DEFINE e == [C!NoCall EXCEPT !.pc = "pet", !.by = u, !.new = new]
    <2>1. e \in C!Call /\ e.pc = "pet"
      BY <1>1 DEF C!Call
    <2>2. contentCall' = [contentCall EXCEPT ![f] = e] /\ UNCHANGED <<petPhotos, alertStatus, copy, phonePublic, follows>>
      BY <1>8 DEF C!PetEndpoints, C!updatePet, C!Start
    <2> HIDE DEF e
    <2> QED
      BY <1>4, <2>1, <2>2
  \* A call that ends: the others are as they were.
  <1>9. ASSUME NEW f \in Calls, contentCall' = C!End(f)
        PROVE  /\ contentCall' \in [Calls -> C!Call]
               /\ \A g \in Calls : contentCall'[g].pc = "edit" => g # f /\ contentCall'[g] = contentCall[g]
    BY <1>0, <1>1, <1>9 DEF C!End
  <1>10. ASSUME NEW f \in Calls, C!InsertAlert(f)
         PROVE  ContentInv'
    <2>1. /\ UNCHANGED <<petPhotos, follows>> /\ contentCall' = C!End(f)
          /\ \/ alertStatus = "none" /\ copy' = contentCall[f].new /\ alertStatus' = "ACTIVE" /\ phonePublic' \in BOOLEAN
             \/ UNCHANGED <<alertStatus, copy, phonePublic>>
      BY <1>10 DEF C!InsertAlert
    <2>2. C!TypeOK'
      BY <1>0, <1>9, <2>1 DEF C!TypeOK, C!Call
    <2> QED
      BY <1>9, <2>1, <2>2 DEF ContentInv
  <1>11. ASSUME NEW f \in Calls, C!WriteEdit(f)
         PROVE  ContentInv'
    <2>1. PICK me : me = contentCall[f]
      OBVIOUS
    <2>2. /\ me.pc = "edit" /\ copy' = IF me.new = {} THEN copy ELSE me.read \cup me.new
          /\ follows' = (follows /\ (me.new = {} \/ ~me.old)) /\ contentCall' = C!End(f)
          /\ UNCHANGED <<petPhotos, alertStatus, phonePublic>>
      BY <1>11, <2>1 DEF C!WriteEdit
    <2>3. me.read \in SUBSET Photos /\ me.new \in SUBSET Photos
      BY <1>0, <2>1 DEF C!Call
    <2>4. copy' \subseteq Photos /\ follows' \in BOOLEAN
      BY <1>0, <2>2, <2>3
    <2>5. C!TypeOK'
      BY <1>0, <1>9, <2>2, <2>4 DEF C!TypeOK
    <2>6. follows' => follows /\ (me.new = {} \/ ~me.old)
      BY <2>2
    <2>7. follows' /\ alertStatus = "ACTIVE" => petPhotos \subseteq copy'
      BY <2>1, <2>2, <2>6 DEF ContentInv
    <2> QED
      BY <1>9, <2>2, <2>5, <2>6, <2>7 DEF ContentInv
  <1>12. ASSUME NEW f \in Calls, C!addPhotos(f)
         PROVE  ContentInv'
    <2>1. /\ copy' = copy \cup contentCall[f].new /\ contentCall' = C!End(f)
          /\ UNCHANGED <<petPhotos, alertStatus, phonePublic, follows>>
      BY <1>12 DEF C!addPhotos
    <2>2. C!TypeOK'
      BY <1>0, <1>9, <2>1 DEF C!TypeOK, C!Call
    <2> QED
      BY <1>9, <2>1, <2>2 DEF ContentInv
  <1>13. ASSUME NEW f \in Calls, C!WritePet(f)
         PROVE  ContentInv'
    <2>1. /\ petPhotos' = contentCall[f].new /\ UNCHANGED <<alertStatus, phonePublic>>
          /\ copy' = IF alertStatus = "ACTIVE" THEN contentCall[f].new ELSE copy
          /\ follows' = (follows \/ alertStatus = "ACTIVE")
          /\ contentCall' = IF alertStatus = "ACTIVE" THEN C!Outdate(f) ELSE C!End(f)
      BY <1>13 DEF C!WritePet, C!syncAlertSnapshots, C!orderedPetPhotos
    <2>2. contentCall[f].new \subseteq Photos
      BY <1>0 DEF C!Call
    <2>3. CASE alertStatus = "ACTIVE"
      <3>1. ASSUME NEW g \in Calls
            PROVE  contentCall'[g] \in C!Call /\ (contentCall'[g].pc = "edit" => contentCall'[g].old)
        <4> DEFINE e == [contentCall[g] EXCEPT !.old = TRUE]
        <4>1. e \in C!Call /\ e.old
          BY <1>0 DEF C!Call
        <4>2. contentCall'[g] = IF g = f THEN C!NoCall ELSE IF contentCall[g].pc = "edit" THEN e ELSE contentCall[g]
          BY <2>1, <2>3 DEF C!Outdate
        <4> HIDE DEF e
        <4> QED
          BY <1>0, <1>1, <4>1, <4>2
      <3>2. contentCall' \in [Calls -> C!Call]
        <4>1. contentCall' = [g \in Calls |-> contentCall'[g]]
          BY <2>1, <2>3 DEF C!Outdate
        <4> QED
          BY <3>1, <4>1
      <3>3. C!TypeOK'
        BY <1>0, <2>1, <2>2, <2>3, <3>2 DEF C!TypeOK
      <3> QED
        BY <2>1, <2>3, <3>1, <3>3 DEF ContentInv
    <2>4. CASE alertStatus # "ACTIVE"
      <3>1. C!TypeOK'
        BY <1>0, <1>9, <2>1, <2>2, <2>4 DEF C!TypeOK
      <3> QED
        BY <2>1, <2>4, <3>1 DEF ContentInv
    <2> QED
      BY <2>3, <2>4
  <1> QED
    BY <1>2, <1>3, <1>5, <1>6, <1>7, <1>8, <1>10, <1>11, <1>12, <1>13 DEF C!Next

\* An alert shows its pet, and nobody more than he may see: pet.service.ts:235.
THEOREM AlertShowsPetSafe == Spec => []AlertShowsPet
  <1> DEFINE Inv == part = "content" => ContentInv
  <1>1. Init => Inv
    BY ContentInit DEF Init
  <1>2. Inv /\ [Next]_vars => Inv'
    BY Parts, ContentNext
  <1>3. ASSUME NEW u \in Users \cup {Nobody}, NEW keyed \in BOOLEAN
        PROVE  /\ C!TagRoute(u, keyed) \cup C!ListRoute(u, keyed) \subseteq C!DetailRoute(u, keyed)
               /\ "phone" \in C!DetailRoute(u, keyed) => u = Creator \/ phonePublic
               /\ "email" \in C!DetailRoute(u, keyed) => u = Creator
               /\ u = Nobody /\ ~keyed => C!DetailRoute(u, keyed) = {}
    BY DEF C!TagRoute, C!ListRoute, C!DetailRoute, C!ClientKeyGuard, C!findById,
       C!findActiveByTagId, C!findNearby,
           C!applyViewerRedaction, C!mapToResponseDto, C!mapRawToResponseDto, C!Fields
  <1>4. ContentInv => C!AlertShowsPet
    BY <1>3 DEF ContentInv, C!AlertShowsPet
  <1>5. Inv => AlertShowsPet
    BY <1>4 DEF AlertShowsPet
  <1> QED
    BY <1>1, <1>2, <1>5, PTL DEF Spec
--------------------------------------------------------------------------------
(* Matching *)

\* Device d, unchanged since the search began, can be reached inside the radius.
Near(d) == d \notin changed /\ row[d].token /\ row[d].at # 0 /\ row[d].dist <= Base

\* After the query for fresh fixes, a device it did not find has an older fix.
MatchingInv ==
  /\ M!TypeOK
  /\ query \in {"idle", "zones", "fresh", "stale"} => staleAt = 0
  /\ query = "stale" => \A d \in Devices : Near(d) => M!InFound(d) \/ row[d].at + FRESH < now
  /\ query \in {"postal", "ip", "done"} /\ staleAt # 0 =>
       \A d \in Devices : Near(d) /\ row[d].at + STALE >= staleAt => M!InFound(d)

LEMMA MatchingInit == M!Init => MatchingInv
  <1> SUFFICES ASSUME M!Init PROVE MatchingInv
    OBVIOUS
  <1>1. MaxTime \in Nat /\ now = 1 /\ staleAt = 0 /\ query = "idle" /\ found = <<>>
    BY RecordsAssumption DEF M!Init
  <1>2. row \in [Devices -> M!Row]
    BY DEF M!Init
  <1>3. now \in 1..MaxTime /\ staleAt \in 0..MaxTime
    BY <1>1, RecordsAssumption
  <1>4. found \in Seq(M!Match)
    BY <1>1
  <1> QED
    BY <1>1, <1>2, <1>3, <1>4 DEF MatchingInv, M!TypeOK, M!Init, M!Steps

\* The answer to a query has every match, and nothing else.
LEMMA NearestAll ==
  ASSUME NEW X \in SUBSET Devices, NEW m \in [X -> M!Match], NEW rows \in M!Nearest({m[d] : d \in X})
  PROVE  /\ rows \in Seq(M!Match)
         /\ \A d \in X : \E i \in DOMAIN rows : rows[i] = m[d]
         /\ \A i \in DOMAIN rows : \E d \in X : rows[i] = m[d]
  <1> DEFINE all == {m[d] : d \in X}
  <1>1. IsFiniteSet(X)
    BY RecordsAssumption, FS_Subset
  <1>2. all \subseteq M!Match /\ (\A d \in X : m[d] \in all)
    OBVIOUS
  <1>3. m \in Surjection(X, all)
    <2>1. m \in [X -> all] /\ \A t \in all : \E d \in X : m[d] = t
      OBVIOUS
    <2> HIDE DEF all
    <2> QED
      BY <2>1 DEF Surjection
  <1> HIDE DEF all
  <1>4. Cardinality(all) \in Nat
    BY <1>1, <1>3, FS_Surjection, FS_CardinalityType
  <1>5. rows \in [1..Cardinality(all) -> all] /\ \A t \in all : \E i \in DOMAIN rows : rows[i] = t
    <2>1. rows \in M!Nearest(all)
      BY DEF all
    <2>2. rows \in [1..Cardinality(all) -> all]
      <3>1. rows \in [1..M!Cardinality(all) -> all]
        BY <2>1 DEF M!Nearest
      <3> QED
        BY <3>1, Counts
    <2>3. \A t \in all : \E i \in DOMAIN rows : rows[i] = t
      BY <2>1 DEF M!Nearest
    <2> QED
      BY <2>2, <2>3
  <1>6. rows \in Seq(M!Match)
    BY <1>2, <1>4, <1>5
  <1>7. \A i \in DOMAIN rows : \E d \in X : rows[i] = m[d]
    <2>1. \A t \in all : \E d \in X : t = m[d]
      BY DEF all
    <2> QED
      BY <1>5, <2>1
  <1> QED
    BY <1>2, <1>5, <1>6, <1>7

\* What is found stays found.
LEMMA Found ==
  ASSUME found \in Seq(M!Match), NEW rows \in Seq(M!Match), found' = found \o rows
  PROVE  /\ found' \in Seq(M!Match)
         /\ \A d \in Devices : M!InFound(d) \/ (\E i \in DOMAIN rows : rows[i].device = d) => M!InFound(d)'
  <1>1. /\ found' \in Seq(M!Match) /\ DOMAIN found = 1..Len(found) /\ DOMAIN rows = 1..Len(rows)
        /\ DOMAIN found' = 1..(Len(found) + Len(rows)) /\ Len(found) \in Nat /\ Len(rows) \in Nat
    OBVIOUS
  <1>2. ASSUME NEW i \in DOMAIN found PROVE i \in DOMAIN found' /\ found'[i] = found[i]
    BY <1>1
  <1>3. ASSUME NEW i \in DOMAIN rows PROVE Len(found) + i \in DOMAIN found' /\ found'[Len(found) + i] = rows[i]
    BY <1>1
  <1>4. ASSUME NEW d \in Devices, M!InFound(d) PROVE M!InFound(d)'
    BY <1>2, <1>4 DEF M!InFound
  <1>5. ASSUME NEW d \in Devices, NEW i \in DOMAIN rows, rows[i].device = d PROVE M!InFound(d)'
    <2>1. \E j \in DOMAIN found' : found'[j].device = d
      BY <1>3, <1>5
    <2> QED
      BY <2>1 DEF M!InFound
  <1> QED
    BY <1>1, <1>4, <1>5

LEMMA MatchingConstants ==
  /\ FRESH \in Nat /\ STALE \in Nat /\ Base \in Nat /\ Expanded \in Nat /\ Far \in Nat /\ MaxTime \in Nat
  /\ Base <= Expanded
  BY RecordsAssumption

\* A match of any query but the one on zones.
LEMMA MatchType ==
  ASSUME M!TypeOK, NEW d \in Devices, NEW priority \in 1..5, NEW dist \in 1..M!Unknown,
         NEW key \in {"number", "string"}
  PROVE  M!match(d, priority, dist, key) \in M!Match /\ M!match(d, priority, dist, key).device = d
  <1>1. row[d].token \in BOOLEAN
    BY DEF M!TypeOK, M!Row
  <1> QED
    BY <1>1 DEF M!match, M!Match

\* Time passes and rows change, but a device that counts is as it was.
LEMMA Meanwhile ==
  ASSUME MatchingInv, UNCHANGED <<query, found, staleAt>>, M!TypeOK', now <= now',
         \A d \in Devices : Near(d)' => Near(d) /\ row'[d].at = row[d].at
  PROVE  MatchingInv'
  <1>1. /\ now \in Nat /\ now' \in Nat /\ FRESH \in Nat
        /\ \A d \in Devices : row[d].at \in Nat
    BY MatchingConstants DEF MatchingInv, M!TypeOK, M!Row
  <1>2. \A d \in Devices : M!InFound(d)' <=> M!InFound(d)
    BY DEF M!InFound
  <1>3. query' = "stale" => \A d \in Devices : Near(d)' => M!InFound(d)' \/ row'[d].at + FRESH < now'
    BY <1>1, <1>2 DEF MatchingInv
  <1>4. query' \in {"postal", "ip", "done"} /\ staleAt' # 0 =>
          \A d \in Devices : Near(d)' /\ row'[d].at + STALE >= staleAt' => M!InFound(d)'
    BY <1>2 DEF MatchingInv
  <1> QED
    BY <1>3, <1>4 DEF MatchingInv

LEMMA MatchingNext == MatchingInv /\ [M!Next]_matchVars => MatchingInv'
  <1> SUFFICES ASSUME MatchingInv, [M!Next]_matchVars PROVE MatchingInv'
    OBVIOUS
  <1>0. /\ M!TypeOK /\ now \in 1..MaxTime /\ staleAt \in 0..MaxTime /\ row \in [Devices -> M!Row]
        /\ found \in Seq(M!Match) /\ now \in Nat /\ staleAt \in Nat
        /\ \A d \in Devices : row[d] \in M!Row /\ row[d].at \in Nat /\ row[d].dist \in 1..Far
                              /\ row[d].token \in BOOLEAN
    BY MatchingConstants DEF MatchingInv, M!TypeOK, M!Row
  <1>1. CASE UNCHANGED matchVars
    BY <1>0, <1>1, Meanwhile DEF matchVars, M!TypeOK, Near
  <1>2. CASE M!CloseAlert
    BY <1>0, <1>2, Meanwhile DEF M!CloseAlert, M!TypeOK, Near
  <1>3. CASE M!Tick
    <2>1. /\ now' = now + 1 /\ now < MaxTime
          /\ UNCHANGED <<row, moving, zoned, sought, query, found, staleAt, changed>>
      BY <1>3 DEF M!Tick
    <2>2. now' \in 1..MaxTime /\ now <= now'
      BY <1>0, <2>1, MatchingConstants
    <2> QED
      BY <1>0, <2>1, <2>2, Meanwhile DEF M!TypeOK, Near
  \* A row that changes no longer counts.
  <1>4. ASSUME NEW d \in Devices, NEW r \in M!Row, row' = [row EXCEPT ![d] = r], M!Touch(d),
               moving' \subseteq Devices, UNCHANGED <<now, zoned, sought, query, found, staleAt>>
        PROVE  MatchingInv'
    <2>1. changed' = changed \cup {d}
      BY <1>4 DEF M!Touch
    <2>2. M!TypeOK'
      BY <1>0, <1>4, <2>1 DEF M!TypeOK
    <2>3. \A x \in Devices : Near(x)' => Near(x) /\ row'[x].at = row[x].at
      BY <1>0, <1>4, <2>1 DEF Near
    <2> QED
      BY <1>0, <1>4, <2>2, <2>3, Meanwhile
  <1>5. ASSUME NEW d \in Devices, M!WriteTime(d)
        PROVE  MatchingInv'
    <2> DEFINE r == [row[d] EXCEPT !.at = now]
    <2>1. now \in 0..MaxTime
      BY <1>0, MatchingConstants
    <2>2. r \in M!Row
      BY <1>0, <2>1 DEF M!Row
    <2>3. row' = [row EXCEPT ![d] = r]
      BY <1>0, <1>5 DEF M!WriteTime
    <2>4. M!Touch(d) /\ moving' \subseteq Devices /\ UNCHANGED <<now, zoned, sought, query, found, staleAt>>
      BY <1>0, <1>5 DEF M!WriteTime, M!TypeOK
    <2> HIDE DEF r
    <2> QED
      BY <1>4, <2>2, <2>3, <2>4
  <1>6. ASSUME NEW d \in Devices, M!WritePoint(d)
        PROVE  MatchingInv'
    <2>1. PICK x \in 1..Far : row' = [row EXCEPT ![d].dist = x]
      BY <1>6 DEF M!WritePoint
    <2> DEFINE r == [row[d] EXCEPT !.dist = x]
    <2>2. r \in M!Row
      BY <1>0 DEF M!Row
    <2>3. row' = [row EXCEPT ![d] = r]
      BY <1>0, <2>1
    <2>4. M!Touch(d) /\ moving' \subseteq Devices /\ UNCHANGED <<now, zoned, sought, query, found, staleAt>>
      BY <1>0, <1>6 DEF M!WritePoint, M!TypeOK
    <2> HIDE DEF r
    <2> QED
      BY <1>4, <2>2, <2>3, <2>4
  <1>7. ASSUME NEW d \in Devices, M!ChangeToken(d)
        PROVE  MatchingInv'
    <2> DEFINE r == [row[d] EXCEPT !.token = ~row[d].token]
    <2>2. r \in M!Row
      BY <1>0 DEF M!Row
    <2>3. row' = [row EXCEPT ![d] = r]
      BY <1>0, <1>7 DEF M!ChangeToken
    <2>4. M!Touch(d) /\ moving' \subseteq Devices /\ UNCHANGED <<now, zoned, sought, query, found, staleAt>>
      BY <1>0, <1>7 DEF M!ChangeToken, M!TypeOK
    <2> HIDE DEF r
    <2> QED
      BY <1>4, <2>2, <2>3, <2>4
  <1>8. CASE M!findDevicesForAlert
    <2>1. /\ query = "idle" /\ query' \in {"zones", "done"} /\ staleAt = 0
          /\ UNCHANGED <<now, row, moving, zoned, sought, found, staleAt, changed>>
      BY <1>8 DEF M!findDevicesForAlert, MatchingInv
    <2>2. M!TypeOK'
      BY <1>0, <2>1 DEF M!TypeOK, M!Steps
    <2> QED
      BY <2>1, <2>2 DEF MatchingInv
  \* A query adds its answer to what was found.
  <1>9. ASSUME NEW step, NEW next \in M!Steps, NEW rows \in Seq(M!Match), query = step, query' = next,
               found' = found \o rows, UNCHANGED <<now, row, moving, zoned, sought, changed>>,
               staleAt' \in {staleAt, now}
        PROVE  /\ M!TypeOK'
               /\ \A d \in Devices : M!InFound(d) \/ (\E i \in DOMAIN rows : rows[i].device = d) => M!InFound(d)'
               /\ \A d \in Devices : (Near(d)' <=> Near(d)) /\ row'[d] = row[d]
    <2>1. staleAt' \in 0..MaxTime
      BY <1>0, <1>9, MatchingConstants
    <2>2. /\ found' \in Seq(M!Match)
          /\ \A d \in Devices : M!InFound(d) \/ (\E i \in DOMAIN rows : rows[i].device = d) => M!InFound(d)'
      BY <1>0, <1>9, Found
    <2>3. M!TypeOK'
      BY <1>0, <1>9, <2>1, <2>2 DEF M!TypeOK
    <2> QED
      BY <1>9, <2>2, <2>3 DEF Near
  <1>10. CASE M!AskZones
    <2> DEFINE X == {d \in Devices : Holder[d] \in zoned}
               m == [d \in X |-> M!match(d, 1, 1, "string")]
               step == "zones"
               next == "fresh"
    <2>1. PICK rows \in M!findAlertZoneMatches : found' = found \o (M!findSavedZoneMatches \o rows)
      BY <1>10 DEF M!AskZones, M!Ask
    <2>2. X \in SUBSET Devices /\ M!findAlertZoneMatches = M!Nearest({m[d] : d \in X})
      BY DEF M!findAlertZoneMatches
    <2>3. m \in [X -> M!Match]
      <3>1. 1 \in 1..5 /\ 1 \in 1..M!Unknown
        BY MatchingConstants DEF M!Unknown
      <3> QED
        BY <1>0, <2>2, <3>1, MatchType
    <2> HIDE DEF X, m
    <2>4. rows \in Seq(M!Match)
      BY <2>1, <2>2, <2>3, NearestAll
    <2>5. M!findSavedZoneMatches \o rows = rows
      BY <2>4 DEF M!findSavedZoneMatches
    <2>6. /\ query = step /\ query' = next /\ next \in M!Steps /\ found' = found \o rows
          /\ UNCHANGED <<now, row, moving, zoned, sought, changed, staleAt>>
      BY <1>10, <2>1, <2>5 DEF M!AskZones, M!Ask, M!Steps
    <2>7. M!TypeOK'
      BY <1>9, <2>4, <2>6
    <2> QED
      BY <2>6, <2>7 DEF MatchingInv
  <1>11. CASE M!AskFresh
    <2> DEFINE X == {d \in Devices : row[d].at # 0 /\ row[d].token /\ row[d].at + FRESH >= now /\ row[d].dist <= Base}
               m == [d \in X |-> M!match(d, 2, row[d].dist, "number")]
    <2>1. PICK rows \in M!findFreshGpsMatches : found' = found \o rows
      BY <1>11 DEF M!AskFresh, M!Ask
    <2>2. X \in SUBSET Devices /\ M!findFreshGpsMatches = M!Nearest({m[d] : d \in X})
      BY DEF M!findFreshGpsMatches
    <2>3. m \in [X -> M!Match] /\ \A d \in X : m[d].device = d
      <3>1. 2 \in 1..5 /\ \A d \in X : row[d].dist \in 1..M!Unknown
        BY <1>0, MatchingConstants DEF M!Unknown
      <3> QED
        BY <1>0, <2>2, <3>1, MatchType
    <2>8. \A d \in Devices : Near(d) => d \in X \/ row[d].at + FRESH < now
      BY <1>0, MatchingConstants DEF Near
    <2> HIDE DEF X, m
    <2>4. rows \in Seq(M!Match) /\ \A d \in X : \E i \in DOMAIN rows : rows[i].device = d
      <3>1. rows \in Seq(M!Match) /\ \A d \in X : \E i \in DOMAIN rows : rows[i] = m[d]
        BY <2>1, <2>2, <2>3, NearestAll
      <3> QED
        BY <2>3, <3>1
    <2>6. /\ query = "fresh" /\ query' = "stale" /\ "stale" \in M!Steps
          /\ UNCHANGED <<now, row, moving, zoned, sought, changed, staleAt>>
      BY <1>11 DEF M!AskFresh, M!Ask, M!Steps
    <2>7. /\ M!TypeOK'
          /\ \A d \in Devices : M!InFound(d) \/ (\E i \in DOMAIN rows : rows[i].device = d) => M!InFound(d)'
          /\ \A d \in Devices : (Near(d)' <=> Near(d)) /\ row'[d] = row[d]
      BY <1>9, <2>1, <2>4, <2>6
    <2> QED
      BY <2>4, <2>6, <2>7, <2>8 DEF MatchingInv
  <1>12. CASE M!Ask("stale", "postal", M!findStaleGpsMatches) /\ staleAt' = now
    <2> DEFINE X == {d \in Devices : /\ row[d].at # 0 /\ row[d].token
                                     /\ row[d].at + FRESH < now /\ row[d].at + STALE >= now
                                     /\ row[d].dist <= Expanded}
               m == [d \in X |-> M!match(d, 3, row[d].dist, "number")]
    <2>1. PICK rows \in M!findStaleGpsMatches : found' = found \o rows
      BY <1>12 DEF M!Ask
    <2>2. X \in SUBSET Devices /\ M!findStaleGpsMatches = M!Nearest({m[d] : d \in X})
      BY DEF M!findStaleGpsMatches
    <2>3. m \in [X -> M!Match] /\ \A d \in X : m[d].device = d
      <3>1. 3 \in 1..5 /\ \A d \in X : row[d].dist \in 1..M!Unknown
        BY <1>0, MatchingConstants DEF M!Unknown
      <3> QED
        BY <1>0, <2>2, <3>1, MatchType
    <2>8. \A d \in Devices : Near(d) /\ row[d].at + FRESH < now /\ row[d].at + STALE >= now => d \in X
      <3>1. \A d \in Devices : row[d].dist <= Base => row[d].dist <= Expanded
        BY <1>0, MatchingConstants
      <3> QED
        BY <3>1 DEF Near
    <2> HIDE DEF X, m
    <2>4. rows \in Seq(M!Match) /\ \A d \in X : \E i \in DOMAIN rows : rows[i].device = d
      <3>1. rows \in Seq(M!Match) /\ \A d \in X : \E i \in DOMAIN rows : rows[i] = m[d]
        BY <2>1, <2>2, <2>3, NearestAll
      <3> QED
        BY <2>3, <3>1
    <2>6. /\ query = "stale" /\ query' = "postal" /\ "postal" \in M!Steps
          /\ UNCHANGED <<now, row, moving, zoned, sought, changed>>
      BY <1>12 DEF M!Ask, M!Steps
    <2>7. /\ M!TypeOK'
          /\ \A d \in Devices : M!InFound(d) \/ (\E i \in DOMAIN rows : rows[i].device = d) => M!InFound(d)'
          /\ \A d \in Devices : (Near(d)' <=> Near(d)) /\ row'[d] = row[d]
      BY <1>9, <1>12, <2>1, <2>4, <2>6
    <2>9. \A d \in Devices : Near(d) => M!InFound(d) \/ row[d].at + FRESH < now
      BY <2>6 DEF MatchingInv
    <2> QED
      BY <1>12, <2>4, <2>6, <2>7, <2>8, <2>9 DEF MatchingInv
  \* The last two queries add matches, and lose none.
  <1>13. ASSUME NEW step, NEW next, query = step, query' = next,
                step \in {"postal", "ip"}, next \in {"ip", "done"}, NEW rows \in Seq(M!Match),
                found' = found \o rows, UNCHANGED <<now, row, moving, zoned, sought, changed, staleAt>>
         PROVE  MatchingInv'
    <2>1. next \in M!Steps
      BY <1>13 DEF M!Steps
    <2>2. /\ M!TypeOK'
          /\ \A d \in Devices : M!InFound(d) \/ (\E i \in DOMAIN rows : rows[i].device = d) => M!InFound(d)'
          /\ \A d \in Devices : (Near(d)' <=> Near(d)) /\ row'[d] = row[d]
      BY <1>9, <1>13, <2>1
    <2>3. staleAt # 0 => \A d \in Devices : Near(d) /\ row[d].at + STALE >= staleAt => M!InFound(d)
      BY <1>13 DEF MatchingInv
    <2> QED
      BY <1>13, <2>2, <2>3 DEF MatchingInv
  <1>14. CASE M!AskPostal
    <2> DEFINE X == {d \in Devices : row[d].token /\ row[d].postal}
               m == [d \in X |-> M!match(d, 4, M!Unknown, "number")]
    <2>1. PICK rows \in M!findPostalCodeMatches : found' = found \o rows
      BY <1>14 DEF M!AskPostal, M!Ask
    <2>2. X \in SUBSET Devices /\ M!findPostalCodeMatches = M!Nearest({m[d] : d \in X})
      BY DEF M!findPostalCodeMatches
    <2>3. m \in [X -> M!Match]
      <3>1. 4 \in 1..5 /\ M!Unknown \in 1..M!Unknown
        BY MatchingConstants DEF M!Unknown
      <3> QED
        BY <1>0, <2>2, <3>1, MatchType
    <2> HIDE DEF X, m
    <2>4. rows \in Seq(M!Match)
      BY <2>1, <2>2, <2>3, NearestAll
    <2>5. query = "postal" /\ query' = "ip" /\ UNCHANGED <<now, row, moving, zoned, sought, changed, staleAt>>
      BY <1>14 DEF M!AskPostal, M!Ask
    <2> QED
      BY <1>13, <2>1, <2>4, <2>5
  <1>15. CASE M!AskIp
    <2>1. /\ query = "ip" /\ query' = "done" /\ found' = found \o M!findIpGeoMatches
          /\ UNCHANGED <<now, row, moving, zoned, sought, changed, staleAt>>
      BY <1>15 DEF M!AskIp, M!Ask
    <2>2. M!findIpGeoMatches \in Seq(M!Match)
      BY DEF M!findIpGeoMatches
    <2> QED
      BY <1>13, <2>1, <2>2
  <1> QED
    BY <1>1, <1>2, <1>3, <1>5, <1>6, <1>7, <1>8, <1>10, <1>11, <1>12, <1>14, <1>15
    DEF M!Next, M!AskGps

\* No device is missed between the queries of a search: location.service.ts:132.
THEOREM NobodyMissedSafe == Spec => []NobodyMissed
  <1> DEFINE Inv == part = "matching" => MatchingInv
  <1>1. Init => Inv
    BY MatchingInit DEF Init
  <1>2. Inv /\ [Next]_vars => Inv'
    BY Parts, MatchingNext
  <1>3. MatchingInv => M!NobodyMissed
    BY DEF MatchingInv, Near, M!NobodyMissed
  <1>4. Inv => NobodyMissed
    BY <1>3 DEF NobodyMissed
  <1> QED
    BY <1>1, <1>2, <1>4, PTL DEF Spec

--------------------------------------------------------------------------------
(* The reduction of the matches *)

\* A set of naturals has a least element: the smallest of the intervals up to its elements.
LEMMA LeastOf ==
  ASSUME NEW X \in SUBSET Nat, X # {}
  PROVE  \E x \in X : \A y \in X : x <= y
  <1> DEFINE Initials == {0..x : x \in X}
  <1>1. Initials \subseteq FiniteSubsetsOf(Nat) /\ Initials # {}
    <2>1. \A x \in X : IsFiniteSet(0..x) /\ 0..x \in SUBSET Nat
      BY FS_Interval
    <2> QED
      BY <2>1 DEF FiniteSubsetsOf
  <1>2. PICK I \in Initials : \A J \in Initials : ~(<<J, I>> \in StrictSubsetOrdering(Nat))
    BY <1>1, FS_StrictSubsetOrderingWellFounded, WFMin
  <1>3. PICK x \in X : I = 0..x
    BY <1>2
  <1>4. ASSUME NEW y \in X PROVE x <= y
    <2>1. ~(<<0..y, 0..x>> \in StrictSubsetOrdering(Nat))
      BY <1>2, <1>3
    <2>2. 0..y \in SUBSET Nat /\ 0..x \in SUBSET Nat /\ x \in Nat /\ y \in Nat
      OBVIOUS
    <2>3. y < x => 0..y \subseteq 0..x /\ 0..y # 0..x
      BY <2>2
    <2> QED
      BY <2>1, <2>2, <2>3 DEF StrictSubsetOrdering
  <1> QED
    BY <1>4

\* kept is the sequence of Maps that a pass makes of the first k matches.
Chain(by, seq, kept, k) ==
  kept = [n \in 0..k |-> IF n = 0 THEN <<>> ELSE M!Enter(by, kept[n - 1], seq[n])]

\* A pass is well defined: the shortest prefix without a chain would be one longer than a
\* prefix that has one.
LEMMA KeepChain ==
  ASSUME NEW by, NEW seq \in Seq(M!Match)
  PROVE  \E kept : Chain(by, seq, kept, Len(seq)) /\ M!Keep(by, seq) = kept[Len(seq)]
  <1> DEFINE Missing == {k \in Nat : ~(\E kept : Chain(by, seq, kept, k))}
  <1>1. CASE Missing # {}
    <2>1. PICK k \in Missing : \A j \in Missing : k <= j
      BY <1>1, LeastOf
    <2>2. k # 0
      <3> DEFINE kept == [n \in 0..0 |-> <<>>]
      <3>1. Chain(by, seq, kept, 0)
        BY DEF Chain
      <3> QED
        BY <2>1, <3>1
    <2>3. k - 1 \in Nat /\ k - 1 \notin Missing /\ k \in Nat
      BY <2>1, <2>2
    <2>4. PICK kept : Chain(by, seq, kept, k - 1)
      BY <2>3
    <2> DEFINE longer == [n \in 0..k |-> IF n = k THEN M!Enter(by, kept[k - 1], seq[k]) ELSE kept[n]]
    <2>5. \A n \in 0..(k - 1) : longer[n] = kept[n]
      BY <2>3
    <2>6. longer = [n \in 0..k |-> IF n = 0 THEN <<>> ELSE M!Enter(by, longer[n - 1], seq[n])]
      <3>1. ASSUME NEW n \in 0..k
            PROVE  longer[n] = IF n = 0 THEN <<>> ELSE M!Enter(by, longer[n - 1], seq[n])
        <4>1. CASE n = k
          <5>1. longer[n] = M!Enter(by, kept[k - 1], seq[k]) /\ longer[k - 1] = kept[k - 1]
            BY <2>3, <2>5, <4>1
          <5> QED
            BY <2>2, <4>1, <5>1
        <4>2. CASE n # k
          <5>1. n \in 0..(k - 1) /\ (n # 0 => n - 1 \in 0..(k - 1))
            BY <2>3, <4>2
          <5>2. kept[n] = IF n = 0 THEN <<>> ELSE M!Enter(by, kept[n - 1], seq[n])
            BY <2>4, <5>1 DEF Chain
          <5> HIDE DEF longer
          <5> QED
            BY <2>5, <5>1, <5>2
        <4> QED
          BY <4>1, <4>2
      <3>2. longer = [n \in 0..k |-> longer[n]]
        OBVIOUS
      <3> HIDE DEF longer
      <3> QED
        BY <3>1, <3>2
    <2> HIDE DEF longer
    <2>7. Chain(by, seq, longer, k)
      BY <2>6 DEF Chain
    <2> QED
      BY <2>1, <2>7
  <1>2. CASE Missing = {}
    <2>1. Len(seq) \in Nat
      OBVIOUS
    <2>2. \E kept : Chain(by, seq, kept, Len(seq))
      BY <1>2, <2>1
    <2> DEFINE kept == CHOOSE f : Chain(by, seq, f, Len(seq))
    <2>3. Chain(by, seq, kept, Len(seq))
      BY <2>2
    <2>4. M!Keep(by, seq) = kept[Len(seq)]
      BY DEF M!Keep, Chain
    <2> QED
      BY <2>3, <2>4
  <1> QED
    BY <1>1, <1>2

\* e is not beaten by m in the Map where they share a key.
AtLeast(by, e, m) == M!Key(by, e) = M!Key(by, m) /\ ~M!Better(by, m, e)

LEMMA AtLeastOrder ==
  ASSUME NEW by, NEW a \in M!Match, NEW b \in M!Match, NEW c \in M!Match
  PROVE  /\ AtLeast(by, a, a)
         /\ M!Key(by, a) = M!Key(by, b) /\ M!Better(by, a, b) => AtLeast(by, a, b)
         /\ AtLeast(by, a, b) /\ AtLeast(by, b, c) => AtLeast(by, a, c)
  <1>1. /\ a.priority \in Int /\ b.priority \in Int /\ c.priority \in Int
        /\ a.dist \in Int /\ b.dist \in Int /\ c.dist \in Int
        /\ a.token \in BOOLEAN /\ b.token \in BOOLEAN /\ c.token \in BOOLEAN
    BY DEF M!Match
  <1> QED
    BY <1>1 DEF AtLeast, M!Better

\* A Map of a pass: matches, one under each key.
IsMap(by, kept) ==
  /\ kept \in Seq(M!Match)
  /\ \A i, j \in DOMAIN kept : M!Key(by, kept[i]) = M!Key(by, kept[j]) => i = j

\* A match that enters is in the Map, or one that it does not beat is; the others stay or
\* give way to one that beats them.
LEMMA EnterBest ==
  ASSUME NEW by, NEW kept, IsMap(by, kept), NEW m \in M!Match
  PROVE  LET out == M!Enter(by, kept, m) IN
         /\ IsMap(by, out)
         /\ \A i \in DOMAIN kept : \E j \in DOMAIN out : AtLeast(by, out[j], kept[i])
         /\ \E j \in DOMAIN out : AtLeast(by, out[j], m)
         /\ \A j \in DOMAIN out : out[j] = m \/ \E i \in DOMAIN kept : out[j] = kept[i]
  <1> DEFINE out == M!Enter(by, kept, m)
             known == \E i \in DOMAIN kept : M!Key(by, kept[i]) = M!Key(by, m)
  <1>0. /\ kept \in Seq(M!Match) /\ DOMAIN kept = 1..Len(kept) /\ Len(kept) \in Nat
        /\ \A i \in DOMAIN kept : kept[i] \in M!Match
    BY DEF IsMap
  <1>1. CASE known
    <2>1. out = [i \in DOMAIN kept |->
                   IF M!Key(by, kept[i]) = M!Key(by, m) /\ M!Better(by, m, kept[i]) THEN m ELSE kept[i]]
      BY <1>1 DEF M!Enter
    <2>2. /\ DOMAIN out = DOMAIN kept
          /\ \A i \in DOMAIN kept :
               out[i] = IF M!Key(by, kept[i]) = M!Key(by, m) /\ M!Better(by, m, kept[i]) THEN m ELSE kept[i]
      BY <2>1
    <2>3. \A i \in DOMAIN kept : M!Key(by, out[i]) = M!Key(by, kept[i]) /\ out[i] \in M!Match
      BY <1>0, <2>2
    <2>4. out \in Seq(M!Match)
      <3>1. out \in [1..Len(kept) -> M!Match]
        BY <1>0, <2>1
      <3> HIDE DEF out
      <3> QED
        BY <1>0, <3>1
    <2> HIDE DEF out
    <2>5. IsMap(by, out)
      BY <2>2, <2>3, <2>4 DEF IsMap
    <2>6. \A i \in DOMAIN kept : AtLeast(by, out[i], kept[i])
      BY <1>0, <2>2, AtLeastOrder
    <2>7. PICK i \in DOMAIN kept : M!Key(by, kept[i]) = M!Key(by, m)
      BY <1>1
    <2>8. AtLeast(by, out[i], m)
      BY <1>0, <2>2, <2>7, AtLeastOrder DEF AtLeast
    <2>9. \A j \in DOMAIN out : out[j] = m \/ \E e \in DOMAIN kept : out[j] = kept[e]
      BY <2>2
    <2> QED
      BY <2>2, <2>5, <2>6, <2>7, <2>8, <2>9 DEF out
  <1>2. CASE ~known
    <2>1. out = Append(kept, m)
      BY <1>2 DEF M!Enter
    <2>2. /\ out \in Seq(M!Match) /\ DOMAIN out = 1..(Len(kept) + 1)
          /\ \A i \in DOMAIN kept : out[i] = kept[i]
          /\ out[Len(kept) + 1] = m
      BY <1>0, <2>1
    <2> HIDE DEF out
    <2>3. \A j \in DOMAIN out : j \in DOMAIN kept \/ j = Len(kept) + 1
      BY <1>0, <2>2
    <2>4. IsMap(by, out)
      BY <1>2, <2>2, <2>3 DEF IsMap
    <2>5. \A i \in DOMAIN kept : i \in DOMAIN out /\ AtLeast(by, out[i], kept[i])
      BY <1>0, <2>2, AtLeastOrder
    <2>6. Len(kept) + 1 \in DOMAIN out /\ AtLeast(by, out[Len(kept) + 1], m)
      BY <1>0, <2>2, AtLeastOrder
    <2> QED
      BY <2>2, <2>3, <2>4, <2>5, <2>6 DEF out
  <1> QED
    BY <1>1, <1>2

\* A pass keeps one match under each key, and none of those it read beats it.
LEMMA KeepBest ==
  ASSUME NEW by, NEW seq \in Seq(M!Match)
  PROVE  LET out == M!Keep(by, seq) IN
         /\ IsMap(by, out)
         /\ \A p \in DOMAIN seq : \E i \in DOMAIN out : AtLeast(by, out[i], seq[p])
         /\ \A i \in DOMAIN out : \E p \in DOMAIN seq : out[i] = seq[p]
  <1> DEFINE size == Len(seq)
  <1>0. size \in Nat /\ DOMAIN seq = 1..size /\ \A p \in 1..size : seq[p] \in M!Match
    OBVIOUS
  <1>1. PICK kept : Chain(by, seq, kept, size) /\ M!Keep(by, seq) = kept[size]
    BY KeepChain
  <1>2. kept[0] = <<>> /\ \A n \in 1..size : kept[n] = M!Enter(by, kept[n - 1], seq[n])
    <2>1. \A n \in 0..size : kept[n] = IF n = 0 THEN <<>> ELSE M!Enter(by, kept[n - 1], seq[n])
      BY <1>1 DEF Chain
    <2> QED
      BY <1>0, <2>1
  <1> HIDE DEF size
  <1> DEFINE Chosen(n) ==
        /\ IsMap(by, kept[n])
        /\ \A p \in 1..n : \E i \in DOMAIN kept[n] : AtLeast(by, kept[n][i], seq[p])
        /\ \A i \in DOMAIN kept[n] : \E p \in 1..n : kept[n][i] = seq[p]
      Wrong == {n \in 0..size : ~Chosen(n)}
  <1>3. Chosen(0)
    BY <1>2 DEF IsMap
  <1>4. ASSUME NEW n \in 1..size, Chosen(n - 1) PROVE Chosen(n)
    <2> DEFINE old == kept[n - 1]
               new == kept[n]
    <2>1. new = M!Enter(by, old, seq[n]) /\ seq[n] \in M!Match /\ n \in Nat /\ n - 1 \in Nat
      BY <1>0, <1>2
    <2>2. /\ IsMap(by, old)
          /\ \A p \in 1..(n - 1) : \E i \in DOMAIN old : AtLeast(by, old[i], seq[p])
          /\ \A i \in DOMAIN old : \E p \in 1..(n - 1) : old[i] = seq[p]
      BY <1>4
    <2> HIDE DEF old, new, Chosen
    <2>3. /\ IsMap(by, new)
          /\ \A i \in DOMAIN old : \E j \in DOMAIN new : AtLeast(by, new[j], old[i])
          /\ \E j \in DOMAIN new : AtLeast(by, new[j], seq[n])
          /\ \A j \in DOMAIN new : new[j] = seq[n] \/ \E i \in DOMAIN old : new[j] = old[i]
      BY <2>1, <2>2, EnterBest
    <2>4. /\ \A i \in DOMAIN old : old[i] \in M!Match
          /\ \A j \in DOMAIN new : new[j] \in M!Match
      BY <2>3, <2>2 DEF IsMap
    <2>5. ASSUME NEW p \in 1..n PROVE \E j \in DOMAIN new : AtLeast(by, new[j], seq[p])
      <3>1. CASE p = n
        BY <2>3, <3>1
      <3>2. CASE p # n
        <4>1. p \in 1..(n - 1) /\ p \in 1..size
          BY <1>0, <2>1, <3>2
        <4>2. PICK i \in DOMAIN old : AtLeast(by, old[i], seq[p])
          BY <2>2, <4>1
        <4>3. PICK j \in DOMAIN new : AtLeast(by, new[j], old[i])
          BY <2>3
        <4>4. seq[p] \in M!Match
          BY <1>0, <4>1
        <4> QED
          BY <2>4, <4>2, <4>3, <4>4, AtLeastOrder
      <3> QED
        BY <3>1, <3>2
    <2>6. ASSUME NEW j \in DOMAIN new PROVE \E p \in 1..n : new[j] = seq[p]
      <3>1. CASE new[j] = seq[n]
        BY <2>1, <3>1
      <3>2. CASE \E i \in DOMAIN old : new[j] = old[i]
        <4>1. PICK p \in 1..(n - 1) : new[j] = seq[p]
          BY <2>2, <3>2
        <4> QED
          BY <2>1, <4>1
      <3> QED
        BY <2>3, <3>1, <3>2
    <2> QED
      BY <2>3, <2>5, <2>6 DEF new, Chosen
  <1> HIDE DEF Chosen
  <1>5. Wrong = {}
    <2> SUFFICES ASSUME Wrong # {} PROVE FALSE
      OBVIOUS
    <2>1. Wrong \in SUBSET Nat
      BY <1>0
    <2>2. PICK n \in Wrong : \A k \in Wrong : n <= k
      BY <2>1, LeastOf
    <2>3. n # 0
      BY <1>3, <2>2
    <2>4. n \in 1..size /\ n - 1 \in 0..size /\ n - 1 \notin Wrong
      BY <1>0, <2>2, <2>3
    <2> QED
      BY <1>4, <2>2, <2>4
  <1>6. Chosen(size)
    BY <1>0, <1>5
  <1> QED
    BY <1>0, <1>1, <1>6 DEF Chosen


\* The matches of a search: one row for a device and a source, of the device's owner; a later
\* query is of a lower priority.
Sources ==
  /\ \A i \in DOMAIN found : found[i].user = Holder[found[i].device]
  /\ \A i, j \in DOMAIN found :
       found[i].device = found[j].device /\ found[i].priority = found[j].priority => found[i] = found[j]

Asked(n) == \A i \in DOMAIN found : found[i].priority <= n

SourcesInv ==
  /\ MatchingInv
  /\ Sources
  /\ query \in {"idle", "zones"} => Asked(0)
  /\ query = "fresh" => Asked(1)
  /\ query = "stale" => Asked(2)
  /\ query = "postal" => Asked(3)

\* A query of priority n after those of smaller ones.
LEMMA Answer ==
  ASSUME MatchingInv, Sources, NEW n \in 1..5, Asked(n - 1),
         NEW X \in SUBSET Devices, NEW m \in [X -> M!Match], NEW rows \in M!Nearest({m[d] : d \in X}),
         \A d \in X : m[d].device = d /\ m[d].user = Holder[d] /\ m[d].priority = n,
         found' = found \o rows
  PROVE  Sources' /\ Asked(n)'
  <1>1. rows \in Seq(M!Match) /\ \A i \in DOMAIN rows : \E d \in X : rows[i] = m[d]
    BY NearestAll
  <1>2. found \in Seq(M!Match)
    BY DEF MatchingInv, M!TypeOK
  <1>3. \A i \in DOMAIN found' :
          \/ i \in DOMAIN found /\ found'[i] = found[i]
          \/ \E j \in DOMAIN rows : found'[i] = rows[j]
    <2>1. /\ DOMAIN found = 1..Len(found) /\ DOMAIN rows = 1..Len(rows)
          /\ Len(found) \in Nat /\ Len(rows) \in Nat
          /\ DOMAIN found' = 1..(Len(found) + Len(rows))
          /\ \A i \in 1..(Len(found) + Len(rows)) :
               found'[i] = IF i <= Len(found) THEN found[i] ELSE rows[i - Len(found)]
      BY <1>1, <1>2
    <2>2. ASSUME NEW i \in DOMAIN found', ~(i <= Len(found))
          PROVE  i - Len(found) \in DOMAIN rows /\ found'[i] = rows[i - Len(found)]
      BY <2>1, <2>2
    <2>3. ASSUME NEW i \in DOMAIN found', i <= Len(found)
          PROVE  i \in DOMAIN found /\ found'[i] = found[i]
      BY <2>1, <2>3
    <2> QED
      BY <2>2, <2>3
  <1>4. \A i \in DOMAIN found' :
          \/ i \in DOMAIN found /\ found'[i] = found[i]
          \/ \E d \in X : found'[i] = m[d]
    BY <1>1, <1>3
  <1>5. \A i \in DOMAIN found : found[i].priority <= n - 1 /\ found[i].priority \in Int /\ found[i].priority # n
    <2>1. \A i \in DOMAIN found : found[i] \in M!Match
      BY <1>2
    <2>2. \A i \in DOMAIN found : found[i].priority \in Int
      BY <2>1 DEF M!Match
    <2> QED
      BY <2>2 DEF Asked
  <1>6. Asked(n)'
    BY <1>4, <1>5 DEF Asked
  <1>7. \A i \in DOMAIN found' : found'[i].user = Holder[found'[i].device]
    BY <1>4 DEF Sources
  <1>8. ASSUME NEW i \in DOMAIN found', NEW j \in DOMAIN found',
               found'[i].device = found'[j].device, found'[i].priority = found'[j].priority
        PROVE  found'[i] = found'[j]
    <2>1. CASE \E d \in X : found'[i] = m[d]
      <3>1. \E e \in X : found'[j] = m[e]
        BY <1>4, <1>5, <1>8, <2>1
      <3> QED
        BY <1>8, <2>1, <3>1
    <2>2. CASE i \in DOMAIN found /\ found'[i] = found[i]
      <3>1. j \in DOMAIN found /\ found'[j] = found[j]
        BY <1>4, <1>5, <1>8, <2>2
      <3> QED
        BY <1>8, <2>2, <3>1 DEF Sources
    <2> QED
      BY <1>4, <2>1, <2>2
  <1> QED
    BY <1>6, <1>7, <1>8 DEF Sources

LEMMA SourcesNext == SourcesInv /\ [M!Next]_matchVars => SourcesInv'
  <1> SUFFICES ASSUME SourcesInv, [M!Next]_matchVars PROVE SourcesInv'
    OBVIOUS
  <1>0. MatchingInv' /\ M!TypeOK /\ MatchingInv /\ Sources
    BY MatchingNext DEF SourcesInv, MatchingInv
  <1>1. ASSUME UNCHANGED <<query, found>> PROVE SourcesInv'
    BY <1>0, <1>1 DEF SourcesInv, Sources, Asked
  <1>2. ASSUME NEW d \in Devices, NEW priority \in 1..5, NEW dist \in 1..M!Unknown,
               NEW key \in {"number", "string"}
        PROVE  LET m == M!match(d, priority, dist, key) IN
               m \in M!Match /\ m.device = d /\ m.user = Holder[d] /\ m.priority = priority
    BY <1>0, MatchType DEF M!match
  <1>r. \A d \in Devices : row[d].dist \in 1..M!Unknown /\ 1 \in 1..M!Unknown /\ M!Unknown \in 1..M!Unknown
    BY <1>0, MatchingConstants DEF M!TypeOK, M!Row, M!Unknown
  <1>3. CASE M!findDevicesForAlert
    <2>1. query = "idle" /\ query' \in {"zones", "done"} /\ UNCHANGED found
      BY <1>3 DEF M!findDevicesForAlert
    <2> QED
      BY <1>0, <2>1 DEF SourcesInv, Sources, Asked
  <1>4. CASE M!AskZones
    <2> DEFINE X == {d \in Devices : Holder[d] \in zoned}
               m == [d \in X |-> M!match(d, 1, 1, "string")]
    <2>1. PICK rows \in M!findAlertZoneMatches : found' = found \o (M!findSavedZoneMatches \o rows)
      BY <1>4 DEF M!AskZones, M!Ask
    <2>2. X \in SUBSET Devices /\ M!findAlertZoneMatches = M!Nearest({m[d] : d \in X})
      BY DEF M!findAlertZoneMatches
    <2>3. m \in [X -> M!Match] /\ \A d \in X : m[d].device = d /\ m[d].user = Holder[d] /\ m[d].priority = 1
      BY <1>2, <1>r, <2>2
    <2>4. query = "zones" /\ query' = "fresh"
      BY <1>4 DEF M!AskZones, M!Ask
    <2> HIDE DEF X, m
    <2>5. rows \in Seq(M!Match)
      BY <2>1, <2>2, <2>3, NearestAll
    <2>6. found' = found \o rows
      BY <2>1, <2>5 DEF M!findSavedZoneMatches
    <2>7. Asked(1 - 1)
      BY <2>4 DEF SourcesInv
    <2>8. rows \in M!Nearest({m[d] : d \in X})
      BY <2>1, <2>2
    <2>9. Sources' /\ Asked(1)'
      BY <1>0, <2>2, <2>3, <2>6, <2>7, <2>8, Answer
    <2> QED
      BY <1>0, <2>4, <2>9 DEF SourcesInv
  <1>5. CASE M!AskFresh
    <2> DEFINE X == {d \in Devices : row[d].at # 0 /\ row[d].token /\ row[d].at + FRESH >= now /\ row[d].dist <= Base}
               m == [d \in X |-> M!match(d, 2, row[d].dist, "number")]
    <2>1. PICK rows \in M!findFreshGpsMatches : found' = found \o rows
      BY <1>5 DEF M!AskFresh, M!Ask
    <2>2. X \in SUBSET Devices /\ M!findFreshGpsMatches = M!Nearest({m[d] : d \in X})
      BY DEF M!findFreshGpsMatches
    <2>3. m \in [X -> M!Match] /\ \A d \in X : m[d].device = d /\ m[d].user = Holder[d] /\ m[d].priority = 2
      BY <1>2, <1>r, <2>2
    <2>4. query = "fresh" /\ query' = "stale"
      BY <1>5 DEF M!AskFresh, M!Ask
    <2> HIDE DEF X, m
    <2>7. Asked(2 - 1)
      BY <2>4 DEF SourcesInv
    <2>8. Sources' /\ Asked(2)'
      BY <1>0, <2>1, <2>2, <2>3, <2>7, Answer
    <2> QED
      BY <1>0, <2>4, <2>8 DEF SourcesInv
  <1>6. CASE M!Ask("stale", "postal", M!findStaleGpsMatches)
    <2> DEFINE X == {d \in Devices : /\ row[d].at # 0 /\ row[d].token
                                     /\ row[d].at + FRESH < now /\ row[d].at + STALE >= now
                                     /\ row[d].dist <= Expanded}
               m == [d \in X |-> M!match(d, 3, row[d].dist, "number")]
    <2>1. PICK rows \in M!findStaleGpsMatches : found' = found \o rows
      BY <1>6 DEF M!Ask
    <2>2. X \in SUBSET Devices /\ M!findStaleGpsMatches = M!Nearest({m[d] : d \in X})
      BY DEF M!findStaleGpsMatches
    <2>3. m \in [X -> M!Match] /\ \A d \in X : m[d].device = d /\ m[d].user = Holder[d] /\ m[d].priority = 3
      BY <1>2, <1>r, <2>2
    <2>4. query = "stale" /\ query' = "postal"
      BY <1>6 DEF M!Ask
    <2> HIDE DEF X, m
    <2>7. Asked(3 - 1)
      BY <2>4 DEF SourcesInv
    <2>8. Sources' /\ Asked(3)'
      BY <1>0, <2>1, <2>2, <2>3, <2>7, Answer
    <2> QED
      BY <1>0, <2>4, <2>8 DEF SourcesInv
  <1>7. CASE M!AskPostal
    <2> DEFINE X == {d \in Devices : row[d].token /\ row[d].postal}
               m == [d \in X |-> M!match(d, 4, M!Unknown, "number")]
    <2>1. PICK rows \in M!findPostalCodeMatches : found' = found \o rows
      BY <1>7 DEF M!AskPostal, M!Ask
    <2>2. X \in SUBSET Devices /\ M!findPostalCodeMatches = M!Nearest({m[d] : d \in X})
      BY DEF M!findPostalCodeMatches
    <2>3. m \in [X -> M!Match] /\ \A d \in X : m[d].device = d /\ m[d].user = Holder[d] /\ m[d].priority = 4
      BY <1>2, <1>r, <2>2
    <2>4. query = "postal" /\ query' = "ip"
      BY <1>7 DEF M!AskPostal, M!Ask
    <2> HIDE DEF X, m
    <2>7. Asked(4 - 1)
      BY <2>4 DEF SourcesInv
    <2>8. Sources'
      BY <1>0, <2>1, <2>2, <2>3, <2>7, Answer
    <2> QED
      BY <1>0, <2>4, <2>8 DEF SourcesInv
  <1>8. CASE M!AskIp
    <2>1. query = "ip" /\ query' = "done" /\ found' = found \o <<>>
      BY <1>8 DEF M!AskIp, M!Ask, M!findIpGeoMatches
    <2>2. found' = found
      BY <1>0, <2>1 DEF M!TypeOK
    <2> QED
      BY <1>0, <2>1, <2>2 DEF SourcesInv, Sources
  <1>9. CASE M!CloseAlert \/ M!Tick \/ UNCHANGED matchVars
    BY <1>1, <1>9 DEF M!CloseAlert, M!Tick, matchVars
  <1>10. ASSUME NEW d \in Devices, M!WriteTime(d) \/ M!WritePoint(d) \/ M!ChangeToken(d) PROVE SourcesInv'
    BY <1>1, <1>10 DEF M!WriteTime, M!WritePoint, M!ChangeToken
  <1> QED
    BY <1>3, <1>4, <1>5, <1>6, <1>7, <1>8, <1>9, <1>10 DEF M!Next, M!AskGps

\* What the two passes leave of the matches that a search found.
LEMMA Reduced ==
  ASSUME M!TypeOK, Sources
  PROVE  M!BestMatchKept
  <1> DEFINE byDevice == M!Keep("device", found)
             kept == M!Keep("user", byDevice)
  <1>1. found \in Seq(M!Match) /\ \A n \in DOMAIN found : found[n] \in M!Match
    <2>1. found \in Seq(M!Match)
      BY DEF M!TypeOK
    <2> QED
      BY <2>1
  <1>2. /\ IsMap("device", byDevice)
        /\ \A p \in DOMAIN found : \E i \in DOMAIN byDevice : AtLeast("device", byDevice[i], found[p])
        /\ \A i \in DOMAIN byDevice : \E p \in DOMAIN found : byDevice[i] = found[p]
    BY <1>1, KeepBest
  <1>3. byDevice \in Seq(M!Match)
    BY <1>2 DEF IsMap
  <1>4. /\ IsMap("user", kept)
        /\ \A p \in DOMAIN byDevice : \E i \in DOMAIN kept : AtLeast("user", kept[i], byDevice[p])
    <2> HIDE DEF byDevice
    <2> QED
      BY <1>3, KeepBest
  <1>5. M!deduplicateMatches(found) = kept
    BY DEF M!deduplicateMatches
  <1> HIDE DEF byDevice, kept
  <1>6. /\ \A i \in DOMAIN kept : kept[i] \in M!Match
        /\ \A i, j \in DOMAIN kept : M!Key("user", kept[i]) = M!Key("user", kept[j]) => i = j
    BY <1>4 DEF IsMap
  <1>7. ASSUME NEW n \in DOMAIN found
        PROVE  \E i \in DOMAIN kept :
                 /\ M!Key("user", kept[i]) = M!Key("user", found[n])
                 /\ kept[i].priority <= found[n].priority
                 /\ kept[i].priority = found[n].priority =>
                      /\ found[n].token => kept[i].token
                      /\ kept[i].token = found[n].token => kept[i].dist <= found[n].dist
    <2>1. PICK p \in DOMAIN byDevice : AtLeast("device", byDevice[p], found[n])
      BY <1>2
    <2>2. PICK q \in DOMAIN found : byDevice[p] = found[q]
      BY <1>2
    <2>3. PICK i \in DOMAIN kept : AtLeast("user", kept[i], byDevice[p])
      BY <1>4
    <2>4. /\ found[q].key = found[n].key /\ found[q].device = found[n].device
          /\ ~(found[n].priority < found[q].priority)
      BY <2>1, <2>2 DEF AtLeast, M!Key, M!Better
    <2>5. found[q].user = found[n].user /\ (found[q].priority = found[n].priority => found[q] = found[n])
      BY <2>4 DEF Sources
    <2>6. M!Key("user", found[q]) = M!Key("user", found[n])
      BY <2>4, <2>5 DEF M!Key
    <2>7. /\ M!Key("user", kept[i]) = M!Key("user", found[q])
          /\ ~M!Better("user", found[q], kept[i])
      BY <2>2, <2>3 DEF AtLeast
    <2>8. \A t \in {kept[i], found[q], found[n]} :
            t.priority \in Int /\ t.dist \in Int /\ t.token \in BOOLEAN
      <3>1. \A t \in M!Match : t.priority \in Int /\ t.dist \in Int /\ t.token \in BOOLEAN
        BY DEF M!Match
      <3> QED
        BY <1>1, <1>6, <3>1
    <2>9. CASE found[q] = found[n]
      BY <2>7, <2>8, <2>9 DEF M!Better
    <2>10. CASE found[q].priority < found[n].priority
      BY <2>6, <2>7, <2>8, <2>10 DEF M!Better
    <2> QED
      BY <2>4, <2>5, <2>8, <2>9, <2>10
  <1> QED
    BY <1>5, <1>6, <1>7 DEF M!BestMatchKept

\* deduplicateMatches keeps one match for each representation of a user's id, and the best:
\* location.service.ts:511.
THEOREM BestMatchSafe == Spec => []BestMatchKept
  <1> DEFINE Inv == part = "matching" => SourcesInv
  <1>1. Init => Inv
    <2>1. M!Init => SourcesInv
      BY MatchingInit DEF M!Init, SourcesInv, Sources, Asked
    <2> QED
      BY <2>1 DEF Init
  <1>2. Inv /\ [Next]_vars => Inv'
    BY Parts, SourcesNext
  <1>3. SourcesInv => M!BestMatchKept
    BY Reduced DEF SourcesInv, MatchingInv
  <1>4. Inv => BestMatchKept
    BY <1>3 DEF BestMatchKept
  <1> QED
    BY <1>1, <1>2, <1>4, PTL DEF Spec
================================================================================
