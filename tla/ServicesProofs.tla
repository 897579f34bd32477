----------------------------- MODULE ServicesProofs -----------------------------
(***************************************************************************)
(* What MCServices promises, for every value of its constants: the         *)
(* creation limits with LimitsInv (as many creations as the limits allow,  *)
(* plus the creates in flight), the guards with AccessInv (what the read   *)
(* saw, until the user loses it), mails and the audit log with EventsInv   *)
(* (what a listener carries about its account).                            *)
(***************************************************************************)
EXTENDS MCServices, FiniteSetTheorems, WellFoundedInduction, TLAPS

\* Each part moves by the steps of its own module only.
LEMMA Parts ==
  [MCNext]_vars => [L!Next]_limitVars /\ [A!Next]_accessVars
  BY DEF MCNext, vars, eventVars, accessVars, passkeyVars, limitVars, A!accessVars, A!gateVars

--------------------------------------------------------------------------------
(* Creation limits: one user's sorted set *)

\* What is known of the limits and of the times in the set.
LimitsOK ==
  /\ now \in 0..MaxTime
  /\ zset \subseteq 0..now /\ admitted \subseteq 0..now
  /\ creation \in [Creations -> [pc : {"free", "zadd", "trim"}, at : 0..now]]
  /\ told \in Nat

LEMMA LimitFacts ==
  /\ WeeklyWindow \in Nat /\ WeeklyWindow > 0 /\ Second \in Nat /\ Second > 0
  /\ \A l \in L!Limits : /\ l.count \in Nat /\ l.count > 0
                         /\ l.window \in Nat /\ l.window > 0 /\ l.window <= WeeklyWindow
  BY LimitsAssumption DEF L!Limits

LEMMA RoundUp ==
  ASSUME NEW a \in Nat, NEW d \in Nat, d > 0
  PROVE  /\ (a + d - 1) \div d \in Nat
         /\ d * ((a + d - 1) \div d) \in Nat
         /\ d * ((a + d - 1) \div d) <= a + d - 1
         /\ d * ((a + d - 1) \div d) >= a
  OBVIOUS

\* A set of naturals has a least element: the smallest of the intervals up to its elements.
LEMMA Smallest ==
  ASSUME NEW X \in SUBSET Nat, X # {}
  PROVE  L!Min(X) \in X /\ \A x \in X : L!Min(X) <= x
  <1> DEFINE Initials == {0..x : x \in X}
  <1>1. Initials \subseteq FiniteSubsetsOf(Nat) /\ Initials # {}
    <2>1. \A x \in X : IsFiniteSet(0..x) /\ 0..x \in SUBSET Nat
      BY FS_Interval
    <2> QED
      BY <2>1 DEF FiniteSubsetsOf
  <1>2. PICK I \in Initials : \A J \in Initials : ~(<<J, I>> \in StrictSubsetOrdering(Nat))
    BY <1>1, FS_StrictSubsetOrderingWellFounded, WFMin
  <1>3. PICK x \in X : I = 0..x
    BY <1>2
  <1>4. ASSUME NEW y \in X PROVE x <= y
    <2>1. ~(<<0..y, 0..x>> \in StrictSubsetOrdering(Nat))
      BY <1>2, <1>3
    <2>2. 0..y \in SUBSET Nat /\ 0..x \in SUBSET Nat /\ x \in Nat /\ y \in Nat
      OBVIOUS
    <2>3. y < x => 0..y \subseteq 0..x /\ 0..y # 0..x
      BY <2>2
    <2> QED
      BY <2>1, <2>2, <2>3 DEF StrictSubsetOrdering
  <1> QED
    BY <1>4 DEF L!Min

\* A set that is indexed has no more elements than indices.
LEMMA Indexed ==
  ASSUME NEW X, IsFiniteSet(X), NEW T, NEW f \in [X -> T], \A t \in T : \E s \in X : f[s] = t
  PROVE  IsFiniteSet(T) /\ Cardinality(T) <= Cardinality(X)
  <1>1. f \in Surjection(X, T)
    BY DEF Surjection
  <1> QED
    BY <1>1, FS_Surjection

\* Creates that are admitted and not recorded yet, and their times.
Pending == {r \in Creations : creation[r].pc = "zadd"}
PendingTimes == {creation[r].at : r \in Pending}

\* Such a create began before this millisecond.
Old(r) == creation[r].pc = "zadd" /\ creation[r].at # now

Times == admitted \cup PendingTimes
Within(l, t, X) == {x \in X : t <= x /\ x <= t + l.window}

\* No window has more creations, recorded or on their way, than the limit and the other creates.
Overshoot ==
  \A l \in L!Limits, t \in Nat :
    Cardinality(Within(l, t, Times)) <= l.count + Cardinality(Creations) - 1

\* A time that was admitted and is not in the set has left the week; if it leaves at this very
\* moment then this moment is in the set, or two creates are busy with it.
Forgotten ==
  \A y \in admitted \ zset :
    /\ y + WeeklyWindow <= now
    /\ y + WeeklyWindow = now => now \in zset \/ \E p, q \in Creations : p # q /\ ~Old(p) /\ ~Old(q)

\* So it is for a create about to trim the set: its own time is in it unless the set was reset.
Trimming ==
  \A r \in Creations :
    creation[r].pc = "trim" /\ creation[r].at = now =>
      now \in zset \/ admitted = {} \/ \E q \in Creations : q # r /\ ~Old(q)

\* Times of which the limit's window ends less than a second before t, or after it.
Late(l, times, t) == {x \in times : x + l.window + Second > t}

\* Who was told at n to wait until t, longer than a second from now, would still be refused.
Refused(t, n, times) ==
  t >= n + Second => \E l \in L!Limits : Cardinality(Late(l, times, t)) >= l.count
Waiting == Refused(told, now, zset)

LimitsInv == LimitsOK /\ Overshoot /\ Forgotten /\ Trimming /\ Waiting

LEMMA Counts == \A X : L!Cardinality(X) = Cardinality(X)
  BY DEF L!Cardinality, Cardinality

\* A set of creates has no more times than members.
LEMMA TimesOf ==
  ASSUME NEW R \in SUBSET Creations
  PROVE  /\ IsFiniteSet({creation[r].at : r \in R})
         /\ Cardinality({creation[r].at : r \in R}) <= Cardinality(R)
  <1> DEFINE T == {creation[r].at : r \in R}
             f == [r \in R |-> creation[r].at]
  <1>1. f \in [R -> T] /\ \A t \in T : \E r \in R : f[r] = t
    OBVIOUS
  <1>2. IsFiniteSet(R)
    BY FS_Subset, LimitsAssumption
  <1> HIDE DEF f, T
  <1>3. IsFiniteSet(T) /\ Cardinality(T) <= Cardinality(R)
    BY <1>1, <1>2, Indexed
  <1> QED
    BY <1>3 DEF T

LEMMA Finite ==
  ASSUME LimitsOK
  PROVE  IsFiniteSet(zset) /\ IsFiniteSet(admitted) /\ IsFiniteSet(Times)
  <1>1. IsFiniteSet(0..now)
    BY FS_Interval DEF LimitsOK
  <1>2. zset \in SUBSET (0..now) /\ admitted \in SUBSET (0..now)
    BY DEF LimitsOK
  <1>3. IsFiniteSet(PendingTimes)
    BY TimesOf DEF Pending, PendingTimes
  <1> QED
    BY <1>1, <1>2, <1>3, FS_Subset, FS_Union DEF Times

LEMMA UnionBound ==
  ASSUME NEW X, IsFiniteSet(X), NEW T, IsFiniteSet(T)
  PROVE  /\ IsFiniteSet(X \cup T) /\ Cardinality(X) \in Nat /\ Cardinality(T) \in Nat
         /\ Cardinality(X \cup T) \in Nat /\ Cardinality(X \cup T) <= Cardinality(X) + Cardinality(T)
  <1>1. IsFiniteSet(X \cup T) /\ Cardinality(X \cup T) = Cardinality(X) + Cardinality(T) - Cardinality(X \cap T)
    BY FS_Union
  <1>2. Cardinality(X) \in Nat /\ Cardinality(T) \in Nat /\ Cardinality(X \cup T) \in Nat
        /\ Cardinality(X \cap T) \in Nat
    BY <1>1, FS_CardinalityType, FS_Intersection
  <1> QED
    BY <1>1, <1>2

LEMMA AddBound ==
  ASSUME NEW X, IsFiniteSet(X), NEW x
  PROVE  /\ IsFiniteSet(X \cup {x}) /\ Cardinality(X) \in Nat /\ Cardinality(X \cup {x}) \in Nat
         /\ Cardinality(X \cup {x}) <= Cardinality(X) + 1
  <1>1. IsFiniteSet({x}) /\ Cardinality({x}) = 1
    BY FS_Singleton
  <1> QED
    BY <1>1, UnionBound

LEMMA Larger ==
  ASSUME NEW a \in Nat, NEW b \in Nat
  PROVE  L!Max({a, b}) \in {a, b} /\ L!Max({a, b}) >= a /\ L!Max({a, b}) >= b
  <1>1. \E x \in {a, b} : \A y \in {a, b} : x >= y
    OBVIOUS
  <1> QED
    BY <1>1 DEF L!Max

\* When the oldest creation of the window leaves it, rounded up to seconds.
LEMMA RetryAfter ==
  ASSUME LimitsOK, L!Exceeded # {}
  PROVE  /\ now + Second * L!getRetryAfter(L!First) \in Nat
         /\ L!First \in L!Exceeded
         /\ \A x \in L!InWindow(zset, now, L!First.window) :
              x + L!First.window + Second > now + Second * L!getRetryAfter(L!First)
  <1>1. PICK l \in L!Exceeded : l = L!First
    BY DEF L!First, L!Exceeded, L!Limits
  <1>2. /\ l \in L!Limits /\ l.count \in Nat /\ l.count > 0 /\ l.window \in Nat
        /\ now \in Nat /\ Second \in Nat /\ Second > 0
        /\ Cardinality(L!InWindow(zset, now, l.window)) >= l.count
    BY LimitFacts, LimitsAssumption, Counts DEF L!Exceeded, L!countInWindow, LimitsOK
  <1> DEFINE W == L!InWindow(zset, now, l.window)
             m == L!Min(W)
  <1>3. W \in SUBSET Nat /\ W # {} /\ \A x \in W : x + l.window >= now
    <2>1. W = {x \in zset : x + l.window >= now}
      BY DEF L!InWindow
    <2>3. zset \subseteq Nat
      BY <1>2 DEF LimitsOK
    <2>4. \A x \in W : x \in zset /\ x + l.window >= now
      BY <2>1
    <2>2. W # {}
      BY <1>2, FS_EmptySet
    <2> QED
      BY <2>2, <2>3, <2>4
  <1>4. m \in W /\ \A x \in W : m <= x
    BY <1>3, Smallest
  <1>6. L!getRetryAfter(l) = (m + l.window - now + Second - 1) \div Second
    <2>1. L!OldestExpiry(l) = m + l.window
      BY DEF L!OldestExpiry
    <2>2. L!getRetryAfter(l) = (L!OldestExpiry(l) - now + Second - 1) \div Second
      BY DEF L!getRetryAfter
    <2> QED
      BY <1>2, <1>3, <1>4, <2>1, <2>2
  <1> HIDE DEF m
  <1>5. m \in Nat /\ m + l.window - now \in Nat
    BY <1>2, <1>3, <1>4
  <1>7. /\ Second * L!getRetryAfter(l) \in Nat
        /\ Second * L!getRetryAfter(l) <= m + l.window - now + Second - 1
    BY <1>2, <1>5, <1>6, RoundUp
  <1>8. ASSUME NEW x \in W PROVE x + l.window + Second > now + Second * L!getRetryAfter(l)
    <2>1. x \in Nat /\ m <= x
      BY <1>3, <1>4
    <2> QED
      BY <1>2, <1>5, <1>7, <2>1
  <1> QED
    BY <1>1, <1>2, <1>7, <1>8

LEMMA StepLimitsOK == LimitsOK /\ [L!Next]_limitVars => LimitsOK'
  <1> SUFFICES ASSUME LimitsOK, [L!Next]_limitVars PROVE LimitsOK'
    OBVIOUS
  <1>c. now \in Nat /\ now <= MaxTime /\ \A r \in Creations : creation[r].at \in 0..now
    BY LimitsAssumption DEF LimitsOK
  <1>i. L!Idle \in [pc : {"free", "zadd", "trim"}, at : 0..now]
    BY <1>c DEF L!Idle
  <1>1. ASSUME NEW r \in Creations, L!checkAlertCreationLimit(r) PROVE LimitsOK'
    <2>1. [pc |-> "zadd", at |-> now] \in [pc : {"free", "zadd", "trim"}, at : 0..now]
      BY <1>c
    <2> QED
      BY <1>1, <2>1 DEF L!checkAlertCreationLimit, LimitsOK
  <1>2. ASSUME NEW r \in Creations, L!Refuse(r) PROVE LimitsOK'
    <2>1. told' \in Nat
      BY <1>2, RetryAfter, Larger DEF L!Refuse, LimitsOK
    <2> QED
      BY <1>2, <2>1 DEF L!Refuse, LimitsOK
  <1>3. ASSUME NEW r \in Creations, L!recordAlertCreation(r) PROVE LimitsOK'
    BY <1>3, <1>c DEF L!recordAlertCreation, LimitsOK
  <1>4. ASSUME NEW r \in Creations, L!Trim(r) PROVE LimitsOK'
    BY <1>4, <1>c, <1>i DEF L!Trim, LimitsOK
  <1>5. ASSUME NEW r \in Creations, L!RedisFails(r) PROVE LimitsOK'
    BY <1>5, <1>c, <1>i DEF L!RedisFails, LimitsOK
  <1>6. CASE L!KeyExpires
    BY <1>6 DEF L!KeyExpires, LimitsOK
  <1>7. CASE L!resetUserLimits
    BY <1>7 DEF L!resetUserLimits, LimitsOK
  <1>8. CASE L!Tick
    <2>1. now' = now + 1 /\ now' \in 0..MaxTime /\ 0..now \subseteq 0..now'
      BY <1>8, <1>c, LimitsAssumption DEF L!Tick
    <2>2. [pc : {"free", "zadd", "trim"}, at : 0..now] \subseteq
          [pc : {"free", "zadd", "trim"}, at : 0..now']
      BY <2>1
    <2> QED
      BY <1>8, <2>1, <2>2 DEF L!Tick, LimitsOK
  <1>9. CASE UNCHANGED limitVars
    BY <1>9 DEF limitVars, LimitsOK
  <1> QED
    BY <1>1, <1>2, <1>3, <1>4, <1>5, <1>6, <1>7, <1>8, <1>9 DEF L!Next

\* As long as nothing recent is removed from the set, time does not change the answer.
LEMMA RefusedKept ==
  ASSUME NEW t \in Nat, NEW n \in Nat, NEW m \in Nat, n <= m,
         NEW X \in SUBSET Nat, NEW Y \in SUBSET Nat, IsFiniteSet(Y), Refused(t, n, X),
         \A x \in X \ Y : x + WeeklyWindow <= n
  PROVE  Refused(t, m, Y)
  <1> SUFFICES ASSUME t >= m + Second
               PROVE  \E l \in L!Limits : Cardinality(Late(l, Y, t)) >= l.count
    BY DEF Refused
  <1>1. PICK l \in L!Limits : Cardinality(Late(l, X, t)) >= l.count
    BY LimitFacts DEF Refused
  <1>2. ASSUME NEW x \in Late(l, X, t) PROVE x \in Late(l, Y, t)
    <2>1. x \in X /\ x \in Nat /\ x + l.window + Second > t
      BY DEF Late
    <2>2. ~(x + WeeklyWindow <= n)
      BY <2>1, LimitFacts
    <2> QED
      BY <2>1, <2>2 DEF Late
  <1>3. IsFiniteSet(Late(l, Y, t))
    <2>1. Late(l, Y, t) \in SUBSET Y
      BY DEF Late
    <2> QED
      BY <2>1, FS_Subset
  <1>4. Late(l, X, t) \in SUBSET Late(l, Y, t)
    BY <1>2
  <1>5. /\ Cardinality(Late(l, X, t)) <= Cardinality(Late(l, Y, t))
        /\ Cardinality(Late(l, X, t)) \in Nat /\ Cardinality(Late(l, Y, t)) \in Nat
    BY <1>3, <1>4, FS_Subset, FS_CardinalityType
  <1> QED
    BY <1>1, <1>5, LimitFacts

LEMMA WaitingKept ==
  ASSUME LimitsOK, LimitsOK', Waiting, told' = told, now' >= now,
         \A x \in zset \ zset' : x + WeeklyWindow <= now
  PROVE  Waiting'
  <1>1. PICK m, Y : m = now' /\ Y = zset'
    OBVIOUS
  <1>2. /\ told \in Nat /\ now \in Nat /\ m \in Nat /\ now <= m
        /\ zset \in SUBSET Nat /\ Y \in SUBSET (0..m)
    BY <1>1 DEF LimitsOK
  <1>3. IsFiniteSet(Y)
    <2>1. IsFiniteSet(0..m)
      BY <1>2, FS_Interval
    <2> QED
      BY <1>2, <2>1, FS_Subset
  <1>4. Refused(told, m, Y)
    BY <1>1, <1>2, <1>3, RefusedKept DEF Waiting
  <1>5. Refused(told', now', zset')
    BY <1>1, <1>4
  <1> QED
    BY <1>5 DEF Waiting

LEMMA StepWaiting == LimitsOK /\ LimitsOK' /\ Waiting /\ [L!Next]_limitVars => Waiting'
  <1> SUFFICES ASSUME LimitsOK, LimitsOK', Waiting, [L!Next]_limitVars PROVE Waiting'
    OBVIOUS
  <1>t. now \in Nat /\ WeeklyWindow \in Nat /\ told \in Nat /\ zset \subseteq Nat
    BY LimitFacts DEF LimitsOK
  <1>1. ASSUME NEW r \in Creations, L!checkAlertCreationLimit(r) PROVE Waiting'
    BY <1>1, <1>t, WaitingKept DEF L!checkAlertCreationLimit
  <1>2. ASSUME NEW r \in Creations, L!Refuse(r) PROVE Waiting'
    <2> DEFINE v == now + Second * L!getRetryAfter(L!First)
               l == L!First
    <2>1. UNCHANGED <<now, zset>> /\ L!Exceeded # {} /\ told' = L!Max({told, v})
      BY <1>2 DEF L!Refuse
    <2>2. /\ v \in Nat /\ l \in L!Exceeded
          /\ \A x \in L!InWindow(zset, now, l.window) : x + l.window + Second > v
      BY <2>1, RetryAfter
    <2> HIDE DEF v
    <2>3. CASE told' = told
      BY <2>1, <2>3, <1>t, WaitingKept
    <2>4. CASE told' = v
      <3>1. /\ l \in L!Limits /\ l.count \in Nat
            /\ Cardinality(L!InWindow(zset, now, l.window)) >= l.count
        BY <2>2, LimitFacts, Counts DEF L!Exceeded, L!countInWindow
      <3> HIDE DEF l
      <3>2. L!InWindow(zset, now, l.window) \in SUBSET Late(l, zset, v)
        BY <2>2 DEF L!InWindow, Late
      <3>3. IsFiniteSet(Late(l, zset, v))
        <4>1. Late(l, zset, v) \in SUBSET zset
          BY DEF Late
        <4> QED
          BY <4>1, Finite, FS_Subset
      <3>4. /\ Cardinality(L!InWindow(zset, now, l.window)) <= Cardinality(Late(l, zset, v))
            /\ Cardinality(L!InWindow(zset, now, l.window)) \in Nat
            /\ Cardinality(Late(l, zset, v)) \in Nat
        BY <3>2, <3>3, FS_Subset, FS_CardinalityType
      <3>5. Cardinality(Late(l, zset, v)) >= l.count
        BY <3>1, <3>4
      <3>6. Cardinality(Late(l, zset', told')) >= l.count
        BY <2>1, <2>4, <3>5
      <3> QED
        BY <3>1, <3>6 DEF Waiting, Refused
    <2> QED
      BY <2>1, <2>2, <2>3, <2>4, <1>t, Larger
  <1>3. ASSUME NEW r \in Creations, L!recordAlertCreation(r) PROVE Waiting'
    BY <1>3, <1>t, WaitingKept DEF L!recordAlertCreation
  <1>4. ASSUME NEW r \in Creations, L!Trim(r) PROVE Waiting'
    <2>1. \A x \in zset \ zset' : x + WeeklyWindow <= now
      BY <1>4, <1>t DEF L!Trim, LimitsOK
    <2> QED
      BY <1>4, <2>1, <1>t, WaitingKept DEF L!Trim
  <1>5. ASSUME NEW r \in Creations, L!RedisFails(r) PROVE Waiting'
    BY <1>5, <1>t, WaitingKept DEF L!RedisFails
  <1>6. CASE L!KeyExpires
    <2>1. \A x \in zset \ zset' : x + WeeklyWindow <= now
      BY <1>6, <1>t DEF L!KeyExpires
    <2> QED
      BY <1>6, <2>1, <1>t, WaitingKept DEF L!KeyExpires
  <1>7. CASE L!resetUserLimits
    BY <1>7, <1>t, LimitFacts DEF L!resetUserLimits, Waiting, Refused
  <1>8. CASE L!Tick
    <2>1. now' >= now /\ zset' = zset /\ told' = told
      BY <1>8, <1>t DEF L!Tick
    <2> QED
      BY <2>1, WaitingKept
  <1>9. CASE UNCHANGED limitVars
    BY <1>9, <1>t, WaitingKept DEF limitVars
  <1> QED
    BY <1>1, <1>2, <1>3, <1>4, <1>5, <1>6, <1>7, <1>8, <1>9 DEF L!Next

LEMMA StepForgotten ==
  LimitsOK /\ Forgotten /\ Trimming /\ [L!Next]_limitVars => Forgotten'
  <1> SUFFICES ASSUME LimitsOK, Forgotten, Trimming, [L!Next]_limitVars PROVE Forgotten'
    OBVIOUS
  <1>t. /\ now \in Nat /\ WeeklyWindow \in Nat /\ WeeklyWindow > 0
        /\ zset \subseteq Nat /\ admitted \subseteq 0..now
        /\ \A r \in Creations : creation[r].at \in Nat /\ creation[r].at <= now
    BY LimitFacts DEF LimitsOK
  <1>f. ASSUME UNCHANGED <<now, admitted, zset>>, \A p \in Creations : ~Old(p) => ~Old(p)'
        PROVE  Forgotten'
    BY <1>f DEF Forgotten
  <1>1. ASSUME NEW r \in Creations, L!checkAlertCreationLimit(r) PROVE Forgotten'
    <2>1. \A p \in Creations : ~Old(p) => ~Old(p)'
      BY <1>1 DEF L!checkAlertCreationLimit, Old, LimitsOK
    <2> QED
      BY <1>1, <1>f, <2>1 DEF L!checkAlertCreationLimit
  <1>2. ASSUME NEW r \in Creations, L!Refuse(r) PROVE Forgotten'
    BY <1>2, <1>f DEF L!Refuse, Old
  <1>3. ASSUME NEW r \in Creations, L!recordAlertCreation(r) PROVE Forgotten'
    <2>1. \A p \in Creations : ~Old(p) => ~Old(p)'
      BY <1>3 DEF L!recordAlertCreation, Old, LimitsOK
    <2>2. admitted' \ zset' \subseteq admitted \ zset /\ zset \subseteq zset' /\ now' = now
      BY <1>3 DEF L!recordAlertCreation
    <2> QED
      BY <2>1, <2>2 DEF Forgotten
  <1>4. ASSUME NEW r \in Creations, L!Trim(r) PROVE Forgotten'
    <2>1. \A p \in Creations : ~Old(p) => ~Old(p)'
      BY <1>4 DEF L!Trim, Old, LimitsOK, L!Idle
    <2>2. /\ creation[r].pc = "trim" /\ UNCHANGED <<now, admitted>>
          /\ zset' = {x \in zset : x + WeeklyWindow > creation[r].at}
      BY <1>4 DEF L!Trim
    <2>3. now \in zset => now \in zset'
      BY <1>t, <2>2
    <2>4. ASSUME NEW y \in admitted \ zset'
          PROVE  /\ y + WeeklyWindow <= now
                 /\ y + WeeklyWindow = now =>
                      now \in zset' \/ \E p, q \in Creations : p # q /\ ~Old(p)' /\ ~Old(q)'
      <3>1. CASE y \notin zset
        BY <2>1, <2>3, <3>1 DEF Forgotten
      <3>2. CASE y \in zset
        <4>1. y + WeeklyWindow <= creation[r].at
          BY <2>2, <2>4, <3>2, <1>t
        <4>2. y + WeeklyWindow <= now
          BY <4>1, <1>t
        <4>3. ASSUME y + WeeklyWindow = now, now \notin zset'
              PROVE  \E p, q \in Creations : p # q /\ ~Old(p)' /\ ~Old(q)'
          <5>1. creation[r].at = now
            BY <4>1, <4>3, <1>t
          <5>2. PICK q \in Creations : q # r /\ ~Old(q)
            BY <2>2, <2>3, <2>4, <4>3, <5>1 DEF Trimming
          <5>3. ~Old(r)
            BY <2>2 DEF Old
          <5> QED
            BY <2>1, <5>2, <5>3
        <4> QED
          BY <4>2, <4>3
      <3> QED
        BY <3>1, <3>2
    <2> QED
      BY <2>2, <2>4 DEF Forgotten
  <1>5. ASSUME NEW r \in Creations, L!RedisFails(r) PROVE Forgotten'
    <2>1. \A p \in Creations : ~Old(p) => ~Old(p)'
      BY <1>5 DEF L!RedisFails, Old, LimitsOK, L!Idle
    <2> QED
      BY <1>5, <1>f, <2>1 DEF L!RedisFails
  <1>6. CASE L!KeyExpires
    <2>1. UNCHANGED <<now, creation, admitted>> /\ \A x \in zset : x + WeeklyWindow < now
      BY <1>6 DEF L!KeyExpires
    <2>2. now \notin zset
      BY <2>1, <1>t
    <2> QED
      BY <2>1, <2>2, <1>t DEF Forgotten, Old
  <1>7. CASE L!resetUserLimits
    BY <1>7 DEF L!resetUserLimits, Forgotten
  <1>8. CASE L!Tick
    <2>1. PICK n \in Nat : n = now' /\ n > now /\ UNCHANGED <<zset, admitted>>
      BY <1>8, <1>t DEF L!Tick
    <2> QED
      BY <2>1, <1>t DEF Forgotten
  <1>9. CASE UNCHANGED limitVars
    BY <1>9, <1>f DEF limitVars, Old
  <1> QED
    BY <1>1, <1>2, <1>3, <1>4, <1>5, <1>6, <1>7, <1>8, <1>9 DEF L!Next

LEMMA StepTrimming == LimitsOK /\ Trimming /\ [L!Next]_limitVars => Trimming'
  <1> SUFFICES ASSUME LimitsOK, Trimming, [L!Next]_limitVars PROVE Trimming'
    OBVIOUS
  <1>t. /\ now \in Nat /\ WeeklyWindow \in Nat /\ WeeklyWindow > 0
        /\ \A r \in Creations : creation[r].at \in Nat /\ creation[r].at <= now
    BY LimitFacts DEF LimitsOK
  \* No create gets to trim, and none becomes old.
  <1>f. ASSUME UNCHANGED now, now \in zset => now \in zset', admitted' = admitted \/ admitted' = {},
               \A p \in Creations : ~Old(p) => ~Old(p)',
               \A p \in Creations : creation'[p].pc = "trim" => creation'[p] = creation[p]
        PROVE  Trimming'
    BY <1>f DEF Trimming
  <1>1. ASSUME NEW r \in Creations, L!checkAlertCreationLimit(r) PROVE Trimming'
    BY <1>1, <1>f DEF L!checkAlertCreationLimit, Old, LimitsOK
  <1>2. ASSUME NEW r \in Creations, L!Refuse(r) PROVE Trimming'
    BY <1>2, <1>f DEF L!Refuse, Old
  <1>3. ASSUME NEW r \in Creations, L!recordAlertCreation(r) PROVE Trimming'
    <2>1. /\ creation'[r].pc = "trim" /\ creation'[r].at \in zset' /\ ~Old(r)'
          /\ \A p \in Creations : p # r => creation'[p] = creation[p]
          /\ zset \subseteq zset' /\ now' = now
      BY <1>3 DEF L!recordAlertCreation, Old, LimitsOK
    <2> QED
      BY <2>1 DEF Trimming
  <1>4. ASSUME NEW r \in Creations, L!Trim(r) PROVE Trimming'
    <2>1. now \in zset => now \in zset'
      BY <1>4, <1>t DEF L!Trim
    <2> QED
      BY <1>4, <2>1, <1>f DEF L!Trim, Old, LimitsOK, L!Idle
  <1>5. ASSUME NEW r \in Creations, L!RedisFails(r) PROVE Trimming'
    BY <1>5, <1>f DEF L!RedisFails, Old, LimitsOK, L!Idle
  <1>6. CASE L!KeyExpires
    <2>1. now \notin zset
      BY <1>6, <1>t DEF L!KeyExpires
    <2> QED
      BY <1>6, <2>1, <1>f DEF L!KeyExpires, Old
  <1>7. CASE L!resetUserLimits
    BY <1>7 DEF L!resetUserLimits, Trimming
  <1>8. CASE L!Tick
    BY <1>8, <1>t DEF L!Tick, Trimming
  <1>9. CASE UNCHANGED limitVars
    BY <1>9, <1>f DEF limitVars, Old
  <1> QED
    BY <1>1, <1>2, <1>3, <1>4, <1>5, <1>6, <1>7, <1>8, <1>9 DEF L!Next

LEMMA Narrower ==
  ASSUME LimitsOK, NEW l \in L!Limits, NEW t \in Nat, NEW X, NEW T, IsFiniteSet(T),
         Within(l, t, X) \subseteq T
  PROVE  /\ IsFiniteSet(Within(l, t, X)) /\ Cardinality(Within(l, t, X)) \in Nat
         /\ Cardinality(Within(l, t, X)) <= Cardinality(T) /\ Cardinality(T) \in Nat
  BY FS_Subset, FS_CardinalityType

LEMMA OvershootKept ==
  ASSUME LimitsOK, Overshoot, Times' \subseteq Times
  PROVE  Overshoot'
  <1>1. PICK T : T = Times'
    OBVIOUS
  <1>2. ASSUME NEW l \in L!Limits, NEW t \in Nat
        PROVE  Cardinality(Within(l, t, T)) <= l.count + Cardinality(Creations) - 1
    <2>1. Within(l, t, T) \subseteq Within(l, t, Times) /\ Within(l, t, Times) \subseteq Times
      BY <1>1 DEF Within
    <2>2. /\ Cardinality(Within(l, t, T)) \in Nat /\ Cardinality(Within(l, t, Times)) \in Nat
          /\ Cardinality(Within(l, t, T)) <= Cardinality(Within(l, t, Times))
      BY <2>1, Finite, Narrower
    <2>3. Cardinality(Within(l, t, Times)) <= l.count + Cardinality(Creations) - 1
      BY DEF Overshoot
    <2>4. l.count \in Nat /\ Cardinality(Creations) \in Nat
      BY LimitFacts, LimitsAssumption, FS_CardinalityType
    <2> QED
      BY <2>2, <2>3, <2>4
  <1> QED
    BY <1>1, <1>2 DEF Overshoot

\* The check lets a create through: it counts what the set has of the window, and at most all
\* other creates are on their way.
LEMMA OvershootChecked ==
  ASSUME LimitsOK, Overshoot, Forgotten, NEW r \in Creations, L!checkAlertCreationLimit(r)
  PROVE  Overshoot'
  <1>1. PICK T : T = Times'
    OBVIOUS
  <1>2. T = Times \cup {now}
    <2>1. creation' = [creation EXCEPT ![r] = [pc |-> "zadd", at |-> now]] /\ creation[r].pc = "free"
      BY DEF L!checkAlertCreationLimit
    <2>2. /\ r \in Pending' /\ creation'[r].at = now
          /\ \A p \in Creations : p # r => creation'[p] = creation[p]
      BY <2>1 DEF LimitsOK, Pending
    <2>3. Pending' = Pending \cup {r} /\ r \notin Pending
      BY <2>1, <2>2 DEF Pending
    <2>4. PendingTimes' = PendingTimes \cup {now}
      BY <2>2, <2>3 DEF PendingTimes, Pending
    <2> QED
      BY <1>1, <2>4 DEF Times, L!checkAlertCreationLimit
  <1>c. /\ Cardinality(Creations) \in Nat /\ now \in Nat /\ WeeklyWindow \in Nat
        /\ zset \subseteq Nat /\ admitted \subseteq 0..now
    BY LimitFacts, LimitsAssumption, FS_CardinalityType DEF LimitsOK
  <1>p. /\ IsFiniteSet(PendingTimes) /\ Cardinality(PendingTimes) \in Nat
        /\ Cardinality(PendingTimes) <= Cardinality(Creations) - 1
    <2>1. Pending \in SUBSET (Creations \ {r})
      BY DEF Pending, L!checkAlertCreationLimit
    <2>2. /\ IsFiniteSet(Creations \ {r}) /\ Cardinality(Creations \ {r}) = Cardinality(Creations) - 1
      BY LimitsAssumption, FS_RemoveElement
    <2>3. Cardinality(Pending) <= Cardinality(Creations) - 1 /\ Cardinality(Pending) \in Nat
      BY <2>1, <2>2, FS_Subset, FS_CardinalityType
    <2>4. Pending \in SUBSET Creations
      BY DEF Pending
    <2>5. IsFiniteSet(PendingTimes) /\ Cardinality(PendingTimes) <= Cardinality(Pending)
      BY <2>4, TimesOf DEF PendingTimes
    <2> QED
      BY <1>c, <2>3, <2>5, FS_CardinalityType
  <1>3. ASSUME NEW l \in L!Limits, NEW t \in Nat
        PROVE  Cardinality(Within(l, t, T)) <= l.count + Cardinality(Creations) - 1
    <2> DEFINE Z == L!InWindow(zset, now, l.window)
    <2>l. l.count \in Nat /\ l.count > 0 /\ l.window \in Nat /\ l.window <= WeeklyWindow
      BY LimitFacts
    <2>z. IsFiniteSet(Z) /\ Cardinality(Z) \in Nat /\ Cardinality(Z) <= l.count - 1
      <3>1. Z \in SUBSET zset
        BY DEF L!InWindow
      <3>2. IsFiniteSet(Z) /\ Cardinality(Z) \in Nat
        BY <3>1, Finite, FS_Subset, FS_CardinalityType
      <3>3. ~(Cardinality(Z) >= l.count)
        BY Counts DEF L!checkAlertCreationLimit, L!Exceeded, L!countInWindow
      <3> QED
        BY <2>l, <3>2, <3>3
    <2>1. CASE ~(t <= now /\ now <= t + l.window)
      <3>1. Within(l, t, T) \subseteq Within(l, t, Times) /\ Within(l, t, Times) \subseteq Times
        BY <1>2, <2>1 DEF Within
      <3>2. /\ Cardinality(Within(l, t, T)) \in Nat /\ Cardinality(Within(l, t, Times)) \in Nat
            /\ Cardinality(Within(l, t, T)) <= Cardinality(Within(l, t, Times))
        BY <3>1, Finite, Narrower
      <3>3. Cardinality(Within(l, t, Times)) <= l.count + Cardinality(Creations) - 1
        BY DEF Overshoot
      <3> QED
        BY <2>l, <1>c, <3>2, <3>3
    <2>2. CASE t <= now /\ now <= t + l.window
      <3> DEFINE Kept == {y \in admitted : y + l.window >= now}
      <3> HIDE DEF Z
      <3>w. Within(l, t, T) \subseteq Kept \cup PendingTimes \cup {now}
        <4>1. ASSUME NEW x \in Within(l, t, T), x \in admitted PROVE x \in Kept
          <5>1. x \in Nat /\ t <= x
            BY <1>c, <4>1 DEF Within
          <5> QED
            BY <1>c, <2>2, <2>l, <4>1, <5>1
        <4> QED
          BY <1>2, <4>1 DEF Within, Times
      <3>z. \A y \in Kept : y \in zset => y \in Z
        BY <1>c DEF Z, L!InWindow
      <3>1. CASE Kept \subseteq zset
        <4>1. Within(l, t, T) \subseteq (Z \cup PendingTimes) \cup {now}
          BY <3>w, <3>z, <3>1
        <4>2. /\ IsFiniteSet(Z \cup PendingTimes) /\ Cardinality(Z \cup PendingTimes) \in Nat
              /\ Cardinality(Z \cup PendingTimes) <= Cardinality(Z) + Cardinality(PendingTimes)
          BY <2>z, <1>p, UnionBound
        <4>3. /\ IsFiniteSet((Z \cup PendingTimes) \cup {now})
              /\ Cardinality((Z \cup PendingTimes) \cup {now}) <= Cardinality(Z \cup PendingTimes) + 1
          BY <4>2, AddBound
        <4>4. /\ Cardinality(Within(l, t, T)) \in Nat
              /\ Cardinality(Within(l, t, T)) <= Cardinality((Z \cup PendingTimes) \cup {now})
              /\ Cardinality((Z \cup PendingTimes) \cup {now}) \in Nat
          BY <4>1, <4>3, Narrower
        <4> QED
          BY <1>c, <1>p, <2>l, <2>z, <4>2, <4>3, <4>4
      <3>2. ASSUME NEW y \in Kept, y \notin zset
            PROVE  Cardinality(Within(l, t, T)) <= l.count + Cardinality(Creations) - 1
        <4>1. y \in Nat /\ y + WeeklyWindow = now
          <5>1. y \in admitted /\ y \in Nat /\ y + l.window >= now /\ y + WeeklyWindow <= now
            BY <1>c, <3>2 DEF Forgotten
          <5> QED
            BY <1>c, <2>l, <5>1
        <4>2. Kept \subseteq Z \cup {y}
          <5>1. ASSUME NEW x \in Kept, x \notin zset PROVE x = y
            <6>1. x \in admitted /\ x \in Nat /\ x + l.window >= now /\ x + WeeklyWindow <= now
              BY <1>c, <5>1 DEF Forgotten
            <6> QED
              BY <1>c, <2>l, <4>1, <6>1
          <5> QED
            BY <3>z, <5>1
        <4>3. IsFiniteSet(Z \cup {y}) /\ Cardinality(Z \cup {y}) <= l.count /\ Cardinality(Z \cup {y}) \in Nat
          <5>1. IsFiniteSet(Z \cup {y}) /\ Cardinality(Z \cup {y}) <= Cardinality(Z) + 1
            BY <2>z, AddBound
          <5> QED
            BY <2>z, <2>l, <5>1, FS_CardinalityType
        <4>4. CASE now \in zset
          <5>1. now \in Z
            BY <1>c, <2>l, <4>4 DEF Z, L!InWindow
          <5>2. Within(l, t, T) \subseteq (Z \cup {y}) \cup PendingTimes
            BY <3>w, <4>2, <5>1
          <5>3. /\ IsFiniteSet((Z \cup {y}) \cup PendingTimes)
                /\ Cardinality((Z \cup {y}) \cup PendingTimes)
                     <= Cardinality(Z \cup {y}) + Cardinality(PendingTimes)
            BY <1>p, <4>3, UnionBound
          <5>4. /\ Cardinality(Within(l, t, T)) \in Nat
                /\ Cardinality(Within(l, t, T)) <= Cardinality((Z \cup {y}) \cup PendingTimes)
                /\ Cardinality((Z \cup {y}) \cup PendingTimes) \in Nat
            BY <5>2, <5>3, Narrower
          <5> QED
            BY <1>c, <1>p, <2>l, <4>3, <5>3, <5>4
        <4>5. CASE now \notin zset
          <5>1. PICK p, q \in Creations : p # q /\ ~Old(p) /\ ~Old(q)
            BY <3>2, <4>1, <4>5 DEF Forgotten
          <5> DEFINE R == (Creations \ {p}) \ {q}
                     P == {creation[x].at : x \in R}
          <5>2. R \in SUBSET Creations /\ IsFiniteSet(R) /\ Cardinality(R) = Cardinality(Creations) - 2
            <6>1. /\ IsFiniteSet(Creations \ {p}) /\ q \in Creations \ {p}
                  /\ Cardinality(Creations \ {p}) = Cardinality(Creations) - 1
              BY <5>1, LimitsAssumption, FS_RemoveElement
            <6>2. IsFiniteSet(R) /\ Cardinality(R) = Cardinality(Creations \ {p}) - 1
              BY <6>1, FS_RemoveElement
            <6> QED
              BY <1>c, <6>1, <6>2
          <5>3. /\ IsFiniteSet(P) /\ Cardinality(P) <= Cardinality(R)
                /\ Cardinality(P) \in Nat /\ Cardinality(R) \in Nat
            BY <5>2, TimesOf, FS_CardinalityType
          <5>4. PendingTimes \subseteq P \cup {now}
            BY <5>1 DEF PendingTimes, Pending, Old
          <5> HIDE DEF P, R
          <5>5. Within(l, t, T) \subseteq ((Z \cup {y}) \cup P) \cup {now}
            BY <3>w, <4>2, <5>4
          <5>6. /\ IsFiniteSet((Z \cup {y}) \cup P) /\ Cardinality((Z \cup {y}) \cup P) \in Nat
                /\ Cardinality((Z \cup {y}) \cup P) <= Cardinality(Z \cup {y}) + Cardinality(P)
            BY <4>3, <5>3, UnionBound
          <5>7. /\ IsFiniteSet(((Z \cup {y}) \cup P) \cup {now})
                /\ Cardinality(((Z \cup {y}) \cup P) \cup {now}) <= Cardinality((Z \cup {y}) \cup P) + 1
            BY <5>6, AddBound
          <5>8. /\ Cardinality(Within(l, t, T)) \in Nat
                /\ Cardinality(Within(l, t, T)) <= Cardinality(((Z \cup {y}) \cup P) \cup {now})
                /\ Cardinality(((Z \cup {y}) \cup P) \cup {now}) \in Nat
            BY <5>5, <5>7, Narrower
          <5> QED
            BY <1>c, <2>l, <4>3, <5>2, <5>3, <5>6, <5>7, <5>8
        <4> QED
          BY <4>4, <4>5
      <3> QED
        BY <3>1, <3>2
    <2> QED
      BY <2>1, <2>2
  <1> QED
    BY <1>1, <1>3 DEF Overshoot

LEMMA StepOvershoot == LimitsOK /\ Overshoot /\ Forgotten /\ [L!Next]_limitVars => Overshoot'
  <1> SUFFICES ASSUME LimitsOK, Overshoot, Forgotten, [L!Next]_limitVars PROVE Overshoot'
    OBVIOUS
  <1>1. ASSUME NEW r \in Creations, L!Refuse(r) PROVE Times' \subseteq Times
    BY <1>1 DEF L!Refuse, Times, Pending, PendingTimes
  <1>2. ASSUME NEW r \in Creations, L!recordAlertCreation(r) PROVE Times' \subseteq Times
    BY <1>2 DEF L!recordAlertCreation, Times, Pending, PendingTimes, LimitsOK
  <1>3. ASSUME NEW r \in Creations, L!Trim(r) PROVE Times' \subseteq Times
    BY <1>3 DEF L!Trim, Times, Pending, PendingTimes, LimitsOK, L!Idle
  <1>4. ASSUME NEW r \in Creations, L!RedisFails(r) PROVE Times' \subseteq Times
    BY <1>4 DEF L!RedisFails, Times, Pending, PendingTimes, LimitsOK, L!Idle
  <1>5. ASSUME UNCHANGED creation, admitted' \subseteq admitted PROVE Times' \subseteq Times
    BY <1>5 DEF Times, Pending, PendingTimes
  <1>6. ASSUME L!KeyExpires \/ L!resetUserLimits \/ L!Tick \/ UNCHANGED limitVars
        PROVE  Times' \subseteq Times
    BY <1>5, <1>6 DEF L!KeyExpires, L!resetUserLimits, L!Tick, limitVars
  <1> QED
    BY <1>1, <1>2, <1>3, <1>4, <1>6, OvershootKept, OvershootChecked DEF L!Next

LEMMA InitLimits == L!Init => LimitsInv
  <1> SUFFICES ASSUME L!Init PROVE LimitsInv
    OBVIOUS
  <1>1. LimitsOK
    BY LimitsAssumption DEF L!Init, L!Idle, LimitsOK
  <1>2. Times = {} /\ \A l, t : Within(l, t, Times) = {}
    BY DEF L!Init, L!Idle, Times, Pending, PendingTimes, Within
  <1>3. Overshoot
    <2>1. Cardinality(Creations) \in Nat /\ Cardinality(Creations) # 0
      BY LimitsAssumption, FS_CardinalityType, FS_EmptySet
    <2>2. ASSUME NEW l \in L!Limits, NEW t \in Nat
          PROVE  Cardinality(Within(l, t, Times)) <= l.count + Cardinality(Creations) - 1
      <3>1. Cardinality(Within(l, t, Times)) = 0
        BY <1>2, FS_EmptySet
      <3> QED
        BY <2>1, <3>1, LimitFacts
    <2> QED
      BY <2>2 DEF Overshoot
  <1> QED
    BY <1>1, <1>3, LimitFacts DEF L!Init, L!Idle, LimitsInv, Forgotten, Trimming, Waiting, Refused

LEMMA StepLimits == LimitsInv /\ [L!Next]_limitVars => LimitsInv'
  BY StepLimitsOK, StepOvershoot, StepForgotten, StepTrimming, StepWaiting DEF LimitsInv

\* The check and the record (rate-limit.service.ts:81, :176) are two commands: whatever the
\* limits and however many creates are in flight, no window has more admitted creations than
\* its limit and the other creates, through trimming, expiry, resets and failures of Redis.
THEOREM OvershootSafe == MCSpec => []OvershootBounded
  <1>1. MCInit => LimitsInv
    BY InitLimits DEF MCInit
  <1>2. LimitsInv /\ [MCNext]_vars => LimitsInv'
    BY Parts, StepLimits
  <1>3. LimitsInv => OvershootBounded
    <2> SUFFICES ASSUME LimitsInv, NEW l \in L!Limits, NEW t \in 0..MaxTime
                 PROVE  Cardinality(L!Between(t, t + l.window)) <= l.count + Cardinality(Creations) - 1
      BY Counts DEF OvershootBounded, L!OvershootBounded
    <2>1. /\ t \in Nat /\ l.count \in Nat /\ Cardinality(Creations) \in Nat
          /\ Cardinality(Within(l, t, Times)) <= l.count + Cardinality(Creations) - 1
      BY LimitFacts, LimitsAssumption, FS_CardinalityType DEF LimitsInv, Overshoot
    <2>2. L!Between(t, t + l.window) \in SUBSET Within(l, t, Times) /\ Within(l, t, Times) \in SUBSET Times
      BY DEF L!Between, Within, Times
    <2>3. IsFiniteSet(Times)
      BY Finite DEF LimitsInv
    <2>4. IsFiniteSet(Within(l, t, Times))
      BY <2>2, <2>3, FS_Subset
    <2>5. /\ Cardinality(L!Between(t, t + l.window)) <= Cardinality(Within(l, t, Times))
          /\ Cardinality(L!Between(t, t + l.window)) \in Nat /\ Cardinality(Within(l, t, Times)) \in Nat
      BY <2>2, <2>4, FS_Subset, FS_CardinalityType
    <2> QED
      BY <2>1, <2>5
  <1> QED
    BY <1>1, <1>2, <1>3, PTL DEF MCSpec

\* A client that was told to wait is never admitted a second or more before that time
\* (retry_after_seconds, rate-limit.service.ts:208): what made the limit full then fills it
\* until the window of the oldest creation ends.
THEOREM RetryAfterSafe == MCSpec => RetryAfterNotEarly
  <1>1. MCInit => LimitsInv
    BY InitLimits DEF MCInit
  <1>2. LimitsInv /\ [MCNext]_vars => LimitsInv'
    BY Parts, StepLimits
  <1>3. LimitsInv /\ [MCNext]_vars =>
          [\A r \in Creations :
             creation[r].pc = "free" /\ creation'[r].pc = "zadd" => now + Second > told]_limitVars
    <2> SUFFICES ASSUME LimitsInv, [L!Next]_limitVars, NEW r \in Creations,
                        creation[r].pc = "free", creation'[r].pc = "zadd"
                 PROVE  now + Second > told
      BY Parts
    <2>1. L!Exceeded = {}
      BY DEF LimitsInv, LimitsOK, L!Next, L!checkAlertCreationLimit, L!Refuse,
         L!recordAlertCreation,
             L!Trim, L!RedisFails, L!KeyExpires, L!resetUserLimits, L!Tick, L!Idle, limitVars
    <2>2. SUFFICES ASSUME told >= now + Second PROVE FALSE
      BY LimitFacts DEF LimitsInv, LimitsOK
    <2>3. PICK l \in L!Limits : Cardinality(Late(l, zset, told)) >= l.count
      BY <2>2 DEF LimitsInv, Waiting, Refused
    <2>4. Late(l, zset, told) \in SUBSET L!InWindow(zset, now, l.window)
      <3>1. ASSUME NEW x \in zset, x + l.window + Second > told PROVE x + l.window >= now
        <4>1. x \in Nat /\ now \in Nat /\ told \in Nat /\ l.window \in Nat /\ Second \in Nat
          BY LimitFacts DEF LimitsInv, LimitsOK
        <4> QED
          BY <2>2, <3>1, <4>1
      <3> QED
        BY <3>1 DEF Late, L!InWindow
    <2>5. L!InWindow(zset, now, l.window) \in SUBSET zset /\ IsFiniteSet(zset)
      BY Finite DEF L!InWindow, LimitsInv
    <2>6. /\ Cardinality(Late(l, zset, told)) <= Cardinality(L!InWindow(zset, now, l.window))
          /\ Cardinality(Late(l, zset, told)) \in Nat
          /\ Cardinality(L!InWindow(zset, now, l.window)) \in Nat
      BY <2>4, <2>5, FS_Subset, FS_CardinalityType
    <2>7. Cardinality(L!InWindow(zset, now, l.window)) >= l.count
      BY <2>3, <2>6, LimitFacts
    <2> QED
      BY <2>1, <2>7, Counts DEF L!Exceeded, L!countInWindow
  <1> QED
    BY <1>1, <1>2, <1>3, PTL
    DEF MCSpec, RetryAfterNotEarly, L!RetryAfterNotEarly, limitVars, L!limitVars

--------------------------------------------------------------------------------
(* Guards and administration *)

AccessOK ==
  /\ session \in [Users -> {"live", "revoked"}]
  /\ ban \in [Users -> {"none", "timed", "lapsed", "forever"}]
  /\ role \in [A!RoleSlugs -> A!Role]
  /\ req \in [Requests -> A!Request]

\* What let the request through still holds, unless its user lost it since; a ban that had
\* ended is lifted before the handler acts.
Holds(r) ==
  req[r].pc \in {"unban", "handler"} /\ ~req[r].late =>
    /\ req[r].by \in Users
    /\ session[req[r].by] = "live"
    /\ ban[req[r].by] \in IF req[r].pc = "handler" THEN {"none"} ELSE {"none", "lapsed"}
    /\ req[r].roles \subseteq A!ActiveRoles(req[r].by)
    /\ req[r].gated => req[r].by \in userGate

AccessInv == AccessOK /\ \A r \in Requests : Holds(r)

LEMMA IdleRequest == A!Idle \in A!Request
  BY DEF A!Idle, A!Request, A!RoleSlugs

\* Requests that are overtaken keep to their types, and differ in nothing else.
LEMMA Overtakes ==
  ASSUME AccessOK, NEW u \in Users
  PROVE  /\ A!Overtaken(u) \in [Requests -> A!Request]
         /\ \A q \in Requests :
              \/ req[q].by # u /\ A!Overtaken(u)[q] = req[q]
              \/ req[q].by = u /\ A!Overtaken(u)[q].late
  <1>1. ASSUME NEW q \in Requests
        PROVE  [req[q] EXCEPT !.late = TRUE] \in A!Request /\ [req[q] EXCEPT !.late = TRUE].late
    BY <1>1 DEF AccessOK, A!Request
  <1> QED
    BY <1>1 DEF A!Overtaken, AccessOK

\* What a body of PUT /users/:id may name.
LEMMA BodyTypes ==
  ASSUME AccessOK, NEW u \in Users, NEW body \in A!Bodies(u)
  PROVE  /\ body.ban \in {"none", "timed", "lapsed", "forever"}
         /\ body.session \in {"live", "revoked"}
  <1>1. /\ A!Standing(u).ban \in {"none", "timed", "lapsed", "forever"}
        /\ A!Standing(u).session \in {"live", "revoked"}
    BY DEF AccessOK, A!Standing
  <1>2. \/ \E b \in {"none", "timed", "lapsed", "forever"} : body = [A!Standing(u) EXCEPT !.ban = b]
        \/ \E x \in {"live", "revoked"} : body = [A!Standing(u) EXCEPT !.session = x]
        \/ \E X \in SUBSET {s \in A!RoleSlugs : role[s].row} : body = [A!Standing(u) EXCEPT !.slugs = X]
    BY DEF A!Bodies
  <1>3. ASSUME NEW b \in {"none", "timed", "lapsed", "forever"}, body = [A!Standing(u) EXCEPT !.ban = b]
        PROVE  body.ban = b /\ body.session = A!Standing(u).session
    BY <1>3 DEF A!Standing
  <1>4. ASSUME NEW x \in {"live", "revoked"}, body = [A!Standing(u) EXCEPT !.session = x]
        PROVE  body.session = x /\ body.ban = A!Standing(u).ban
    BY <1>4 DEF A!Standing
  <1>5. ASSUME NEW X, body = [A!Standing(u) EXCEPT !.slugs = X]
        PROVE  body.session = A!Standing(u).session /\ body.ban = A!Standing(u).ban
    BY <1>5 DEF A!Standing
  <1> QED
    BY <1>1, <1>2, <1>3, <1>4, <1>5

LEMMA StepAccessOK == AccessOK /\ [A!Next]_accessVars => AccessOK'
  <1> SUFFICES ASSUME AccessOK, [A!Next]_accessVars PROVE AccessOK'
    OBVIOUS
  <1>i. A!Idle \in A!Request /\ "admin" \in A!RoleSlugs
    BY IdleRequest DEF A!RoleSlugs
  <1>p. ASSUME NEW r \in Requests, NEW p \in {"unban", "handler"}
        PROVE  [req[r] EXCEPT !.pc = p] \in A!Request
    BY DEF AccessOK, A!Request
  <1>1. ASSUME NEW r \in Requests, NEW u \in Users, A!validateAccessToken(r, u) PROVE AccessOK'
    <2> DEFINE p == IF ban[u] = "lapsed" THEN "unban" ELSE "handler"
    <2>1. A!ActiveRoles(u) \subseteq A!RoleSlugs /\ A!ActiveGates(u) \in BOOLEAN
      BY DEF A!ActiveRoles, A!ActiveGates
    <2>2. [A!Idle EXCEPT !.pc = p, !.by = u, !.roles = A!ActiveRoles(u), !.gated = A!ActiveGates(u)]
            \in A!Request
      BY <1>i, <2>1 DEF A!Request, A!Idle
    <2> QED
      BY <1>1, <2>2 DEF A!validateAccessToken, AccessOK, A!gateVars
  <1>2. ASSUME NEW r \in Requests, A!UnbanExpired(r) PROVE AccessOK'
    BY <1>2, <1>p DEF A!UnbanExpired, AccessOK, A!gateVars
  <1>3. ASSUME NEW r \in Requests, NEW u \in Users, NEW kind \in {"timed", "forever"}, A!banUser(r, u, kind)
        PROVE  AccessOK'
    BY <1>3, <1>i, Overtakes DEF A!banUser, AccessOK, A!gateVars
  <1>4. ASSUME NEW r \in Requests, NEW u \in Users,
               A!unbanUser(r, u) \/ A!revokeUserSessions(r, u) \/ A!removeGate(r, u) \/ A!assignGate(r, u)
        PROVE  AccessOK'
    <2>1. [A!Idle EXCEPT !.pc = "gate", !.target = u] \in A!Request
      BY <1>i DEF A!Request, A!Idle
    <2>2. CASE A!unbanUser(r, u)
      BY <2>2, <1>i DEF A!unbanUser, A!Done, AccessOK
    <2>3. CASE A!revokeUserSessions(r, u)
      BY <2>3, <1>i, Overtakes DEF A!revokeUserSessions, AccessOK
    <2>4. CASE A!removeGate(r, u)
      BY <2>4, <1>i, Overtakes DEF A!removeGate, AccessOK
    <2>5. CASE A!assignGate(r, u)
      BY <2>5, <2>1 DEF A!assignGate, AccessOK
    <2> QED
      BY <1>4, <2>2, <2>3, <2>4, <2>5
  <1>5. ASSUME NEW r \in Requests, NEW u \in Users, NEW s \in A!RoleSlugs,
               A!assignRole(r, u, s) \/ A!removeRole(r, u, s) \/ A!ConvertToAdminCommand(r, u, s)
        PROVE  AccessOK'
    <2>1. ASSUME NEW p \in {"role", "convert"}
          PROVE  [A!Idle EXCEPT !.pc = p, !.target = u, !.arg = s] \in A!Request
      BY <1>i DEF A!Request, A!Idle
    <2> QED
      BY <1>5, <1>i, <2>1, Overtakes
      DEF A!assignRole, A!removeRole, A!ConvertToAdminCommand, AccessOK, A!gateVars
  <1>6. ASSUME NEW r \in Requests,
               \/ A!Answer(r) \/ A!CreateUserRole(r) \/ A!revokeSession(r)
               \/ A!createGate(r) \/ A!updateGate(r) \/ A!deleteGate(r) \/ A!CreateUserGate(r)
        PROVE  AccessOK'
    BY <1>6, <1>i DEF A!Answer, A!CreateUserRole, A!revokeSession, A!createGate, A!updateGate,
                      A!deleteGate, A!CreateUserGate, A!Done, AccessOK, A!gateVars
  <1>7. ASSUME NEW s \in A!RoleSlugs, NEW level \in Levels, NEW active \in BOOLEAN,
               A!CreateRoleCommand(s, level, active)
        PROVE  AccessOK'
    BY <1>7 DEF A!CreateRoleCommand, AccessOK, A!Role
  <1>8. ASSUME NEW u \in Users, A!BanLapses(u) PROVE AccessOK'
    BY <1>8 DEF A!BanLapses, AccessOK
  <1>9. CASE UNCHANGED accessVars
    BY <1>9 DEF accessVars, AccessOK
  <1>10. ASSUME NEW r \in Requests, NEW u \in Users, NEW body \in A!Bodies(u), A!updateUser(r, u, body)
         PROVE  AccessOK'
    <2>1. UNCHANGED role /\ ban' = [ban EXCEPT ![u] = body.ban]
          /\ session' = [session EXCEPT ![u] = body.session]
      BY <1>10 DEF A!updateUser
    <2>2. \/ req' = [A!Overtaken(u) EXCEPT ![r] = A!Idle]
          \/ req' = [req EXCEPT ![r] = A!Idle]
      BY <1>10 DEF A!updateUser
    <2>3. req' \in [Requests -> A!Request]
      BY <2>2, IdleRequest, Overtakes DEF AccessOK
    <2> QED
      BY <2>1, <2>3, BodyTypes DEF AccessOK
  <1>11. CASE A!cleanupExpiredBans
    BY <1>11 DEF A!cleanupExpiredBans, AccessOK
  <1> QED
    BY <1>1, <1>2, <1>3, <1>4, <1>5, <1>6, <1>7, <1>8, <1>9, <1>10, <1>11 DEF A!Next

\* A request stays admitted while its user loses nothing.
LEMMA HoldsStays ==
  ASSUME AccessOK, NEW q \in Requests, Holds(q), req'[q] = req[q],
         \A u \in Users : req[q].by = u =>
           /\ session'[u] = session[u]
           /\ ban[u] \in {"none", "lapsed"} => ban'[u] \in {ban[u], "none"}
           /\ A!ActiveRoles(u) \subseteq A!ActiveRoles(u)'
           /\ u \in userGate => u \in userGate'
  PROVE  Holds(q)'
  <1> SUFFICES ASSUME req[q].pc \in {"unban", "handler"}, ~req[q].late
               PROVE  Holds(q)'
    BY DEF Holds
  <1>1. PICK u \in Users : u = req[q].by
    BY DEF Holds
  <1>2. /\ session[u] = "live"
        /\ ban[u] \in IF req[q].pc = "handler" THEN {"none"} ELSE {"none", "lapsed"}
        /\ req[q].roles \subseteq A!ActiveRoles(u) /\ (req[q].gated => u \in userGate)
    BY <1>1 DEF Holds
  <1>3. /\ session'[u] = "live"
        /\ ban'[u] \in IF req[q].pc = "handler" THEN {"none"} ELSE {"none", "lapsed"}
        /\ req[q].roles \subseteq A!ActiveRoles(u)' /\ (req[q].gated => u \in userGate')
    BY <1>1, <1>2
  <1>4. A!ActiveRoles(u)' = {s \in A!RoleSlugs : <<u, s>> \in userRole' /\ role'[s].active}
    BY DEF A!ActiveRoles
  <1> QED
    BY <1>1, <1>3, <1>4 DEF Holds, A!ActiveRoles

LEMMA StepHolds ==
  AccessOK /\ (\A r \in Requests : Holds(r)) /\ [A!Next]_accessVars => \A q \in Requests : Holds(q)'
  <1> SUFFICES ASSUME AccessOK, \A r \in Requests : Holds(r), [A!Next]_accessVars, NEW q \in Requests
               PROVE  Holds(q)'
    OBVIOUS
  <1>r. ASSUME UNCHANGED <<userRole, role>>, NEW u \in Users PROVE A!ActiveRoles(u) \subseteq A!ActiveRoles(u)'
    BY <1>r DEF A!ActiveRoles
  <1>i. req'[q] = A!Idle => Holds(q)'
    BY DEF Holds, A!Idle
  <1>l. req'[q].late => Holds(q)'
    BY DEF Holds
  <1>1. ASSUME NEW r \in Requests, NEW u \in Users, A!validateAccessToken(r, u) PROVE Holds(q)'
    <2>1. CASE q = r
      <3> DEFINE p == IF ban[u] = "lapsed" THEN "unban" ELSE "handler"
      <3>1. req'[r] = [A!Idle EXCEPT !.pc = p, !.by = u, !.roles = A!ActiveRoles(u), !.gated = A!ActiveGates(u)]
        BY <1>1 DEF A!validateAccessToken, AccessOK
      <3>2. /\ req'[r].pc = p /\ req'[r].by = u
            /\ req'[r].roles = A!ActiveRoles(u) /\ req'[r].gated = A!ActiveGates(u)
        BY <3>1 DEF A!Idle
      <3>3. /\ session[u] = "live" /\ ban[u] \in {"none", "lapsed"}
            /\ UNCHANGED <<session, ban, role, userRole, userGate>>
        BY <1>1 DEF A!validateAccessToken, A!InForce, AccessOK, A!gateVars
      <3> QED
        BY <2>1, <3>2, <3>3 DEF Holds, A!ActiveRoles, A!ActiveGates
    <2>2. CASE q # r
      BY <1>1, <1>r, <2>2, HoldsStays DEF A!validateAccessToken, AccessOK, A!gateVars
    <2> QED
      BY <2>1, <2>2
  <1>2. ASSUME NEW r \in Requests, A!UnbanExpired(r) PROVE Holds(q)'
    <2>1. \A u \in Users : ban'[u] = IF u = req[r].by THEN "none" ELSE ban[u]
      BY <1>2 DEF A!UnbanExpired, AccessOK
    <2>2. CASE q # r
      BY <1>2, <1>r, <2>1, <2>2, HoldsStays DEF A!UnbanExpired, AccessOK, A!gateVars
    <2>3. CASE q = r
      <3>1. req'[q] = [req[q] EXCEPT !.pc = "handler"] /\ req[q] \in A!Request /\ req[q].pc = "unban"
        BY <1>2, <2>3 DEF A!UnbanExpired, AccessOK
      <3>2. /\ req'[q].by = req[q].by /\ req'[q].roles = req[q].roles
            /\ req'[q].gated = req[q].gated /\ req'[q].late = req[q].late
        BY <3>1 DEF A!Request
      <3> QED
        BY <1>2, <2>1, <2>3, <3>1, <3>2 DEF A!UnbanExpired, Holds, A!ActiveRoles, A!gateVars
    <2> QED
      BY <2>2, <2>3
  <1>o. ASSUME NEW r \in Requests, NEW u \in Users, req' = [A!Overtaken(u) EXCEPT ![r] = A!Idle],
               \A v \in Users : v # u =>
                 /\ session'[v] = session[v] /\ ban'[v] = ban[v]
                 /\ A!ActiveRoles(v) \subseteq A!ActiveRoles(v)'
                 /\ v \in userGate => v \in userGate'
        PROVE  Holds(q)'
    <2>1. req'[q] = A!Idle \/ req'[q] = A!Overtaken(u)[q]
      BY <1>o, Overtakes
    <2>2. CASE req'[q] = A!Overtaken(u)[q] /\ req[q].by = u
      BY <1>l, <2>2, Overtakes
    <2>3. CASE req'[q] = A!Overtaken(u)[q] /\ req[q].by # u
      <3>1. req'[q] = req[q]
        BY <2>3, Overtakes
      <3> QED
        BY <1>o, <2>3, <3>1, HoldsStays
    <2> QED
      BY <1>i, <2>1, <2>2, <2>3
  <1>3. ASSUME NEW r \in Requests, NEW u \in Users, NEW kind \in {"timed", "forever"}, A!banUser(r, u, kind)
        PROVE  Holds(q)'
    BY <1>3, <1>o, <1>r DEF A!banUser, AccessOK, A!gateVars
  <1>4. ASSUME NEW r \in Requests, NEW u \in Users, A!revokeUserSessions(r, u) PROVE Holds(q)'
    BY <1>4, <1>o, <1>r DEF A!revokeUserSessions, AccessOK, A!gateVars
  <1>5. ASSUME NEW r \in Requests, NEW u \in Users, A!removeGate(r, u) PROVE Holds(q)'
    BY <1>5, <1>o, <1>r DEF A!removeGate
  <1>6. ASSUME NEW r \in Requests, NEW u \in Users, NEW s \in A!RoleSlugs, A!removeRole(r, u, s)
        PROVE  Holds(q)'
    <2>1. \A v \in Users : v # u => A!ActiveRoles(v) \subseteq A!ActiveRoles(v)'
      BY <1>6 DEF A!removeRole, A!ActiveRoles
    <2> QED
      BY <1>6, <2>1, <1>o DEF A!removeRole, A!gateVars
  <1>d. ASSUME req'[q] = A!Idle \/ req'[q] = req[q] \/ req'[q].pc \in {"role", "convert", "gate"},
               UNCHANGED session,
               \A u \in Users : ban[u] \in {"none", "lapsed"} => ban'[u] \in {ban[u], "none"},
               \A u \in Users : A!ActiveRoles(u) \subseteq A!ActiveRoles(u)', userGate \subseteq userGate'
        PROVE  Holds(q)'
    <2>1. CASE req'[q].pc \in {"role", "convert", "gate"}
      BY <2>1 DEF Holds
    <2> QED
      BY <1>d, <1>i, <2>1, HoldsStays
  <1>7. ASSUME NEW r \in Requests, NEW u \in Users, A!unbanUser(r, u) PROVE Holds(q)'
    BY <1>7, <1>d, <1>r DEF A!unbanUser, A!Done, AccessOK, A!gateVars
  <1>8. ASSUME NEW r \in Requests, NEW u \in Users, A!assignGate(r, u) PROVE Holds(q)'
    <2>1. req'[q] = req[q] \/ req'[q].pc = "gate"
      BY <1>8 DEF A!assignGate, AccessOK, A!Idle
    <2> QED
      BY <1>8, <2>1, <1>d, <1>r DEF A!assignGate, A!gateVars
  <1>9. ASSUME NEW r \in Requests, NEW u \in Users, NEW s \in A!RoleSlugs,
               A!assignRole(r, u, s) \/ A!ConvertToAdminCommand(r, u, s)
        PROVE  Holds(q)'
    <2>1. req'[q] = req[q] \/ req'[q].pc \in {"role", "convert"}
      <3>1. ASSUME A!assignRole(r, u, s) PROVE req'[q] = req[q] \/ req'[q].pc = "role"
        BY <3>1 DEF A!assignRole, AccessOK, A!Idle
      <3>2. ASSUME A!ConvertToAdminCommand(r, u, s)
            PROVE  req'[q] = req[q] \/ req'[q].pc = "convert"
        BY <3>2 DEF A!ConvertToAdminCommand, AccessOK, A!Idle
      <3> QED
        BY <1>9, <3>1, <3>2
    <2> QED
      BY <1>9, <2>1, <1>d, <1>r DEF A!assignRole, A!ConvertToAdminCommand, A!gateVars
  <1>10. ASSUME NEW r \in Requests,
                \/ A!Answer(r) \/ A!revokeSession(r)
                \/ A!createGate(r) \/ A!updateGate(r) \/ A!deleteGate(r) \/ A!CreateUserGate(r)
         PROVE  Holds(q)'
    <2>1. req'[q] = req[q] \/ req'[q] = A!Idle
      BY <1>10 DEF A!Answer, A!revokeSession, A!createGate, A!updateGate, A!deleteGate,
                   A!CreateUserGate, A!Done, AccessOK
    <2>2. UNCHANGED <<session, ban, role, userRole>> /\ userGate \subseteq userGate'
      BY <1>10 DEF A!Answer, A!revokeSession, A!createGate, A!updateGate, A!deleteGate,
                   A!CreateUserGate, A!gateVars
    <2> QED
      BY <2>1, <2>2, <1>d, <1>r
  <1>11. ASSUME NEW r \in Requests, A!CreateUserRole(r) PROVE Holds(q)'
    <2>1. req'[q] = req[q] \/ req'[q] = A!Idle
      BY <1>11 DEF A!CreateUserRole, A!Done, AccessOK
    <2>2. \A u \in Users : A!ActiveRoles(u) \subseteq A!ActiveRoles(u)'
      BY <1>11 DEF A!CreateUserRole, A!ActiveRoles
    <2> QED
      BY <1>11, <2>1, <2>2, <1>d DEF A!CreateUserRole, A!gateVars
  <1>12. ASSUME NEW s \in A!RoleSlugs, NEW level \in Levels, NEW active \in BOOLEAN,
                A!CreateRoleCommand(s, level, active)
         PROVE  Holds(q)'
    <2>1. \A x \in A!RoleSlugs : role[x].active => role'[x] = role[x]
      <3>1. ASSUME NEW x \in A!RoleSlugs, role[x].active PROVE role[x].row
        <4>1. role[x] \in [level : Levels, active : BOOLEAN, row : {TRUE}] \/ role[x] = A!NoRow
          BY DEF AccessOK, A!Role
        <4>2. CASE role[x] = A!NoRow
          BY <3>1, <4>2 DEF A!NoRow
        <4>3. CASE role[x] \in [level : Levels, active : BOOLEAN, row : {TRUE}]
          <5>1. role[x].row = TRUE
            BY <4>3
          <5> QED
            BY <5>1
        <4> QED
          BY <4>1, <4>2, <4>3
      <3> QED
        BY <1>12, <3>1 DEF A!CreateRoleCommand, AccessOK
    <2>2. \A u \in Users : A!ActiveRoles(u) \subseteq A!ActiveRoles(u)'
      BY <1>12, <2>1 DEF A!CreateRoleCommand, A!ActiveRoles
    <2> QED
      BY <1>12, <2>2, <1>d DEF A!CreateRoleCommand, A!gateVars
  <1>13. ASSUME NEW u \in Users, A!BanLapses(u) PROVE Holds(q)'
    BY <1>13, <1>d, <1>r DEF A!BanLapses, AccessOK, A!gateVars
  <1>14. CASE UNCHANGED accessVars
    BY <1>14, <1>d, <1>r DEF accessVars
  <1>15. ASSUME NEW r \in Requests, NEW u \in Users, NEW body \in A!Bodies(u), A!updateUser(r, u, body)
         PROVE  Holds(q)'
    <2> DEFINE loses == \/ body.ban # "none" \/ body.session = "revoked"
                        \/ ~(A!ActiveRoles(u) \subseteq body.slugs)
    <2>1. /\ \A v \in Users : v # u => session'[v] = session[v] /\ ban'[v] = ban[v]
          /\ ban'[u] = body.ban /\ session'[u] = body.session /\ UNCHANGED <<role, userGate>>
          /\ userRole' = {ur \in userRole : ur[1] # u} \cup {<<u, s>> : s \in body.slugs}
          /\ req' = [(IF loses THEN A!Overtaken(u) ELSE req) EXCEPT ![r] = A!Idle]
      BY <1>15 DEF A!updateUser, AccessOK, A!gateVars
    <2>2. ASSUME NEW v \in Users, v # u PROVE A!ActiveRoles(v) \subseteq A!ActiveRoles(v)'
      BY <2>1, <2>2 DEF A!ActiveRoles
    <2>3. CASE loses
      BY <2>1, <2>2, <2>3, <1>o
    <2>4. CASE ~loses
      <3>1. A!ActiveRoles(u) \subseteq A!ActiveRoles(u)'
        BY <2>1, <2>4 DEF A!ActiveRoles
      <3>2. ban'[u] = "none" /\ session'[u] = "live"
        BY <2>1, <2>4, BodyTypes
      <3>3. CASE q = r
        BY <2>1, <2>4, <3>3, <1>i DEF AccessOK
      <3>4. CASE q # r
        <4>1. req'[q] = req[q]
          BY <2>1, <2>4, <3>4 DEF AccessOK
        <4>2. CASE req[q].by = u
          BY <4>1, <4>2, <2>1, <3>1, <3>2 DEF Holds, A!ActiveRoles
        <4>3. CASE req[q].by # u
          BY <4>1, <4>3, <2>1, <2>2, HoldsStays
        <4> QED
          BY <4>2, <4>3
      <3> QED
        BY <3>3, <3>4
    <2> QED
      BY <2>3, <2>4
  <1>16. CASE A!cleanupExpiredBans
    BY <1>16, <1>d, <1>r DEF A!cleanupExpiredBans, A!gateVars
  <1> QED
    BY <1>1, <1>2, <1>3, <1>4, <1>5, <1>6, <1>7, <1>8, <1>9, <1>10, <1>11, <1>12, <1>13, <1>14,
       <1>15, <1>16
    DEF A!Next

LEMMA AccessCounts == \A X : A!Cardinality(X) = Cardinality(X)
  BY DEF A!Cardinality, Cardinality

LEMMA AccessAlways == MCSpec => []AccessInv
  <1>1. MCInit => AccessInv
    <2> SUFFICES ASSUME A!Init PROVE AccessInv
      BY DEF MCInit
    <2>1. AccessOK
      BY IdleRequest DEF A!Init, AccessOK, A!Role
    <2> QED
      BY <2>1 DEF A!Init, AccessInv, Holds, A!Idle
  <1>2. AccessInv /\ [MCNext]_vars => AccessInv'
    BY Parts, StepAccessOK, StepHolds DEF AccessInv
  <1> QED
    BY <1>1, <1>2, PTL DEF MCSpec

\* One read admits a request (token.service.ts:261) and its handler acts later: what the read
\* saw still holds, and is what an administrator is shown, unless the user lost it meanwhile.
THEOREM AdmissionSafe == MCSpec => []AdmissionHolds
  <1>1. AccessInv => AdmissionHolds
    <2> SUFFICES ASSUME AccessInv PROVE A!AdmissionHolds
      BY DEF AdmissionHolds
    <2> DEFINE admitted0 == {r \in Requests : req[r].pc = "handler" /\ ~req[r].late}
               Callers == {req[r].by : r \in admitted0}
               Banned == {u \in Users : ban[u] # "none"}
    <2>1. \A r \in admitted0 :
            /\ req[r].by \in A!listSessions /\ ban[req[r].by] = "none"
            /\ req[r].roles \subseteq A!ActiveRoles(req[r].by)
            /\ req[r].gated => req[r].by \in userGate
      BY DEF AccessInv, Holds, A!listSessions
    <2>2. \A r \in admitted0 : req[r].roles \subseteq A!me(r).roles /\ (req[r].gated => A!me(r).gated)
      BY <2>1 DEF A!me, A!ActiveRoles, A!getUserGates
    <2>3. Cardinality(Callers) <= Cardinality(Users) - Cardinality(Banned)
      <3>1. Callers \in SUBSET (Users \ Banned)
        BY DEF AccessInv, Holds
      <3>2. /\ IsFiniteSet(Users \ Banned)
            /\ Cardinality(Users \ Banned) = Cardinality(Users) - Cardinality(Users \cap Banned)
        BY UsersAssumption, FS_Difference
      <3>3. Users \cap Banned = Banned
        OBVIOUS
      <3>4. Cardinality(Callers) <= Cardinality(Users \ Banned)
        <4> HIDE DEF Callers, Banned
        <4> QED
          BY <3>1, <3>2, FS_Subset
      <3> QED
        BY <3>2, <3>3, <3>4
    <2>4. A!getDashboard.users.active = Cardinality(Users) - Cardinality(Banned)
      BY AccessCounts DEF A!getDashboard, A!getStats
    <2> QED
      BY <2>1, <2>2, <2>3, <2>4, AccessCounts DEF A!AdmissionHolds
  <1> QED
    BY <1>1, AccessAlways, PTL

\* A request of a user whose ban is in force was let in before that ban.
LEMMA LetInBefore ==
  ASSUME AccessInv, NEW r \in Requests, req[r].pc \in {"unban", "handler"}, A!InForce(req[r].by)
  PROVE  req[r].late
  BY DEF AccessInv, Holds, A!InForce

\* A ban in force is ended, other than by time, by an administrator or a manager, or by a request
\* of the banned user that was let in before it: one that lifts an earlier, expired ban
\* (token.service.ts:301) or writes the user's own row (user.controller.ts:244).
THEOREM BansSafe == MCSpec => BansEndKnowingly
  <1> DEFINE Ends(u) == A!InForce(u) /\ (ban'[u] = "none" \/ (ban[u] = "forever" /\ ban'[u] = "lapsed"))
             By(u, r) == /\ req[r].pc \in {"unban", "handler"} /\ req'[r].pc # req[r].pc
                         /\ \/ req[r].by = u /\ req[r].late
                            \/ req[r].pc = "handler" /\ A!RolesGuard(r, {"admin", "manager"})
  <1>1. AccessInv /\ [MCNext]_vars =>
          [\A u \in Users : Ends(u) => \E r \in Requests : By(u, r)]_(A!accessVars)
    <2> SUFFICES ASSUME AccessInv, [A!Next]_accessVars, NEW u \in Users, Ends(u)
                 PROVE  \E r \in Requests : By(u, r)
      BY Parts
    <2>1. ban[u] \in {"timed", "forever"} /\ ban' # ban /\ A!InForce(u)
      BY DEF A!InForce
    <2>p. A!Idle.pc = "free"
      BY DEF A!Idle
    <2>2. ASSUME NEW r \in Requests, A!UnbanExpired(r) PROVE By(u, r)
      <3>1. req[r].pc = "unban" /\ req[r].by = u /\ req'[r].pc = "handler"
        <4>1. req[r].pc = "unban" /\ req[r].by = u
          BY <2>1, <2>2 DEF A!UnbanExpired, AccessInv, AccessOK
        <4>2. req[r] \in A!Request /\ req'[r] = [req[r] EXCEPT !.pc = "handler"]
          BY <2>2 DEF A!UnbanExpired, AccessInv, AccessOK
        <4> QED
          BY <4>1, <4>2 DEF A!Request
      <3> QED
        BY <2>1, <3>1, LetInBefore
    <2>3. ASSUME NEW r \in Requests, NEW v \in Users, A!unbanUser(r, v) PROVE By(u, r)
      <3>1. req[r].pc = "handler" /\ A!RolesGuard(r, {"admin"}) /\ req'[r] = A!Idle
        BY <2>3 DEF A!unbanUser, A!AdminRoute, A!Done, AccessInv, AccessOK
      <3> QED
        BY <2>p, <3>1 DEF A!RolesGuard
    <2>7. ASSUME NEW r \in Requests, NEW v \in Users, NEW body \in A!Bodies(v), A!updateUser(r, v, body)
          PROVE  By(u, r)
      <3>1. v = u
        BY <2>1, <2>7 DEF A!updateUser, AccessInv, AccessOK
      <3>2. req'[r] = A!Idle
        <4>1. \/ req' = [A!Overtaken(v) EXCEPT ![r] = A!Idle]
              \/ req' = [req EXCEPT ![r] = A!Idle]
          BY <2>7 DEF A!updateUser
        <4> QED
          BY <4>1, Overtakes DEF AccessInv, AccessOK
      <3>3. req[r].pc = "handler" /\ (req[r].by = u \/ A!RolesGuard(r, {"admin", "manager"}))
        BY <2>7, <3>1 DEF A!updateUser, A!UpdateRoute
      <3>4. req[r].by = u => req[r].late
        BY <2>1, <3>3, LetInBefore
      <3> QED
        BY <2>p, <3>2, <3>3, <3>4
    <2>4. ASSUME NEW r \in Requests, NEW v \in Users, NEW kind \in {"timed", "forever"}, A!banUser(r, v, kind)
          PROVE  FALSE
      BY <2>1, <2>4 DEF A!banUser, AccessInv, AccessOK
    <2>5. ASSUME NEW v \in Users, A!BanLapses(v) PROVE FALSE
      BY <2>1, <2>5 DEF A!BanLapses, AccessInv, AccessOK
    <2>8. ~A!cleanupExpiredBans
      BY <2>1 DEF A!cleanupExpiredBans
    <2>6. \/ \E r \in Requests : A!UnbanExpired(r)
          \/ \E r \in Requests, v \in Users : A!unbanUser(r, v)
          \/ \E r \in Requests, v \in Users : \E body \in A!Bodies(v) : A!updateUser(r, v, body)
          \/ \E r \in Requests, v \in Users, kind \in {"timed", "forever"} : A!banUser(r, v, kind)
          \/ \E v \in Users : A!BanLapses(v)
          \/ A!cleanupExpiredBans
      BY <2>1, ZenonT(30) DEF A!Next, accessVars, A!validateAccessToken, A!revokeUserSessions, A!assignGate,
                  A!removeGate, A!assignRole, A!removeRole, A!ConvertToAdminCommand, A!Answer,
                  A!CreateUserRole, A!revokeSession, A!createGate, A!updateGate, A!deleteGate,
                  A!CreateUserGate, A!CreateRoleCommand
    <2> QED
      BY <2>2, <2>3, <2>4, <2>5, <2>6, <2>7, <2>8
  <1> QED
    BY <1>1, AccessAlways, PTL DEF MCSpec, BansEndKnowingly, A!BansEndKnowingly
--------------------------------------------------------------------------------
(* Mails and the audit log: what listeners know of an account that moved on *)

Mailed(action, u) ==
  /\ action = "reset_requested" => E!Sent("forgotPassword", u)
  /\ action = "reset_completed" => E!Sent("passwordChanged", u)
  /\ action = "change_requested" => E!Sent("emailChangeConfirmation", u)
  /\ action = "deletion_requested" => E!Sent("accountDeletionVerification", u)

OwnersOK ==
  /\ owner \in [Owners -> Addresses \cup {NoAddress}]
  /\ had \in [Owners -> SUBSET Addresses]
  /\ \A u \in Owners : E!Exists(u) => owner[u] \in had[u]

MailOK(m) ==
  /\ m \in [template : E!Templates, user : Owners, to : Addresses]
  /\ m.to \in had[m.user]

\* A listener carries an address that its user has had, or none and looks it up; one that will
\* record a link has sent it.
JobOK(j) ==
  /\ j \in E!Job
  /\ j.pc = "run" =>
       /\ j.user \in Owners
       /\ j.addr \in had[j.user] \/ (j.addr = NoAddress /\ j.event = "PASSWORD_UPDATED")
  /\ j.pc = "audit" => j.action # "none" /\ Mailed(j.action, j.user)

RowOK(r) ==
  /\ Mailed(r.action, r.entity)
  /\ r.user # Nobody => r.user \in Owners /\ E!Exists(r.user)

EventsInv ==
  /\ OwnersOK
  /\ \A m \in mail : MailOK(m)
  /\ \A j \in DOMAIN job : JobOK(j)
  /\ auditLog \in Seq(E!AuditRow)
  /\ \A i \in DOMAIN auditLog : RowOK(auditLog[i])

LEMMA PayloadType ==
  ASSUME NEW event \in E!Events, NEW u \in Owners, NEW source \in E!Sources,
         owner[u] \in Addresses \cup {NoAddress}
  PROVE  /\ E!Payload(event, u, source) \in E!Job
         /\ E!Payload(event, u, source).pc = "run" /\ E!Payload(event, u, source).user = u
         /\ E!Payload(event, u, source).addr = owner[u] /\ E!Payload(event, u, source).event = event
  BY DEF E!Payload, E!NoJob, E!Job, E!Sources, E!Actions

LEMMA AuditType ==
  ASSUME NEW u \in Owners \cup {Nobody}, NEW action \in E!Actions
  PROVE  /\ E!Audit(u, action) \in E!Job
         /\ E!Audit(u, action).pc = "audit" /\ E!Audit(u, action).user = u
         /\ E!Audit(u, action).action = action
  BY DEF E!Audit, E!NoJob, E!Job, E!Sources, E!Actions

LEMMA PayloadOK ==
  ASSUME OwnersOK, NEW u \in Owners, E!Exists(u), NEW event \in E!Events, NEW source \in E!Sources
  PROVE  JobOK(E!Payload(event, u, source))
  <1>1. owner[u] \in Addresses \cup {NoAddress} /\ owner[u] \in had[u]
    BY DEF OwnersOK
  <1> QED
    BY <1>1, PayloadType DEF JobOK

LEMMA AuditOK ==
  ASSUME NEW u \in Owners \cup {Nobody}, NEW action \in E!Actions, action # "none",
         action \notin {"reset_requested", "reset_completed", "change_requested", "deletion_requested"}
  PROVE  JobOK(E!Audit(u, action))
  BY AuditType DEF JobOK, Mailed

\* What was known stays known as long as addresses and mails are only added.
LEMMA JobKept ==
  ASSUME \A u \in Owners : had[u] \subseteq had'[u], mail \subseteq mail',
         NEW j, JobOK(j)
  PROVE  JobOK(j)'
  BY DEF JobOK, Mailed, E!Sent

LEMMA MailedKept ==
  ASSUME mail \subseteq mail', NEW action, NEW u, Mailed(action, u)
  PROVE  Mailed(action, u)'
  BY DEF Mailed, E!Sent

LEMMA MailKept ==
  ASSUME \A u \in Owners : had[u] \subseteq had'[u], NEW m, MailOK(m)
  PROVE  MailOK(m)'
  BY DEF MailOK

\* A caller spawns listeners that are in order.
LEMMA Spawned ==
  ASSUME EventsInv, NEW X, E!Spawn(X), \A j \in X : JobOK(j), UNCHANGED <<owner, had, mail, auditLog>>
  PROVE  EventsInv'
  <1>1. DOMAIN job' = DOMAIN job \cup X
    BY DEF E!Spawn, E!(+), E!SetToBag
  <1>2. \A j : JobOK(j) => JobOK(j)'
    BY JobKept
  <1>3. \A j \in DOMAIN job' : JobOK(j)'
    BY <1>1, <1>2 DEF EventsInv
  <1>4. OwnersOK' /\ (\A m \in mail' : MailOK(m)')
    BY DEF EventsInv, OwnersOK, MailOK, E!Exists
  <1>5. auditLog' \in Seq(E!AuditRow) /\ \A i \in DOMAIN auditLog' : RowOK(auditLog[i])'
    BY DEF EventsInv, RowOK, Mailed, E!Sent, E!Exists
  <1> QED
    BY <1>3, <1>4, <1>5 DEF EventsInv

\* A listener ends, or goes on as one in order, after it may have sent a mail.
LEMMA Heard ==
  ASSUME EventsInv, NEW j \in DOMAIN job, UNCHANGED <<owner, had, auditLog>>,
         mail \subseteq mail', \A m \in mail' : m \in mail \/ MailOK(m),
         NEW next, E!Free(j) \/ (E!Become(j, next) /\ JobOK(next)')
  PROVE  EventsInv'
  <1>1. DOMAIN job' \subseteq DOMAIN job \/ (DOMAIN job' \subseteq DOMAIN job \cup {next} /\ JobOK(next)')
    <2>1. CASE E!Free(j)
      BY <2>1 DEF E!Free, E!(-), E!SetToBag
    <2>2. ASSUME E!Become(j, next)
          PROVE  DOMAIN job' \subseteq DOMAIN job \cup {next}
      BY <2>2 DEF E!Become, E!(-), E!(+), E!SetToBag
    <2> QED
      BY <2>1, <2>2
  <1>2. \A k : JobOK(k) => JobOK(k)'
    BY JobKept
  <1>3. \A k \in DOMAIN job' : JobOK(k)'
    BY <1>1, <1>2 DEF EventsInv
  <1>4. OwnersOK'
    BY DEF EventsInv, OwnersOK, E!Exists
  <1>5. \A m \in mail' : MailOK(m)'
    BY DEF EventsInv, MailOK
  <1>6. auditLog' \in Seq(E!AuditRow) /\ \A i \in DOMAIN auditLog' : RowOK(auditLog[i])'
    <2>1. \A a, u : Mailed(a, u) => Mailed(a, u)'
      BY MailedKept
    <2>2. ASSUME NEW i \in DOMAIN auditLog PROVE RowOK(auditLog[i])'
      BY <2>1 DEF EventsInv, RowOK, E!Exists
    <2> QED
      BY <2>2 DEF EventsInv
  <1> QED
    BY <1>3, <1>4, <1>5, <1>6 DEF EventsInv

LEMMA SpawnSteps ==
  ASSUME EventsInv, NEW u \in Owners,
         \/ E!StoreUser(u) \/ E!Welcome(u) \/ E!issueTokens(u) \/ E!ReuseDetected(u)
         \/ E!sendVerificationEmailHook(u) \/ E!sendResetPassword(u) \/ E!onPasswordReset(u)
         \/ E!afterEmailVerification(u) \/ E!sendDeleteAccountVerification(u)
         \/ E!UpdatePassword(u) \/ E!updateUserPassword(u)
  PROVE  EventsInv'
  <1>1. ASSUME E!Exists(u)
        PROVE  \A event \in E!Events, source \in E!Sources : JobOK(E!Payload(event, u, source))
    BY <1>1, PayloadOK DEF EventsInv
  <1>2. /\ JobOK(E!Audit(u, "user_created")) /\ JobOK(E!Audit(u, "password_changed"))
        /\ JobOK(E!Audit(u, "user_login")) /\ JobOK(E!Audit(u, "reuse_detected"))
    BY AuditOK DEF E!Actions
  <1>3. ASSUME NEW event \in E!Events, NEW source \in E!Sources, E!Hook(event, u, source) PROVE EventsInv'
    BY <1>1, <1>3, Spawned DEF E!Hook, E!emit
  <1>4. CASE \/ E!sendVerificationEmailHook(u) \/ E!sendResetPassword(u) \/ E!onPasswordReset(u)
             \/ E!afterEmailVerification(u) \/ E!sendDeleteAccountVerification(u)
    BY <1>3, <1>4 DEF E!sendVerificationEmailHook, E!sendResetPassword, E!onPasswordReset,
                      E!afterEmailVerification, E!sendDeleteAccountVerification, E!Events, E!Sources
  <1>5. CASE E!issueTokens(u) \/ E!ReuseDetected(u)
    BY <1>2, <1>5, Spawned DEF E!issueTokens, E!ReuseDetected, E!Report
  <1>6. CASE E!StoreUser(u) \/ E!Welcome(u)
    BY <1>1, <1>2, <1>6, Spawned DEF E!StoreUser, E!Welcome, E!Events, E!Sources
  <1>7. ASSUME NEW source \in E!Sources, E!Exists(u)
        PROVE  JobOK([E!Payload("PASSWORD_UPDATED", u, source) EXCEPT !.addr = NoAddress])
    <2>1. JobOK(E!Payload("PASSWORD_UPDATED", u, source)) /\ owner[u] \in Addresses \cup {NoAddress}
      BY <1>1, <1>7 DEF E!Events, EventsInv, OwnersOK
    <2> DEFINE p == E!Payload("PASSWORD_UPDATED", u, source)
    <2>2. p \in E!Job /\ p.pc = "run" /\ p.user = u /\ p.event = "PASSWORD_UPDATED"
      BY <2>1, PayloadType DEF E!Events
    <2> HIDE DEF p
    <2>3. /\ [p EXCEPT !.addr = NoAddress] \in E!Job
          /\ [p EXCEPT !.addr = NoAddress].pc = "run" /\ [p EXCEPT !.addr = NoAddress].user = u
          /\ [p EXCEPT !.addr = NoAddress].addr = NoAddress
          /\ [p EXCEPT !.addr = NoAddress].event = "PASSWORD_UPDATED"
      BY <2>2 DEF E!Job
    <2>4. JobOK([p EXCEPT !.addr = NoAddress])
      BY <2>3 DEF JobOK
    <2> QED
      BY <2>4 DEF p
  <1>8. CASE E!UpdatePassword(u) \/ E!updateUserPassword(u)
    BY <1>2, <1>7, <1>8, Spawned DEF E!UpdatePassword, E!updateUserPassword, E!Sources
  <1> QED
    BY <1>4, <1>5, <1>6, <1>8

\* A failed login names nobody.
LEMMA LoginStep ==
  ASSUME EventsInv, E!LoginFailed \/ E!mapSocialSignInError
  PROVE  EventsInv'
  <1>1. JobOK(E!Audit(Nobody, "login_failed"))
    BY AuditOK DEF E!Actions
  <1> QED
    BY <1>1, Spawned DEF E!LoginFailed, E!mapSocialSignInError, E!Report

LEMMA ConfirmationStep ==
  ASSUME EventsInv, NEW u \in Owners, NEW e \in Addresses, E!sendChangeEmailConfirmation(u, e)
  PROVE  EventsInv'
  <1> DEFINE p == E!Payload("EMAIL_CHANGE_CONFIRMATION_REQUESTED", u, "none")
  <1>1. owner[u] \in Addresses \cup {NoAddress} /\ owner[u] \in had[u]
    BY DEF E!sendChangeEmailConfirmation, EventsInv, OwnersOK
  <1>2. p \in E!Job /\ p.pc = "run" /\ p.user = u /\ p.addr = owner[u]
    BY <1>1, PayloadType DEF E!Events, E!Sources
  <1> HIDE DEF p
  <1>3. /\ [p EXCEPT !.new = e] \in E!Job
        /\ [p EXCEPT !.new = e].pc = "run" /\ [p EXCEPT !.new = e].user = u
        /\ [p EXCEPT !.new = e].addr = owner[u]
    BY <1>2 DEF E!Job
  <1>4. JobOK([p EXCEPT !.new = e])
    BY <1>1, <1>3 DEF JobOK
  <1> QED
    BY <1>4, Spawned DEF E!sendChangeEmailConfirmation, p

\* The address of an account changes: what was sent before was sent to one it has had.
LEMMA AddressStep ==
  ASSUME EventsInv, NEW u \in Owners, NEW e \in Addresses, E!ChangeAddress(u, e)
  PROVE  EventsInv'
  <1>1. \A v \in Owners : had[v] \subseteq had'[v]
    BY DEF E!ChangeAddress, EventsInv, OwnersOK
  <1>2. OwnersOK'
    BY DEF E!ChangeAddress, EventsInv, OwnersOK, E!Exists
  <1>3. (\A m \in mail' : MailOK(m)') /\ \A j \in DOMAIN job' : JobOK(j)'
    BY <1>1, MailKept, JobKept DEF E!ChangeAddress, EventsInv
  <1>4. \A v \in Owners : E!Exists(v) => E!Exists(v)'
    BY EventsAssumption DEF E!ChangeAddress, E!Exists, EventsInv, OwnersOK
  <1>5. \A i \in DOMAIN auditLog' : RowOK(auditLog[i])'
    BY <1>4 DEF E!ChangeAddress, EventsInv, RowOK, Mailed, E!Sent
  <1> QED
    BY <1>2, <1>3, <1>5 DEF E!ChangeAddress, EventsInv

\* The account goes, and with it every reference of the log to it.
LEMMA DeleteStep ==
  ASSUME EventsInv, NEW u \in Owners, E!DeleteAccount(u)
  PROVE  EventsInv'
  <1>1. OwnersOK'
    BY DEF E!DeleteAccount, EventsInv, OwnersOK, E!Exists
  <1>2. JobOK(E!Payload("ACCOUNT_DELETED", u, "none"))
    BY PayloadOK DEF E!DeleteAccount, EventsInv, E!Events, E!Sources
  <1>3. DOMAIN job' = DOMAIN job \cup {E!Payload("ACCOUNT_DELETED", u, "none")}
    BY DEF E!DeleteAccount, E!emit, E!Spawn, E!(+), E!SetToBag
  <1>4. \A j \in DOMAIN job' : JobOK(j)'
    <2>1. \A j \in DOMAIN job' : JobOK(j)
      BY <1>2, <1>3 DEF EventsInv
    <2> QED
      BY <2>1, JobKept DEF E!DeleteAccount
  <1>5. \A m \in mail' : MailOK(m)'
    BY MailKept DEF E!DeleteAccount, EventsInv
  <1>6. auditLog' \in Seq(E!AuditRow) /\ \A i \in DOMAIN auditLog' : RowOK(auditLog[i])'
    <2>1. /\ DOMAIN auditLog' = DOMAIN auditLog
          /\ \A i \in DOMAIN auditLog :
               auditLog'[i] = IF auditLog[i].user = u THEN [auditLog[i] EXCEPT !.user = Nobody] ELSE auditLog[i]
      BY DEF E!DeleteAccount, E!Unlink
    <2>2. ASSUME NEW i \in DOMAIN auditLog
          PROVE  auditLog'[i] \in E!AuditRow /\ RowOK(auditLog[i])'
      <3> DEFINE r == auditLog[i]
      <3>1. r \in E!AuditRow /\ RowOK(r)
        BY DEF EventsInv
      <3>2. CASE r.user = u
        <4>1. auditLog'[i] = [r EXCEPT !.user = Nobody]
          BY <2>1, <3>2
        <4>2. /\ [r EXCEPT !.user = Nobody] \in E!AuditRow /\ [r EXCEPT !.user = Nobody].user = Nobody
              /\ [r EXCEPT !.user = Nobody].action = r.action /\ [r EXCEPT !.user = Nobody].entity = r.entity
          BY <3>1 DEF E!AuditRow
        <4> QED
          BY <3>1, <4>1, <4>2 DEF RowOK, Mailed, E!Sent, E!DeleteAccount
      <3>3. CASE r.user # u
        <4>1. auditLog'[i] = r
          BY <2>1, <3>3
        <4> QED
          BY <3>1, <3>3, <4>1
          DEF RowOK, Mailed, E!Sent, E!DeleteAccount, E!Exists, EventsInv, OwnersOK
      <3> QED
        BY <3>2, <3>3
    <2>3. auditLog' \in Seq(E!AuditRow)
      <3>1. PICK n \in Nat : DOMAIN auditLog = 1..n
        BY DEF EventsInv
      <3>2. auditLog' \in [1..n -> E!AuditRow]
        BY <2>1, <2>2, <3>1 DEF E!DeleteAccount, E!Unlink
      <3> QED
        BY <3>2
    <2> QED
      BY <2>1, <2>2, <2>3
  <1> QED
    BY <1>1, <1>4, <1>5, <1>6 DEF EventsInv

\* Sending to an address of the user, and what becomes of the listener then.
LEMMA SendStep ==
  ASSUME EventsInv, NEW j \in DOMAIN job, NEW o \in {"accepted", "error"}, NEW t \in E!Templates,
         NEW to \in Addresses, NEW action \in E!Actions, j.pc = "run", to \in had[j.user],
         E!sendHtml(o, t, j.user, to), E!Then(j, o, action), UNCHANGED <<owner, had, auditLog>>,
         /\ action = "reset_requested" => t = "forgotPassword"
         /\ action = "reset_completed" => t = "passwordChanged"
         /\ action = "change_requested" => t = "emailChangeConfirmation"
         /\ action = "deletion_requested" => t = "accountDeletionVerification"
  PROVE  EventsInv'
  <1> DEFINE m == [template |-> t, user |-> j.user, to |-> to]
  <1>1. j.user \in Owners
    BY DEF EventsInv, JobOK
  <1>2. /\ m \in [template : E!Templates, user : Owners, to : Addresses]
        /\ m.template = t /\ m.user = j.user /\ m.to = to
    BY <1>1
  <1> HIDE DEF m
  <1>3. mail' = IF o = "accepted" THEN mail \cup {m} ELSE mail
    BY DEF E!sendHtml, E!send, m
  <1>4. MailOK(m)
    BY <1>1, <1>2 DEF MailOK
  <1>5. mail \subseteq mail' /\ \A x \in mail' : x \in mail \/ MailOK(x)
    BY <1>3, <1>4
  <1>6. CASE o = "accepted" /\ action # "none"
    <2>1. E!Sent(t, j.user)'
      BY <1>2, <1>3, <1>6 DEF E!Sent
    <2>2. Mailed(action, j.user)'
      BY <2>1 DEF Mailed
    <2>3. JobOK(E!Audit(j.user, action))'
      BY <1>1, <1>6, <2>2, AuditType DEF JobOK
    <2>4. E!Become(j, E!Audit(j.user, action))
      BY <1>6 DEF E!Then, E!emitAudit
    <2> QED
      BY <1>5, <2>3, <2>4, Heard
  <1>7. CASE ~(o = "accepted" /\ action # "none")
    BY <1>5, <1>7, Heard DEF E!Then
  <1> QED
    BY <1>6, <1>7

LEMMA MailSteps ==
  ASSUME EventsInv, NEW j \in DOMAIN job, NEW o \in E!Provider,
         \/ E!SendWelcome(j, o) \/ E!handleAccountVerificationEmailRequested(j, o)
         \/ E!handlePasswordResetEmailRequested(j, o) \/ E!handlePasswordUpdated(j, o)
         \/ E!handleEmailChangeConfirmationRequested(j, o)
         \/ E!handleAccountDeletionVerificationRequested(j, o)
  PROVE  EventsInv'
  <1>1. o \in {"accepted", "error"}
    BY DEF E!Provider, E!smtpSend, E!mailgunSend
  <1>2. JobOK(j) /\ OwnersOK
    BY DEF EventsInv
  <1>3. ASSUME j.pc = "run", j.event # "PASSWORD_UPDATED"
        PROVE  j.user \in Owners /\ j.addr \in had[j.user] /\ j.addr \in Addresses
    BY <1>2, <1>3 DEF JobOK, OwnersOK
  <1>4. CASE E!SendWelcome(j, o)
    BY <1>1, <1>3, <1>4, SendStep
       DEF E!SendWelcome, E!Running, E!sendWelcomeEmail, E!Templates, E!Actions
  <1>5. CASE E!handleAccountVerificationEmailRequested(j, o)
    BY <1>1, <1>3, <1>5, SendStep
       DEF E!handleAccountVerificationEmailRequested, E!Running, E!sendAccountVerificationEmail,
          E!Templates, E!Actions
  <1>6. CASE E!handlePasswordResetEmailRequested(j, o)
    BY <1>1, <1>3, <1>6, SendStep
       DEF E!handlePasswordResetEmailRequested, E!Running, E!sendForgotPasswordEmail,
          E!Templates, E!Actions
  <1>7. CASE E!handleEmailChangeConfirmationRequested(j, o)
    BY <1>1, <1>3, <1>7, SendStep
       DEF E!handleEmailChangeConfirmationRequested, E!Running, E!sendEmailChangeConfirmationEmail,
           E!Templates, E!Actions
  <1>8. CASE E!handleAccountDeletionVerificationRequested(j, o)
    BY <1>1, <1>3, <1>8, SendStep
       DEF E!handleAccountDeletionVerificationRequested, E!Running,
          E!sendAccountDeletionVerificationEmail,
           E!Templates, E!Actions
  <1>9. CASE E!handlePasswordUpdated(j, o)
    <2> DEFINE to == IF j.addr # NoAddress THEN j.addr ELSE owner[j.user]
               action == IF j.source = "reset" THEN "reset_completed" ELSE "none"
    <2>1. /\ j.pc = "run" /\ UNCHANGED <<owner, had, auditLog>>
          /\ IF to = NoAddress THEN E!Free(j) /\ UNCHANGED mail
             ELSE E!sendHtml(o, "passwordChanged", j.user, to) /\ E!Then(j, o, action)
      BY <1>9 DEF E!handlePasswordUpdated, E!Running, E!sendPasswordChangedEmail
    <2>2. CASE to = NoAddress
      BY <2>1, <2>2, Heard
    <2>3. CASE to # NoAddress
      <3>1. to \in had[j.user] /\ to \in Addresses
        BY <1>2, <2>1, <2>3 DEF JobOK, OwnersOK, E!Exists
      <3>2. action \in E!Actions /\ "passwordChanged" \in E!Templates
            /\ action \in {"reset_completed", "none"}
        BY DEF E!Actions, E!Templates
      <3> HIDE DEF to, action
      <3> QED
        BY <1>1, <2>1, <2>3, <3>1, <3>2, SendStep
    <2> QED
      BY <2>2, <2>3
  <1> QED
    BY <1>4, <1>5, <1>6, <1>7, <1>8, <1>9

LEMMA SilentSteps ==
  ASSUME EventsInv, NEW j \in DOMAIN job,
         E!handleUserCreatedEvent(j) \/ E!handleEmailVerified(j) \/ E!handleAccountDeleted(j)
  PROVE  EventsInv'
  <1>1. JobOK(j)
    BY DEF EventsInv
  <1>2. CASE E!handleUserCreatedEvent(j)
    <2> DEFINE next == [j EXCEPT !.event = "ACCOUNT_VERIFICATION_EMAIL_REQUESTED"]
    <2>1. j \in E!Job /\ j.pc = "run" /\ j.event = "CREATED"
      BY <1>1, <1>2 DEF JobOK, E!handleUserCreatedEvent, E!Running
    <2>2. next \in E!Job /\ next.pc = "run" /\ next.user = j.user /\ next.addr = j.addr
      BY <2>1 DEF E!Job, E!Events
    <2>3. UNCHANGED <<owner, had, mail, auditLog>> /\ (E!Become(j, next) \/ E!Free(j))
      BY <1>2 DEF E!handleUserCreatedEvent
    <2> HIDE DEF next
    <2>4. JobOK(next)'
      BY <1>1, <2>1, <2>2, <2>3 DEF JobOK
    <2> QED
      BY <2>3, <2>4, Heard
  <1>3. ASSUME NEW action \in {"email_verified", "account_deleted"}, j.pc = "run",
               E!emitAudit(j, action), UNCHANGED <<owner, had, mail, auditLog>>
        PROVE  EventsInv'
    <2>1. j.user \in Owners
      BY <1>1, <1>3 DEF JobOK
    <2>2. JobOK(E!Audit(j.user, action))
      BY <2>1, AuditOK DEF E!Actions
    <2>3. JobOK(E!Audit(j.user, action))'
      BY <1>3, <2>2, JobKept
    <2> QED
      BY <1>3, <2>3, Heard DEF E!emitAudit
  <1> QED
    BY <1>2, <1>3 DEF E!handleEmailVerified, E!handleAccountDeleted, E!Running

\* The row that is written names its user while the account exists.
LEMMA AuditStep ==
  ASSUME EventsInv, NEW j \in DOMAIN job, E!handleAuditEvent(j)
  PROVE  EventsInv'
  <1>1. JobOK(j) /\ j.pc = "audit" /\ UNCHANGED <<owner, had, mail>> /\ E!Free(j)
    BY DEF EventsInv, E!handleAuditEvent
  <1>2. CASE UNCHANGED auditLog
    BY <1>1, <1>2, Heard
  <1>3. CASE /\ j.user # Nobody => E!Exists(j.user)
             /\ auditLog' = Append(auditLog, E!createAuditLog(j.action, j.user))
    <2> DEFINE r == E!createAuditLog(j.action, j.user)
    <2>1. j.action \in E!Actions \ {"none"} /\ j.user \in Owners \cup {Nobody} /\ Mailed(j.action, j.user)
      BY <1>1 DEF JobOK, E!Job
    <2>2. /\ r.action = j.action /\ r.user = j.user /\ r.entity \in {Nobody, j.user}
          /\ r.entity # j.user => r.action \in {"user_login", "login_failed", "reuse_detected"}
      BY DEF E!createAuditLog
    <2>3. r \in E!AuditRow
      <3>1. r.actorType \in {"user", "system"} /\ r.success \in BOOLEAN
        BY DEF E!createAuditLog, E!inferActorType
      <3>2. r.eventType \in {"CREATE", "UPDATE", "DELETE", "LOGIN", "FAILURE"}
        BY DEF E!createAuditLog
      <3>3. r = [action |-> r.action, user |-> r.user, actorType |-> r.actorType, entity |-> r.entity,
                 success |-> r.success, eventType |-> r.eventType]
        BY DEF E!createAuditLog
      <3> HIDE DEF r
      <3> QED
        BY <2>1, <2>2, <3>1, <3>2, <3>3 DEF E!AuditRow
    <2>4. RowOK(r)
      <3> HIDE DEF r
      <3> QED
        BY <1>3, <2>1, <2>2 DEF RowOK, Mailed
    <2> HIDE DEF r
    <2>5. auditLog' = Append(auditLog, r) /\ auditLog \in Seq(E!AuditRow)
      BY <1>3 DEF r, EventsInv
    <2>6. /\ auditLog' \in Seq(E!AuditRow)
          /\ \A i \in DOMAIN auditLog' :
               auditLog'[i] = r \/ (i \in DOMAIN auditLog /\ auditLog'[i] = auditLog[i])
      BY <2>3, <2>5
    <2>7. \A x : RowOK(x) => RowOK(x)'
      BY <1>1 DEF RowOK, Mailed, E!Sent, E!Exists
    <2>8. \A i \in DOMAIN auditLog' : RowOK(auditLog'[i])
      BY <2>4, <2>6 DEF EventsInv
    <2>9. \A i \in DOMAIN auditLog' : RowOK(auditLog[i])'
      BY <2>7, <2>8
    <2>10. DOMAIN job' \subseteq DOMAIN job
      BY <1>1 DEF E!Free, E!(-), E!SetToBag
    <2>11. \A k \in DOMAIN job' : JobOK(k)'
      BY <1>1, <2>10, JobKept DEF EventsInv
    <2>12. OwnersOK' /\ \A m \in mail' : MailOK(m)'
      BY <1>1 DEF EventsInv, OwnersOK, E!Exists, MailOK
    <2> QED
      BY <2>6, <2>9, <2>11, <2>12 DEF EventsInv
  <1> QED
    BY <1>2, <1>3 DEF E!handleAuditEvent

LEMMA EventsAlways == MCSpec => [](part = "events" => EventsInv)
  <1>1. MCInit => (part = "events" => EventsInv)
    <2> SUFFICES ASSUME E!Init PROVE EventsInv
      BY DEF MCInit
    <2>1. OwnersOK
      BY DEF E!Init, OwnersOK
    <2> QED
      BY <2>1 DEF E!Init, EventsInv, E!EmptyBag, E!SetToBag
  <1>2. (part = "events" => EventsInv) /\ [MCNext]_vars => (part = "events" => EventsInv)'
    <2> SUFFICES ASSUME [MCNext]_vars, part' = "events", part = "events" => EventsInv PROVE EventsInv'
      OBVIOUS
    <2>1. part = "events" /\ EventsInv
      BY DEF MCNext, vars
    <2>2. CASE UNCHANGED eventVars
      BY <2>1, <2>2
      DEF eventVars, EventsInv, OwnersOK, MailOK, JobOK, RowOK, Mailed, E!Sent, E!Exists
    <2>3. CASE E!Next
      <3>1. ASSUME NEW j \in DOMAIN job, E!ListenerNext(j) PROVE EventsInv'
        BY <2>1, <3>1, MailSteps, SilentSteps, AuditStep DEF E!ListenerNext
      <3>2. ASSUME NEW u \in Owners, NEW e \in Addresses,
                   E!sendChangeEmailConfirmation(u, e) \/ E!ChangeAddress(u, e)
            PROVE  EventsInv'
        BY <2>1, <3>2, ConfirmationStep, AddressStep
      <3>3. CASE E!LoginFailed \/ E!mapSocialSignInError
        BY <2>1, <3>3, LoginStep
      <3>4. CASE E!HookNext
        BY <2>1, <3>2, <3>4, SpawnSteps, DeleteStep DEF E!HookNext
      <3> QED
        BY <2>3, <3>1, <3>3, <3>4 DEF E!Next, E!BagToSet
    <2> QED
      BY <2>2, <2>3 DEF MCNext, vars
  <1> QED
    BY <1>1, <1>2, PTL DEF MCSpec

\* Whenever a listener runs, its mail goes to an address that the account it is about has had
\* (user.service.ts:1041); the one that looks the address up does so at that moment.
THEOREM MailsSafe == MCSpec => []MailsStayWithOwner
  <1>1. (part = "events" => EventsInv) => MailsStayWithOwner
    BY DEF EventsInv, MailOK, MailsStayWithOwner, E!MailsStayWithOwner
  <1> QED
    BY <1>1, EventsAlways, PTL

\* No endpoint of the log shows a link for which no mail was accepted (user.service.ts:1041), or
\* activity of an account that is gone (the foreign key of audit_log).
THEOREM TrailSafe == MCSpec => []TrailIsTrue
  <1>1. ASSUME EventsInv PROVE E!TrailIsTrue
    <2> SUFFICES ASSUME NEW caller \in Owners \cup {Nobody}
                 PROVE  /\ \A r \in UNION {E!LogsRoute(caller), E!LogRoute(caller), E!EntityRoute(caller),
                                           E!SecurityRoute(caller), E!FailedRoute(caller)} :
                             Mailed(r.action, r.entity)
                        /\ \A u \in Owners : ~E!Exists(u) => /\ E!ActivityRoute(caller, u) = {}
                                                             /\ u \notin E!StatisticsRoute(caller)
      BY DEF E!TrailIsTrue, Mailed
    <2>1. \A r \in E!Rows : RowOK(r)
      BY <1>1 DEF EventsInv, E!Rows
    <2>2. /\ E!LogsRoute(caller) \subseteq E!Rows /\ E!SecurityRoute(caller) \subseteq E!Rows
          /\ E!FailedRoute(caller) \subseteq E!Rows
      BY DEF E!LogsRoute, E!Route, E!getAuditLogs, E!SecurityRoute, E!getSecurityEvents,
         E!FailedRoute,
             E!getFailedOperations
    <2>3. E!LogRoute(caller) \subseteq E!Rows
      BY DEF E!LogRoute, E!Route, E!findOne, E!Rows
    <2>4. E!EntityRoute(caller) \subseteq E!Rows
      BY DEF E!EntityRoute, E!Route, E!getEntityAuditTrail, E!getAuditLogs
    <2>5. ASSUME NEW u \in Owners, ~E!Exists(u)
          PROVE  E!ActivityRoute(caller, u) = {} /\ u \notin E!StatisticsRoute(caller)
      <3>1. \A r \in E!Rows : r.user # u
        BY <2>1, <2>5, EventsAssumption DEF RowOK
      <3>2. \A r \in E!getUserActivity(u) : r \in E!Rows /\ r.user = u
        BY DEF E!getUserActivity, E!getAuditLogs
      <3> QED
        BY <3>1, <3>2 DEF E!ActivityRoute, E!Route, E!StatisticsRoute, E!getAuditStatistics
    <2> QED
      BY <2>1, <2>2, <2>3, <2>4, <2>5 DEF RowOK
  <1>2. (part = "events" => EventsInv) => TrailIsTrue
    BY <1>1 DEF TrailIsTrue
  <1> QED
    BY <1>2, EventsAlways, PTL
================================================================================
