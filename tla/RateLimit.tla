------------------------------ MODULE RateLimit ------------------------------
(***************************************************************************)
(* RateLimitService: how many alerts a user may create in an hour, a day   *)
(* and a week.  One Redis sorted set per user holds the times of the       *)
(* admitted creations, each time being its own member; the limits are read *)
(* in one command and the creation recorded in later ones.                 *)
(***************************************************************************)
EXTENDS Naturals, FiniteSets, FiniteSetsExt

CONSTANTS
  Creations,    \* requests to create an alert that may be in flight (bound)
  Hourly, Daily, Weekly,   \* limits: [count, window]
  Second,       \* units of the clock (milliseconds) in a second
  MaxTime       \* bound on the clock

VARIABLES
  now,          \* Date.now()
  zset,         \* the user's sorted set
  creation,     \* requests in flight: phase and the time each took
  admitted,     \* history: times of all admitted creations since the last reset
  told          \* history: the latest time a refusal told the client to wait for

limitVars == <<now, zset, creation, admitted, told>>

Limits == {Hourly, Daily, Weekly}
Idle == [pc |-> "free", at |-> 0]

TypeOK ==
  /\ now \in 0..MaxTime
  /\ zset \subseteq 0..MaxTime
  /\ creation \in [Creations -> [pc : {"free", "zadd", "trim"}, at : 0..MaxTime]]
  /\ admitted \subseteq 0..MaxTime
  /\ told \in 0..(MaxTime + Weekly.window + Second)

Init ==
  /\ now = 0
  /\ zset = {} /\ admitted = {}
  /\ creation = [r \in Creations |-> Idle]
  /\ told = 0

\* timestamps.filter(t => t >= now - windowMs)
InWindow(times, t, window) == {x \in times : x + window >= t}

countInWindow(times, t, window) == Cardinality(InWindow(times, t, window))

Exceeded == {l \in Limits : countInWindow(zset, now, l.window) >= l.count}

\* When the oldest creation of the window leaves it.
OldestExpiry(l) == Min(InWindow(zset, now, l.window)) + l.window

\* Mutant: milliseconds are returned for seconds.
Mut_getRetryAfter_ms(l) == OldestExpiry(l) - now

\* In seconds, rounded up.
getRetryAfter(l) == (OldestExpiry(l) - now + Second - 1) \div Second

\* The first limit in the order hour, day, week.
First == IF Hourly \in Exceeded THEN Hourly ELSE IF Daily \in Exceeded THEN Daily ELSE Weekly

\* Mutant: the limits are compared with >.
Mut_checkAlertCreationLimit_above(r) ==
  /\ creation[r].pc = "free"
  /\ \A l \in Limits : countInWindow(zset, now, l.window) <= l.count
  /\ creation' = [creation EXCEPT ![r] = [pc |-> "zadd", at |-> now]]
  /\ UNCHANGED <<now, zset, admitted, told>>

checkAlertCreationLimit(r) ==
  /\ creation[r].pc = "free"
  /\ Exceeded = {}
  /\ creation' = [creation EXCEPT ![r] = [pc |-> "zadd", at |-> now]]
  /\ UNCHANGED <<now, zset, admitted, told>>

\* 429 with retry_after_seconds.
Refuse(r) ==
  /\ creation[r].pc = "free"
  /\ Exceeded # {}
  /\ told' = Max({told, now + Second * getRetryAfter(First)})
  /\ UNCHANGED <<now, zset, creation, admitted>>

recordAlertCreation(r) ==
  /\ creation[r].pc = "zadd"
  /\ zset' = zset \cup {creation[r].at}
  /\ admitted' = admitted \cup {creation[r].at}
  /\ creation' = [creation EXCEPT ![r].pc = "trim"]
  /\ UNCHANGED <<now, told>>

\* zremrangebyscore up to and including the cutoff, then a new time to live.
Trim(r) ==
  /\ creation[r].pc = "trim"
  /\ zset' = {x \in zset : x + Weekly.window > creation[r].at}
  /\ creation' = [creation EXCEPT ![r] = Idle]
  /\ UNCHANGED <<now, admitted, told>>

\* Redis fails: the error goes to the client, what was recorded stays.
RedisFails(r) ==
  /\ creation[r].pc # "free"
  /\ creation' = [creation EXCEPT ![r] = Idle]
  /\ UNCHANGED <<now, zset, admitted, told>>

\* One day after the longest window the key is gone.
KeyExpires ==
  /\ zset # {}
  /\ \A x \in zset : x + Weekly.window < now
  /\ zset' = {}
  /\ UNCHANGED <<now, creation, admitted, told>>

resetUserLimits ==
  /\ zset' = {} /\ admitted' = {} /\ told' = 0
  /\ UNCHANGED <<now, creation>>

Tick ==
  /\ now < MaxTime
  /\ now' = now + 1
  /\ UNCHANGED <<zset, creation, admitted, told>>

Next ==
  \/ \E r \in Creations :
       checkAlertCreationLimit(r) \/ Refuse(r) \/ recordAlertCreation(r) \/ Trim(r) \/ RedisFails(r)
  \/ KeyExpires \/ resetUserLimits \/ Tick

Spec == Init /\ [][Next]_limitVars

--------------------------------------------------------------------------------
(* Properties *)

Between(a, b) == {x \in admitted : a <= x /\ x <= b}

\* The check and the record (rate-limit.service.ts:81, :176) are two commands:
\* in no window does a user exceed a limit by more than the requests that
\* were in flight with the last one.  Creations of one millisecond count once.
OvershootBounded ==
  \A l \in Limits : \A t \in 0..MaxTime :
    Cardinality(Between(t, t + l.window)) <= l.count + Cardinality(Creations) - 1

\* A client that was told to wait (retry_after_seconds, line 208) is never
\* admitted a second or more before that time: what the answer adds to the
\* real waiting time is the rounding.
RetryAfterNotEarly ==
  [][\A r \in Creations :
       creation[r].pc = "free" /\ creation'[r].pc = "zadd" => now + Second > told]_limitVars
================================================================================
