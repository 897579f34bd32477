-------------------------------- MODULE Devices --------------------------------
(***************************************************************************)
(* DeviceService: one phone, its row, and the calls that change it.  Each  *)
(* call reads the row, writes back the fields the client left out as it    *)
(* read them, and sets the PostGIS point in a statement of its own.  The   *)
(* notification queue clears a token that the push service calls dead.     *)
(***************************************************************************)
EXTENDS Naturals, FiniteSets

CONSTANTS
  Users,
  Tokens,       \* push tokens of the phone
  NoToken, Nobody,
  Calls,        \* calls in flight (bound)
  MaxFix        \* bound on the GPS fixes of the phone

VARIABLES
  dev,          \* row of device: owner Nobody when there is none
  call,         \* calls in flight
  push,         \* pushes in flight: the token each was sent to
  fixes,        \* number of the phone's last GPS fix
  expect,       \* history: fix and token the client last got accepted
  torn,         \* history: the fix on the row was last written by calls that overlapped or failed
  stale         \* history: the token was last written from an old read

deviceVars == <<dev, call, push, fixes, expect, torn, stale>>

\* lat stands for gps_lat and gps_lon, time for gps_updated_at, point for gps_point:
\* each holds the number of the fix it comes from, 0 for null.  The accuracy is left
\* out: a client may send a fix without one, and the row then keeps the accuracy of an
\* earlier fix.
NoDevice == [owner |-> Nobody, token |-> NoToken, lat |-> 0, time |-> 0, point |-> 0]
Device == [owner : Users \cup {Nobody}, token : Tokens \cup {NoToken},
           lat : 0..MaxFix, time : 0..MaxFix, point : 0..MaxFix]

NoCall == [pc |-> "free", user |-> Nobody, fix |-> 0, token |-> NoToken, read |-> NoDevice,
           alone |-> TRUE]
Call == [pc : {"free", "insert", "register", "locate", "point"}, user : Users \cup {Nobody},
         fix : 0..MaxFix, token : Tokens \cup {NoToken}, read : Device,
         alone : BOOLEAN]

TypeOK ==
  /\ dev \in Device
  /\ call \in [Calls -> Call]
  /\ push \subseteq Tokens
  /\ fixes \in 0..MaxFix
  /\ expect \in [fix : 0..MaxFix, token : Tokens \cup {NoToken}]
  /\ torn \in BOOLEAN /\ stale \in BOOLEAN

Init ==
  /\ dev = NoDevice
  /\ call = [f \in Calls |-> NoCall]
  /\ push = {} /\ fixes = 0
  /\ expect = [fix |-> 0, token |-> NoToken]
  /\ torn = FALSE /\ stale = FALSE

Or(given, old, none) == IF given # none THEN given ELSE old

Busy == \E g \in Calls : call[g].pc # "free"
Overlapped ==
  [g \in Calls |-> IF call[g].pc = "free" THEN call[g] ELSE [call[g] EXCEPT !.alone = FALSE]]

\* A request enters, with a new fix or none.
Enter(f, entry) ==
  /\ call[f].pc = "free"
  /\ \E k \in {0, fixes + 1} \cap (0..MaxFix) :
       /\ fixes' = IF k = 0 THEN fixes ELSE k
       /\ call' = [Overlapped EXCEPT ![f] = [entry EXCEPT !.fix = k, !.alone = ~Busy]]
  /\ UNCHANGED <<dev, push, expect, torn, stale>>

\* The fields a call writes back.
Read == [NoDevice EXCEPT !.token = dev.token, !.lat = dev.lat, !.time = dev.time]

\* The row of this uuid and this user.
register(f, u, t) ==
  Enter(f, IF dev.owner = u
           THEN [NoCall EXCEPT !.pc = "register", !.token = t, !.read = Read]
           ELSE [NoCall EXCEPT !.pc = "insert", !.token = t, !.user = u])

updateLocation(f, u) ==
  /\ dev.owner = u
  /\ Enter(f, [NoCall EXCEPT !.pc = "locate", !.read = [Read EXCEPT !.token = NoToken]])

\* The geometry follows if there was a fix.
WithPoint(f) ==
  [call EXCEPT ![f] = IF @.fix = 0 THEN NoCall
                      ELSE [NoCall EXCEPT !.pc = "point", !.fix = call[f].fix, !.alone = call[f].alone]]

\* History of a first statement: a fix is whole only once its point is written.
Accepted(f) ==
  /\ torn' = (torn \/ call[f].fix # 0 \/ ~call[f].alone)
  /\ expect' = [fix |-> Or(call[f].fix, expect.fix, 0),
                 token |-> Or(call[f].token, expect.token, NoToken)]

\* device_uuid is unique: the insert is refused while any user has the phone.
InsertDevice(f) ==
  /\ call[f].pc = "insert"
  /\ IF dev.owner = Nobody
     THEN /\ dev' = [owner |-> call[f].user, token |-> call[f].token, lat |-> call[f].fix,
                     time |-> call[f].fix, point |-> 0]
          /\ call' = WithPoint(f)
          /\ Accepted(f)
     ELSE call' = [call EXCEPT ![f] = NoCall] /\ UNCHANGED <<dev, expect, torn>>
  /\ UNCHANGED <<push, fixes, stale>>

\* Fields that were not sent are written as they were read.
RegisterUpdate(f) ==
  LET me == call[f] IN
  /\ me.pc = "register"
  /\ dev' = [dev EXCEPT !.token = Or(me.token, me.read.token, NoToken),
                        !.lat = Or(me.fix, me.read.lat, 0), !.time = Or(me.fix, me.read.time, 0)]
  /\ call' = WithPoint(f)
  /\ Accepted(f)
  /\ stale' = (me.token = NoToken /\ (stale \/ me.read.token # dev.token))
  /\ UNCHANGED <<push, fixes>>

\* Mutant: gps_updated_at is left as it was.
Mut_LocationUpdate_keepsTime(f) ==
  LET me == call[f] IN
  /\ me.pc = "locate"
  /\ dev' = [dev EXCEPT !.lat = Or(me.fix, me.read.lat, 0), !.time = me.read.time]
  /\ call' = WithPoint(f)
  /\ Accepted(f)
  /\ UNCHANGED <<push, fixes, stale>>

LocationUpdate(f) ==
  LET me == call[f] IN
  /\ me.pc = "locate"
  /\ dev' = [dev EXCEPT !.lat = Or(me.fix, me.read.lat, 0), !.time = Or(me.fix, me.read.time, 0)]
  /\ call' = WithPoint(f)
  /\ Accepted(f)
  /\ UNCHANGED <<push, fixes, stale>>

\* UPDATE device SET gps_point
WritePoint(f) ==
  /\ call[f].pc = "point"
  /\ dev' = [dev EXCEPT !.point = call[f].fix]
  /\ call' = [call EXCEPT ![f] = NoCall]
  /\ torn' = ~call[f].alone
  /\ UNCHANGED <<push, fixes, expect, stale>>

\* The database fails, or the process stops, between two statements.
Fail(f) ==
  /\ call[f].pc # "free"
  /\ call' = [call EXCEPT ![f] = NoCall]
  /\ UNCHANGED <<dev, push, fixes, expect, torn, stale>>

\* The row is read for its owner only.
updatePushToken(u, t) ==
  /\ dev.owner = u
  /\ dev' = [dev EXCEPT !.token = t]
  /\ expect' = [expect EXCEPT !.token = t]
  /\ stale' = FALSE
  /\ UNCHANGED <<call, push, fixes, torn>>

SendPush ==
  /\ dev.token # NoToken
  /\ push' = push \cup {dev.token}
  /\ UNCHANGED <<dev, call, fixes, expect, torn, stale>>

\* The push service calls the token dead: the column is cleared by the device's id,
\* whatever it holds by then.
ClearDeadToken(t) ==
  /\ t \in push
  /\ push' = push \ {t}
  /\ dev' = [dev EXCEPT !.token = NoToken]
  /\ stale' = (t # expect.token)
  /\ expect' = [expect EXCEPT !.token = IF t = @ THEN NoToken ELSE @]
  /\ UNCHANGED <<call, fixes, torn>>

\* The user of the session.
DeviceController ==
  \E u \in Users :
    \/ \E f \in Calls : updateLocation(f, u) \/ \E t \in Tokens \cup {NoToken} : register(f, u, t)
    \/ \E t \in Tokens : updatePushToken(u, t)

Next ==
  \/ DeviceController
  \/ \E f \in Calls :
       \/ InsertDevice(f) \/ RegisterUpdate(f) \/ LocationUpdate(f) \/ WritePoint(f) \/ Fail(f)
  \/ SendPush \/ (\E t \in Tokens : ClearDeadToken(t))

Spec == Init /\ [][Next]_deviceVars

--------------------------------------------------------------------------------
(* Properties *)

\* Overlapping calls may leave the coordinates, their time and the point of
\* different fixes (device.service.ts:217 writes back what it read, and the
\* time before the point); a call with a fix that runs alone repairs the row.
ReportsAloneRepair ==
  ~torn /\ (\A f \in Calls : call[f].pc = "free") =>
    dev.lat = expect.fix /\ dev.time = expect.fix /\ dev.point = expect.fix

\* The token is the last one given or, once the push service called that very
\* token dead, none - unless a call that overlapped wrote back an older one or
\* the verdict was on an older one (notification-queue.processor.ts:643).
TokensHold == ~stale => dev.token = expect.token

\* What the row of a phone says is explained by the reports that reached it.
DeviceRowExplained == ReportsAloneRepair /\ TokensHold
================================================================================
