-------------------------------- MODULE ThankYou --------------------------------
(***************************************************************************)
(* What the success story ("{Pet} is home!") promises, whatever jobs are   *)
(* repeated, stopped or run side by side.  It is announced once, and only  *)
(* after the alert was closed; after that a device is thanked at most      *)
(* once, and at most one thank-you email of a user is on record, and only  *)
(* those are thanked who helped: the alert reached them or they reported a *)
(* sighting.  Help may still come in after the announcement: a push that   *)
(* is under way arrives later.                                             *)
(***************************************************************************)
EXTENDS Naturals

CONSTANTS Users, Devices, Owner, Creator

VARIABLES
  open,       \* the alert is ACTIVE
  helpers,    \* the users who helped so far
  announced,  \* the story was claimed by the job that tells it
  thanks,     \* success-story rows of each device
  mails       \* thank-you emails recorded for each user

vars == <<open, helpers, announced, thanks, mails>>

Init ==
  /\ open = TRUE
  /\ helpers = {}
  /\ announced = FALSE
  /\ thanks = [d \in Devices |-> 0]
  /\ mails = [u \in Users |-> 0]

Help(u) ==
  /\ helpers' = helpers \cup {u}
  /\ UNCHANGED <<open, announced, thanks, mails>>

Close ==
  /\ open
  /\ open' = FALSE
  /\ UNCHANGED <<helpers, announced, thanks, mails>>

Announce ==
  /\ ~open /\ ~announced
  /\ announced' = TRUE
  /\ UNCHANGED <<open, helpers, thanks, mails>>

Thank(d) ==
  /\ announced
  /\ Owner[d] \in helpers \ {Creator}
  /\ thanks[d] = 0
  /\ thanks' = [thanks EXCEPT ![d] = 1]
  /\ UNCHANGED <<open, helpers, announced, mails>>

Mail(u) ==
  /\ announced
  /\ u \in helpers \ {Creator}
  /\ mails[u] = 0
  /\ mails' = [mails EXCEPT ![u] = 1]
  /\ UNCHANGED <<open, helpers, announced, thanks>>

Next ==
  \/ \E u \in Users : Help(u) \/ Mail(u)
  \/ \E d \in Devices : Thank(d)
  \/ Close \/ Announce

Spec == Init /\ [][Next]_vars
================================================================================
