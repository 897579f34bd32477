------------------------------ MODULE AlertStatus ------------------------------
(***************************************************************************)
(* What the rest of the system may rely on about the status column of an   *)
(* alert (prisma/schema.prisma, enum AlertStatus), whatever requests run.  *)
(* A row appears once, as ACTIVE; nothing ever makes it ACTIVE again, so a *)
(* reader that saw it closed need not look again; EXPIRED is reached from  *)
(* ACTIVE only, so expiry never overwrites a user's decision.              *)
(*                                                                         *)
(* Several alerts may change in one step: the expiry cron and "pet found"  *)
(* each close a set of alerts with one UPDATE.                             *)
(***************************************************************************)
CONSTANT Alerts

VARIABLE status

Closed == {"RESOLVED", "CANCELLED", "EXPIRED"}

Statuses == {"NONE", "ACTIVE"} \cup Closed

Init == status = [a \in Alerts |-> "NONE"]

\* The transitions one row may make in one step.
Allowed(old, new) ==
  \/ new = old
  \/ old = "NONE" /\ new = "ACTIVE"
  \/ old = "ACTIVE" /\ new \in Closed
  \/ old \in Closed /\ new \in {"RESOLVED", "CANCELLED"}

Next ==
  /\ status' \in [Alerts -> Statuses]
  /\ \A a \in Alerts : Allowed(status[a], status'[a])

Spec == Init /\ [][Next]_status
================================================================================
