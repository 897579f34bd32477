------------------------------- MODULE SingleUse -------------------------------
(***************************************************************************)
(* What a challenge promises: issued once, taken out of the store at most  *)
(* once, by a finisher or by its expiry, and at most one success after a   *)
(* finisher took it.                                                       *)
(***************************************************************************)
CONSTANT Challenges

VARIABLE state

Init == state = [c \in Challenges |-> "unissued"]

Move(c, from, to) == state[c] = from /\ state' = [state EXCEPT ![c] = to]

Issue(c) == Move(c, "unissued", "open")
Take(c) == Move(c, "open", "taken")
Succeed(c) == Move(c, "taken", "succeeded")
Fail(c) == Move(c, "taken", "failed") \/ Move(c, "open", "failed")

Next == \E c \in Challenges : Issue(c) \/ Take(c) \/ Succeed(c) \/ Fail(c)

Spec == Init /\ [][Next]_state
================================================================================
