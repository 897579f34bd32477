------------------------------- MODULE MCInvitation -------------------------------
(* Instances of Invitation for TLC: one member, so all rows compete. *)
EXTENDS Invitation, TLC

CONSTANT ann

SenderDef == [i \in Invitations |-> ann]

Symmetry == Permutations(Invitations) \cup Permutations(Requests)
================================================================================
