----------------------------- MODULE MCTokenRotation -----------------------------
(* Instances of TokenRotation for TLC: the pairs a login may mint, the other
   pairs, and the request slots are each symmetric. *)
EXTENDS TokenRotation, TLC

Symmetry ==
  Permutations(Logins) \cup Permutations(Pairs \ Logins) \cup Permutations(Requests)
================================================================================
