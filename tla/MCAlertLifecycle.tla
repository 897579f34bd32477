---------------------------- MODULE MCAlertLifecycle ----------------------------
(* Instances of AlertLifecycle for TLC: ids and request slots are symmetric. *)
EXTENDS AlertLifecycle, TLC

\* Bound of the races: two alerts, once inserted, are about the same pet.
SharedPet ==
  LET inserted == {a \in Alerts : status[a] # "NONE"} IN
  Cardinality(inserted) <= 1 \/ \A a \in inserted : petOf[a] \in Pets

Symmetry == Permutations(Alerts) \cup Permutations(Pets) \cup Permutations(Requests)
================================================================================
