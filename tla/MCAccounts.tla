------------------------------- MODULE MCAccounts -------------------------------
(* Instances of Accounts for TLC. *)
EXTENDS Accounts, TLC

\* Bound: a change of address and a single-use link are not under way at the same time.
LinksApart == (\E j \in jwt : j.kind # "verify") => ~\E t \in Tickets : ticket[t].open

Symmetry == Permutations(Users) \cup Permutations(Emails) \cup Permutations(Sessions) \cup Permutations(Requests)
================================================================================
