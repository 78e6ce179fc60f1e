---------------------------- MODULE MCUserAccounts ----------------------------
(* UserAccounts with interchangeable tasks and interchangeable ids.                                   *)
EXTENDS UserAccounts, TLC

Symmetry == Permutations(Tasks) \cup Permutations(Ids)
===============================================================================
