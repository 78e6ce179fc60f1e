---------------------------- MODULE MCSearchCache ----------------------------
(* A small instance of SearchCache for TLC. *)
EXTENDS SearchCache, TLC

SearchSymmetry == Permutations(Searches)

(* Every call asks for a cache_ttl, of three. *)
AllAsk == [k \in Keys |-> 3]
=============================================================================
