---------------------------- MODULE MCTokenRefresh ----------------------------
(* A small instance of TokenRefresh for TLC. *)
EXTENDS TokenRefresh, TLC

CallSymmetry == Permutations(Calls)
=============================================================================
