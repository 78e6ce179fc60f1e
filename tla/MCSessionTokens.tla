---------------------------- MODULE MCSessionTokens ----------------------------
(* SessionTokens with interchangeable tasks and tokens.                                               *)
EXTENDS SessionTokens, TLC

Symmetry == Permutations(Tasks) \cup Permutations(Jtis)
===============================================================================
