---------------------------- MODULE MCClusterTokens ----------------------------
(* TLC instances of ClusterTokens.                                         *)
EXTENDS ClusterTokens, TLC

Symmetry == Permutations(Requests)
===============================================================================
