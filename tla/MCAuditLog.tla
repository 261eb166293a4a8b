------------------------------ MODULE MCAuditLog ------------------------------
(* TLC instances of AuditLog.                                              *)
EXTENDS AuditLog, TLC

\* Every filter keeps the odd ids.
OddIds(s) == {i \in Ids : i % 2 = 1}

AllIds(s) == Ids

Symmetry == Permutations(Replicas) \cup Permutations(Calls)
===============================================================================
