--------------------------- MODULE MCAccessRequests ---------------------------
(* TLC instances of AccessRequests.                                        *)
EXTENDS AccessRequests, TLC

Symmetry == Permutations(Requests) \cup Permutations(Procs)
===============================================================================
