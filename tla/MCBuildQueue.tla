----------------------------- MODULE MCBuildQueue -----------------------------
(* TLC instances of BuildQueue.                                            *)
EXTENDS BuildQueue

===============================================================================
