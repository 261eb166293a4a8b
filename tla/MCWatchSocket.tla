---------------------------- MODULE MCWatchSocket ----------------------------
(* TLC instance of WatchSocket.                                            *)
EXTENDS WatchSocket
===============================================================================
