------------------------------- MODULE MCQueue -------------------------------
(* Small instances of Queue for TLC.                                          *)
EXTENDS Queue, TLC

CONSTANTS w1, w2, board, cli, t1, t2

\* Each worker has a name of its own.
DistinctOwners == w1 :> board @@ w2 :> cli

\* Two processes call under one name, as two shells on one host do.
SharedOwner == w1 :> board @@ w2 :> board
=============================================================================
