---------------------------- MODULE MCGuardedWrite ----------------------------
(* Small instances of GuardedWrite for TLC.                                   *)
EXTENDS GuardedWrite
=============================================================================
