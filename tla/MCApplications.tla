----------------------------- MODULE MCApplications -----------------------------
(* Applications on a small instance. *)
EXTENDS Applications
=============================================================================
