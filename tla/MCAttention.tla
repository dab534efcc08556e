------------------------------- MODULE MCAttention -------------------------------
(* A Claude and a Codex session, with two signals at work at a time.            *)
EXTENDS Attention, TLC

Alike == Permutations(Signals)
=============================================================================
