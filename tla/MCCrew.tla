------------------------------- MODULE MCCrew -------------------------------
(* Instances of Crew, and of the Orchestrator in it, for TLC.              *)
EXTENDS Crew

\* A ceiling that one role can meet, and none.
TwoBudgets == {0, 1}

One == {1}

\* What an agent asks with: both ways of allowing, only the standing one, none.
SomeOffers == {{"allow_once", "allow_always", "reject_once"}, {"allow_always", "reject_once"}, {"reject_once"}}

PairAndTeam == {"pair", "team"}

=============================================================================
