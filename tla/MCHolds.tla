------------------------------- MODULE MCHolds -------------------------------
(* Small instances of Holds for TLC.                                          *)
EXTENDS Holds, TLC

CONSTANTS a1, a2, alice, bob

DistinctOwners == a1 :> alice @@ a2 :> bob

\* A directory and a file in it.
Nested == {<<"d">>, <<"d", "f">>}

\* With a file beside the directory as well.
Tree == Nested \cup {<<"g">>}
=============================================================================
