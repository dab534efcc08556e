------------------------------ MODULE MCBinder ------------------------------
(* Instances of Binder for TLC: two tailnet addresses, so that one can take *)
(* the place of the other, a carrier's address, and the dashboard's port    *)
(* and the relay's.                                                         *)
EXTENDS Binder

TwoTails == {"100.64.0.1", "100.64.0.2"}
OneLan == {"100.72.0.1"}
TwoPorts == {7788, 7789}

=============================================================================
