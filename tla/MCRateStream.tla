---------------------------- MODULE MCRateStream ----------------------------
(* Instances of RateStream for TLC: every rate is of the same pair. *)
EXTENDS RateStream

CONSTANT usdbtc

OnePair == [r \in Rates |-> usdbtc]
=============================================================================
