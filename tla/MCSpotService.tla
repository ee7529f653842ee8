---------------------------- MODULE MCSpotService ----------------------------
(***************************************************************************)
(* Instances of SpotService for TLC: seed() knows a default rate for one   *)
(* of the two pairs.                                                       *)
(***************************************************************************)
EXTENDS SpotService

CONSTANTS usdbtc, usdeth

OneSeed == <<usdbtc>>
=============================================================================
