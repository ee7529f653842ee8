------------------------------ MODULE MCPricing ------------------------------
(***************************************************************************)
(* An instance of Pricing for TLC.  SeededSchedules are those of           *)
(* server.go:97-110.  Amounts lie on and next to the ends of their bands;  *)
(* a SELL's stay small enough for TLC's integers of 32 bits.               *)
(***************************************************************************)
EXTENDS Pricing

Band(tier, asset, side, min, max, spread, fee) ==
    [tier |-> tier, asset |-> asset, side |-> side, min |-> min, max |-> max,
     spread |-> spread, feeType |-> "BPS", feeBPS |-> fee, enabled |-> TRUE]

SeededSchedules ==
    <<Band("TIER_1", "BTC", "BUY", 0, 1000, 80, 50),
      Band("TIER_1", "BTC", "BUY", 1000, 10000, 60, 30),
      Band("TIER_1", "ETH", "BUY", 0, 100, 90, 50),
      Band("TIER_2", "BTC", "BUY", 0, 1000, 70, 40),
      Band("TIER_2", "ETH", "BUY", 0, 100, 75, 40),
      Band("TIER_2", "BTC", "SELL", 0, 1000, 70, 40),
      Band("TIER_1", "BTC", "SELL", 0, 1000, 80, 50)>>

Case(from, tier, asset, side, amount) ==
    [from |-> from, tier |-> tier, asset |-> asset, side |-> side, amount |-> amount]

BoundaryInputs ==
    {Case(f, t, x, "BUY", a) :
        f \in {"USD", "EUR"}, t \in {"TIER_1", "TIER_2", "TIER_3"}, x \in {"BTC", "ETH"},
        a \in {1, 7, 100, 101, 999, 1000, 1001, 9999, 10000, 10001}}
    \cup {Case(f, t, x, "SELL", a) :
        f \in {"USD", "EUR"}, t \in {"TIER_1", "TIER_2", "TIER_3"}, x \in {"BTC", "ETH"},
        a \in {1, 7, 999, 1000, 1001}}

\* The reload handlers are alike.
Symmetry == Permutations(Reloaders)
=============================================================================
