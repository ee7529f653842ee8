------------------------------- MODULE Pricing -------------------------------
(***************************************************************************)
(* Pricing of a quote (pricer.go, fee_index.go, fx.go) while the fee       *)
(* schedules are reloaded by the internal endpoint and by the refresh      *)
(* tick (server.go:541-554, 690-712).                                      *)
(*                                                                         *)
(* Every reload seeds the same schedules under new IDs: a generation.  The *)
(* pricer looks in an index that was built from a copy of the store's      *)
(* schedules, and scans the store itself when the index has no match.      *)
(*                                                                         *)
(* Money and crypto amounts are integers, in units of the last decimal     *)
(* place that round keeps; prices and rates are exact fractions, where the *)
(* code has decimals of 16 digits.                                         *)
(***************************************************************************)
EXTENDS Integers, Sequences, SequencesExt

CONSTANTS Seeds,              \* what seedFeeSchedules sets: a sequence of rows
          DefaultSpreadBPS,
          Inputs,             \* requests that are priced
          Spots,              \* spot prices; 0: neither mid nor bid and ask are positive
          FXRates,            \* fiat to USD rates, in tenths
          HedgeCosts,         \* hedge costs of fx-hedging, in bps
          Reloaders,          \* goroutines that serve the reload endpoint
          MaxGenerations      \* bound: how often the schedules are seeded

ASSUME PricingAssumption ==
    /\ DefaultSpreadBPS \in Nat /\ MaxGenerations \in Nat \ {0}
    /\ Spots \subseteq Nat /\ FXRates \subseteq Nat /\ HedgeCosts \subseteq Nat
    /\ \A i \in Inputs : i.side \in {"BUY", "SELL"} /\ i.amount \in Nat \ {0}

VARIABLES schedules,   \* Store.schedules: the generation it holds
          index,       \* feeIndex.data
          reload,      \* the reload handlers: where each is, what it seeded and copied
          floor,       \* history: the generation the index must have come up to
          request      \* the pricing request: where it is, its locals and result

pricingVars == <<schedules, index, reload, floor, request>>

Generations == 1..MaxGenerations

\* The schedules of generation g, each with its new ID.
FeeSchedules(g) == [i \in DOMAIN Seeds |-> [row |-> Seeds[i], gen |-> g]]

KeyOf(row) == [tier |-> row.tier, asset |-> row.asset, side |-> row.side]

Keys == {KeyOf(row) : row \in Range(Seeds)}

ASSUME SeedsAssumption ==
    /\ Seeds \in Seq(Range(Seeds))
    /\ \A row \in Range(Seeds) :
          /\ row.min \in Nat /\ row.max \in Nat /\ row.spread \in Nat /\ row.enabled \in BOOLEAN
          /\ row.feeType = "FLAT" => row.feeAmount \in Nat
          /\ row.feeType = "BPS" => row.feeBPS \in Nat

\* In seedFeeSchedules every row is for one side, and the rows of one key stand in
\* the order of their bands ("sorted by size band", fee_index.go:16-17).
ASSUME BandsAssumption ==
    /\ \A row \in Range(Seeds) : row.side # ""
    /\ \A i, j \in DOMAIN Seeds :
          i < j /\ KeyOf(Seeds[i]) = KeyOf(Seeds[j]) => Seeds[i].min < Seeds[j].min

EmptyIndex == [k \in Keys |-> <<>>]

\* The places in fs of the schedules that are indexed under k.
Places(fs, k) == {i \in DOMAIN fs : fs[i].row.enabled /\ KeyOf(fs[i].row) = k}

\* Mutant of Rebuild: the new schedules are added to the old ones.
RebuildAppends(idx, fs) ==
    LET after(k) == IF DOMAIN idx[k] = {} THEN 0 ELSE Len(fs)
    IN [k \in Keys |-> [i \in DOMAIN idx[k] \cup {j + after(k) : j \in Places(fs, k)} |->
                          IF i \in DOMAIN idx[k] THEN idx[k][i] ELSE fs[i - after(k)]]]

\* The index over fs: under each key the schedules by their place in fs.  What it
\* held before does not matter.
Rebuild(idx, fs) == [k \in Keys |-> [i \in Places(fs, k) |-> fs[i]]]

-----------------------------------------------------------------------------
(* Matching a schedule. *)

NoSchedule == [row |-> [spread |-> DefaultSpreadBPS, feeType |-> "NONE"], gen |-> 0]

\* Mutant of InBand: the upper end of a band is not part of it.
InBandHalfOpen(row, amount) ==
    row.min <= amount /\ (row.max > 0 => amount < row.max)

\* Both ends of a band are part of it; a maximum of 0 is none.
InBand(row, amount) ==
    row.min <= amount /\ (row.max > 0 => amount <= row.max)

\* The loops return at the first place that matches.
FirstOf(fs, places) == IF places = {} THEN NoSchedule ELSE fs[Min(places)]

Lookup(in) ==
    LET k == KeyOf(in)
    IN IF k \in Keys
         THEN FirstOf(index[k], {i \in DOMAIN index[k] : InBand(index[k][i].row, in.amount)})
         ELSE NoSchedule

\* The scan of the store: a schedule without a side is for both.
Scan(in) ==
    LET fs == FeeSchedules(schedules)
    IN FirstOf(fs, {i \in DOMAIN fs : /\ fs[i].row.enabled
                                      /\ fs[i].row.tier = in.tier /\ fs[i].row.asset = in.asset
                                      /\ fs[i].row.side \in {"", in.side}
                                      /\ InBand(fs[i].row, in.amount)})

-----------------------------------------------------------------------------
(* Prices.  A fraction is [n |-> ..., d |-> ...] with d positive. *)

BPS == 10000

FXUnit == 10

Magnitude(n) == IF n < 0 THEN -n ELSE n

\* decimal.Round(0) of n/d: halves are rounded away from zero.
RoundDiv(n, d) ==
    LET q == Magnitude(n) \div d
        up == IF 2 * (Magnitude(n) % d) >= d THEN q + 1 ELSE q
    IN IF n < 0 THEN -up ELSE up

computeFee(row, base) ==
    CASE row.feeType = "FLAT" -> row.feeAmount
      [] row.feeType = "BPS"  -> RoundDiv(base * row.feeBPS, BPS)
      [] OTHER                -> 0

\* Mutant of EffectiveRate: the spread is added on both sides.
EffectiveRateOneSided(side, spot, spread) ==
    [n |-> spot.n * (BPS + spread), d |-> spot.d * BPS]

EffectiveRate(side, spot, spread) ==
    [n |-> spot.n * (IF side = "BUY" THEN BPS + spread ELSE BPS - spread),
     d |-> spot.d * BPS]

\* amount / rate and amount * rate, rounded.
Bought(amount, rate) == RoundDiv(amount * rate.d, rate.n)
Proceeds(amount, rate) == RoundDiv(amount * rate.n, rate.d)

\* On a SELL the fee is taken of a total that is still zero.
Compute(in, price, row) ==
    LET spot == [n |-> price, d |-> 1]
        rate == EffectiveRate(in.side, spot, row.spread)
        fee == computeFee(row, IF in.side = "BUY" THEN in.amount ELSE 0)
    IN [spot |-> spot, spread |-> row.spread, rate |-> rate, fee |-> fee,
        total |-> IF in.side = "BUY" THEN in.amount + fee ELSE Proceeds(in.amount, rate) - fee,
        crypto |-> IF in.side = "BUY" THEN Bought(in.amount, rate) ELSE in.amount]

\* Mutant of ApplyFX: only the rate is recomputed for the hedge cost.
ApplyFXRateOnly(in, usd, fx, hedge) ==
    LET over(r) == [n |-> r.n * FXUnit, d |-> r.d * fx]
        spread == usd.spread + hedge
    IN [usd EXCEPT !.spot = over(@), !.spread = spread,
                   !.rate = EffectiveRate(in.side, over(usd.spot), spread)]

\* Without a hedge cost the amounts stay those of the USD leg.
ApplyFX(in, usd, fx, hedge) ==
    LET over(r) == [n |-> r.n * FXUnit, d |-> r.d * fx]
        spread == usd.spread + hedge
        rate == EffectiveRate(in.side, over(usd.spot), spread)
        cross == [usd EXCEPT !.spot = over(@), !.rate = over(@)]
    IN IF hedge = 0 THEN cross
       ELSE [cross EXCEPT !.spread = spread, !.rate = rate,
                          !.crypto = IF in.side = "BUY" THEN Bought(in.amount, rate) ELSE @,
                          !.total = IF in.side = "SELL" THEN Proceeds(in.amount, rate) - usd.fee
                                                        ELSE @]

-----------------------------------------------------------------------------
(* The request: CrossPairQuote, or Compute as createQuote calls it. *)

NoLeg == [fx |-> FXUnit, hedge |-> 0]

NoResult == "none"

Idle == [at |-> "idle", in |-> NoResult, leg |-> NoLeg, cross |-> FALSE, price |-> 0,
         since |-> 0, sched |-> NoSchedule, result |-> NoResult]

\* Compute is called, directly or because the fiat is USD or there is no client;
\* or the FX leg is fetched first.
Begin(in) ==
    /\ request.at = "idle"
    /\ \E l \in {"spot"} \cup (IF in.from # "USD" THEN {"fx"} ELSE {}) :
         request' = [Idle EXCEPT !.at = l, !.in = in, !.since = floor]
    /\ UNCHANGED <<schedules, index, reload, floor>>

\* An error leads to a direct lookup of the pair.
FetchFX ==
    /\ request.at = "fx"
    /\ \/ request' = [request EXCEPT !.at = "spot"]
       \/ \E fx \in FXRates, hedge \in HedgeCosts :
            request' = [request EXCEPT !.at = "spot", !.cross = TRUE,
                                       !.leg = [fx |-> fx, hedge |-> hedge]]
    /\ UNCHANGED <<schedules, index, reload, floor>>

GetSpot ==
    /\ request.at = "spot"
    /\ \/ request' = [request EXCEPT !.at = "failed"]
       \/ \E price \in Spots : request' = [request EXCEPT !.at = "lookup", !.price = price]
    /\ UNCHANGED <<schedules, index, reload, floor>>

\* errBadRate, a panic of the division by an FX rate of zero, which costs the
\* request its answer, or the price by the schedule s.
Quote(s) ==
    LET usd == Compute(request.in, request.price, s.row)
    IN IF request.price = 0 \/ request.leg.fx = 0
         THEN request' = [request EXCEPT !.at = "failed"]
         ELSE request' = [request EXCEPT
                !.at = "done", !.sched = s,
                !.result = IF request.cross
                             THEN ApplyFX(request.in, usd, request.leg.fx, request.leg.hedge)
                             ELSE usd]

LookupSchedule ==
    /\ request.at = "lookup"
    /\ IF Lookup(request.in) = NoSchedule
         THEN request' = [request EXCEPT !.at = "scan"]
         ELSE Quote(Lookup(request.in))
    /\ UNCHANGED <<schedules, index, reload, floor>>

ScanSchedules ==
    /\ request.at = "scan"
    /\ Quote(Scan(request.in))
    /\ UNCHANGED <<schedules, index, reload, floor>>

\* The caller has the result or the error, and the next request may come.
Return ==
    /\ request.at \in {"done", "failed"}
    /\ request' = Idle
    /\ UNCHANGED <<schedules, index, reload, floor>>

-----------------------------------------------------------------------------
(* Reloads. *)

SeedFeeSchedules == schedules < MaxGenerations /\ schedules' = schedules + 1

NoReload == [at |-> "idle", seeded |-> 1, copy |-> 0]

\* The reloads under way; nothing keeps one from starting while another runs.
Reloading == {h \in Reloaders : reload[h].at # "idle"}

\* Mutant of ReloadSeed: the store is copied before it is seeded.
ReloadCopiesFirst(h) ==
    /\ h \notin Reloading
    /\ SeedFeeSchedules
    /\ reload' = [reload EXCEPT ![h] = [at |-> "copied", seeded |-> schedules + 1,
                                        copy |-> schedules]]
    /\ UNCHANGED <<index, floor, request>>

ReloadSeed(h) ==
    /\ h \notin Reloading
    /\ SeedFeeSchedules
    /\ reload' = [reload EXCEPT ![h] = [at |-> "seeded", seeded |-> schedules + 1, copy |-> 0]]
    /\ UNCHANGED <<index, floor, request>>

\* ReloadIndex: a copy of the store's schedules, then Rebuild under the index's
\* own mutex.
ReloadCopy(h) ==
    /\ reload[h].at = "seeded"
    /\ reload' = [reload EXCEPT ![h].at = "copied", ![h].copy = schedules]
    /\ UNCHANGED <<schedules, index, floor, request>>

\* The reload returns.  Any other that is under way may yet put in the index what
\* it has copied, so the floor is what the earliest of them has seeded.
ReloadRebuild(h) ==
    /\ reload[h].at = "copied"
    /\ index' = Rebuild(index, FeeSchedules(reload[h].copy))
    /\ floor' = Min({reload[o].seeded : o \in Reloading})
    /\ reload' = [reload EXCEPT ![h] = NoReload]
    /\ UNCHANGED <<schedules, request>>

ReloadStep(h) == ReloadSeed(h) \/ ReloadCopy(h) \/ ReloadRebuild(h)

\* The tick of startFeeScheduleRefresh seeds the store and leaves the index.
RefreshTick ==
    /\ SeedFeeSchedules
    /\ UNCHANGED <<index, reload, floor, request>>

\* NewServer: the store is seeded and the index built from it.
PricingInit ==
    /\ schedules = 1
    /\ index = Rebuild(EmptyIndex, FeeSchedules(1))
    /\ reload = [h \in Reloaders |-> NoReload]
    /\ floor = 1
    /\ request = Idle

PricingNext ==
    \/ \E in \in Inputs : Begin(in)
    \/ FetchFX \/ GetSpot \/ LookupSchedule \/ ScanSchedules \/ Return
    \/ \E h \in Reloaders : ReloadStep(h)
    \/ RefreshTick

PricingSpec == PricingInit /\ [][PricingNext]_pricingVars

-----------------------------------------------------------------------------
(* Properties. *)

\* The types; and the index is at all times the index of one generation, never
\* a mixture of two (fee_index.go:29-40).
PricingTypeOK ==
    /\ schedules \in Generations /\ floor \in Generations
    /\ index \in {Rebuild(EmptyIndex, FeeSchedules(g)) : g \in Generations}
    /\ reload \in [Reloaders -> [at : {"idle", "seeded", "copied"}, seeded : Generations,
                                 copy : Generations \cup {0}]]
    /\ request.at \in {"idle", "fx", "spot", "lookup", "scan", "done", "failed"}

Priced == request.at = "done"

\* The spread the configuration means: of the enabled schedules whose closed band
\* has the amount, the one with the lowest band, or the default.
ConfiguredSpread(in) ==
    LET fit == {row \in Range(Seeds) :
                   /\ row.enabled /\ KeyOf(row) = KeyOf(in)
                   /\ in.amount >= row.min /\ (row.max = 0 \/ in.amount <= row.max)}
    IN IF fit = {} THEN DefaultSpreadBPS
       ELSE (CHOOSE row \in fit : \A other \in fit : row.min <= other.min).spread

\* A quote has the configured spread plus the hedge cost, on the shared end of
\* two bands too, whatever reloads replace the store and the index between its
\* lookup and its scan (pricer.go:100-129, fx.go:100).
PricedAsConfigured ==
    Priced => request.result.spread = ConfiguredSpread(request.in) + request.leg.hedge

\* A request that starts after a reload has returned is priced from schedules no
\* older than what that reload seeded (server.go:547-548) or, when other reloads
\* were under way at that moment, than what the earliest of those seeded: of two
\* reloads that overlap the older copy may be put in the index last.  The refresh
\* tick seeds the store at any time and never rebuilds the index.
ReloadTakesEffect ==
    Priced /\ request.sched # NoSchedule => request.sched.gen >= request.since

\* What a quote says fits together: a BUY's crypto amount is worth its amount at
\* its rate and a SELL's total is its proceeds less the fee, to half a unit of
\* the last place (pricer.go:78-86, fx.go:102-111).  Cross quotes without a
\* hedge cost are left out: their amounts are those of the USD leg.
AddsUp ==
    LET in == request.in
        r == request.result
    IN (Priced /\ (request.cross => request.leg.hedge > 0)) =>
         CASE in.side = "BUY"  -> 2 * Magnitude(r.crypto * r.rate.n - in.amount * r.rate.d) <= r.rate.n
           [] in.side = "SELL" -> 2 * Magnitude((r.total + r.fee) * r.rate.d - in.amount * r.rate.n)
                                    <= r.rate.d

\* Who buys and at once sells what was bought, at the same spot, gets back no
\* more than was paid for it but for the rounding of one unit of crypto
\* (pricer.go:76-87), although the two sides and the bands have spreads of
\* their own.
NoRoundTripGain ==
    LET back == [tier |-> request.in.tier, asset |-> request.in.asset, side |-> "SELL",
                 amount |-> request.result.crypto]
        sold == Compute(back, request.price, Lookup(back).row)
    IN (Priced /\ ~request.cross /\ request.in.side = "BUY" /\ request.result.crypto > 0) =>
         2 * (sold.total - request.in.amount) <= request.price + 1
=============================================================================
