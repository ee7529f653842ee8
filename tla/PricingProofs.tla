---------------------------- MODULE PricingProofs ----------------------------
(***************************************************************************)
(* Proofs about pricing, for any seeded schedules, requests, spot prices,  *)
(* FX rates and hedge costs: which schedule a request gets while reloads   *)
(* replace the store and the index, and what its numbers say.              *)
(***************************************************************************)
EXTENDS Pricing, WellFoundedInduction, TLAPS

\* The schedules of all generations.
Schedules == {NoSchedule} \cup {[row |-> Seeds[i], gen |-> g] : i \in DOMAIN Seeds, g \in Generations}

Fraction == [n : Int, d : Int]

Results == [spot : Fraction, spread : Nat, rate : Fraction, fee : Nat, total : Int, crypto : Int]

Legs == [fx : FXRates \cup {FXUnit}, hedge : HedgeCosts \cup {0}]

RequestLabels == {"idle", "fx", "spot", "lookup", "scan", "done", "failed"}

Requests == [at : RequestLabels, in : Inputs \cup {NoResult}, leg : Legs, cross : BOOLEAN,
             price : Spots \cup {0}, since : Generations \cup {0}, sched : Schedules,
             result : Results \cup {NoResult}]

\* The price of a request by schedule s.
PriceBy(req, s) ==
    LET usd == Compute(req.in, req.price, s.row)
    IN IF req.cross THEN ApplyFX(req.in, usd, req.leg.fx, req.leg.hedge) ELSE usd

\* The index is that of one generation, no older than the floor.
IndexInv ==
    \E g \in Generations : g >= floor /\ index = Rebuild(EmptyIndex, FeeSchedules(g))

ReloadState == [at : {"idle", "seeded", "copied"}, seeded : Generations,
                copy : Generations \cup {0}]

\* What a reload has seeded is in the store, then in its copy; and no reload under
\* way can take the index below the floor.
ReloadInv ==
    /\ schedules \in Generations /\ floor \in Generations /\ floor <= schedules
    /\ reload \in [Reloaders -> ReloadState]
    /\ \A h \in Reloading : floor <= reload[h].seeded /\ reload[h].seeded <= schedules
    /\ \A h \in Reloaders : reload[h].at = "copied" =>
                               reload[h].copy \in Generations /\ reload[h].seeded <= reload[h].copy

\* A request under way has its input and began at a floor that still stands; only a
\* cross quote has an FX leg.
RequestInv ==
    /\ request \in Requests
    /\ request.at # "idle" => request.in \in Inputs /\ request.since <= floor
    /\ ~request.cross => request.leg = NoLeg

\* The schedule that a request was priced by is the configured one, at least as new
\* as the request, and the result is its price.
DoneInv ==
    Priced => /\ request.price > 0 /\ request.leg.fx > 0
              /\ request.sched.row.spread = ConfiguredSpread(request.in)
              /\ request.sched # NoSchedule => request.sched.gen >= request.since
              /\ request.result = PriceBy(request, request.sched)

\* When the index had no match, the configuration has none.
ScanInv ==
    request.at = "scan" =>
       ~\E row \in Range(Seeds) : /\ row.enabled /\ KeyOf(row) = KeyOf(request.in)
                                  /\ InBand(row, request.in.amount)

PricingInv == IndexInv /\ ReloadInv /\ RequestInv /\ DoneInv /\ ScanInv

-----------------------------------------------------------------------------
(* Arithmetic. *)

LEMMA MinOfPlaces ==
    ASSUME NEW S, S \subseteq Nat, S # {}
    PROVE  Min(S) \in S /\ \A y \in S : Min(S) <= y
<1> DEFINE R == {ss \in Nat \X Nat : ss[1] < ss[2]}
<1>1. IsWellFoundedOn(R, Nat)
  BY NatLessThanWellFounded, Zenon DEF OpToRel
<1>2. PICK x \in S : \A y \in S : ~(<<y, x>> \in R)
  <2> HIDE DEF R
  <2> QED BY <1>1, WFMin
<1>3. \A y \in S : x <= y
  <2> SUFFICES ASSUME NEW y \in S, ~(x <= y) PROVE FALSE
    OBVIOUS
  <2>1. y \in Nat /\ x \in Nat /\ y < x
    OBVIOUS
  <2>2. <<y, x>> \in Nat \X Nat /\ <<y, x>>[1] < <<y, x>>[2]
    BY <2>1
  <2>3. <<y, x>> \in R
    BY <2>2, Zenon
  <2> QED BY <1>2, <2>3
<1> QED BY <1>3 DEF Min

LEMMA DivMod ==
    ASSUME NEW n \in Nat, NEW d \in Nat \ {0}
    PROVE  n \div d \in Nat /\ n % d \in 0..(d - 1) /\ n = d * (n \div d) + (n % d)
  OBVIOUS

LEMMA ProductIsPositive ==
    ASSUME NEW a \in Nat \ {0}, NEW b \in Nat \ {0}
    PROVE  a * b \in Nat \ {0}
  OBVIOUS

\* round is off by at most half a unit (pricer.go:145-148).
LEMMA RoundDivError ==
    ASSUME NEW n \in Int, NEW d \in Nat \ {0}
    PROVE  /\ RoundDiv(n, d) \in Int /\ 2 * Magnitude(RoundDiv(n, d) * d - n) <= d
           /\ n >= 0 => RoundDiv(n, d) >= 0
<1>1. PICK m \in Nat : m = Magnitude(n)
  BY DEF Magnitude
<1>2. PICK q \in Nat, r \in 0..(d - 1) : q = m \div d /\ r = m % d /\ m = d * q + r
  BY DivMod
<1>3. PICK up \in Nat : up = IF 2 * r >= d THEN q + 1 ELSE q
  OBVIOUS
<1>4. PICK e \in Int : e = up * d
  OBVIOUS
<1>5. e = IF 2 * r >= d THEN d * q + d ELSE d * q
  BY <1>3, <1>4
<1>6. PICK x \in Int : x = d * q
  OBVIOUS
<1>7. 2 * (e - m) <= d /\ 2 * (m - e) <= d
  BY <1>2, <1>5, <1>6
<1>8. RoundDiv(n, d) = IF n < 0 THEN -up ELSE up
  BY <1>1, <1>2, <1>3 DEF RoundDiv
<1>9. CASE n < 0
  <2>1. RoundDiv(n, d) = -up /\ m = -n
    BY <1>1, <1>8, <1>9 DEF Magnitude
  <2>2. (-up) * d = -e
    BY <1>4
  <2>3. Magnitude(-e - n) = m - e \/ Magnitude(-e - n) = e - m
    BY <2>1 DEF Magnitude
  <2>4. 2 * Magnitude(-e - n) <= d
    BY <1>7, <2>3
  <2> QED BY <1>9, <2>1, <2>2, <2>4
<1>10. CASE ~(n < 0)
  <2>1. RoundDiv(n, d) = up /\ m = n
    BY <1>1, <1>8, <1>10 DEF Magnitude
  <2>2. Magnitude(e - n) = m - e \/ Magnitude(e - n) = e - m
    BY <2>1 DEF Magnitude
  <2>3. 2 * Magnitude(e - n) <= d
    BY <1>7, <2>2
  <2> QED BY <1>4, <2>1, <2>3
<1> QED BY <1>9, <1>10

-----------------------------------------------------------------------------
(* Schedules. *)

LEMMA SeedRows ==
    /\ DOMAIN Seeds \subseteq Nat
    /\ \A i \in DOMAIN Seeds : Seeds[i] \in Range(Seeds)
    /\ \A row \in Range(Seeds) : \E i \in DOMAIN Seeds : row = Seeds[i]
  BY SeedsAssumption DEF Range

LEMMA SpreadOfSchedule ==
    ASSUME NEW s \in Schedules
    PROVE  s.row.spread \in Nat
  BY PricingAssumption, SeedsAssumption, SeedRows DEF Schedules, NoSchedule

LEMMA FeeOfSchedule ==
    ASSUME NEW s \in Schedules, NEW base \in Nat
    PROVE  computeFee(s.row, base) \in Nat
<1>1. \/ s.row.feeType = "NONE"
      \/ s.row \in Range(Seeds)
  BY SeedRows DEF Schedules, NoSchedule
<1>2. CASE s.row.feeType = "FLAT"
  BY <1>1, <1>2, SeedsAssumption DEF computeFee
<1>3. CASE s.row.feeType = "BPS"
  <2>1. PICK f \in Nat : f = s.row.feeBPS
    BY <1>1, <1>3, SeedsAssumption
  <2>2. PICK n \in Nat : n = base * f
    OBVIOUS
  <2>3. RoundDiv(n, BPS) \in Nat
    BY RoundDivError DEF BPS
  <2> QED BY <1>3, <2>1, <2>2, <2>3 DEF computeFee
<1>4. CASE s.row.feeType \notin {"FLAT", "BPS"}
  BY <1>4 DEF computeFee
<1> QED BY <1>2, <1>3, <1>4

\* The places of the seeded rows that a request fits.
Hits(in) == {i \in DOMAIN Seeds : /\ Seeds[i].enabled /\ KeyOf(Seeds[i]) = KeyOf(in)
                                  /\ InBand(Seeds[i], in.amount)}

LEMMA HitsFirst ==
    ASSUME NEW in, Hits(in) # {}
    PROVE  /\ Min(Hits(in)) \in Hits(in) /\ \A j \in Hits(in) : Min(Hits(in)) <= j
           /\ Min(Hits(in)) \in DOMAIN Seeds
<1>1. Hits(in) \subseteq DOMAIN Seeds /\ Hits(in) \subseteq Nat
  BY SeedRows DEF Hits
<1> QED BY <1>1, MinOfPlaces

\* The first row that a request fits is the one that the configuration means: the
\* bands of a key stand in their order.
LEMMA FirstHitIsConfigured ==
    ASSUME NEW in, in.amount \in Nat
    PROVE  ConfiguredSpread(in) = IF Hits(in) = {} THEN DefaultSpreadBPS
                                  ELSE Seeds[Min(Hits(in))].spread
<1> DEFINE fit == {row \in Range(Seeds) :
                     /\ row.enabled /\ KeyOf(row) = KeyOf(in)
                     /\ in.amount >= row.min /\ (row.max = 0 \/ in.amount <= row.max)}
           m == Min(Hits(in))
<1>1. \A row \in Range(Seeds) :
        InBand(row, in.amount) <=> in.amount >= row.min /\ (row.max = 0 \/ in.amount <= row.max)
  BY SeedsAssumption DEF InBand
<1>2. /\ \A i \in Hits(in) : Seeds[i] \in fit
      /\ \A row \in fit : \E i \in Hits(in) : row = Seeds[i]
  BY <1>1, SeedRows DEF Hits
<1>3. ConfiguredSpread(in) = IF fit = {} THEN DefaultSpreadBPS
                             ELSE (CHOOSE row \in fit : \A other \in fit : row.min <= other.min).spread
  BY DEF ConfiguredSpread
<1> HIDE DEF fit
<1>4. CASE Hits(in) = {}
  BY <1>2, <1>3, <1>4
<1>5. CASE Hits(in) # {}
  <2>1. m \in Hits(in) /\ \A j \in Hits(in) : m <= j
    BY <1>5, HitsFirst
  <2> HIDE DEF m
  <2>2. \A j \in Hits(in) : /\ j \in DOMAIN Seeds /\ j \in Nat /\ KeyOf(Seeds[j]) = KeyOf(in)
                            /\ Seeds[j].min \in Nat
    BY SeedRows, SeedsAssumption DEF Hits
  <2>3. \A j \in Hits(in) : j = m \/ m < j
    BY <2>1, <2>2
  <2>4. \A j \in Hits(in) : j # m => Seeds[m].min < Seeds[j].min
    BY <2>1, <2>2, <2>3, BandsAssumption
  <2>5. Seeds[m] \in fit /\ \A other \in fit : Seeds[m].min <= other.min
    <3>1. ASSUME NEW other \in fit PROVE Seeds[m].min <= other.min
      <4>1. PICK j \in Hits(in) : other = Seeds[j]
        BY <1>2
      <4> QED BY <2>1, <2>2, <2>4, <4>1
    <3> QED BY <1>2, <2>1, <3>1
  <2>6. ASSUME NEW row \in fit, \A other \in fit : row.min <= other.min PROVE row = Seeds[m]
    <3>1. PICK j \in Hits(in) : row = Seeds[j]
      BY <1>2
    <3>2. Seeds[j].min <= Seeds[m].min
      BY <2>5, <2>6, <3>1
    <3>3. j = m
      BY <2>1, <2>2, <2>4, <3>2
    <3> QED BY <3>1, <3>3
  <2>7. (CHOOSE row \in fit : \A other \in fit : row.min <= other.min) = Seeds[m]
    BY <2>5, <2>6
  <2> QED BY <1>3, <1>5, <2>5, <2>7 DEF m
<1> QED BY <1>4, <1>5

\* What an index of generation g finds (fee_index.go:42-59).
LEMMA LookupFinds ==
    ASSUME NEW g, index = Rebuild(EmptyIndex, FeeSchedules(g)), NEW in
    PROVE  Lookup(in) = IF Hits(in) = {} THEN NoSchedule
                        ELSE [row |-> Seeds[Min(Hits(in))], gen |-> g]
<1> DEFINE k == KeyOf(in)
           fs == FeeSchedules(g)
<1>1. /\ DOMAIN fs = DOMAIN Seeds
      /\ \A i \in DOMAIN Seeds : fs[i] = [row |-> Seeds[i], gen |-> g] /\ fs[i].row = Seeds[i]
  BY DEF FeeSchedules
<1> HIDE DEF fs
<1>2. CASE k \notin Keys
  <2>1. Hits(in) = {}
    BY <1>2, SeedRows DEF Hits, Keys
  <2> QED BY <1>2, <2>1 DEF Lookup
<1>3. CASE k \in Keys
  <2> DEFINE list == [i \in Places(fs, k) |-> fs[i]]
             places == {i \in DOMAIN index[k] : InBand(index[k][i].row, in.amount)}
  <2>1. index[k] = list
    BY <1>3 DEF Rebuild, fs
  <2>2. /\ DOMAIN list = {i \in DOMAIN Seeds : Seeds[i].enabled /\ KeyOf(Seeds[i]) = k}
        /\ \A i \in DOMAIN list : list[i] = fs[i]
    BY <1>1 DEF Places
  <2> HIDE DEF list
  <2>3. places = Hits(in)
    BY <1>1, <2>1, <2>2 DEF Hits
  <2>4. Lookup(in) = FirstOf(index[k], places)
    BY <1>3 DEF Lookup
  <2> HIDE DEF places
  <2>5. CASE Hits(in) = {}
    BY <2>3, <2>4, <2>5 DEF FirstOf
  <2>6. CASE Hits(in) # {}
    <3>1. Min(Hits(in)) \in Hits(in) /\ Min(Hits(in)) \in DOMAIN Seeds
      BY <2>6, HitsFirst
    <3>2. Min(Hits(in)) \in DOMAIN list
      BY <2>2, <3>1 DEF Hits
    <3>3. list[Min(Hits(in))] = [row |-> Seeds[Min(Hits(in))], gen |-> g]
      BY <1>1, <2>2, <3>1, <3>2
    <3> QED BY <2>1, <2>3, <2>4, <2>6, <3>3 DEF FirstOf
  <2> QED BY <2>5, <2>6
<1> QED BY <1>2, <1>3

\* What the scan of the store returns is of the store's generation; with a side in
\* every row it finds nothing that the index does not (pricer.go:104-129).
LEMMA ScanFinds ==
    ASSUME NEW in
    PROVE  /\ \/ Scan(in) = NoSchedule
              \/ \E i \in DOMAIN Seeds : Scan(in) = [row |-> Seeds[i], gen |-> schedules]
           /\ Hits(in) = {} => Scan(in) = NoSchedule
<1> DEFINE fs == FeeSchedules(schedules)
           places == {i \in DOMAIN fs : /\ fs[i].row.enabled
                                        /\ fs[i].row.tier = in.tier /\ fs[i].row.asset = in.asset
                                        /\ fs[i].row.side \in {"", in.side}
                                        /\ InBand(fs[i].row, in.amount)}
<1>1. /\ DOMAIN fs = DOMAIN Seeds
      /\ \A i \in DOMAIN Seeds : fs[i] = [row |-> Seeds[i], gen |-> schedules] /\ fs[i].row = Seeds[i]
  BY DEF FeeSchedules
<1>2. Scan(in) = FirstOf(fs, places)
  BY DEF Scan
<1> HIDE DEF fs
<1>3. places \subseteq DOMAIN Seeds /\ places \subseteq Nat
  BY <1>1, SeedRows
<1>4. places \subseteq Hits(in)
  <2> SUFFICES ASSUME NEW i \in places PROVE i \in Hits(in)
    OBVIOUS
  <2>1. /\ i \in DOMAIN Seeds /\ Seeds[i].enabled /\ InBand(Seeds[i], in.amount)
        /\ Seeds[i].tier = in.tier /\ Seeds[i].asset = in.asset
        /\ Seeds[i].side = "" \/ Seeds[i].side = in.side
    BY <1>1
  <2>2. Seeds[i].side = in.side
    BY <2>1, SeedRows, BandsAssumption
  <2> QED BY <2>1, <2>2 DEF Hits, KeyOf
<1> HIDE DEF places
<1>5. CASE places = {}
  BY <1>2, <1>5 DEF FirstOf
<1>6. CASE places # {}
  <2>1. Min(places) \in places /\ Min(places) \in DOMAIN Seeds
    BY <1>3, <1>6, MinOfPlaces
  <2>2. Scan(in) = [row |-> Seeds[Min(places)], gen |-> schedules]
    BY <1>1, <1>2, <1>6, <2>1 DEF FirstOf
  <2> QED BY <1>4, <1>6, <2>1, <2>2
<1> QED BY <1>5, <1>6

-----------------------------------------------------------------------------
(* Prices. *)

\* The effective rate is a fraction, and positive on a BUY.
LEMMA RateIsFraction ==
    ASSUME NEW side \in {"BUY", "SELL"}, NEW spot \in [n : Nat \ {0}, d : Nat \ {0}],
           NEW spread \in Nat
    PROVE  /\ EffectiveRate(side, spot, spread) \in [n : Int, d : Nat \ {0}]
           /\ side = "BUY" => EffectiveRate(side, spot, spread).n \in Nat \ {0}
<1>1. spot.n \in Nat \ {0} /\ spot.d \in Nat \ {0}
  OBVIOUS
<1>2. BPS + spread \in Nat \ {0} /\ BPS - spread \in Int /\ BPS \in Nat \ {0}
  BY DEF BPS
<1>3. spot.d * BPS \in Nat \ {0} /\ spot.n * (BPS + spread) \in Nat \ {0}
  BY <1>1, <1>2, ProductIsPositive
<1>4. PICK a \in Int : a = BPS - spread
  BY <1>2
<1>5. spot.n * (BPS - spread) \in Int
  BY <1>1, <1>4
<1>6. CASE side = "BUY"
  BY <1>3, <1>6 DEF EffectiveRate
<1>7. CASE side = "SELL"
  BY <1>3, <1>5, <1>7 DEF EffectiveRate
<1> QED BY <1>6, <1>7

\* Buying and selling at a rate is exact to half a unit.
LEMMA BoughtError ==
    ASSUME NEW amount \in Nat, NEW rate \in [n : Nat \ {0}, d : Nat \ {0}]
    PROVE  /\ Bought(amount, rate) \in Nat
           /\ 2 * Magnitude(Bought(amount, rate) * rate.n - amount * rate.d) <= rate.n
<1>1. rate.n \in Nat \ {0} /\ rate.d \in Nat \ {0}
  OBVIOUS
<1>2. PICK x \in Nat : x = amount * rate.d
  BY <1>1
<1> QED BY <1>1, <1>2, RoundDivError DEF Bought

LEMMA ProceedsError ==
    ASSUME NEW amount \in Nat, NEW rate \in [n : Int, d : Nat \ {0}]
    PROVE  /\ Proceeds(amount, rate) \in Int
           /\ 2 * Magnitude(Proceeds(amount, rate) * rate.d - amount * rate.n) <= rate.d
<1>1. rate.n \in Int /\ rate.d \in Nat \ {0}
  OBVIOUS
<1>2. PICK x \in Int : x = amount * rate.n
  BY <1>1
<1> QED BY <1>1, <1>2, RoundDivError DEF Proceeds

\* What the numbers of a price by rate r say, as AddsUp has it.
Consistent(in, r) ==
    /\ in.side = "BUY" => 2 * Magnitude(r.crypto * r.rate.n - in.amount * r.rate.d) <= r.rate.n
    /\ in.side = "SELL" => 2 * Magnitude((r.total + r.fee) * r.rate.d - in.amount * r.rate.n)
                             <= r.rate.d

\* Compute (pricer.go:45-98): its numbers, their types and that they add up.
LEMMA ComputeOK ==
    ASSUME NEW in, in.side \in {"BUY", "SELL"}, in.amount \in Nat, NEW price \in Nat \ {0},
           NEW s \in Schedules
    PROVE  LET r == Compute(in, price, s.row)
           IN /\ r \in Results /\ r.spot = [n |-> price, d |-> 1] /\ r.spread = s.row.spread
              /\ r.rate = EffectiveRate(in.side, [n |-> price, d |-> 1], s.row.spread)
              /\ in.side = "BUY" => r.crypto = Bought(in.amount, r.rate)
              /\ in.side = "SELL" => r.total = Proceeds(in.amount, r.rate) - r.fee
              /\ Consistent(in, r)
<1> DEFINE spot == [n |-> price, d |-> 1]
           rate == EffectiveRate(in.side, spot, s.row.spread)
           base == IF in.side = "BUY" THEN in.amount ELSE 0
           fee == computeFee(s.row, base)
           r == Compute(in, price, s.row)
<1>1. spot \in [n : Nat \ {0}, d : Nat \ {0}] /\ s.row.spread \in Nat /\ base \in Nat
  BY SpreadOfSchedule
<1>2. rate \in [n : Int, d : Nat \ {0}] /\ (in.side = "BUY" => rate.n \in Nat \ {0})
  BY <1>1, RateIsFraction
<1>3. fee \in Nat
  BY <1>1, FeeOfSchedule
<1>4. r = [spot |-> spot, spread |-> s.row.spread, rate |-> rate, fee |-> fee,
           total |-> IF in.side = "BUY" THEN in.amount + fee ELSE Proceeds(in.amount, rate) - fee,
           crypto |-> IF in.side = "BUY" THEN Bought(in.amount, rate) ELSE in.amount]
  BY DEF Compute
<1>5. spot \in Fraction /\ rate \in Fraction
  BY <1>1, <1>2 DEF Fraction
<1> HIDE DEF spot, rate, base, fee, r
<1>6. CASE in.side = "BUY"
  <2>1. rate \in [n : Nat \ {0}, d : Nat \ {0}]
    BY <1>2, <1>6
  <2>2. /\ Bought(in.amount, rate) \in Nat
        /\ 2 * Magnitude(Bought(in.amount, rate) * rate.n - in.amount * rate.d) <= rate.n
    BY <2>1, BoughtError
  <2>3. r = [spot |-> spot, spread |-> s.row.spread, rate |-> rate, fee |-> fee,
             total |-> in.amount + fee, crypto |-> Bought(in.amount, rate)]
    BY <1>4, <1>6
  <2>4. in.amount + fee \in Int
    BY <1>3
  <2>5. r \in Results
    BY <1>1, <1>3, <1>5, <2>2, <2>3, <2>4 DEF Results
  <2>6. Consistent(in, r)
    BY <1>6, <2>2, <2>3 DEF Consistent
  <2> QED BY <1>6, <2>3, <2>5, <2>6 DEF r, rate, spot
<1>7. CASE in.side = "SELL"
  <2> DEFINE p == Proceeds(in.amount, rate)
  <2>1. p \in Int /\ 2 * Magnitude(p * rate.d - in.amount * rate.n) <= rate.d
    BY <1>2, ProceedsError
  <2>2. r = [spot |-> spot, spread |-> s.row.spread, rate |-> rate, fee |-> fee,
             total |-> p - fee, crypto |-> in.amount]
    BY <1>4, <1>7
  <2> HIDE DEF p
  <2>3. p - fee \in Int /\ (p - fee) + fee = p
    BY <1>3, <2>1
  <2>4. r \in Results
    BY <1>1, <1>3, <1>5, <2>2, <2>3 DEF Results
  <2>5. r.total + r.fee = p /\ r.rate = rate
    BY <2>2, <2>3
  <2>6. Consistent(in, r)
    BY <1>7, <2>1, <2>5 DEF Consistent
  <2> QED BY <1>7, <2>2, <2>4, <2>6 DEF r, rate, spot, p
<1> QED BY <1>6, <1>7

\* The FX leg (fx.go:93-114): the spread grows by the hedge cost, and a quote with
\* a hedge cost is recomputed so that it adds up.
LEMMA ApplyFXOK ==
    ASSUME NEW in, in.side \in {"BUY", "SELL"}, in.amount \in Nat, NEW usd \in Results,
           usd.spot \in [n : Nat \ {0}, d : Nat \ {0}], NEW fx \in Nat \ {0}, NEW hedge \in Nat
    PROVE  LET r == ApplyFX(in, usd, fx, hedge)
           IN r \in Results /\ r.spread = usd.spread + hedge /\ (hedge > 0 => Consistent(in, r))
<1> DEFINE spot == [n |-> usd.spot.n * FXUnit, d |-> usd.spot.d * fx]
           over == [n |-> usd.rate.n * FXUnit, d |-> usd.rate.d * fx]
           spread == usd.spread + hedge
           rate == EffectiveRate(in.side, spot, spread)
           cross == [usd EXCEPT !.spot = spot, !.rate = over]
           r == ApplyFX(in, usd, fx, hedge)
<1>1. /\ usd.spread \in Nat /\ usd.fee \in Nat /\ usd.total \in Int /\ usd.crypto \in Int
      /\ usd.rate.n \in Int /\ usd.rate.d \in Int
  BY DEF Results, Fraction
<1>2. spot \in [n : Nat \ {0}, d : Nat \ {0}]
  <2>1. usd.spot.n \in Nat \ {0} /\ usd.spot.d \in Nat \ {0} /\ FXUnit \in Nat \ {0}
    BY DEF FXUnit
  <2> QED BY <2>1, ProductIsPositive
<1>3. over \in Fraction
  <2>1. FXUnit \in Int
    BY DEF FXUnit
  <2> QED BY <1>1, <2>1 DEF Fraction
<1>4. spread \in Nat
  BY <1>1
<1>5. /\ rate \in [n : Int, d : Nat \ {0}] /\ (in.side = "BUY" => rate.n \in Nat \ {0})
  BY <1>2, <1>4, RateIsFraction
<1>6. spot \in Fraction /\ rate \in Fraction
  BY <1>2, <1>5 DEF Fraction
<1>7. r = IF hedge = 0 THEN cross
          ELSE [cross EXCEPT !.spread = spread, !.rate = rate,
                             !.crypto = IF in.side = "BUY" THEN Bought(in.amount, rate) ELSE @,
                             !.total = IF in.side = "SELL" THEN Proceeds(in.amount, rate) - usd.fee
                                                           ELSE @]
  BY DEF ApplyFX
<1> HIDE DEF spot, over, spread, rate, r
<1>8. cross \in Results /\ cross.spread = usd.spread /\ cross.fee = usd.fee /\ cross.crypto = usd.crypto
      /\ cross.total = usd.total
  BY <1>3, <1>6 DEF Results
<1> HIDE DEF cross
<1>9. CASE hedge = 0
  BY <1>1, <1>7, <1>8, <1>9 DEF r
<1>10. CASE hedge # 0 /\ in.side = "BUY"
  <2>1. rate \in [n : Nat \ {0}, d : Nat \ {0}]
    BY <1>5, <1>10
  <2>2. PICK b \in Nat : /\ b = Bought(in.amount, rate)
                         /\ 2 * Magnitude(b * rate.n - in.amount * rate.d) <= rate.n
    BY <2>1, BoughtError
  <2>3. r = [cross EXCEPT !.spread = spread, !.rate = rate, !.crypto = b, !.total = cross.total]
    BY <1>7, <1>10, <2>2
  <2>4. r \in Results /\ r.spread = spread /\ r.rate = rate /\ r.crypto = b
    <3>1. cross.total \in Int /\ b \in Int
      BY <1>1, <1>8
    <3>2. r \in Results
      BY <1>4, <1>6, <1>8, <2>3, <3>1 DEF Results
    <3> QED BY <1>8, <2>3, <3>2 DEF Results
  <2>5. Consistent(in, r)
    BY <1>10, <2>2, <2>4 DEF Consistent
  <2> QED BY <2>4, <2>5 DEF r, spread
<1>11. CASE hedge # 0 /\ in.side = "SELL"
  <2>1. PICK p \in Int : /\ p = Proceeds(in.amount, rate)
                         /\ 2 * Magnitude(p * rate.d - in.amount * rate.n) <= rate.d
    BY <1>5, ProceedsError
  <2>2. PICK t \in Int : t = p - usd.fee /\ t + usd.fee = p
    BY <1>1
  <2>3. r = [cross EXCEPT !.spread = spread, !.rate = rate, !.crypto = cross.crypto, !.total = t]
    BY <1>7, <1>11, <2>1, <2>2
  <2>4. r \in Results /\ r.spread = spread /\ r.rate = rate /\ r.total = t /\ r.fee = usd.fee
    <3>1. cross.crypto \in Int
      BY <1>1, <1>8
    <3>2. r \in Results
      BY <1>4, <1>6, <1>8, <2>3, <3>1 DEF Results
    <3> QED BY <1>8, <2>3, <3>2 DEF Results
  <2>5. Consistent(in, r)
    BY <1>11, <2>1, <2>2, <2>4 DEF Consistent
  <2> QED BY <2>4, <2>5 DEF r, spread
<1> QED BY <1>9, <1>10, <1>11

\* A request with a price and an FX rate.
LEMMA PriceByOK ==
    ASSUME NEW req, req.in \in Inputs, req.price \in Nat \ {0}, req.leg.fx \in Nat \ {0},
           req.leg.hedge \in Nat, req.cross \in BOOLEAN, ~req.cross => req.leg.hedge = 0,
           NEW s \in Schedules
    PROVE  /\ PriceBy(req, s) \in Results
           /\ PriceBy(req, s).spread = s.row.spread + req.leg.hedge
           /\ (req.cross => req.leg.hedge > 0) => Consistent(req.in, PriceBy(req, s))
<1> DEFINE usd == Compute(req.in, req.price, s.row)
<1>1. req.in.side \in {"BUY", "SELL"} /\ req.in.amount \in Nat
  BY PricingAssumption
<1>2. /\ usd \in Results /\ usd.spot = [n |-> req.price, d |-> 1] /\ usd.spread = s.row.spread
      /\ Consistent(req.in, usd)
  BY <1>1, ComputeOK
<1>3. s.row.spread \in Nat
  BY SpreadOfSchedule
<1>4. PriceBy(req, s) = IF req.cross THEN ApplyFX(req.in, usd, req.leg.fx, req.leg.hedge) ELSE usd
  BY DEF PriceBy
<1> HIDE DEF usd
<1>5. usd.spot \in [n : Nat \ {0}, d : Nat \ {0}]
  BY <1>2
<1>6. CASE req.cross
  BY <1>1, <1>2, <1>4, <1>5, <1>6, ApplyFXOK
<1>7. CASE ~req.cross
  BY <1>2, <1>3, <1>4, <1>7
<1> QED BY <1>6, <1>7

-----------------------------------------------------------------------------
(* The invariant. *)

LEMMA RequestNumbers ==
    ASSUME NEW req \in Requests
    PROVE  /\ req.price \in Nat /\ req.leg.fx \in Nat /\ req.leg.hedge \in Nat
           /\ req.cross \in BOOLEAN /\ req.sched \in Schedules
<1>1. /\ req.price \in Spots \cup {0} /\ req.leg \in Legs
      /\ req.cross \in BOOLEAN /\ req.sched \in Schedules
  BY DEF Requests
<1>2. req.leg.fx \in FXRates \cup {FXUnit} /\ req.leg.hedge \in HedgeCosts \cup {0}
  BY <1>1 DEF Legs
<1>3. FXUnit \in Nat /\ 0 \in Nat /\ Spots \subseteq Nat /\ FXRates \subseteq Nat /\ HedgeCosts \subseteq Nat
  BY PricingAssumption DEF FXUnit
<1> QED BY <1>1, <1>2, <1>3

LEMMA PricingInitInv == PricingInit => PricingInv
<1> SUFFICES ASSUME PricingInit PROVE PricingInv
  OBVIOUS
<1> USE PricingAssumption DEF PricingInit
<1>1. 1 \in Generations
  BY DEF Generations
<1>2. IndexInv
  BY <1>1 DEF IndexInv
<1>3. ReloadInv
  BY <1>1 DEF ReloadInv, ReloadState, Reloading, NoReload, Generations
<1>4. NoLeg \in Legs /\ NoSchedule \in Schedules
  BY DEF NoLeg, Legs, Schedules
<1>5. Idle \in Requests /\ Idle.at = "idle" /\ Idle.leg = NoLeg
  BY <1>4 DEF Idle, Requests, RequestLabels
<1>6. RequestInv
  BY <1>5 DEF RequestInv
<1>7. DoneInv /\ ScanInv
  BY <1>5 DEF DoneInv, ScanInv, Priced
<1> QED BY <1>2, <1>3, <1>6, <1>7 DEF PricingInv

\* The end of a request: errBadRate, or the price by the schedule that was matched.
LEMMA QuoteStep ==
    ASSUME RequestInv, request.at \in {"lookup", "scan"}, floor' = floor, NEW s \in Schedules,
           Quote(s), s.row.spread = ConfiguredSpread(request.in),
           s # NoSchedule => s.gen >= request.since
    PROVE  RequestInv' /\ DoneInv' /\ ScanInv'
<1> USE PricingAssumption
<1>1. /\ request \in Requests /\ request.in \in Inputs /\ request.since <= floor
      /\ ~request.cross => request.leg = NoLeg
  BY DEF RequestInv
<1>2. CASE request.price = 0 \/ request.leg.fx = 0
  <2>1. request' = [request EXCEPT !.at = "failed"]
    BY <1>2 DEF Quote
  <2>2. /\ request' \in Requests /\ request'.at = "failed" /\ request'.in = request.in
        /\ request'.since = request.since /\ request'.cross = request.cross /\ request'.leg = request.leg
    BY <1>1, <2>1 DEF Requests, RequestLabels
  <2>3. RequestInv'
    BY <1>1, <2>2 DEF RequestInv
  <2> QED BY <2>2, <2>3 DEF DoneInv, ScanInv, Priced
<1>3. CASE ~(request.price = 0 \/ request.leg.fx = 0)
  <2> DEFINE r == PriceBy(request, s)
  <2>1. request' = [request EXCEPT !.at = "done", !.sched = s, !.result = r]
    BY <1>3, <1>1 DEF Quote, PriceBy
  <2>2. /\ request.price \in Nat \ {0} /\ request.leg.fx \in Nat \ {0} /\ request.leg.hedge \in Nat
        /\ request.cross \in BOOLEAN /\ (~request.cross => request.leg.hedge = 0)
    <3>1. NoLeg.hedge = 0
      BY DEF NoLeg
    <3> QED BY <1>1, <1>3, <3>1, RequestNumbers
  <2>3. r \in Results
    BY <1>1, <2>2, PriceByOK
  <2> HIDE DEF r
  <2>4. /\ request' \in Requests /\ request'.at = "done" /\ request'.in = request.in
        /\ request'.since = request.since /\ request'.cross = request.cross /\ request'.leg = request.leg
        /\ request'.sched = s /\ request'.price = request.price /\ request'.result = r
    BY <1>1, <2>1, <2>3 DEF Requests, RequestLabels
  <2>5. RequestInv'
    BY <1>1, <2>4 DEF RequestInv
  <2>6. request'.result = PriceBy(request', request'.sched)
    BY <2>4 DEF PriceBy, r
  <2>7. ConfiguredSpread(request'.in) = ConfiguredSpread(request.in)
    BY <2>4
  <2>8. DoneInv'
    BY <2>2, <2>4, <2>6, <2>7 DEF DoneInv
  <2> QED BY <2>4, <2>5, <2>8 DEF ScanInv
<1> QED BY <1>2, <1>3

\* The steps of a request.
LEMMA RequestStep ==
    ASSUME PricingInv, UNCHANGED <<schedules, index, reload, floor>>,
           \/ \E in \in Inputs : Begin(in)
           \/ FetchFX \/ GetSpot \/ LookupSchedule \/ ScanSchedules \/ Return
    PROVE  RequestInv' /\ DoneInv' /\ ScanInv'
<1> USE PricingAssumption
<1>1. /\ RequestInv /\ request \in Requests /\ floor \in Generations /\ floor <= schedules
      /\ schedules \in Generations /\ floor \in Nat /\ schedules \in Nat
  BY DEF PricingInv, RequestInv, ReloadInv, Generations
<1>2. NoLeg \in Legs /\ NoSchedule \in Schedules
  BY DEF NoLeg, Legs, Schedules
<1>3. /\ Idle \in Requests /\ Idle.at = "idle" /\ Idle.leg = NoLeg /\ Idle.cross = FALSE
  BY <1>2 DEF Idle, Requests, RequestLabels
<1>4. ASSUME NEW in \in Inputs, Begin(in) PROVE RequestInv' /\ DoneInv' /\ ScanInv'
  <2>1. PICK l \in {"spot", "fx"} : request' = [Idle EXCEPT !.at = l, !.in = in, !.since = floor]
    BY <1>4 DEF Begin
  <2>2. /\ request' \in Requests /\ request'.at = l /\ request'.in = in /\ request'.since = floor
        /\ request'.leg = NoLeg
    BY <1>1, <1>3, <2>1 DEF Requests, RequestLabels
  <2>3. RequestInv'
    BY <1>1, <2>2 DEF RequestInv
  <2> QED BY <2>2, <2>3 DEF DoneInv, ScanInv, Priced
<1>5. ASSUME Return PROVE RequestInv' /\ DoneInv' /\ ScanInv'
  BY <1>3, <1>5 DEF Return, RequestInv, DoneInv, ScanInv, Priced
<1>6. ASSUME NEW x \in Requests, request' = x, x.at \in {"spot", "lookup", "scan", "failed"},
             request.at # "idle", x.in = request.in, x.since = request.since,
             ~x.cross => x.leg = NoLeg
      PROVE  RequestInv' /\ DoneInv'
  BY <1>1, <1>6 DEF RequestInv, DoneInv, Priced
<1>7. ASSUME FetchFX PROVE RequestInv' /\ DoneInv' /\ ScanInv'
  <2>1. CASE request' = [request EXCEPT !.at = "spot"]
    <3>1. /\ request' \in Requests /\ request'.at = "spot" /\ request'.in = request.in
          /\ request'.since = request.since /\ request'.cross = request.cross
          /\ request'.leg = request.leg
      BY <1>1, <2>1 DEF Requests, RequestLabels
    <3> QED BY <1>1, <1>6, <1>7, <3>1 DEF FetchFX, ScanInv, RequestInv
  <2>2. ASSUME NEW fx \in FXRates, NEW hedge \in HedgeCosts,
               request' = [request EXCEPT !.at = "spot", !.cross = TRUE,
                                          !.leg = [fx |-> fx, hedge |-> hedge]]
        PROVE  RequestInv' /\ DoneInv' /\ ScanInv'
    <3>1. [fx |-> fx, hedge |-> hedge] \in Legs
      BY DEF Legs
    <3>2. /\ request' \in Requests /\ request'.at = "spot" /\ request'.in = request.in
          /\ request'.since = request.since /\ request'.cross = TRUE
      BY <1>1, <2>2, <3>1 DEF Requests, RequestLabels
    <3> QED BY <1>6, <1>7, <3>2 DEF FetchFX, ScanInv
  <2> QED BY <1>7, <2>1, <2>2 DEF FetchFX
<1>8. ASSUME GetSpot PROVE RequestInv' /\ DoneInv' /\ ScanInv'
  <2>1. PICK l \in {"failed", "lookup"}, price \in Spots \cup {0} :
           request' = [request EXCEPT !.at = l, !.price = price]
    <3>1. CASE request' = [request EXCEPT !.at = "failed"]
      <4>1. request.price \in Spots \cup {0}
        BY <1>1 DEF Requests
      <4>2. request' = [request EXCEPT !.at = "failed", !.price = request.price]
        BY <1>1, <3>1 DEF Requests
      <4> QED BY <4>1, <4>2
    <3>2. CASE \E price \in Spots : request' = [request EXCEPT !.at = "lookup", !.price = price]
      BY <3>2
    <3> QED BY <1>8, <3>1, <3>2 DEF GetSpot
  <2>2. /\ request' \in Requests /\ request'.at = l /\ request'.in = request.in
        /\ request'.since = request.since /\ request'.cross = request.cross
        /\ request'.leg = request.leg
    BY <1>1, <2>1 DEF Requests, RequestLabels
  <2> QED BY <1>1, <1>6, <1>8, <2>2 DEF GetSpot, ScanInv, RequestInv
<1>9. ASSUME request.at \in {"lookup", "scan"}
      PROVE  /\ request.in \in Inputs /\ request.in.amount \in Nat /\ request.since <= floor
             /\ request.since \in Nat
  BY <1>1, <1>9 DEF RequestInv, Requests, Generations
<1>10. ASSUME LookupSchedule PROVE RequestInv' /\ DoneInv' /\ ScanInv'
  <2> DEFINE in == request.in
             s == Lookup(in)
  <2>1. PICK g \in Generations : g >= floor /\ index = Rebuild(EmptyIndex, FeeSchedules(g))
    BY DEF PricingInv, IndexInv
  <2>2. s = IF Hits(in) = {} THEN NoSchedule ELSE [row |-> Seeds[Min(Hits(in))], gen |-> g]
    BY <2>1, LookupFinds
  <2>3. ConfiguredSpread(in) = IF Hits(in) = {} THEN DefaultSpreadBPS
                               ELSE Seeds[Min(Hits(in))].spread
    BY <1>9, <1>10, FirstHitIsConfigured DEF LookupSchedule
  <2>4. request.at = "lookup" /\ g \in Nat /\ g >= request.since
    BY <1>1, <1>9, <1>10, <2>1 DEF LookupSchedule, Generations
  <2>5. CASE s = NoSchedule
    <3>1. Hits(in) = {}
      <4>1. CASE Hits(in) # {}
        <5>1. s.gen = g /\ NoSchedule.gen = 0
          BY <2>2, <4>1 DEF NoSchedule
        <5> QED BY <2>5, <5>1 DEF Generations
      <4> QED BY <4>1
    <3>2. request' = [request EXCEPT !.at = "scan"]
      BY <1>10, <2>5 DEF LookupSchedule
    <3>3. /\ request' \in Requests /\ request'.at = "scan" /\ request'.in = in
          /\ request'.since = request.since /\ request'.cross = request.cross
          /\ request'.leg = request.leg
      BY <1>1, <3>2 DEF Requests, RequestLabels
    <3>4. ~\E row \in Range(Seeds) : /\ row.enabled /\ KeyOf(row) = KeyOf(in)
                                     /\ InBand(row, in.amount)
      BY <3>1, SeedRows DEF Hits
    <3>5. RequestInv' /\ DoneInv'
      BY <1>1, <1>6, <2>4, <3>3 DEF RequestInv
    <3> QED BY <3>3, <3>4, <3>5 DEF ScanInv
  <2>6. CASE s # NoSchedule
    <3>1. Hits(in) # {} /\ Min(Hits(in)) \in DOMAIN Seeds
      BY <2>2, <2>6, HitsFirst
    <3>2. s \in Schedules /\ s.row.spread = Seeds[Min(Hits(in))].spread /\ s.gen = g
      BY <2>2, <3>1 DEF Schedules
    <3>3. Quote(s)
      BY <1>10, <2>6 DEF LookupSchedule
    <3> HIDE DEF s
    <3> QED BY <1>1, <2>3, <2>4, <3>1, <3>2, <3>3, QuoteStep
  <2> QED BY <2>5, <2>6
<1>11. ASSUME ScanSchedules PROVE RequestInv' /\ DoneInv' /\ ScanInv'
  <2> DEFINE in == request.in
             s == Scan(in)
  <2>1. request.at = "scan" /\ Quote(s)
    BY <1>11 DEF ScanSchedules
  <2>2. Hits(in) = {}
    BY <2>1, SeedRows DEF PricingInv, ScanInv, Hits
  <2>3. s = NoSchedule
    BY <2>2, ScanFinds
  <2>4. ConfiguredSpread(in) = DefaultSpreadBPS
    BY <1>9, <2>1, <2>2, FirstHitIsConfigured
  <2>5. NoSchedule.row.spread = DefaultSpreadBPS
    BY DEF NoSchedule
  <2> QED BY <1>1, <1>2, <2>1, <2>3, <2>4, <2>5, QuoteStep
<1> QED BY <1>4, <1>5, <1>7, <1>8, <1>10, <1>11

\* The floor at the return of a reload: below what every reload under way has seeded.
LEMMA FloorRises ==
    ASSUME ReloadInv, NEW h \in Reloading
    PROVE  LET low == Min({reload[o].seeded : o \in Reloading})
           IN /\ low \in Generations /\ floor <= low /\ low <= schedules
              /\ \A o \in Reloading : low <= reload[o].seeded
<1> USE PricingAssumption
<1> DEFINE S == {reload[o].seeded : o \in Reloading}
<1>1. \A o \in Reloading : reload[o] \in ReloadState
  BY DEF ReloadInv, Reloading
<1>2. S \subseteq Generations /\ S \subseteq Nat /\ S # {}
  BY <1>1 DEF ReloadState, Generations
<1> HIDE DEF S
<1>3. Min(S) \in S /\ \A y \in S : Min(S) <= y
  BY <1>2, MinOfPlaces
<1>4. PICK o \in Reloading : Min(S) = reload[o].seeded
  BY <1>3 DEF S
<1>5. floor <= Min(S) /\ Min(S) <= schedules
  BY <1>4 DEF ReloadInv
<1>6. \A x \in Reloading : Min(S) <= reload[x].seeded
  BY <1>3 DEF S
<1> QED BY <1>2, <1>3, <1>5, <1>6 DEF S

\* The steps of a reload and the refresh tick.
LEMMA ReloadKeeps ==
    ASSUME IndexInv, ReloadInv, (\E h \in Reloaders : ReloadStep(h)) \/ RefreshTick
    PROVE  IndexInv' /\ ReloadInv' /\ floor <= floor'
<1> USE PricingAssumption
<1>1. /\ schedules \in Nat /\ floor \in Nat /\ reload \in [Reloaders -> ReloadState]
      /\ \A o \in Reloaders : reload[o].seeded \in Nat /\ reload[o].copy \in Nat
  BY DEF ReloadInv, ReloadState, Generations
<1>2. SeedFeeSchedules => /\ schedules' \in Generations /\ schedules' = schedules + 1
                          /\ schedules <= schedules'
  BY <1>1 DEF SeedFeeSchedules, ReloadInv, Generations
<1>3. UNCHANGED <<index, floor>> => IndexInv'
  BY DEF IndexInv
<1>4. ASSUME NEW h \in Reloaders, ReloadSeed(h) PROVE IndexInv' /\ ReloadInv' /\ floor <= floor'
  <2>1. /\ schedules' \in Generations /\ schedules' = schedules + 1 /\ UNCHANGED <<index, floor>>
        /\ reload' = [reload EXCEPT ![h] = [at |-> "seeded", seeded |-> schedules + 1, copy |-> 0]]
    BY <1>2, <1>4 DEF ReloadSeed
  <2>2. /\ reload' \in [Reloaders -> ReloadState]
        /\ reload'[h].at = "seeded" /\ reload'[h].seeded = schedules'
        /\ \A o \in Reloaders \ {h} : reload'[o] = reload[o]
    BY <1>1, <2>1 DEF ReloadState
  <2>3. ASSUME NEW o \in Reloading'
        PROVE  floor' <= reload'[o].seeded /\ reload'[o].seeded <= schedules'
    <3>1. CASE o = h
      BY <1>1, <2>1, <2>2, <3>1 DEF ReloadInv
    <3>2. CASE o # h
      <4>1. o \in Reloading /\ reload'[o] = reload[o] /\ o \in Reloaders
        BY <2>2, <3>2 DEF Reloading
      <4>2. floor <= reload[o].seeded /\ reload[o].seeded <= schedules /\ reload[o].seeded \in Nat
        BY <1>1, <4>1 DEF ReloadInv
      <4> QED BY <1>1, <2>1, <4>1, <4>2
    <3> QED BY <3>1, <3>2
  <2>4. \A o \in Reloaders : reload'[o].at = "copied" =>
             reload'[o].copy \in Generations /\ reload'[o].seeded <= reload'[o].copy
    BY <2>2 DEF ReloadInv
  <2> QED BY <1>1, <1>3, <2>1, <2>2, <2>3, <2>4 DEF ReloadInv, Generations
<1>5. ASSUME NEW h \in Reloaders, ReloadCopy(h) PROVE IndexInv' /\ ReloadInv' /\ floor <= floor'
  <2>1. /\ reload[h].at = "seeded" /\ UNCHANGED <<schedules, index, floor>>
        /\ reload' = [reload EXCEPT ![h].at = "copied", ![h].copy = schedules]
    BY <1>5 DEF ReloadCopy
  <2>2. /\ reload' \in [Reloaders -> ReloadState]
        /\ reload'[h].seeded = reload[h].seeded /\ reload'[h].copy = schedules
        /\ \A o \in Reloaders \ {h} : reload'[o] = reload[o]
    BY <1>1, <2>1 DEF ReloadState, ReloadInv
  <2>3. \A o \in Reloading' : o \in Reloading /\ reload'[o].seeded = reload[o].seeded
    BY <2>1, <2>2 DEF Reloading
  <2>4. h \in Reloading
    BY <2>1 DEF Reloading
  <2>5. \A o \in Reloaders : reload'[o].at = "copied" =>
             reload'[o].copy \in Generations /\ reload'[o].seeded <= reload'[o].copy
    BY <2>2, <2>4 DEF ReloadInv
  <2>6. \A o \in Reloading' : floor' <= reload'[o].seeded /\ reload'[o].seeded <= schedules'
    BY <2>1, <2>3 DEF ReloadInv
  <2>7. /\ schedules' \in Generations /\ floor' \in Generations
        /\ floor' <= schedules' /\ floor <= floor'
    BY <1>1, <2>1 DEF ReloadInv
  <2> QED BY <1>3, <2>1, <2>2, <2>5, <2>6, <2>7 DEF ReloadInv
<1>6. ASSUME NEW h \in Reloaders, ReloadRebuild(h)
      PROVE  IndexInv' /\ ReloadInv' /\ floor <= floor'
  <2>1. /\ reload[h].at = "copied" /\ floor' = Min({reload[o].seeded : o \in Reloading})
        /\ UNCHANGED schedules /\ index' = Rebuild(index, FeeSchedules(reload[h].copy))
        /\ reload' = [reload EXCEPT ![h] = NoReload]
    BY <1>6 DEF ReloadRebuild
  <2>2. h \in Reloading
    BY <2>1 DEF Reloading
  <2>3. /\ floor' \in Generations /\ floor <= floor' /\ floor' <= schedules
        /\ \A o \in Reloading : floor' <= reload[o].seeded
    BY <2>1, <2>2, FloorRises
  <2>4. reload[h].copy \in Generations /\ reload[h].copy >= floor'
    BY <1>1, <2>1, <2>2, <2>3 DEF ReloadInv, Generations
  <2>5. index' = Rebuild(EmptyIndex, FeeSchedules(reload[h].copy))
    BY <2>1 DEF Rebuild
  <2>6. IndexInv'
    BY <2>4, <2>5 DEF IndexInv
  <2>7. NoReload \in ReloadState /\ NoReload.at = "idle"
    BY DEF NoReload, ReloadState, Generations
  <2>8. /\ reload' \in [Reloaders -> ReloadState] /\ reload'[h].at = "idle"
        /\ \A o \in Reloaders \ {h} : reload'[o] = reload[o]
    BY <1>1, <2>1, <2>7
  <2>9. \A o \in Reloading' : o \in Reloading /\ reload'[o] = reload[o]
    BY <2>8 DEF Reloading
  <2>10. \A o \in Reloaders : reload'[o].at = "copied" =>
             reload'[o].copy \in Generations /\ reload'[o].seeded <= reload'[o].copy
    BY <2>8 DEF ReloadInv
  <2>11. \A o \in Reloading' : floor' <= reload'[o].seeded /\ reload'[o].seeded <= schedules'
    BY <2>1, <2>3, <2>9 DEF ReloadInv
  <2> QED BY <2>1, <2>3, <2>6, <2>8, <2>10, <2>11 DEF ReloadInv
<1>7. CASE RefreshTick
  <2>1. /\ schedules' \in Generations /\ schedules' = schedules + 1
        /\ UNCHANGED <<index, reload, floor>>
    BY <1>2, <1>7 DEF RefreshTick
  <2>2. Reloading' = Reloading /\ \A o \in Reloading : o \in Reloaders
    BY <2>1 DEF Reloading
  <2>3. floor <= schedules' /\ \A o \in Reloading : reload[o].seeded <= schedules'
    BY <1>1, <2>1, <2>2 DEF ReloadInv
  <2> QED BY <1>1, <1>3, <2>1, <2>2, <2>3 DEF ReloadInv
<1> QED BY <1>4, <1>5, <1>6, <1>7 DEF ReloadStep

LEMMA PricingStep == PricingInv /\ [PricingNext]_pricingVars => PricingInv'
<1> SUFFICES ASSUME PricingInv, [PricingNext]_pricingVars PROVE PricingInv'
  OBVIOUS
<1>1. CASE \/ \E in \in Inputs : Begin(in)
           \/ FetchFX \/ GetSpot \/ LookupSchedule \/ ScanSchedules \/ Return
  <2>1. UNCHANGED <<schedules, index, reload, floor>>
    BY <1>1 DEF Begin, FetchFX, GetSpot, LookupSchedule, ScanSchedules, Return
  <2>2. RequestInv' /\ DoneInv' /\ ScanInv'
    BY <1>1, <2>1, RequestStep
  <2>3. IndexInv' /\ ReloadInv'
    BY <2>1 DEF PricingInv, IndexInv, ReloadInv, Reloading
  <2> QED BY <2>2, <2>3 DEF PricingInv
<1>2. CASE (\E h \in Reloaders : ReloadStep(h)) \/ RefreshTick
  <2>1. request' = request
    BY <1>2 DEF ReloadStep, ReloadSeed, ReloadCopy, ReloadRebuild, RefreshTick
  <2>2. IndexInv' /\ ReloadInv' /\ floor <= floor'
    BY <1>2, ReloadKeeps DEF PricingInv
  <2>3. floor \in Nat /\ floor' \in Nat /\ request.since \in Nat
    BY <2>2, PricingAssumption DEF PricingInv, ReloadInv, RequestInv, Requests, Generations
  <2>4. RequestInv'
    BY <2>1, <2>2, <2>3 DEF PricingInv, RequestInv
  <2>5. DoneInv' /\ ScanInv'
    BY <2>1 DEF PricingInv, DoneInv, ScanInv, Priced
  <2> QED BY <2>2, <2>4, <2>5 DEF PricingInv
<1>3. CASE UNCHANGED pricingVars
  BY <1>3 DEF pricingVars, PricingInv, IndexInv, ReloadInv, Reloading, RequestInv, DoneInv, ScanInv,
              Priced
<1> QED BY <1>1, <1>2, <1>3 DEF PricingNext

LEMMA PricingInvariant == PricingSpec => []PricingInv
<1>1. PricingInit => PricingInv
  BY PricingInitInv
<1>2. PricingInv /\ [PricingNext]_pricingVars => PricingInv'
  BY PricingStep
<1> QED BY <1>1, <1>2, PTL DEF PricingSpec

\* Type correctness, with an index that is at all times that of one generation
\* (fee_index.go:29-40).
THEOREM PricingTypeCorrect == PricingSpec => []PricingTypeOK
<1>1. PricingInv => PricingTypeOK
  <2> SUFFICES ASSUME PricingInv PROVE PricingTypeOK
    OBVIOUS
  <2>1. index \in {Rebuild(EmptyIndex, FeeSchedules(g)) : g \in Generations}
    BY DEF PricingInv, IndexInv
  <2>2. request.at \in RequestLabels
    BY DEF PricingInv, RequestInv, Requests
  <2> QED BY <2>1, <2>2 DEF PricingInv, ReloadInv, ReloadState, PricingTypeOK, RequestLabels
<1> QED BY <1>1, PricingInvariant, PTL

\* A request that begins after a reload returned is priced by schedules at least as
\* new as those of the earliest reload that was still under way then, its own if
\* there was no other, for any number of overlapping reloads and of refresh ticks
\* between its steps (server.go:547-548, 690-712).
THEOREM ReloadIsSeen == PricingSpec => []ReloadTakesEffect
<1>1. PricingInv => ReloadTakesEffect
  BY DEF PricingInv, DoneInv, ReloadTakesEffect, Priced
<1> QED BY <1>1, PricingInvariant, PTL

\* What the invariant says of a priced request, in the form the numbers need.
LEMMA PricedRequest ==
    ASSUME PricingInv, Priced
    PROVE  /\ request.in \in Inputs /\ request.price \in Nat \ {0} /\ request.leg.fx \in Nat \ {0}
           /\ request.leg.hedge \in Nat /\ request.cross \in BOOLEAN
           /\ ~request.cross => request.leg.hedge = 0
           /\ request.sched \in Schedules
           /\ request.result = PriceBy(request, request.sched)
<1>1. /\ request \in Requests /\ request.in \in Inputs /\ request.price > 0 /\ request.leg.fx > 0
      /\ request.result = PriceBy(request, request.sched) /\ (~request.cross => request.leg = NoLeg)
  BY DEF PricingInv, RequestInv, DoneInv, Priced
<1>2. /\ request.price \in Nat /\ request.leg.fx \in Nat /\ request.leg.hedge \in Nat
      /\ request.cross \in BOOLEAN /\ request.sched \in Schedules
  BY <1>1, RequestNumbers
<1>3. NoLeg.hedge = 0
  BY DEF NoLeg
<1> QED BY <1>1, <1>2, <1>3

\* Every quote has the configured spread and its hedge cost, for any schedules whose
\* bands ascend, wherever the amount lies on them (pricer.go:100-129, fx.go:100).
THEOREM SpreadIsConfigured == PricingSpec => []PricedAsConfigured
<1>1. PricingInv => PricedAsConfigured
  <2> SUFFICES ASSUME PricingInv, Priced
               PROVE  request.result.spread = ConfiguredSpread(request.in) + request.leg.hedge
    BY DEF PricedAsConfigured
  <2>1. request.sched.row.spread = ConfiguredSpread(request.in)
    BY DEF PricingInv, DoneInv
  <2>2. request.result.spread = request.sched.row.spread + request.leg.hedge
    BY PricedRequest, PriceByOK
  <2> QED BY <2>1, <2>2
<1> QED BY <1>1, PricingInvariant, PTL

\* The amounts of every quote fit its rate to half a unit, for any spot price, FX
\* rate, hedge cost and spread (pricer.go:78-86, fx.go:102-111).
THEOREM QuotesAddUp == PricingSpec => []AddsUp
<1>1. PricingInv => AddsUp
  <2> SUFFICES ASSUME PricingInv, Priced, request.cross => request.leg.hedge > 0
               PROVE  LET in == request.in
                          r == request.result
                      IN CASE in.side = "BUY"  -> 2 * Magnitude(r.crypto * r.rate.n - in.amount * r.rate.d)
                                                    <= r.rate.n
                           [] in.side = "SELL" -> 2 * Magnitude((r.total + r.fee) * r.rate.d
                                                                  - in.amount * r.rate.n) <= r.rate.d
    BY DEF AddsUp
  <2>1. Consistent(request.in, request.result)
    BY PricedRequest, PriceByOK
  <2>2. request.in.side \in {"BUY", "SELL"}
    BY PricedRequest, PricingAssumption
  <2>3. CASE request.in.side = "BUY"
    BY <2>1, <2>3 DEF Consistent
  <2>4. CASE request.in.side = "SELL"
    BY <2>1, <2>4 DEF Consistent
  <2> QED BY <2>2, <2>3, <2>4
<1> QED BY <1>1, PricingInvariant, PTL

\* The arithmetic of a round trip: amount a buys c at a spread of b, and c is sold for
\* t before the fee at a spread of s.
LEMMA RoundTrip ==
    ASSUME NEW a \in Nat, NEW price \in Nat \ {0}, NEW b \in Nat, NEW s \in Nat, NEW c \in Nat,
           NEW t \in Int,
           2 * Magnitude(c * (price * (BPS + b)) - a * (1 * BPS)) <= price * (BPS + b),
           2 * Magnitude(t * (1 * BPS) - c * (price * (BPS - s))) <= 1 * BPS
    PROVE  2 * (t - a) <= price + 1
<1>1. PICK x \in Nat : x = c * price
  OBVIOUS
<1>2. PICK e \in Int : e = (2 * x - price) * b
  OBVIOUS
<1>3. PICK f \in Nat : f = x * s
  OBVIOUS
<1>4. c * (price * (BPS + b)) = x * BPS + x * b /\ price * (BPS + b) = price * BPS + price * b
  BY <1>1 DEF BPS
<1>5. c * (price * (BPS - s)) = x * BPS - f
  BY <1>1, <1>3 DEF BPS
<1>6. PICK y \in Nat, z \in Nat : y = x * b /\ z = price * b /\ e = 2 * y - z
  BY <1>2
<1>7. 2 * (x * BPS + y - a * BPS) <= price * BPS + z
  <2>1. \A n \in Int : n <= Magnitude(n)
    BY DEF Magnitude
  <2>2. PICK n \in Int : n = c * (price * (BPS + b)) - a * (1 * BPS)
    BY <1>4, <1>6 DEF BPS
  <2>3. 2 * n <= price * (BPS + b)
    BY <1>4, <1>6, <2>1, <2>2 DEF BPS, Magnitude
  <2> QED BY <1>4, <1>6, <2>2, <2>3 DEF BPS
<1>8. 2 * (t * BPS - x * BPS + f) <= BPS
  <2>1. PICK n \in Int : n = t * (1 * BPS) - c * (price * (BPS - s))
    BY <1>5 DEF BPS
  <2>2. 2 * n <= BPS
    BY <2>1 DEF BPS, Magnitude
  <2> QED BY <1>5, <2>1, <2>2 DEF BPS
<1>9. 2 * x - price <= 2 * a
  <2>1. CASE 2 * x - price >= 0
    <3>1. e >= 0
      BY <1>2, <2>1
    <3> QED BY <1>6, <1>7, <3>1 DEF BPS
  <2>2. CASE ~(2 * x - price >= 0)
    BY <2>2
  <2> QED BY <2>1, <2>2
<1> QED BY <1>8, <1>9 DEF BPS

\* No round trip at one spot price gains more than the rounding, whichever schedules
\* the two sides get from the index (pricer.go:76-87).
THEOREM RoundTripsDoNotGain == PricingSpec => []NoRoundTripGain
<1>1. PricingInv => NoRoundTripGain
  <2> DEFINE back == [tier |-> request.in.tier, asset |-> request.in.asset, side |-> "SELL",
                      amount |-> request.result.crypto]
             sold == Compute(back, request.price, Lookup(back).row)
  <2> SUFFICES ASSUME PricingInv, Priced, ~request.cross, request.in.side = "BUY",
                      request.result.crypto > 0
               PROVE  2 * (sold.total - request.in.amount) <= request.price + 1
    BY DEF NoRoundTripGain
  <2>1. /\ request.in \in Inputs /\ request.price \in Nat \ {0} /\ request.sched \in Schedules
        /\ request.result = Compute(request.in, request.price, request.sched.row)
        /\ request.in.amount \in Nat /\ request.in.side \in {"BUY", "SELL"}
    BY PricedRequest, PricingAssumption DEF PriceBy
  <2>2. PICK s \in Schedules : s = Lookup(back)
    <3>1. PICK g \in Generations : index = Rebuild(EmptyIndex, FeeSchedules(g))
      BY DEF PricingInv, IndexInv
    <3>2. Lookup(back) = IF Hits(back) = {} THEN NoSchedule
                         ELSE [row |-> Seeds[Min(Hits(back))], gen |-> g]
      BY <3>1, LookupFinds
    <3>3. Hits(back) # {} => Min(Hits(back)) \in DOMAIN Seeds
      BY HitsFirst
    <3> QED BY <3>2, <3>3 DEF Schedules
  <2>3. PICK price \in Nat \ {0}, a \in Nat, b \in Nat, r \in Nat :
           /\ price = request.price /\ a = request.in.amount
           /\ b = request.sched.row.spread /\ r = s.row.spread
    BY <2>1, SpreadOfSchedule
  <2>4. /\ request.result \in Results /\ Consistent(request.in, request.result)
        /\ request.result.rate = EffectiveRate("BUY", [n |-> price, d |-> 1], b)
    BY <2>1, <2>3, ComputeOK
  <2>5. PICK c \in Nat : c = request.result.crypto
    BY <2>4 DEF Results
  <2>6. back.side = "SELL" /\ back.amount = c
    BY <2>5
  <2>7. sold = Compute(back, price, s.row)
    BY <2>2, <2>3
  <2> HIDE DEF back, sold
  <2>8. /\ sold \in Results /\ Consistent(back, sold)
        /\ sold.rate = EffectiveRate("SELL", [n |-> price, d |-> 1], r)
    BY <2>3, <2>6, <2>7, ComputeOK
  <2>9. PICK t \in Int : t = sold.total + sold.fee /\ sold.total <= t
    BY <2>8 DEF Results
  <2>10. 2 * Magnitude(c * (price * (BPS + b)) - a * (1 * BPS)) <= price * (BPS + b)
    <3>1. request.result.rate.n = price * (BPS + b) /\ request.result.rate.d = 1 * BPS
      BY <2>4 DEF EffectiveRate
    <3> QED BY <2>3, <2>4, <2>5, <3>1 DEF Consistent
  <2>11. 2 * Magnitude(t * (1 * BPS) - c * (price * (BPS - r))) <= 1 * BPS
    <3>1. sold.rate.n = price * (BPS - r) /\ sold.rate.d = 1 * BPS
      BY <2>8 DEF EffectiveRate
    <3> QED BY <2>6, <2>8, <2>9, <3>1 DEF Consistent
  <2>12. 2 * (t - a) <= price + 1
    BY <2>10, <2>11, RoundTrip
  <2>13. sold.total \in Int
    BY <2>8 DEF Results
  <2> QED BY <2>3, <2>9, <2>12, <2>13
<1> QED BY <1>1, PricingInvariant, PTL
=============================================================================
