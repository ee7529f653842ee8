-------------------------- MODULE SpotServiceProofs --------------------------
(***************************************************************************)
(* Proofs about the spot service, for any pairs, default rates, capacity,  *)
(* numbers of Gets and Updates and interleaving of them: the LRU cache     *)
(* keeps its bound, a reseed never shows a cold cache, a pair that was     *)
(* known is never answered with an error, and breakers open exactly at     *)
(* their threshold.                                                        *)
(***************************************************************************)
EXTENDS SpotService, SequenceTheorems, TLAPS

Item == [key : Pairs, rate : Rate]

\* A cache: within its bound, one entry per pair.
CacheOK(c) ==
    /\ c \in Seq(Item) /\ Len(c) <= Capacity
    /\ \A i, j \in 1..Len(c) : c[i].key = c[j].key => i = j

HeapInv ==
    /\ heap \in Seq(Seq(Item)) /\ cache \in 1..Len(heap)
    /\ \A k \in 1..Len(heap) : CacheOK(heap[k])

CallLabels == {"idle", "lookup", "again", "check", "poll", "reseed", "seed", "reload", "fallback",
               "load", "put", "record", "done"}

Calls == [at : CallLabels, pair : Pairs \cup {Nobody}, cache : Nat, rate : SUBSET Rate, ts : Nat,
          seeded : Nat]

\* What a call has read: once begun it has its pair, and a pointer that it still
\* follows leads to a cache, replaced or not.
CallHeld(c) ==
    /\ call[c].at # "idle" => call[c].pair \in Pairs
    /\ call[c].at \in {"lookup", "again", "put"} => call[c].cache \in 1..Len(heap)

CallInv == call \in [Gets \cup Updates -> Calls] /\ \A c \in Gets \cup Updates : CallHeld(c)

AnswerInv ==
    /\ lastGood \in [Pairs -> SUBSET Rate]
    /\ clock \in 0..Horizon
    /\ answer \in [Gets -> [kind : {"none", "rate", "error"}, rate : SUBSET Rate, stale : BOOLEAN]]
    /\ known \in [Gets -> BOOLEAN]

VenueInv == venues \in [Venues -> [errors : 0..MaxErrors, down : BOOLEAN]] /\ DownAtThreshold

\* The mutex is held by the Get that seeds, and by no other; only while the
\* first default rate is still to be put is the current cache empty.
MutexInv ==
    /\ mu \in Gets \cup {Nobody}
    /\ \A g \in Gets : At(g, "seed") <=> mu = g
    /\ heap[cache] = <<>> => \E g \in Gets : mu = g /\ call[g].seeded = 0

\* A last-good rate is replaced, never removed, and no Get is answered before it begins.
KnownInv ==
    \A g \in Gets : /\ known[g] => call[g].pair \in Pairs /\ lastGood[call[g].pair] # NoRate
                    /\ known[g] \/ At(g, "idle") => answer[g].kind # "error"

\* The inductive invariant.
SpotInv == HeapInv /\ CallInv /\ AnswerInv /\ VenueInv /\ MutexInv /\ KnownInv

-----------------------------------------------------------------------------
(* The LRU list. *)

LEMMA RemoveAtProperties ==
    ASSUME NEW S, NEW c \in Seq(S), NEW i \in 1..Len(c)
    PROVE  /\ RemoveAt(c, i) \in Seq(S)
           /\ Len(RemoveAt(c, i)) = Len(c) - 1
           /\ \A k \in 1..(Len(c) - 1) : RemoveAt(c, i)[k] = IF k < i THEN c[k] ELSE c[k + 1]
<1> DEFINE a == SubSeq(c, 1, i - 1)
           b == SubSeq(c, i + 1, Len(c))
<1>1. a \in Seq(S) /\ Len(a) = i - 1 /\ \A k \in 1..(i - 1) : a[k] = c[k]
  OBVIOUS
<1>2. b \in Seq(S) /\ Len(b) = Len(c) - i /\ \A k \in 1..(Len(c) - i) : b[k] = c[i + k]
  OBVIOUS
<1>3. RemoveAt(c, i) = a \o b
  BY DEF RemoveAt
<1> HIDE DEF a, b
<1>4. /\ a \o b \in Seq(S) /\ Len(a \o b) = Len(c) - 1
  <2>1. a \o b \in Seq(S) /\ Len(a \o b) = Len(a) + Len(b)
    BY <1>1, <1>2, ConcatProperties
  <2> QED BY <1>1, <1>2, <2>1
<1>5. ASSUME NEW k \in 1..(Len(c) - 1) PROVE (a \o b)[k] = IF k < i THEN c[k] ELSE c[k + 1]
  <2>1. CASE k < i
    BY <1>1, <1>2, <2>1
  <2>2. CASE ~(k < i)
    <3>1. (a \o b)[k] = b[k - (i - 1)]
      BY <1>1, <1>2, <2>2
    <3>2. k - (i - 1) \in 1..(Len(c) - i) /\ i + (k - (i - 1)) = k + 1
      BY <2>2
    <3> QED BY <1>2, <2>2, <3>1, <3>2
  <2> QED BY <2>1, <2>2
<1> QED BY <1>3, <1>4, <1>5

LEMMA PlaceOfKey ==
    ASSUME NEW c, NEW p, Has(c, p)
    PROVE  Place(c, p) \in 1..Len(c) /\ c[Place(c, p)].key = p
  BY DEF Has, Place

\* Without keeps a cache a cache and takes out the pair.
LEMMA WithoutOK ==
    ASSUME NEW c, CacheOK(c), NEW p \in Pairs
    PROVE  /\ CacheOK(Without(c, p)) /\ ~Has(Without(c, p), p)
           /\ Has(c, p) => Len(Without(c, p)) = Len(c) - 1
<1> USE SpotAssumption
<1>1. CASE ~Has(c, p)
  BY <1>1 DEF Without
<1>2. CASE Has(c, p)
  <2> DEFINE i == Place(c, p)
             w == RemoveAt(c, i)
  <2>1. i \in 1..Len(c) /\ c[i].key = p /\ Without(c, p) = w /\ c \in Seq(Item)
    BY <1>2, PlaceOfKey DEF Without, CacheOK
  <2> HIDE DEF i
  <2>2. /\ w \in Seq(Item) /\ Len(w) = Len(c) - 1
        /\ \A k \in 1..(Len(c) - 1) : w[k] = IF k < i THEN c[k] ELSE c[k + 1]
    BY <2>1, RemoveAtProperties
  <2> HIDE DEF w
  <2>3. \A k, l \in 1..Len(c) : c[k].key = c[l].key => k = l
    BY DEF CacheOK
  <2>4. \A k, l \in 1..Len(w) : w[k].key = w[l].key => k = l
    <3> SUFFICES ASSUME NEW k \in 1..Len(w), NEW l \in 1..Len(w), w[k].key = w[l].key PROVE k = l
      OBVIOUS
    <3>1. PICK m \in 1..Len(c) : w[k] = c[m] /\ m = IF k < i THEN k ELSE k + 1
      BY <2>1, <2>2
    <3>2. PICK n \in 1..Len(c) : w[l] = c[n] /\ n = IF l < i THEN l ELSE l + 1
      BY <2>1, <2>2
    <3>3. m = n
      BY <2>3, <3>1, <3>2
    <3> QED BY <2>1, <2>2, <3>1, <3>2, <3>3
  <2>5. \A k \in 1..Len(w) : w[k].key # p
    <3> SUFFICES ASSUME NEW k \in 1..Len(w), w[k].key = p PROVE FALSE
      OBVIOUS
    <3>1. PICK m \in 1..Len(c) : w[k] = c[m] /\ m = IF k < i THEN k ELSE k + 1
      BY <2>1, <2>2
    <3>2. m = i
      BY <2>1, <2>3, <3>1
    <3> QED BY <2>1, <2>2, <3>1, <3>2
  <2>6. Len(w) <= Capacity
    BY <2>1, <2>2 DEF CacheOK
  <2> QED BY <2>1, <2>2, <2>4, <2>5, <2>6 DEF CacheOK, Has
<1> QED BY <1>1, <1>2

\* A new entry in front of a cache that has room and no entry for its pair.
LEMMA PushFront ==
    ASSUME NEW c, CacheOK(c), Len(c) < Capacity, NEW e \in Item, ~Has(c, e.key)
    PROVE  CacheOK(<<e>> \o c) /\ <<e>> \o c # <<>>
<1> USE SpotAssumption
<1> DEFINE d == <<e>> \o c
<1>1. c \in Seq(Item) /\ \A k, l \in 1..Len(c) : c[k].key = c[l].key => k = l
  BY DEF CacheOK
<1>2. /\ d \in Seq(Item) /\ Len(d) = Len(c) + 1 /\ d[1] = e
      /\ \A k \in 2..(Len(c) + 1) : d[k] = c[k - 1]
  BY <1>1
<1> HIDE DEF d
<1>3. \A k \in 1..Len(c) : c[k].key # e.key
  BY DEF Has
<1>4. ASSUME NEW k \in 1..Len(d), NEW l \in 1..Len(d), d[k].key = d[l].key PROVE k = l
  <2>1. CASE k = 1 /\ l = 1
    BY <2>1
  <2>2. CASE k = 1 /\ l # 1
    <3>1. l - 1 \in 1..Len(c) /\ d[l] = c[l - 1]
      BY <1>1, <1>2, <2>2
    <3> QED BY <1>2, <1>3, <1>4, <2>2, <3>1
  <2>3. CASE k # 1 /\ l = 1
    <3>1. k - 1 \in 1..Len(c) /\ d[k] = c[k - 1]
      BY <1>1, <1>2, <2>3
    <3> QED BY <1>2, <1>3, <1>4, <2>3, <3>1
  <2>4. CASE k # 1 /\ l # 1
    <3>1. k - 1 \in 1..Len(c) /\ d[k] = c[k - 1] /\ l - 1 \in 1..Len(c) /\ d[l] = c[l - 1]
      BY <1>1, <1>2, <2>4
    <3>2. k - 1 = l - 1
      BY <1>1, <1>4, <3>1
    <3> QED BY <3>2
  <2> QED BY <2>1, <2>2, <2>3, <2>4
<1>5. Len(d) <= Capacity /\ d # <<>>
  BY <1>1, <1>2
<1> QED BY <1>2, <1>4, <1>5 DEF CacheOK, d

\* A cache less its last entry.
LEMMA FrontOK ==
    ASSUME NEW c, CacheOK(c), Len(c) > 0, NEW p, ~Has(c, p)
    PROVE  CacheOK(Front(c)) /\ Len(Front(c)) = Len(c) - 1 /\ ~Has(Front(c), p)
<1> USE SpotAssumption
<1>1. c \in Seq(Item) /\ \A k, l \in 1..Len(c) : c[k].key = c[l].key => k = l
  BY DEF CacheOK
<1>2. /\ Front(c) \in Seq(Item) /\ Len(Front(c)) = Len(c) - 1
      /\ \A k \in 1..(Len(c) - 1) : Front(c)[k] = c[k]
  <2>1. Front(c) = SubSeq(c, 1, Len(c) - 1) /\ Len(c) \in Nat
    BY <1>1 DEF Front
  <2>2. 1 \in Int /\ Len(c) - 1 \in Int /\ \A k \in 1..(Len(c) - 1) : c[k] \in Item
    BY <1>1, <2>1
  <2> DEFINE f == SubSeq(c, 1, Len(c) - 1)
  <2>3. /\ f \in Seq(Item)
        /\ Len(f) = IF 1 <= Len(c) - 1 THEN Len(c) - 1 - 1 + 1 ELSE 0
        /\ \A k \in 1..(Len(c) - 1 - 1 + 1) : f[k] = c[1 + k - 1]
    BY <2>2, SubSeqProperties
  <2>4. Front(c) = f
    BY <2>1
  <2> HIDE DEF f
  <2>5. Len(f) = Len(c) - 1
    <3>1. CASE 1 <= Len(c) - 1
      BY <2>1, <2>3, <3>1
    <3>2. CASE ~(1 <= Len(c) - 1)
      <4>1. PICK n \in Nat : n = Len(c)
        BY <2>1
      <4>2. n = 1
        BY <3>2, <4>1
      <4> QED BY <2>3, <4>1, <4>2
    <3> QED BY <3>1, <3>2
  <2>6. \A k \in 1..(Len(c) - 1) : f[k] = c[k]
    <3>1. Len(c) - 1 - 1 + 1 = Len(c) - 1 /\ \A k \in 1..(Len(c) - 1) : 1 + k - 1 = k
      BY <2>1
    <3> QED BY <2>3, <3>1
  <2> QED BY <2>3, <2>4, <2>5, <2>6
<1>3. \A k \in 1..(Len(c) - 1) : k \in 1..Len(c)
  BY <1>1
<1>4. Len(Front(c)) <= Capacity
  BY <1>1, <1>2 DEF CacheOK
<1> QED BY <1>1, <1>2, <1>3, <1>4 DEF CacheOK, Has

\* put keeps the bound of the cache and one entry per pair (spot.go:44-61).
LEMMA PutOK ==
    ASSUME NEW c, CacheOK(c), NEW p \in Pairs, NEW r \in Rate
    PROVE  CacheOK(Put(c, p, r)) /\ Put(c, p, r) # <<>>
<1> USE SpotAssumption
<1> DEFINE e == [key |-> p, rate |-> r]
<1>1. e \in Item /\ e.key = p /\ Len(c) \in Nat /\ Len(c) <= Capacity
  BY DEF Item, CacheOK
<1>2. CASE ~Has(c, p) /\ Len(c) >= Capacity
  BY <1>1, <1>2, FrontOK, PushFront DEF Put
<1>3. CASE ~(~Has(c, p) /\ Len(c) >= Capacity)
  <2>1. Len(Without(c, p)) < Capacity
    <3>1. CASE Has(c, p)
      BY <1>1, <3>1, WithoutOK
    <3>2. CASE ~Has(c, p)
      BY <1>1, <1>3, <3>2 DEF Without
    <3> QED BY <3>1, <3>2
  <2>2. CacheOK(<<e>> \o Without(c, p)) /\ <<e>> \o Without(c, p) # <<>>
    BY <1>1, <2>1, WithoutOK, PushFront
  <2> QED BY <1>3, <2>2 DEF Put
<1> QED BY <1>2, <1>3

\* get reorders the cache (spot.go:63-72).
LEMMA TouchOK ==
    ASSUME NEW c, CacheOK(c), NEW p \in Pairs
    PROVE  CacheOK(Touch(c, p)) /\ (c # <<>> => Touch(c, p) # <<>>)
<1> USE SpotAssumption
<1>1. CASE ~Has(c, p)
  BY <1>1 DEF Touch
<1>2. CASE Has(c, p)
  <2>1. c[Place(c, p)] \in Item /\ c[Place(c, p)].key = p /\ Len(c) \in Nat /\ Len(c) <= Capacity
    BY <1>2, PlaceOfKey DEF CacheOK
  <2>2. Len(Without(c, p)) < Capacity
    BY <1>2, <2>1, WithoutOK
  <2> QED BY <1>2, <2>1, <2>2, WithoutOK, PushFront DEF Touch
<1> QED BY <1>1, <1>2

LEMMA LookupOK ==
    ASSUME NEW c, CacheOK(c), NEW p
    PROVE  Lookup(c, p) \subseteq Rate
<1>1. \A i \in 1..Len(c) : c[i] \in Item
  BY DEF CacheOK
<1>2. \A i \in 1..Len(c) : c[i].rate \in Rate
  BY <1>1 DEF Item
<1> QED BY <1>2 DEF Lookup

-----------------------------------------------------------------------------
(* Steps on the heap and on calls. *)

\* What NewSpotService leaves behind is a warm cache (spot.go:102-134).
LEMMA SeededOK == CacheOK(Seeded) /\ Seeded # <<>>
<1> USE SpotAssumption
<1> DEFINE n == Len(SeedPairs)
           k == IF n < Capacity THEN n ELSE Capacity
<1>1. n \in Nat \ {0} /\ k \in Nat \ {0} /\ k <= n /\ k <= Capacity
  BY EmptySeq, LenProperties
<1>2. \A i \in 1..k : n + 1 - i \in 1..n
  BY <1>1
<1>3. \A i \in 1..k : SeedPairs[n + 1 - i] \in Pairs
  BY <1>2
<1>4. \A i \in 1..k : [key |-> SeedPairs[n + 1 - i], rate |-> [src |-> Seed, ts |-> 0]] \in Item
  BY <1>3 DEF Item, Rate
<1>5. Seeded = [i \in 1..k |-> [key |-> SeedPairs[n + 1 - i], rate |-> [src |-> Seed, ts |-> 0]]]
  BY DEF Seeded
<1>6. Seeded \in Seq(Item) /\ Len(Seeded) = k
  BY <1>1, <1>4, <1>5, IsASeq
<1>7. ASSUME NEW i \in 1..k, NEW j \in 1..k, Seeded[i].key = Seeded[j].key PROVE i = j
  <2>1. SeedPairs[n + 1 - i] = SeedPairs[n + 1 - j]
    BY <1>5, <1>7
  <2>2. n + 1 - i = n + 1 - j
    BY <1>2, <2>1
  <2> QED BY <1>1, <2>2
<1> QED BY <1>1, <1>6, <1>7 DEF CacheOK

\* Writing one cache of the heap.
LEMMA HeapWrite ==
    ASSUME HeapInv, NEW k \in 1..Len(heap), NEW c, CacheOK(c), heap' = [heap EXCEPT ![k] = c],
           cache' = cache
    PROVE  /\ HeapInv' /\ Len(heap') = Len(heap) /\ heap'[k] = c
           /\ \A j \in 1..Len(heap) : j # k => heap'[j] = heap[j]
<1>1. c \in Seq(Item) /\ heap \in Seq(Seq(Item))
  BY DEF CacheOK, HeapInv
<1>2. /\ heap' \in Seq(Seq(Item)) /\ Len(heap') = Len(heap)
      /\ \A j \in 1..Len(heap) : heap'[j] = IF j = k THEN c ELSE heap[j]
  BY <1>1, ExceptSeq
<1> QED BY <1>2 DEF HeapInv

\* Installing a new cache.
LEMMA HeapSwap ==
    ASSUME HeapInv, heap' = Append(heap, <<>>), cache' = Len(heap) + 1
    PROVE  HeapInv' /\ Len(heap') = Len(heap) + 1 /\ heap'[cache'] = <<>>
<1> USE SpotAssumption
<1>1. <<>> \in Seq(Item) /\ heap \in Seq(Seq(Item)) /\ Len(heap) \in Nat
  BY DEF HeapInv
<1>2. /\ heap' \in Seq(Seq(Item)) /\ Len(heap') = Len(heap) + 1
      /\ \A j \in 1..Len(heap) : heap'[j] = heap[j]
      /\ heap'[Len(heap) + 1] = <<>>
  BY <1>1, AppendProperties
<1>3. CacheOK(<<>>)
  BY <1>1 DEF CacheOK
<1>4. \A j \in 1..Len(heap') : CacheOK(heap'[j])
  <2> SUFFICES ASSUME NEW j \in 1..Len(heap') PROVE CacheOK(heap'[j])
    OBVIOUS
  <2>1. CASE j \in 1..Len(heap)
    BY <1>2, <2>1 DEF HeapInv
  <2>2. CASE j = Len(heap) + 1
    BY <1>2, <1>3, <2>2
  <2> QED BY <1>1, <1>2, <2>1, <2>2
<1>5. cache' \in 1..Len(heap')
  BY <1>1, <1>2
<1> QED BY <1>2, <1>4, <1>5 DEF HeapInv

\* A call that goes on to label l and keeps its locals.
LEMMA GoMoves ==
    ASSUME CallInv, NEW c \in Gets \cup Updates, NEW l \in CallLabels, Go(c, l)
    PROVE  /\ call' \in [Gets \cup Updates -> Calls]
           /\ call'[c].at = l /\ call'[c].pair = call[c].pair /\ call'[c].cache = call[c].cache
           /\ call'[c].seeded = call[c].seeded
           /\ \A d \in Gets \cup Updates : d # c => call'[d] = call[d]
<1>1. call[c] \in Calls /\ call \in [Gets \cup Updates -> Calls]
  BY DEF CallInv
<1>2. [call[c] EXCEPT !.at = l] \in Calls
  BY <1>1 DEF Calls
<1>3. call' = [call EXCEPT ![c] = [call[c] EXCEPT !.at = l]]
  BY DEF Go
<1> QED BY <1>1, <1>2, <1>3 DEF Calls

\* Only call c moves, and the heap does not shrink.
LEMMA CallFrame ==
    ASSUME CallInv, HeapInv, HeapInv', Len(heap) <= Len(heap'), NEW c \in Gets \cup Updates,
           call' \in [Gets \cup Updates -> Calls], CallHeld(c)',
           \A d \in Gets \cup Updates : d # c => call'[d] = call[d]
    PROVE  CallInv'
<1>1. Len(heap) \in Nat /\ Len(heap') \in Nat
  BY DEF HeapInv
<1>2. 1..Len(heap) \subseteq 1..Len(heap')
  BY <1>1
<1>3. ASSUME NEW d \in Gets \cup Updates, d # c PROVE CallHeld(d)'
  BY <1>2, <1>3 DEF CallInv, CallHeld
<1> QED BY <1>3 DEF CallInv

\* KnownInv survives a step in which no pair loses its last-good rate, no call
\* changes its pair or becomes idle, and no Get of a known pair is told an error.
LEMMA KnownFrame ==
    ASSUME KnownInv, known' = known,
           \A p \in Pairs : lastGood[p] # NoRate => lastGood'[p] # NoRate,
           \A g \in Gets : call'[g].pair = call[g].pair,
           \A g \in Gets : call'[g].at = "idle" => call[g].at = "idle" /\ answer'[g] = answer[g],
           \A g \in Gets : known[g] => answer'[g] = answer[g] \/ answer'[g].kind # "error"
    PROVE  KnownInv'
  BY DEF KnownInv, At

\* MutexInv survives a step that leaves the mutex and the seeding alone and
\* empties no cache.
LEMMA MutexFrame ==
    ASSUME MutexInv, mu' = mu,
           \A g \in Gets : call'[g].at = "seed" <=> call[g].at = "seed",
           \A g \in Gets : call'[g].seeded = call[g].seeded,
           heap'[cache'] = <<>> => heap[cache] = <<>>
    PROVE  MutexInv'
  BY DEF MutexInv, At

-----------------------------------------------------------------------------
(* The breakers: every write of a venue writes the counter and the flag. *)

LEMMA VenueWrite ==
    ASSUME VenueInv, NEW v \in Venues, NEW n \in 0..MaxErrors, NEW d \in BOOLEAN,
           d <=> n >= ErrorThreshold, venues' = [venues EXCEPT ![v] = [errors |-> n, down |-> d]]
    PROVE  VenueInv'
<1>1. [errors |-> n, down |-> d] \in [errors : 0..MaxErrors, down : BOOLEAN]
  OBVIOUS
<1>2. venues' \in [Venues -> [errors : 0..MaxErrors, down : BOOLEAN]]
  BY <1>1 DEF VenueInv
<1>3. \A w \in Venues : venues'[w] = IF w = v THEN [errors |-> n, down |-> d] ELSE venues[w]
  BY DEF VenueInv
<1>4. ASSUME NEW w \in Venues PROVE venues'[w].down <=> venues'[w].errors >= ErrorThreshold
  <2>1. CASE w = v
    BY <1>3, <2>1
  <2>2. CASE w # v
    BY <1>3, <2>2 DEF VenueInv, DownAtThreshold, IsVenueDown
  <2> QED BY <2>1, <2>2
<1> QED BY <1>2, <1>4 DEF VenueInv, DownAtThreshold, IsVenueDown

LEMMA VenueStep ==
    ASSUME VenueInv, [SpotNext]_spotVars
    PROVE  VenueInv'
<1> USE SpotAssumption
<1>1. 0 \in 0..MaxErrors /\ FALSE \in BOOLEAN /\ ~(0 >= ErrorThreshold)
  OBVIOUS
<1>2. ASSUME NEW v \in Venues, RecordVenueSuccess(v) \/ HalfOpenProbe(v) PROVE VenueInv'
  BY <1>1, <1>2, VenueWrite DEF RecordVenueSuccess, HalfOpenProbe, NewVenue
<1>3. ASSUME NEW v \in Venues, RecordVenueError(v) PROVE VenueInv'
  <2>1. venues[v] \in [errors : 0..MaxErrors, down : BOOLEAN]
    BY DEF VenueInv
  <2>2. PICK n \in 0..MaxErrors : n = venues[v].errors + 1
    BY <1>3, <2>1 DEF RecordVenueError
  <2>3. PICK d \in BOOLEAN : d = (venues[v].down \/ venues[v].errors + 1 >= ErrorThreshold)
    BY <2>1
  <2>4. venues' = [venues EXCEPT ![v] = [errors |-> n, down |-> d]]
    BY <1>3, <2>2, <2>3 DEF RecordVenueError
  <2>5. venues[v].down <=> venues[v].errors >= ErrorThreshold
    BY DEF VenueInv, DownAtThreshold, IsVenueDown
  <2>6. n >= ErrorThreshold <=> venues[v].errors >= ErrorThreshold \/ n >= ErrorThreshold
    BY <2>1, <2>2
  <2>7. d <=> n >= ErrorThreshold
    BY <2>2, <2>3, <2>5, <2>6
  <2> QED BY <2>4, <2>7, VenueWrite
<1>4. ASSUME NEW g \in Gets, ReSeedDone(g) PROVE VenueInv'
  <2>1. \A v \in Venues : venues'[v] = NewVenue \/ venues'[v] = venues[v]
    BY <1>4 DEF ReSeedDone
  <2>2. NewVenue \in [errors : 0..MaxErrors, down : BOOLEAN]
    BY <1>1 DEF NewVenue
  <2>3. venues' \in [Venues -> [errors : 0..MaxErrors, down : BOOLEAN]]
    BY <1>4, <2>2 DEF ReSeedDone, VenueInv
  <2>4. NewVenue.down = FALSE /\ NewVenue.errors = 0
    BY DEF NewVenue
  <2>5. ASSUME NEW v \in Venues PROVE venues'[v].down <=> venues'[v].errors >= ErrorThreshold
    <3>1. CASE venues'[v] = NewVenue
      BY <1>1, <2>4, <3>1
    <3>2. CASE venues'[v] = venues[v]
      BY <3>2 DEF VenueInv, DownAtThreshold, IsVenueDown
    <3> QED BY <2>1, <3>1, <3>2
  <2> QED BY <2>3, <2>5 DEF VenueInv, DownAtThreshold, IsVenueDown
<1>5. venues' = venues => VenueInv'
  BY DEF VenueInv, DownAtThreshold, IsVenueDown
<1>6. ASSUME NEW g \in Gets, GetStep(g) \/ \E p \in Pairs : GetBegin(g, p) PROVE VenueInv'
  BY <1>4, <1>5, <1>6 DEF GetStep, ReSeed, GetLookup, GetCheck, GetPoll, GetReload, GetFallback,
       ReSeedSwap, ReSeedPut, GetBegin, UpdateStep, UpdateLoad, UpdatePut, UpdateRecord
<1>7. ASSUME NEW u \in Updates, UpdateStep(u) \/ \E p \in Pairs : UpdateBegin(u, p) PROVE VenueInv'
  BY <1>5, <1>7 DEF UpdateStep, UpdateLoad, UpdatePut, UpdateRecord, UpdateBegin
<1>8. SpotTick \/ UNCHANGED spotVars => VenueInv'
  BY <1>5 DEF SpotTick, spotVars
<1> QED BY <1>2, <1>3, <1>6, <1>7, <1>8 DEF SpotNext

-----------------------------------------------------------------------------
(* The steps of Get, one lemma each for those that write. *)

\* What all but the venue steps keep.
CallsInv == HeapInv /\ CallInv /\ AnswerInv /\ MutexInv /\ KnownInv

\* A call whose record becomes r.
LEMMA CallWrite ==
    ASSUME CallInv, NEW c \in Gets \cup Updates, NEW r \in Calls, call' = [call EXCEPT ![c] = r]
    PROVE  /\ call' \in [Gets \cup Updates -> Calls] /\ call'[c] = r
           /\ \A d \in Gets \cup Updates : d # c => call'[d] = call[d]
  BY DEF CallInv

LEMMA GetBeginStep ==
    ASSUME CallsInv, NEW g \in Gets, NEW p \in Pairs, GetBegin(g, p)
    PROVE  CallsInv'
<1> USE SpotAssumption DEF CallsInv
<1>1. call[g] \in Calls /\ call[g].at = "idle"
  BY DEF CallInv, GetBegin, At
<1>2. cache \in 1..Len(heap) /\ cache \in Nat
  BY DEF HeapInv
<1> DEFINE r == [call[g] EXCEPT !.at = "lookup", !.pair = p, !.cache = cache]
<1>3. r \in Calls /\ r.at = "lookup" /\ r.pair = p /\ r.cache = cache /\ r.seeded = call[g].seeded
  BY <1>1, <1>2 DEF Calls, CallLabels
<1>4. call' = [call EXCEPT ![g] = r]
  BY DEF GetBegin
<1> HIDE DEF r
<1>5. /\ call' \in [Gets \cup Updates -> Calls] /\ call'[g] = r
      /\ \A d \in Gets \cup Updates : d # g => call'[d] = call[d]
  BY <1>3, <1>4, CallWrite
<1>6. HeapInv' /\ heap' = heap
  BY DEF GetBegin, HeapInv
<1>7. CallInv'
  <2>1. CallHeld(g)'
    BY <1>2, <1>3, <1>5, <1>6 DEF CallHeld
  <2>2. Len(heap) <= Len(heap')
    BY <1>2, <1>6 DEF HeapInv
  <2> QED BY <1>5, <1>6, <2>1, <2>2, CallFrame
<1>8. known' = [known EXCEPT ![g] = lastGood[p] # NoRate] /\ lastGood' = lastGood /\ answer' = answer
  BY DEF GetBegin
<1>9. AnswerInv'
  BY <1>8, Zenon DEF AnswerInv, GetBegin
<1>10. MutexInv'
  BY <1>1, <1>3, <1>5, MutexFrame DEF GetBegin
<1>11. KnownInv'
  <2>1. ASSUME NEW h \in Gets, h # g PROVE call'[h] = call[h] /\ known'[h] = known[h]
    BY <1>5, <1>8, <2>1 DEF AnswerInv
  <2>2. known'[g] = (lastGood[p] # NoRate)
    BY <1>8 DEF AnswerInv
  <2>3. answer[g].kind # "error"
    BY <1>1 DEF KnownInv, At
  <2>4. ASSUME NEW h \in Gets
        PROVE  /\ known'[h] => call'[h].pair \in Pairs /\ lastGood[call'[h].pair] # NoRate
               /\ known'[h] \/ call'[h].at = "idle" => answer[h].kind # "error"
    <3>1. CASE h = g
      BY <1>3, <1>5, <2>2, <2>3, <3>1
    <3>2. CASE h # g
      BY <2>1, <3>2 DEF KnownInv, At
    <3> QED BY <3>1, <3>2
  <2> QED BY <1>8, <2>4 DEF KnownInv, At
<1> QED BY <1>6, <1>7, <1>9, <1>10, <1>11

\* What an answer with a rate does.
LEMMA AnswerRate ==
    ASSUME AnswerInv, NEW g \in Gets, NEW r \in SUBSET Rate, NEW k \in {"rate", "error"},
           NEW b \in BOOLEAN, answer' = [answer EXCEPT ![g] = [kind |-> k, rate |-> r, stale |-> b]],
           UNCHANGED <<lastGood, clock, known>>
    PROVE  /\ AnswerInv' /\ answer'[g].kind = k
           /\ \A h \in Gets : h # g => answer'[h] = answer[h]
<1>1. [kind |-> k, rate |-> r, stale |-> b]
        \in [kind : {"none", "rate", "error"}, rate : SUBSET Rate, stale : BOOLEAN]
  OBVIOUS
<1>2. answer' \in [Gets -> [kind : {"none", "rate", "error"}, rate : SUBSET Rate, stale : BOOLEAN]]
  BY <1>1 DEF AnswerInv
<1>3. /\ answer'[g] = [kind |-> k, rate |-> r, stale |-> b]
      /\ \A h \in Gets : h # g => answer'[h] = answer[h]
  BY DEF AnswerInv
<1> QED BY <1>2, <1>3 DEF AnswerInv

\* A call that moves between two labels outside seed(), and does not change the
\* mutex or empty the current cache.
LEMMA CallMoves ==
    ASSUME CallsInv, NEW c \in Gets \cup Updates, NEW x \in Calls, call' = [call EXCEPT ![c] = x],
           x.at \notin {"idle", "seed"}, call[c].at # "seed", x.pair \in Pairs,
           c \in Gets => x.pair = call[c].pair, x.seeded = call[c].seeded,
           x.at \in {"lookup", "again", "put"} => x.cache \in 1..Len(heap),
           HeapInv', Len(heap') = Len(heap), heap'[cache'] = <<>> => heap[cache] = <<>>,
           UNCHANGED <<mu, known>>, AnswerInv',
           \A p \in Pairs : lastGood[p] # NoRate => lastGood'[p] # NoRate,
           \A h \in Gets : \/ answer'[h] = answer[h]
                           \/ h = c /\ (known[h] => answer'[h].kind # "error")
    PROVE  CallsInv'
<1> USE DEF CallsInv
<1>1. /\ call' \in [Gets \cup Updates -> Calls] /\ call'[c] = x
      /\ \A d \in Gets \cup Updates : d # c => call'[d] = call[d]
  BY CallWrite
<1>2. CallInv'
  <2>1. CallHeld(c)'
    BY <1>1 DEF CallHeld
  <2>2. Len(heap) <= Len(heap')
    BY DEF HeapInv
  <2> QED BY <1>1, <2>1, <2>2, CallFrame
<1>3. \A h \in Gets : /\ call'[h].pair = call[h].pair /\ call'[h].seeded = call[h].seeded
                      /\ call'[h].at = "idle" => call[h].at = "idle" /\ answer'[h] = answer[h]
                      /\ call'[h].at = "seed" <=> call[h].at = "seed"
  BY <1>1
<1>4. MutexInv'
  BY <1>3, MutexFrame
<1>5. KnownInv'
  BY <1>3, KnownFrame
<1> QED BY <1>2, <1>4, <1>5

\* The same for a call that keeps its locals.
LEMMA GoesOn ==
    ASSUME CallsInv, NEW c \in Gets \cup Updates, NEW l \in {"poll", "reseed", "fallback", "record", "done"},
           Go(c, l), call[c].at \notin {"idle", "seed"},
           HeapInv', Len(heap') = Len(heap), heap'[cache'] = <<>> => heap[cache] = <<>>,
           UNCHANGED <<mu, known>>, AnswerInv',
           \A p \in Pairs : lastGood[p] # NoRate => lastGood'[p] # NoRate,
           \A h \in Gets : \/ answer'[h] = answer[h]
                           \/ h = c /\ (known[h] => answer'[h].kind # "error")
    PROVE  CallsInv'
<1> DEFINE x == [call[c] EXCEPT !.at = l]
<1>1. call[c] \in Calls /\ call[c].pair \in Pairs
  BY DEF CallsInv, CallInv, CallHeld
<1>2. x \in Calls /\ x.at = l /\ x.pair = call[c].pair /\ x.seeded = call[c].seeded
  BY <1>1 DEF Calls, CallLabels
<1>3. call' = [call EXCEPT ![c] = x]
  BY DEF Go
<1> HIDE DEF x
<1>4. x.at \notin {"idle", "seed"} /\ x.at \notin {"lookup", "again", "put"}
  BY <1>2
<1> QED BY <1>1, <1>2, <1>3, <1>4, CallMoves

\* A Get that goes on or answers with a rate, and touches nothing else.
LEMMA GetMoves ==
    ASSUME CallsInv, NEW g \in Gets, NEW l \in {"poll", "reseed", "fallback", "done"}, Go(g, l),
           call[g].at \notin {"idle", "seed"}, UNCHANGED <<lastGood, mu, clock, known>>,
           HeapInv', Len(heap') = Len(heap), heap'[cache'] = <<>> => heap[cache] = <<>>,
           \/ UNCHANGED answer
           \/ \E r \in SUBSET Rate :
                 answer' = [answer EXCEPT ![g] = [kind |-> "rate", rate |-> r, stale |-> FALSE]]
    PROVE  CallsInv'
<1>1. /\ AnswerInv'
      /\ \A h \in Gets : answer'[h] = answer[h] \/ (h = g /\ answer'[h].kind # "error")
  <2>1. CASE UNCHANGED answer
    BY <2>1 DEF CallsInv, AnswerInv
  <2>2. CASE \E r \in SUBSET Rate :
               answer' = [answer EXCEPT ![g] = [kind |-> "rate", rate |-> r, stale |-> FALSE]]
    <3>1. PICK r \in SUBSET Rate :
               answer' = [answer EXCEPT ![g] = [kind |-> "rate", rate |-> r, stale |-> FALSE]]
      BY <2>2
    <3>2. /\ AnswerInv' /\ answer'[g].kind = "rate"
          /\ \A h \in Gets : h # g => answer'[h] = answer[h]
      BY <3>1, AnswerRate DEF CallsInv
    <3> QED BY <3>2
  <2> QED BY <2>1, <2>2
<1>2. \A p \in Pairs : lastGood[p] # NoRate => lastGood'[p] # NoRate
  OBVIOUS
<1> QED BY <1>1, <1>2, GoesOn

LEMMA GetLookupStep ==
    ASSUME CallsInv, NEW g \in Gets, GetLookup(g)
    PROVE  CallsInv'
<1> USE SpotAssumption
<1>1. /\ call[g] \in Calls /\ call[g].at \in {"lookup", "again"}
      /\ call[g].pair \in Pairs /\ call[g].cache \in 1..Len(heap)
  BY DEF CallsInv, CallInv, CallHeld, GetLookup, At
<1>2. PICK k \in 1..Len(heap), p \in Pairs : k = call[g].cache /\ p = call[g].pair
  BY <1>1
<1>3. CacheOK(heap[k]) /\ heap' = [heap EXCEPT ![k] = Touch(heap[k], p)] /\ cache' = cache
  BY <1>2 DEF CallsInv, HeapInv, GetLookup
<1>4. /\ HeapInv' /\ Len(heap') = Len(heap) /\ heap'[k] = Touch(heap[k], p)
      /\ \A j \in 1..Len(heap) : j # k => heap'[j] = heap[j]
  BY <1>3, TouchOK, HeapWrite DEF CallsInv
<1>5. heap'[cache'] = <<>> => heap[cache] = <<>>
  BY <1>3, <1>4, TouchOK DEF CallsInv, HeapInv
<1> DEFINE r == Lookup(heap[k], p)
<1>6. r \in SUBSET Rate
  BY <1>3, LookupOK
<1>7. \/ Go(g, "fallback") /\ UNCHANGED answer
      \/ call' = [call EXCEPT ![g].at = "check", ![g].rate = r] /\ UNCHANGED answer
      \/ /\ Go(g, "done")
         /\ answer' = [answer EXCEPT ![g] = [kind |-> "rate", rate |-> r, stale |-> FALSE]]
  BY <1>2 DEF GetLookup
<1>8. UNCHANGED <<lastGood, mu, clock, known>>
  BY DEF GetLookup
<1> HIDE DEF r
<1>9. CASE Go(g, "fallback") /\ UNCHANGED answer
  BY <1>1, <1>4, <1>5, <1>8, <1>9, GetMoves
<1>10. CASE /\ Go(g, "done")
            /\ answer' = [answer EXCEPT ![g] = [kind |-> "rate", rate |-> r, stale |-> FALSE]]
  BY <1>1, <1>4, <1>5, <1>6, <1>8, <1>10, GetMoves
<1>11. CASE call' = [call EXCEPT ![g].at = "check", ![g].rate = r] /\ UNCHANGED answer
  <2> DEFINE x == [call[g] EXCEPT !.at = "check", !.rate = r]
  <2>1. x \in Calls /\ x.at = "check" /\ x.pair = call[g].pair /\ x.seeded = call[g].seeded
    BY <1>1, <1>6 DEF Calls, CallLabels
  <2>2. call' = [call EXCEPT ![g] = x]
    BY <1>11
  <2> HIDE DEF x
  <2>3. AnswerInv'
    BY <1>8, <1>11 DEF CallsInv, AnswerInv
  <2> QED BY <1>1, <1>4, <1>5, <1>8, <1>11, <2>1, <2>2, <2>3, CallMoves
<1> QED BY <1>7, <1>9, <1>10, <1>11

\* GetCheck, GetPoll, GetReload and GetFallback leave the heap alone.
LEMMA GetStayStep ==
    ASSUME CallsInv, NEW g \in Gets, GetCheck(g) \/ GetPoll(g) \/ GetReload(g) \/ GetFallback(g)
    PROVE  CallsInv'
<1> USE SpotAssumption
<1>1. call[g] \in Calls /\ call[g].at \in {"check", "poll", "reload", "fallback"}
  BY DEF CallsInv, CallInv, GetCheck, GetPoll, GetReload, GetFallback, At
<1>2. UNCHANGED <<heap, cache, lastGood, mu, clock, known>>
  BY DEF GetCheck, GetPoll, GetReload, GetFallback
<1>3. /\ HeapInv' /\ Len(heap') = Len(heap) /\ (heap'[cache'] = <<>> => heap[cache] = <<>>)
      /\ \A p \in Pairs : lastGood[p] # NoRate => lastGood'[p] # NoRate
  BY <1>2 DEF CallsInv, HeapInv
<1>4. call[g].pair \in Pairs /\ call[g].rate \in SUBSET Rate
  BY <1>1 DEF CallsInv, CallInv, CallHeld, Calls
<1>5. CASE GetCheck(g)
  <2>1. \/ Go(g, "done") /\ answer' = [answer EXCEPT ![g] = [kind |-> "rate", rate |-> call[g].rate,
                                                             stale |-> FALSE]]
        \/ \E l \in {"poll", "reseed"} : Go(g, l) /\ UNCHANGED answer
    BY <1>5 DEF GetCheck
  <2> QED BY <1>1, <1>2, <1>3, <1>4, <2>1, GetMoves
<1>6. CASE GetPoll(g)
  <2>1. clock \in Nat /\ {[src |-> Polled, ts |-> clock]} \in SUBSET Rate
    BY DEF CallsInv, AnswerInv, Rate
  <2>2. \/ Go(g, "done") /\ answer' = [answer EXCEPT ![g] = PolledAnswer(clock)]
        \/ call' = [call EXCEPT ![g].at = "load", ![g].ts = clock] /\ UNCHANGED answer
        \/ Go(g, "reseed") /\ UNCHANGED answer
    BY <1>6 DEF GetPoll
  <2>3. CASE Go(g, "reseed") /\ UNCHANGED answer
    BY <1>1, <1>2, <1>3, <2>3, GetMoves
  <2>4. CASE Go(g, "done") /\ answer' = [answer EXCEPT ![g] = PolledAnswer(clock)]
    <3>1. PICK r \in SUBSET Rate : r = {[src |-> Polled, ts |-> clock]}
      BY <2>1
    <3>2. answer' = [answer EXCEPT ![g] = [kind |-> "rate", rate |-> r, stale |-> FALSE]]
      BY <2>4, <3>1 DEF PolledAnswer
    <3> QED BY <1>1, <1>2, <1>3, <2>4, <3>2, GetMoves
  <2>5. CASE call' = [call EXCEPT ![g].at = "load", ![g].ts = clock] /\ UNCHANGED answer
    <3> DEFINE x == [call[g] EXCEPT !.at = "load", !.ts = clock]
    <3>1. x \in Calls /\ x.at = "load" /\ x.pair = call[g].pair /\ x.seeded = call[g].seeded
      BY <1>1, <2>1 DEF Calls, CallLabels
    <3>2. call' = [call EXCEPT ![g] = x]
      BY <2>5
    <3> HIDE DEF x
    <3>3. AnswerInv'
      BY <1>2, <2>5 DEF CallsInv, AnswerInv
    <3> QED BY <1>1, <1>2, <1>3, <1>4, <2>5, <3>1, <3>2, <3>3, CallMoves
  <2> QED BY <2>2, <2>3, <2>4, <2>5
<1>7. CASE GetReload(g)
  <2> DEFINE x == [call[g] EXCEPT !.at = "again", !.cache = cache]
  <2>1. cache \in Nat /\ cache \in 1..Len(heap)
    BY DEF CallsInv, HeapInv
  <2>2. /\ x \in Calls /\ x.at = "again" /\ x.pair = call[g].pair /\ x.seeded = call[g].seeded
        /\ x.cache = cache
    BY <1>1, <2>1 DEF Calls, CallLabels
  <2>3. call' = [call EXCEPT ![g] = x] /\ answer' = answer
    BY <1>7 DEF GetReload
  <2> HIDE DEF x
  <2>4. AnswerInv'
    BY <1>2, <2>3 DEF CallsInv, AnswerInv
  <2> QED BY <1>1, <1>2, <1>3, <1>4, <2>1, <2>2, <2>3, <2>4, CallMoves
<1>8. CASE GetFallback(g)
  <2>1. PICK p \in Pairs : p = call[g].pair
    BY <1>4
  <2>2. PICK k \in {"rate", "error"} : k = IF lastGood[p] = NoRate THEN "error" ELSE "rate"
    OBVIOUS
  <2>3. PICK b \in BOOLEAN : b = (lastGood[p] # NoRate)
    OBVIOUS
  <2>4. lastGood[p] \in SUBSET Rate
    BY DEF CallsInv, AnswerInv
  <2>5. answer' = [answer EXCEPT ![g] = [kind |-> k, rate |-> lastGood[p], stale |-> b]]
    BY <1>8, <2>1, <2>2, <2>3 DEF GetFallback
  <2>6. /\ AnswerInv' /\ answer'[g].kind = k
        /\ \A h \in Gets : h # g => answer'[h] = answer[h]
    BY <1>2, <2>4, <2>5, AnswerRate DEF CallsInv
  <2>7. known[g] => k = "rate"
    BY <2>1, <2>2 DEF CallsInv, KnownInv
  <2> QED BY <1>1, <1>2, <1>3, <1>8, <2>6, <2>7, GoesOn DEF GetFallback
<1> QED BY <1>5, <1>6, <1>7, <1>8

-----------------------------------------------------------------------------
(* The steps of seed(). *)

\* A Get that takes a step of seed(): the parts of the invariant that are alike.
LEMMA SeedFrame ==
    ASSUME CallsInv, NEW g \in Gets, NEW x \in Calls, call' = [call EXCEPT ![g] = x],
           x.at \in {"seed", "reload"}, call[g].at \in {"reseed", "seed"}, x.pair = call[g].pair,
           HeapInv', Len(heap) <= Len(heap'), UNCHANGED <<clock, answer, known>>,
           lastGood' \in [Pairs -> SUBSET Rate],
           \A p \in Pairs : lastGood[p] # NoRate => lastGood'[p] # NoRate
    PROVE  /\ CallInv' /\ AnswerInv' /\ KnownInv' /\ call'[g] = x
           /\ \A h \in Gets : h # g => call'[h] = call[h]
<1> USE DEF CallsInv
<1>1. /\ call' \in [Gets \cup Updates -> Calls] /\ call'[g] = x
      /\ \A d \in Gets \cup Updates : d # g => call'[d] = call[d]
  BY CallWrite
<1>2. CallHeld(g)'
  BY <1>1 DEF CallHeld, CallInv
<1>3. CallInv'
  BY <1>1, <1>2, CallFrame
<1>4. AnswerInv'
  BY DEF AnswerInv
<1>5. \A h \in Gets : /\ call'[h].pair = call[h].pair
                      /\ call'[h].at = "idle" => call[h].at = "idle" /\ answer'[h] = answer[h]
                      /\ known[h] => answer'[h] = answer[h]
  BY <1>1
<1>6. KnownInv'
  BY <1>5, KnownFrame
<1> QED BY <1>1, <1>3, <1>4, <1>6

LEMMA ReSeedSwapStep ==
    ASSUME CallsInv, NEW g \in Gets, ReSeedSwap(g)
    PROVE  CallsInv'
<1> USE SpotAssumption
<1>1. call[g] \in Calls /\ call[g].at = "reseed" /\ mu = Nobody /\ mu' = g
  BY DEF CallsInv, CallInv, ReSeedSwap, At
<1>2. HeapInv' /\ Len(heap') = Len(heap) + 1
  BY HeapSwap DEF CallsInv, ReSeedSwap
<1>3. Len(heap) <= Len(heap')
  BY <1>2 DEF CallsInv, HeapInv
<1> DEFINE x == [call[g] EXCEPT !.at = "seed", !.ts = clock, !.seeded = 0]
<1>4. clock \in Nat
  BY DEF CallsInv, AnswerInv
<1>5. x \in Calls /\ x.at = "seed" /\ x.pair = call[g].pair /\ x.seeded = 0
  BY <1>1, <1>4 DEF Calls, CallLabels
<1>6. call' = [call EXCEPT ![g] = x] /\ UNCHANGED <<lastGood, clock, answer, known>>
  BY DEF ReSeedSwap
<1> HIDE DEF x
<1>7. lastGood' \in [Pairs -> SUBSET Rate] /\ \A p \in Pairs : lastGood'[p] = lastGood[p]
  BY <1>6 DEF CallsInv, AnswerInv
<1>8. /\ CallInv' /\ AnswerInv' /\ KnownInv' /\ call'[g] = x
      /\ \A h \in Gets : h # g => call'[h] = call[h]
  BY <1>1, <1>2, <1>3, <1>5, <1>6, <1>7, SeedFrame
<1>9. MutexInv'
  <2>1. \A h \in Gets : ~At(h, "seed")
    BY <1>1 DEF CallsInv, MutexInv
  <2>2. \A h \in Gets : call'[h].at = "seed" <=> h = g
    BY <1>5, <1>8, <2>1 DEF At
  <2> QED BY <1>1, <1>5, <1>8, <2>2 DEF MutexInv, At
<1> QED BY <1>2, <1>8, <1>9 DEF CallsInv

LEMMA ReSeedPutStep ==
    ASSUME CallsInv, NEW g \in Gets, ReSeedPut(g)
    PROVE  CallsInv'
<1> USE SpotAssumption
<1>1. /\ call[g] \in Calls /\ call[g].at = "seed" /\ mu' = mu /\ cache' = cache
      /\ call[g].seeded \in Nat /\ call[g].seeded < Len(SeedPairs) /\ call[g].ts \in Nat
  BY DEF CallsInv, CallInv, ReSeedPut, At, Calls
<1>2. PICK p \in Pairs : p = SeedPairs[call[g].seeded + 1]
  <2>1. call[g].seeded + 1 \in 1..Len(SeedPairs)
    BY <1>1, LenProperties
  <2> QED BY <2>1
<1>3. PICK r \in Rate : r = [src |-> Seed, ts |-> call[g].ts]
  BY <1>1 DEF Rate
<1>4. CacheOK(heap[cache]) /\ cache \in 1..Len(heap)
  BY DEF CallsInv, HeapInv
<1>5. heap' = [heap EXCEPT ![cache] = Put(heap[cache], p, r)] /\ lastGood' = [lastGood EXCEPT ![p] = {r}]
  BY <1>2, <1>3 DEF ReSeedPut
<1>6. CacheOK(Put(heap[cache], p, r)) /\ Put(heap[cache], p, r) # <<>>
  BY <1>4, PutOK
<1>7. HeapInv' /\ Len(heap') = Len(heap) /\ heap'[cache'] # <<>>
  BY <1>1, <1>4, <1>5, <1>6, HeapWrite DEF CallsInv
<1>8. Len(heap) <= Len(heap')
  BY <1>7 DEF HeapInv
<1> DEFINE n == call[g].seeded + 1
           x == [call[g] EXCEPT !.seeded = n]
<1>9. x \in Calls /\ x.at = "seed" /\ x.pair = call[g].pair
  <2>1. n \in Nat
    BY <1>1
  <2> HIDE DEF n
  <2> QED BY <1>1, <2>1 DEF Calls, CallLabels
<1>10. call' = [call EXCEPT ![g] = x] /\ UNCHANGED <<clock, answer, known>>
  BY DEF ReSeedPut
<1> HIDE DEF x
<1>11. /\ lastGood' \in [Pairs -> SUBSET Rate]
       /\ \A q \in Pairs : lastGood[q] # NoRate => lastGood'[q] # NoRate
  BY <1>5 DEF CallsInv, AnswerInv, NoRate
<1>12. /\ CallInv' /\ AnswerInv' /\ KnownInv' /\ call'[g] = x
       /\ \A h \in Gets : h # g => call'[h] = call[h]
  BY <1>1, <1>7, <1>8, <1>9, <1>10, <1>11, SeedFrame
<1>13. MutexInv'
  <2>1. \A h \in Gets : call'[h].at = "seed" <=> call[h].at = "seed"
    BY <1>1, <1>9, <1>12
  <2> QED BY <1>1, <1>7, <2>1 DEF CallsInv, MutexInv, At
<1> QED BY <1>7, <1>12, <1>13 DEF CallsInv

LEMMA ReSeedDoneStep ==
    ASSUME CallsInv, NEW g \in Gets, ReSeedDone(g)
    PROVE  CallsInv'
<1> USE SpotAssumption
<1>1. /\ call[g] \in Calls /\ call[g].at = "seed" /\ mu = g /\ mu' = Nobody
      /\ call[g].seeded = Len(SeedPairs)
  BY DEF CallsInv, CallInv, MutexInv, ReSeedDone, At
<1>2. UNCHANGED <<heap, cache, lastGood, clock, answer, known>> /\ Go(g, "reload")
  BY DEF ReSeedDone
<1>3. HeapInv' /\ Len(heap) <= Len(heap')
  BY <1>2 DEF CallsInv, HeapInv
<1> DEFINE x == [call[g] EXCEPT !.at = "reload"]
<1>4. x \in Calls /\ x.at = "reload" /\ x.pair = call[g].pair
  BY <1>1 DEF Calls, CallLabels
<1>5. call' = [call EXCEPT ![g] = x]
  BY <1>2 DEF Go
<1> HIDE DEF x
<1>6. lastGood' \in [Pairs -> SUBSET Rate] /\ \A p \in Pairs : lastGood'[p] = lastGood[p]
  BY <1>2 DEF CallsInv, AnswerInv
<1>7. /\ CallInv' /\ AnswerInv' /\ KnownInv' /\ call'[g] = x
      /\ \A h \in Gets : h # g => call'[h] = call[h]
  BY <1>1, <1>2, <1>3, <1>4, <1>5, <1>6, SeedFrame
<1>8. heap[cache] # <<>>
  <2>1. Len(SeedPairs) # 0
    BY EmptySeq, LenProperties
  <2> QED BY <1>1, <2>1 DEF CallsInv, MutexInv
<1>9. MutexInv'
  <2>1. \A h \in Gets : h # g => call[h].at # "seed"
    BY <1>1 DEF CallsInv, MutexInv, At
  <2>2. \A h \in Gets : call'[h].at # "seed" /\ h # Nobody
    BY <1>4, <1>7, <2>1
  <2> QED BY <1>1, <1>2, <1>8, <2>2 DEF MutexInv, At
<1> QED BY <1>3, <1>7, <1>9 DEF CallsInv

-----------------------------------------------------------------------------
(* The steps of Update. *)

LEMMA UpdateBeginStep ==
    ASSUME CallsInv, NEW u \in Updates, NEW p \in Pairs, UpdateBegin(u, p)
    PROVE  CallsInv'
<1> USE SpotAssumption
<1>1. call[u] \in Calls /\ call[u].at = "idle" /\ clock \in Nat
  BY DEF CallsInv, CallInv, AnswerInv, UpdateBegin, At
<1> DEFINE x == [call[u] EXCEPT !.at = "load", !.pair = p, !.ts = clock]
<1>2. x \in Calls /\ x.at = "load" /\ x.pair = p /\ x.seeded = call[u].seeded
  BY <1>1 DEF Calls, CallLabels
<1>3. call' = [call EXCEPT ![u] = x] /\ UNCHANGED <<heap, cache, lastGood, mu, clock, answer, known>>
  BY DEF UpdateBegin
<1> HIDE DEF x
<1>4. HeapInv' /\ Len(heap') = Len(heap) /\ AnswerInv' /\ u \notin Gets
  BY <1>3 DEF CallsInv, HeapInv, AnswerInv
<1> QED BY <1>1, <1>2, <1>3, <1>4, CallMoves

LEMMA UpdateLoadStep ==
    ASSUME CallsInv, NEW u \in Gets \cup Updates, UpdateLoad(u)
    PROVE  CallsInv'
<1> USE SpotAssumption
<1>1. /\ call[u] \in Calls /\ call[u].at = "load" /\ call[u].pair \in Pairs
      /\ cache \in Nat /\ cache \in 1..Len(heap)
  BY DEF CallsInv, CallInv, CallHeld, HeapInv, UpdateLoad, At
<1> DEFINE x == [call[u] EXCEPT !.at = "put", !.cache = cache]
<1>2. /\ x \in Calls /\ x.at = "put" /\ x.pair = call[u].pair /\ x.seeded = call[u].seeded
      /\ x.cache = cache
  BY <1>1 DEF Calls, CallLabels
<1>3. call' = [call EXCEPT ![u] = x] /\ UNCHANGED <<heap, cache, lastGood, mu, clock, answer, known>>
  BY DEF UpdateLoad
<1> HIDE DEF x
<1>4. HeapInv' /\ Len(heap') = Len(heap) /\ AnswerInv'
  BY <1>3 DEF CallsInv, HeapInv, AnswerInv
<1> QED BY <1>1, <1>2, <1>3, <1>4, CallMoves

\* What an Update brings is a rate.
LEMMA BroughtIsRate ==
    ASSUME NEW c, call[c].ts \in Nat
    PROVE  Brought(c) \in Rate
<1>1. CASE c \in Updates
  BY <1>1 DEF Brought, Rate
<1>2. CASE c \notin Updates
  BY <1>2 DEF Brought, Rate
<1> QED BY <1>1, <1>2

LEMMA UpdatePutStep ==
    ASSUME CallsInv, NEW u \in Gets \cup Updates, UpdatePut(u)
    PROVE  CallsInv'
<1> USE SpotAssumption
<1>1. call[u] \in Calls /\ call[u].at = "put" /\ call[u].ts \in Nat
  BY DEF CallsInv, CallInv, UpdatePut, At, Calls
<1>2. PICK k \in 1..Len(heap), p \in Pairs : k = call[u].cache /\ p = call[u].pair
  BY <1>1 DEF CallsInv, CallInv, CallHeld
<1>3. PICK r \in Rate : r = Brought(u)
  BY <1>1, BroughtIsRate
<1>4. /\ CacheOK(heap[k]) /\ heap' = [heap EXCEPT ![k] = Put(heap[k], p, r)] /\ Go(u, "record")
      /\ UNCHANGED <<cache, lastGood, mu, clock, answer, known>>
  BY <1>2, <1>3 DEF CallsInv, HeapInv, UpdatePut
<1>5. /\ HeapInv' /\ Len(heap') = Len(heap) /\ heap'[k] # <<>>
      /\ \A j \in 1..Len(heap) : j # k => heap'[j] = heap[j]
  <2>1. CacheOK(Put(heap[k], p, r)) /\ Put(heap[k], p, r) # <<>>
    BY <1>4, PutOK
  <2> QED BY <1>4, <2>1, HeapWrite DEF CallsInv
<1>6. heap'[cache'] = <<>> => heap[cache] = <<>>
  BY <1>4, <1>5 DEF CallsInv, HeapInv
<1>7. AnswerInv'
  BY <1>4 DEF CallsInv, AnswerInv
<1> QED BY <1>1, <1>4, <1>5, <1>6, <1>7, GoesOn

LEMMA UpdateRecordStep ==
    ASSUME CallsInv, NEW u \in Gets \cup Updates, UpdateRecord(u)
    PROVE  CallsInv'
<1> USE SpotAssumption
<1>1. call[u] \in Calls /\ call[u].at = "record" /\ call[u].ts \in Nat
  BY DEF CallsInv, CallInv, UpdateRecord, At, Calls
<1>2. PICK p \in Pairs : p = call[u].pair
  BY <1>1 DEF CallsInv, CallInv, CallHeld
<1>3. PICK r \in Rate : r = Brought(u)
  BY <1>1, BroughtIsRate
<1>4. /\ lastGood' = [lastGood EXCEPT ![p] = {r}] /\ Go(u, "done")
      /\ UNCHANGED <<heap, cache, mu, clock, known>>
      /\ answer' = IF u \in Gets THEN [answer EXCEPT ![u] = PolledAnswer(call[u].ts)] ELSE answer
  BY <1>2, <1>3 DEF UpdateRecord
<1>5. /\ lastGood' \in [Pairs -> SUBSET Rate]
      /\ \A q \in Pairs : lastGood[q] # NoRate => lastGood'[q] # NoRate
  BY <1>4 DEF CallsInv, AnswerInv, NoRate
<1>6. HeapInv' /\ Len(heap') = Len(heap)
  BY <1>4 DEF CallsInv, HeapInv
<1>7. /\ PolledAnswer(call[u].ts)
            \in [kind : {"none", "rate", "error"}, rate : SUBSET Rate, stale : BOOLEAN]
      /\ PolledAnswer(call[u].ts).kind = "rate"
  BY <1>1 DEF PolledAnswer, Rate
<1>8. /\ answer' \in [Gets -> [kind : {"none", "rate", "error"}, rate : SUBSET Rate, stale : BOOLEAN]]
      /\ \A h \in Gets : answer'[h] = answer[h] \/ (h = u /\ answer'[h].kind # "error")
  BY <1>4, <1>7 DEF CallsInv, AnswerInv
<1>9. AnswerInv'
  BY <1>4, <1>5, <1>8 DEF CallsInv, AnswerInv
<1> QED BY <1>1, <1>4, <1>5, <1>6, <1>8, <1>9, GoesOn

-----------------------------------------------------------------------------
(* The invariant of the whole service. *)

LEMMA SpotInitInv == SpotInit => SpotInv
<1> USE SpotAssumption
<1> SUFFICES ASSUME SpotInit PROVE SpotInv
  OBVIOUS
<1>1. HeapInv /\ heap[cache] # <<>>
  <2>1. heap = <<Seeded>> /\ cache = 1 /\ Seeded \in Seq(Item)
    BY SeededOK DEF SpotInit, CacheOK
  <2>2. heap \in Seq(Seq(Item)) /\ Len(heap) = 1 /\ heap[1] = Seeded
    BY <2>1
  <2> QED BY <2>1, <2>2, SeededOK DEF HeapInv
<1>2. Idle \in Calls /\ Idle.at = "idle"
  BY DEF Idle, Calls, CallLabels, NoRate
<1>3. call \in [Gets \cup Updates -> Calls] /\ \A c \in Gets \cup Updates : call[c].at = "idle"
  BY <1>2 DEF SpotInit
<1>4. CallInv
  BY <1>3 DEF CallInv, CallHeld
<1>5. \A g \in Gets : answer[g].kind = "none" /\ known[g] = FALSE
  BY DEF SpotInit, NoAnswer
<1>6. AnswerInv
  <2>1. {[src |-> Seed, ts |-> 0]} \in SUBSET Rate /\ NoRate \in SUBSET Rate
    BY DEF Rate, NoRate
  <2>2. lastGood \in [Pairs -> SUBSET Rate] /\ clock \in 0..Horizon
    BY <2>1 DEF SpotInit
  <2>3. answer \in [Gets -> [kind : {"none", "rate", "error"}, rate : SUBSET Rate, stale : BOOLEAN]]
    BY <2>1 DEF SpotInit, NoAnswer
  <2>4. known \in [Gets -> BOOLEAN]
    BY DEF SpotInit
  <2> QED BY <2>2, <2>3, <2>4 DEF AnswerInv
<1>7. VenueInv
  <2>1. NewVenue \in [errors : 0..MaxErrors, down : BOOLEAN]
    BY DEF NewVenue
  <2>2. venues \in [Venues -> [errors : 0..MaxErrors, down : BOOLEAN]]
    BY <2>1 DEF SpotInit
  <2>3. \A v \in Venues : venues[v].down = FALSE /\ venues[v].errors = 0
    BY DEF SpotInit, NewVenue
  <2> QED BY <2>2, <2>3 DEF VenueInv, DownAtThreshold, IsVenueDown
<1>8. MutexInv
  BY <1>1, <1>3 DEF SpotInit, MutexInv, At
<1>9. KnownInv
  BY <1>5 DEF KnownInv
<1> QED BY <1>1, <1>4, <1>6, <1>7, <1>8, <1>9 DEF SpotInv

LEMMA SpotStep == SpotInv /\ [SpotNext]_spotVars => SpotInv'
<1> SUFFICES ASSUME SpotInv, [SpotNext]_spotVars PROVE SpotInv'
  OBVIOUS
<1>1. VenueInv'
  BY VenueStep DEF SpotInv
<1>2. CallsInv
  BY DEF SpotInv, CallsInv
<1>3. ASSUME NEW g \in Gets, GetStep(g) \/ \E p \in Pairs : GetBegin(g, p) PROVE CallsInv'
  BY <1>2, <1>3, GetBeginStep, GetLookupStep, GetStayStep, ReSeedSwapStep, ReSeedPutStep,
     ReSeedDoneStep, UpdateLoadStep, UpdatePutStep, UpdateRecordStep
     DEF GetStep, ReSeed, UpdateStep
<1>4. ASSUME NEW u \in Updates, UpdateStep(u) \/ \E p \in Pairs : UpdateBegin(u, p) PROVE CallsInv'
  BY <1>2, <1>4, UpdateBeginStep, UpdateLoadStep, UpdatePutStep, UpdateRecordStep DEF UpdateStep
<1>5. ASSUME UNCHANGED <<heap, cache, lastGood, mu, call, answer, known>>, clock' \in 0..Horizon
      PROVE  CallsInv'
  BY <1>2, <1>5 DEF CallsInv, HeapInv, CallInv, CallHeld, AnswerInv, MutexInv, KnownInv, At
<1>6. clock \in 0..Horizon
  BY <1>2 DEF CallsInv, AnswerInv
<1>7. ASSUME NEW v \in Venues, RecordVenueError(v) \/ RecordVenueSuccess(v) \/ HalfOpenProbe(v)
      PROVE  CallsInv'
  BY <1>5, <1>6, <1>7 DEF RecordVenueError, RecordVenueSuccess, HalfOpenProbe
<1>8. ASSUME SpotTick PROVE CallsInv'
  <2>1. clock' \in 0..Horizon
    BY <1>6, <1>8, SpotAssumption DEF SpotTick
  <2> QED BY <1>5, <1>8, <2>1 DEF SpotTick
<1>9. ASSUME UNCHANGED spotVars PROVE CallsInv'
  BY <1>5, <1>6, <1>9 DEF spotVars
<1>10. CallsInv'
  BY <1>3, <1>4, <1>7, <1>8, <1>9 DEF SpotNext
<1> QED BY <1>1, <1>10 DEF SpotInv, CallsInv

LEMMA SpotInvariant == SpotSpec => []SpotInv
<1>1. SpotInit => SpotInv
  BY SpotInitInv
<1>2. SpotInv /\ [SpotNext]_spotVars => SpotInv'
  BY SpotStep
<1> QED BY <1>1, <1>2, PTL DEF SpotSpec

\* Type correctness, with the bound of every LRU cache that was ever current and
\* one entry per pair in it (spot.go:23-72), whatever Gets, Updates and reseeds
\* do to a cache that has been replaced under them.
THEOREM SpotTypeCorrect == SpotSpec => []SpotTypeOK
<1>1. SpotInv => SpotTypeOK
  <2> SUFFICES ASSUME SpotInv PROVE SpotTypeOK
    OBVIOUS
  <2>1. ASSUME NEW c \in 1..Len(heap)
        PROVE  /\ Len(heap[c]) <= Capacity
               /\ \A i \in 1..Len(heap[c]) : heap[c][i].key \in Pairs /\ heap[c][i].rate \in Rate
               /\ \A i, j \in 1..Len(heap[c]) : heap[c][i].key = heap[c][j].key => i = j
    <3>1. CacheOK(heap[c])
      BY DEF SpotInv, HeapInv
    <3>2. \A i \in 1..Len(heap[c]) : heap[c][i] \in Item
      BY <3>1 DEF CacheOK
    <3> QED BY <3>1, <3>2 DEF CacheOK, Item
  <2>2. \A g \in Gets : answer[g] \in [kind : {"none", "rate", "error"}, rate : SUBSET Rate,
                                      stale : BOOLEAN]
    BY DEF SpotInv, AnswerInv
  <2>3. \A g \in Gets : /\ answer[g].kind \in {"none", "rate", "error"}
                        /\ answer[g].stale \in BOOLEAN
                        /\ answer[g].rate \subseteq Rate
                        /\ known[g] \in BOOLEAN
    BY <2>2 DEF SpotInv, AnswerInv
  <2>4. \A p \in Pairs : lastGood[p] \subseteq Rate
    BY DEF SpotInv, AnswerInv
  <2>5. /\ cache \in 1..Len(heap) /\ clock \in 0..Horizon /\ mu \in Gets \cup {Nobody}
        /\ venues \in [Venues -> [errors : 0..MaxErrors, down : BOOLEAN]]
    BY DEF SpotInv, HeapInv, AnswerInv, MutexInv, VenueInv
  <2> QED BY <2>1, <2>3, <2>4, <2>5, Zenon DEF SpotTypeOK, IsPartOfRates
<1> QED BY <1>1, SpotInvariant, PTL

\* A Get of a pair with a last-good rate is never answered with an error, however
\* its entry was evicted or its cache replaced (spot.go:198-207).
THEOREM KnownPairsAreAnswered == SpotSpec => []KnownPairAnswered
<1>1. SpotInv => KnownPairAnswered
  BY DEF SpotInv, KnownInv, KnownPairAnswered
<1> QED BY <1>1, SpotInvariant, PTL

\* IsReady never sees the empty cache of a reseed that is under way (spot.go:102-134,
\* 159-163): whenever the mutex is free the current cache has an entry.
THEOREM ReadyIsNeverCold == SpotSpec => []NeverCold
<1>1. SpotInv => NeverCold
  BY SpotAssumption DEF SpotInv, MutexInv, NeverCold, IsReady
<1> QED BY <1>1, SpotInvariant, PTL

\* A venue is down exactly from the threshold on (spot.go:219-263, and the venues
\* that a reseed makes anew).
THEOREM BreakerOpensAtThreshold == SpotSpec => []DownAtThreshold
<1>1. SpotInv => DownAtThreshold
  BY DEF SpotInv, VenueInv
<1> QED BY <1>1, SpotInvariant, PTL
=============================================================================
