----------------------------- MODULE SpotService -----------------------------
(***************************************************************************)
(* The spot-rate lookup of spot.go: an LRU cache with its own mutex behind *)
(* a pointer, a last-good map under SpotService.mu, and seed(), which runs *)
(* under mu, swaps in an empty cache and fills it entry by entry.          *)
(*                                                                         *)
(* Get and Update read the cache pointer without holding mu, so they may   *)
(* work on a cache that seed() has replaced, or has not filled yet.  Every *)
(* cache ever made is in heap.  Each call of Get or Update is a goroutine. *)
(***************************************************************************)
EXTENDS Naturals, Sequences, SequencesExt

CONSTANTS Pairs,
          SeedPairs,    \* the pairs seed() has default rates for, in its order
          Gets,         \* calls of Get
          Updates,      \* calls of Update; each brings a rate of its own
          Seed,         \* marks a default rate
          Polled,       \* marks a rate the poll hook returned
          Nobody,
          HasPollHook,  \* whether SetPollHook was called
          Capacity,     \* lruCache.cap
          MaxStaleAge,  \* MAX_STALE_AGE_MS, in clock ticks
          Venues,
          VenueOrder,   \* the venues that seed() knows
          ErrorThreshold,
          MaxErrors,    \* bound: errors counted per venue
          Horizon       \* bound: largest clock value

ASSUME SpotAssumption ==
    /\ SeedPairs \in Seq(Pairs) /\ SeedPairs # <<>>
    /\ \A i, j \in 1..Len(SeedPairs) : SeedPairs[i] = SeedPairs[j] => i = j
    /\ Capacity \in Nat \ {0} /\ MaxStaleAge \in Nat /\ Horizon \in Nat
    /\ HasPollHook \in BOOLEAN
    /\ VenueOrder \subseteq Venues
    /\ ErrorThreshold \in Nat \ {0} /\ MaxErrors \in Nat
    /\ Gets \cap Updates = {} /\ Nobody \notin Gets \cup Pairs
    /\ Seed # Polled /\ {Seed, Polled} \cap Updates = {}

VARIABLES heap,      \* the contents of every cache, most recently used first
          cache,     \* SpotService.cache: which of them is current
          lastGood,  \* SpotService.lastGood, {} where it has no entry
          venues,    \* SpotService.venues: the error counter and down flag of each
          mu,        \* the Get that holds SpotService.mu from step to step
          clock,     \* time.Now()
          call,      \* where each call is, and its locals
          answer,    \* what each Get returned
          known      \* history: whether its pair had a last-good rate when a Get began

spotVars == <<heap, cache, lastGood, venues, mu, clock, call, answer, known>>

Rate == [src : Updates \cup {Seed, Polled}, ts : Nat]

NoRate == {}     \* (Rate{}, false); a rate r that was found is {r}

Idle == [at |-> "idle", pair |-> Nobody, cache |-> 0, rate |-> NoRate, ts |-> 0, seeded |-> 0]

\* A venue that is not in the map and one that was just made behave alike.
NewVenue == [errors |-> 0, down |-> FALSE]

NoAnswer == [kind |-> "none", rate |-> NoRate, stale |-> FALSE]

IsPartOfRates(s) == \A r \in s : r \in Rate

SpotTypeOK ==
    /\ \A c \in 1..Len(heap) :
          /\ Len(heap[c]) <= Capacity
          /\ \A i \in 1..Len(heap[c]) : heap[c][i].key \in Pairs /\ heap[c][i].rate \in Rate
          /\ \A i, j \in 1..Len(heap[c]) : heap[c][i].key = heap[c][j].key => i = j
    /\ cache \in 1..Len(heap)
    /\ \A p \in Pairs : IsPartOfRates(lastGood[p])
    /\ venues \in [Venues -> [errors : 0..MaxErrors, down : BOOLEAN]]
    /\ mu \in Gets \cup {Nobody}
    /\ clock \in 0..Horizon
    /\ \A g \in Gets : /\ answer[g].kind \in {"none", "rate", "error"}
                       /\ answer[g].stale \in BOOLEAN
                       /\ IsPartOfRates(answer[g].rate)
                       /\ known[g] \in BOOLEAN

-----------------------------------------------------------------------------
(* lruCache *)

Has(c, p) == \E i \in 1..Len(c) : c[i].key = p

Lookup(c, p) == {c[i].rate : i \in {j \in 1..Len(c) : c[j].key = p}}

\* Where lruCache.items finds the entry of p in the list.
Place(c, p) == CHOOSE i \in 1..Len(c) : c[i].key = p

Without(c, p) == IF Has(c, p) THEN RemoveAt(c, Place(c, p)) ELSE c

\* Mutant of Put: the cache is let grow one entry past its bound.
PutLate(c, p, r) ==
    <<[key |-> p, rate |-> r]>>
        \o (IF ~Has(c, p) /\ Len(c) > Capacity THEN Front(c) ELSE Without(c, p))

\* A new key evicts the least recently used one when the cache is full.
Put(c, p, r) ==
    <<[key |-> p, rate |-> r]>>
        \o (IF ~Has(c, p) /\ Len(c) >= Capacity THEN Front(c) ELSE Without(c, p))

\* get moves the entry to the front.
Touch(c, p) == IF Has(c, p) THEN <<c[Place(c, p)]>> \o Without(c, p) ELSE c

-----------------------------------------------------------------------------

\* What NewSpotService leaves behind: seed() has run once, before any caller, and
\* the last of its pairs, as many as fit, are in the cache.
Seeded ==
    LET n == Len(SeedPairs)
    IN [i \in 1..(IF n < Capacity THEN n ELSE Capacity) |->
          [key |-> SeedPairs[n + 1 - i], rate |-> [src |-> Seed, ts |-> 0]]]

SpotInit ==
    /\ heap = <<Seeded>>
    /\ cache = 1
    /\ lastGood = [p \in Pairs |-> IF p \in ToSet(SeedPairs) THEN {[src |-> Seed, ts |-> 0]}
                                                             ELSE NoRate]
    /\ venues = [v \in Venues |-> NewVenue]
    /\ mu = Nobody
    /\ clock = 0
    /\ call = [c \in Gets \cup Updates |-> Idle]
    /\ answer = [g \in Gets |-> NoAnswer]
    /\ known = [g \in Gets |-> FALSE]

At(c, l) == call[c].at = l

Go(c, l) == call' = [call EXCEPT ![c].at = l]

-----------------------------------------------------------------------------
(* Get *)

\* s.cache.get(key) begins with reading the pointer.
GetBegin(g, p) ==
    /\ At(g, "idle")
    /\ call' = [call EXCEPT ![g].at = "lookup", ![g].pair = p, ![g].cache = cache]
    /\ known' = [known EXCEPT ![g] = lastGood[p] # NoRate]
    /\ UNCHANGED <<heap, cache, lastGood, venues, mu, clock, answer>>

\* The lookup itself, under the mutex of the cache the pointer led to.  The first
\* one goes on to the age check, the one after a reseed is returned as it is.
GetLookup(g) ==
    /\ At(g, "lookup") \/ At(g, "again")
    /\ LET c == call[g].cache
           p == call[g].pair
           r == Lookup(heap[c], p)
       IN /\ heap' = [heap EXCEPT ![c] = Touch(@, p)]
          /\ IF r = NoRate
               THEN Go(g, "fallback") /\ UNCHANGED answer
             ELSE IF At(g, "lookup")
               THEN call' = [call EXCEPT ![g].at = "check", ![g].rate = r] /\ UNCHANGED answer
             ELSE /\ Go(g, "done")
                  /\ answer' = [answer EXCEPT ![g] = [kind |-> "rate", rate |-> r, stale |-> FALSE]]
    /\ UNCHANGED <<cache, lastGood, venues, mu, clock, known>>

Fresh(r) == clock - r.ts <= MaxStaleAge

GetCheck(g) ==
    /\ At(g, "check")
    /\ IF \E r \in call[g].rate : Fresh(r)
         THEN /\ Go(g, "done")
              /\ answer' = [answer EXCEPT ![g] = [kind |-> "rate", rate |-> call[g].rate,
                                                  stale |-> FALSE]]
         ELSE Go(g, IF HasPollHook THEN "poll" ELSE "reseed") /\ UNCHANGED answer
    /\ UNCHANGED <<heap, cache, lastGood, venues, mu, clock, known>>

PolledAnswer(ts) == [kind |-> "rate", rate |-> {[src |-> Polled, ts |-> ts]}, stale |-> FALSE]

\* The hook answers with a rate, which is returned, at once or after it has called
\* Update with it as pollFallback does; or it answers with nothing.
GetPoll(g) ==
    /\ At(g, "poll")
    /\ \/ Go(g, "done") /\ answer' = [answer EXCEPT ![g] = PolledAnswer(clock)]
       \/ call' = [call EXCEPT ![g].at = "load", ![g].ts = clock] /\ UNCHANGED answer
       \/ Go(g, "reseed") /\ UNCHANGED answer
    /\ UNCHANGED <<heap, cache, lastGood, venues, mu, clock, known>>

\* Mutant of ReSeedSwap: seed() starts over with an empty last-good map as well.
ReSeedSwapForgets(g) ==
    /\ At(g, "reseed")
    /\ mu = Nobody
    /\ mu' = g
    /\ heap' = Append(heap, <<>>)
    /\ cache' = Len(heap) + 1
    /\ call' = [call EXCEPT ![g].at = "seed", ![g].ts = clock, ![g].seeded = 0]
    /\ lastGood' = [p \in Pairs |-> NoRate]
    /\ UNCHANGED <<venues, clock, answer, known>>

\* Mutant of ReSeedSwap: the swap does not take the mutex.
ReSeedSwapUnlocked(g) ==
    /\ At(g, "reseed")
    /\ heap' = Append(heap, <<>>)
    /\ cache' = Len(heap) + 1
    /\ call' = [call EXCEPT ![g].at = "seed", ![g].ts = clock, ![g].seeded = 0]
    /\ UNCHANGED <<lastGood, venues, mu, clock, answer, known>>

\* ReSeed takes the mutex; seed() reads the time and installs an empty cache.
ReSeedSwap(g) ==
    /\ At(g, "reseed")
    /\ mu = Nobody
    /\ mu' = g
    /\ heap' = Append(heap, <<>>)
    /\ cache' = Len(heap) + 1
    /\ call' = [call EXCEPT ![g].at = "seed", ![g].ts = clock, ![g].seeded = 0]
    /\ UNCHANGED <<lastGood, venues, clock, answer, known>>

\* One turn of seed()'s loop.
ReSeedPut(g) ==
    /\ At(g, "seed")
    /\ call[g].seeded < Len(SeedPairs)
    /\ LET p == SeedPairs[call[g].seeded + 1]
           r == [src |-> Seed, ts |-> call[g].ts]
       IN /\ heap' = [heap EXCEPT ![cache] = Put(@, p, r)]
          /\ lastGood' = [lastGood EXCEPT ![p] = {r}]
    /\ call' = [call EXCEPT ![g].seeded = @ + 1]
    /\ UNCHANGED <<cache, venues, mu, clock, answer, known>>

\* Mutant of ReSeedDone: the mutex is not released.
ReSeedDoneHolds(g) ==
    /\ At(g, "seed")
    /\ call[g].seeded = Len(SeedPairs)
    /\ Go(g, "reload")
    /\ UNCHANGED <<heap, cache, lastGood, venues, mu, clock, answer, known>>

\* seed() ends with new venues, whatever their breakers said; ReSeed unlocks.
ReSeedDone(g) ==
    /\ At(g, "seed")
    /\ call[g].seeded = Len(SeedPairs)
    /\ venues' = [v \in Venues |-> IF v \in VenueOrder THEN NewVenue ELSE venues[v]]
    /\ mu' = Nobody
    /\ Go(g, "reload")
    /\ UNCHANGED <<heap, cache, lastGood, clock, answer, known>>

\* ReSeed: the mutex is held from the first of these steps to the last.
ReSeed(g) == ReSeedSwap(g) \/ ReSeedPut(g) \/ ReSeedDone(g)

\* seed() sets ready once, before any caller; what remains is the warm cache.
IsReady == heap[cache] # <<>>

\* The pointer is read again, after the mutex was released.
GetReload(g) ==
    /\ At(g, "reload")
    /\ call' = [call EXCEPT ![g].at = "again", ![g].cache = cache]
    /\ UNCHANGED <<heap, cache, lastGood, venues, mu, clock, answer, known>>

GetFallback(g) ==
    /\ At(g, "fallback")
    /\ mu = Nobody
    /\ LET lg == lastGood[call[g].pair]
       IN answer' = [answer EXCEPT ![g] =
                        [kind |-> IF lg = NoRate THEN "error" ELSE "rate", rate |-> lg,
                         stale |-> lg # NoRate]]
    /\ Go(g, "done")
    /\ UNCHANGED <<heap, cache, lastGood, venues, mu, clock, known>>

-----------------------------------------------------------------------------
(* Update, called by a goroutine of its own or by the hook of a Get. *)

UpdateBegin(u, p) ==
    /\ At(u, "idle")
    /\ call' = [call EXCEPT ![u].at = "load", ![u].pair = p, ![u].ts = clock]
    /\ UNCHANGED <<heap, cache, lastGood, venues, mu, clock, answer, known>>

UpdateLoad(c) ==
    /\ At(c, "load")
    /\ call' = [call EXCEPT ![c].at = "put", ![c].cache = cache]
    /\ UNCHANGED <<heap, cache, lastGood, venues, mu, clock, answer, known>>

Brought(c) == [src |-> IF c \in Updates THEN c ELSE Polled, ts |-> call[c].ts]

UpdatePut(c) ==
    /\ At(c, "put")
    /\ heap' = [heap EXCEPT ![call[c].cache] = Put(@, call[c].pair, Brought(c))]
    /\ Go(c, "record")
    /\ UNCHANGED <<cache, lastGood, venues, mu, clock, answer, known>>

\* The last-good map under the mutex, then the onUpdate callback and return; a hook
\* returns the rate to its Get, which returns it.
UpdateRecord(c) ==
    /\ At(c, "record")
    /\ mu = Nobody
    /\ lastGood' = [lastGood EXCEPT ![call[c].pair] = {Brought(c)}]
    /\ answer' = IF c \in Gets THEN [answer EXCEPT ![c] = PolledAnswer(call[c].ts)] ELSE answer
    /\ Go(c, "done")
    /\ UNCHANGED <<heap, cache, venues, mu, clock, known>>

-----------------------------------------------------------------------------
(* The circuit breaker of a venue. *)

\* Mutant of RecordVenueError: the counter has to pass the threshold.
RecordVenueErrorLate(v) ==
    /\ mu = Nobody
    /\ venues[v].errors < MaxErrors
    /\ venues' = [venues EXCEPT ![v] = [errors |-> @.errors + 1,
                                        down |-> @.down \/ @.errors >= ErrorThreshold]]
    /\ UNCHANGED <<heap, cache, lastGood, mu, clock, call, answer, known>>

RecordVenueError(v) ==
    /\ mu = Nobody
    /\ venues[v].errors < MaxErrors
    /\ venues' = [venues EXCEPT ![v] = [errors |-> @.errors + 1,
                                        down |-> @.down \/ @.errors + 1 >= ErrorThreshold]]
    /\ UNCHANGED <<heap, cache, lastGood, mu, clock, call, answer, known>>

RecordVenueSuccess(v) ==
    /\ mu = Nobody
    /\ venues' = [venues EXCEPT ![v] = NewVenue]
    /\ UNCHANGED <<heap, cache, lastGood, mu, clock, call, answer, known>>

IsVenueDown(v) == venues[v].down

\* A probe is let through to a venue that is down.
HalfOpenProbe(v) ==
    /\ mu = Nobody
    /\ IsVenueDown(v)
    /\ venues' = [venues EXCEPT ![v] = NewVenue]
    /\ UNCHANGED <<heap, cache, lastGood, mu, clock, call, answer, known>>

SpotTick ==
    /\ clock < Horizon
    /\ clock' = clock + 1
    /\ UNCHANGED <<heap, cache, lastGood, venues, mu, call, answer, known>>

-----------------------------------------------------------------------------

UpdateStep(c) == UpdateLoad(c) \/ UpdatePut(c) \/ UpdateRecord(c)

GetStep(g) ==
    \/ GetLookup(g) \/ GetCheck(g) \/ GetPoll(g) \/ GetReload(g) \/ GetFallback(g)
    \/ ReSeed(g) \/ UpdateStep(g)

SpotNext ==
    \/ \E g \in Gets : GetStep(g) \/ \E p \in Pairs : GetBegin(g, p)
    \/ \E u \in Updates : UpdateStep(u) \/ \E p \in Pairs : UpdateBegin(u, p)
    \/ \E v \in Venues : RecordVenueError(v) \/ RecordVenueSuccess(v) \/ HalfOpenProbe(v)
    \/ SpotTick

SpotSpec == SpotInit /\ [][SpotNext]_spotVars

\* Goroutines that are running are scheduled, and a sync.Mutex is handed to a
\* waiter in the end (it is starvation-free), hence SF: some steps wait for it.
SpotFairness ==
    /\ \A g \in Gets : SF_spotVars(GetStep(g))
    /\ \A u \in Updates : SF_spotVars(UpdateStep(u))

FairSpotSpec == SpotSpec /\ SpotFairness

-----------------------------------------------------------------------------
(* Properties. *)

Answered(g) == answer[g].kind # "none"

\* PROJECT_PLAN.md:134 "the service still returns a quote flagged stale instead
\* of 503": a Get of a pair that had a last-good rate when it began is never
\* answered with an error, even if its entry was evicted by the LRU bound or a
\* reseed replaced the cache under it (spot.go:198-207).
KnownPairAnswered == \A g \in Gets : known[g] => answer[g].kind # "error"

\* IsReady, which takes the mutex (spot.go:159-163), never reports a cold cache
\* after start-up: the window in which seed() has installed an empty cache is
\* closed before the mutex is released, so /readyz (server.go:197) does not flap.
NeverCold == mu = Nobody => IsReady

\* RecordVenueError "marks it down after the configured threshold" (spot.go:219-234):
\* a venue is down exactly when the errors it has collected since its last success,
\* probe or reseed reach the threshold; no path resets one of the two without the other.
DownAtThreshold == \A v \in Venues : IsVenueDown(v) <=> venues[v].errors >= ErrorThreshold

\* Every Get that began is answered: neither a poll hook that calls Update while Get
\* is under way, nor another Get's reseed, can keep it waiting on the mutex for ever
\* (spot.go:138-148, 166-170, 185-201, feed.go:153-165).
EveryGetAnswered == \A g \in Gets : ~At(g, "idle") ~> Answered(g)
=============================================================================
