# Verification of pricing-quote

TLA+ modules, TLC configurations and TLAPS proofs for the pricing-quote service
(`src/`): a Go service that issues crypto price quotes, locks the rate for about
30 seconds and lets the Transaction Orchestrator claim a quote once.

## 1. Inventory of the system

| Component | State | Operations | Hard behaviour | What makes it correct |
|---|---|---|---|---|
| Quote handlers (`server.go`) | none of their own | issue (single, bulk), GET, refresh | every request is a goroutine; store, lock and audit calls interleave freely | an open quote in its window is claimable; nobody expires it early |
| Claim service (`claim.go`) | none of its own | `Claim` | the status and expiry checks use a copy of the row; the lock decides; slippage refusal comes after the lock is gone | at most one grant; a refusal is final; the claimer stays recorded; the log counts the grants |
| Sweeper (`server.go:661-688`) | a ticker | mark lapsed rows | works on a snapshot | every abandoned row ends up EXPIRED |
| Quote store (`store.go:78-139`) | rows by id, in memory | save, get, update, list | one lock per call, nothing across calls; lost on restart | each call is atomic |
| Lock backend (`store.go:186-313`, `redis_lock.go`) | key, value, TTL | SetNX, Get, Del, Claim | timer callbacks race with calls; Redis calls fail, lose replies, are repeated | a lock disappears only by Del, Claim or lapse; every entry is evicted |
| Audit log (`quotes.go`) | local list, bounded queue, drop counter | Append, dispatch, Close | full queue, failing sink, shutdown, unsynchronised counter | queued events are delivered or dropped, never stuck; Close flushes |
| Spot service (`spot.go`) | LRU cache behind a pointer, last-good map, venue breakers | Get, Update, reseed, venue errors | the pointer is read without the mutex that guards its replacement | known pairs are answered, every Get returns, readiness does not flap |
| Pricer, fee index, FX (`pricer.go`, `fee_index.go`, `fx.go`) | index of schedules, schedules in the store | `Compute`, `CrossPairQuote`, reload, refresh tick | index and store are replaced separately, between the steps of a request; shared band ends, rounding, FX failures | the configured schedule applies; a reload takes effect; the figures agree; no gain from a round trip |
| Rate feed (`feed.go`) | list of channels, closed flag | Publish, Subscribe, Close, consumer, poll fallback | Close, cancel and publish race; full channel; handler held up in a fanout | nobody sends on a closed channel; Close unblocks |
| WebSocket hub (`ws.go`) | subscribers, their pairs, a write mutex each | connect, commands, fanout, remove | snapshot of subscribers, clients that stop reading or vanish, two writes per frame | every subscribed client gets every update; frames stay whole; an update returns |
| Migrations (`internal/migrations`, `cmd/migrate`, `cmd/pricing-quote`) | tables and `schema_migrations` in Postgres | Up, Down | several processes, failure or death at any statement, commit of unknown outcome, locks only on what a statement finds | tables and record agree; a replica that serves has its schema; every run ends |
| Configuration, logger, metrics, tracing, health check | none that the service reads back | | | not modelled |

Interaction: handlers call pricer, spot service, store, lock backend and audit log
directly; each of them has a mutex that is held for one call. The claim service
reads the row, takes the lock, reads the spot and writes the row in separate
calls. The sweeper is a goroutine of the same process. The only state outside the
process is the lock keys in Redis, and the Postgres schema, which only the
migrations touch. An Update of the spot service calls the hub's fanout
(`server.go:91-93`) in the goroutine of whoever updates: the feed's consumer or a
request in `pollFallback`. `RunWithConfigCtx` starts neither a feed nor a
poll hook, an FX client or an audit sink; tests do. Those parts are modelled as the
code runs with them; whether the audit log has a sink is chosen in its Init, so the
wiring of the server, without one, is covered too.

The hazards these lead to are listed, each at its line, in `PROJECT.json`.

## 2. Modules

| Module | Models | Kind |
|---|---|---|
| `QuoteLifecycle` | handlers, claim, sweeper, store, lock keys, audit counts, time, restarts | component, composed |
| `QuoteContract` | what the orchestrator may rely on: offer, grant, withdraw | abstract specification |
| `QuoteLifecycleProofs` | types of `QuoteLifecycle` and the right to claim a quote | proofs |
| `QuoteRowProofs` | the rows of `QuoteLifecycle`, its audit counts and its contract | proofs |
| `LockStore` | the in-memory lock backend with its timers | component |
| `LockBackend` | the contract in the `LockBackend` interface | abstract specification |
| `LockStoreProofs` | theorems about `LockStore`, the refinement of `LockBackend` | proofs |
| `AuditLog` | audit queue and dispatcher | component |
| `AuditLogProofs` | theorems about `AuditLog` | proofs |
| `SpotService` | cache, reseed, last-good, venue breakers | component |
| `SpotServiceProofs` | theorems about `SpotService` | proofs |
| `Pricing` | pricer, fee index, FX leg, reloads | component |
| `PricingProofs` | theorems about `Pricing` | proofs |
| `RateFeed` | the in-process feed and its consumer | component |
| `RateHub` | WebSocket hub: connections, commands, fanout, sendFrame | component |
| `RateStream` | `RateFeed` and `RateHub` joined by Update, with pollers | composition |
| `RateStreamProofs` | theorems about `RateStream` | proofs |
| `Migrations` | Up and Down of several processes on one database | component |
| `MigrationsProofs` | theorems about `Migrations` | proofs |
| `MCQuoteLifecycle`, `MCSpotService`, `MCPricing`, `MCRateStream` | instances for TLC: symmetry, view, values for constants; the other components are run as they are | |

`QuoteLifecycle` uses an abstraction of each neighbour, not the neighbour's module:
a lock is the time it lapses at (that is `LockBackend` without values: one quote
id is one key and its value is never read back), the audit log is a count per
event (its local list, which Append always extends), and the spot is a number
that moves at any time (what `SpotService` can answer).

### QuoteLifecycle and the code

Each member of `Requests` is one net/http goroutine and serves one call. `pc` is
its position, `loc` what it keeps between two calls. One action is one call to
the store, the lock backend or the audit log with the local code around it;
readings of `time.Now()` that another goroutine may separate from the next call
are steps of their own.

| Code | Actions |
|---|---|
| `singleQuote`, `bulkQuotes`, `createQuote` | `ReceiveQuoteRequest`, then per item `ComputePrice` or `SpotUnavailable`, `SaveQuote`, `SetLock`, `AuditIssued` |
| `refreshQuote` | `RefreshLoad`, `RefreshCancel`, `RefreshDel`, `RefreshAudit`, then the issuing steps |
| `getQuote` | `GetLoad`, `GetCheck`, `GetExpire` |
| `ClaimService.Claim` | `ClaimLoad`, `ClaimCheck`, `ClaimExpire`, `ClaimExpireAudit`, `ClaimTake`, `ClaimSlippage`, `ClaimReject`, `ClaimCommit`, `ClaimAudit` |
| `sweepExpired` | `SweepTick` (clock), `SweepList` (snapshot), `SweepMark`, `SweepAudit` |
| go-redis repeating a SETNX | `RetrySetLock` (external) |
| process end and boot, `initLockBackend` | `Restart`, `LocksAfterBoot`, `InRedis` |

Rates are integers, scaled so that a basis point can be told: `EffectiveRate` and
`SlippageExceeded` compute what `Compute` and `Claim` compute, with `IntPart` as
integer division. `granted` is a history variable: the requests whose claim
committed. Redis keeps its keys while a process that fell back to memory runs:
`durable` holds the ids whose lock an earlier process left there, and
`LocksAfterBoot` keeps these and the keys of a process that used Redis.
`ClaimResult{Reason: "missing"}` after the commit (`claim.go:100`)
cannot happen, because rows are never removed, and has no action.

### LockStore

Entries have an identity of their own, as the pointers compared in
`cur == entry` do. A timer is armed, stopped, fired (the callback goroutine
exists and waits for the mutex) or done. Every method is one action, because the
mutex is held from its first line to its last.

### AuditLog

`Append` is a step for the local list, one for the non-blocking send and, when
the queue is full, two for `dropped++`, which is unsynchronised. The sink may
fail after having taken the event in.

### SpotService

Every cache that was ever current stays in `heap`; a call holds the number of the
cache it read the pointer of. `seed()` is a step for the swap, one per default
rate, and one that resets the venues and releases the mutex. Update's `onUpdate`
callback is in `RateStream`. The poll hook is external (`GetPoll`): it returns nothing,
or a rate, as the hook in `stages_test.go:104` does, or it first calls Update with that
rate, as `pollFallback` does (`feed.go:151-165`), so that the goroutine of a Get goes
through `UpdateLoad`, `UpdatePut` and `UpdateRecord`, and waits for `mu` there. A cache is the LRU list, most recently
used first; `Touch` and `Put` move an entry to the front, and `Put` of a
new pair drops the last one when the list is full. `Seeded` is the list that the start-up seeding leaves.

### Pricing

One request at a time goes through `Begin`, `FetchFX`, `GetSpot`, `LookupSchedule`
(the index, under its mutex), `ScanSchedules` (a copy of the store) and `Return`;
requests share nothing but what the reloads write, so a second one would add no
behaviour. `ReloadSeed`, `ReloadCopy` and `ReloadRebuild` are the reload endpoint;
each member of `Reloaders` is one goroutine that serves it, and nothing keeps them apart.
`RefreshTick` is the ticker. Every seeding gives the same rows new IDs, so a
*generation* number tells schedules apart. Money and crypto amounts are integers in
units of the last place that `round` keeps, rates are exact fractions: what the code
computes with decimals of 16 digits is computed without error, and rounding (half
away from zero) happens where the code rounds. The index keeps, under each key, the schedules with that
key in the order of the store; `FirstOf` is the first match in that order. Besides the
types of the seeded rows (`SeedsAssumption`), `BandsAssumption` states two facts about
`seedFeeSchedules` that the code relies on and does not check: every row is for one side,
and the rows of one key stand in the order of their bands.

### RateFeed, RateHub, RateStream

`Publish`, `Subscribe`, `CloseFeed` and `RemoveSub` each hold the feed's mutex and are
one action; `Receive` and `SeeEnd` are the branches of the select, either of which may
be taken. A frame is two writes, `SendHeader` and `SendPayload`, under the
subscriber's write mutex (`SendLock`); `CanWrite` is the space between us and a client
that does not read. `fanout` reads a subscriber's pairs under that mutex (`FanoutWant`)
and takes it again to send. A client's goroutine is in its read, at the head of its loop,
waiting for the mutex to carry out a command, or sending a pong. `SkipFrame` is a frame
without a command (`ws.go:207-210`, `252-260`): the goroutine starts over, and `NextRead`
sets a deadline of its own for the next read. `ReadFails` is that deadline, a close frame
or a broken connection, and removes the subscriber. `RateStream` joins
them: the consumer receives nothing while its fanout runs, and `PollFallback` calls
Update from another goroutine at the same time. The effect of Update on the cache is
in `SpotService`; nothing of it comes back to the stream.

### Migrations

The embedded list has one migration, so the loop of `Up` has one turn. A process goes
through `Ensure`, `CheckUp` or `FindLatest`, `Exec` per statement, `RecordVersion` or
`DeleteVersion` and `Commit`; `Fail` is an error, the 60 s of the context or the death
of the process at any of them. Of Postgres there is what these programs depend on:
uncommitted changes are invisible, and a transaction (`tx`) has the tables it creates,
drops and indexes and the row it inserts or deletes, which others wait for until it ends.
Only what a statement finds is locked: `CREATE TABLE IF NOT EXISTS` skips a table that is
there and the `CREATE INDEX` after it takes the lock, `DROP TABLE IF EXISTS` and `DELETE`
go on at once when there is no such table or row, an `INSERT` waits for another
transaction's insertion or deletion of the same key. `crossed` is a history variable: a
Down was committed while another one was past its check. `Commit` may take effect and be reported as an error.

## 3. Runs that pass

| Run | Checks | Instance |
|---|---|---|
| `lifecycle_safety` | `TypeOK`, `AtMostOneGrant`, `RejectedNeverGranted`, `GrantRecorded`, `OpenQuoteIsClaimable`, `NoEarlyExpiry`, `GrantsAudited` | 2 quotes, 3 requests, a spot inside and outside the tolerance, in-memory backend |
| `lifecycle_redis` | `TokenUnique`, `ImplementsContract` | 2 quotes, 2 requests, bulk of 2, failing spot, failing Redis, 2 restarts, either backend |
| `lifecycle_sweeper` | `SweeperConverges` | 1 quote, 3 requests, failing and repeated Redis calls, fairness |
| `lock_store` | `StoreTypeOK`, `NoOrphanTimer`, `ImplementsBackend`, `EvictionGuaranteed` | 2 keys, 1 value, 3 entries, TTLs 1 and 2, fairness |
| `audit_log` | `AuditTypeOK`, `CloseFlushes`, `DroppedNotOverstated`, `QueuedIsSettled` | 3 events, queue of 1, 2 sink failures or no sink, Close at any time, fairness |
| `spot_service` | `SpotTypeOK`, `KnownPairAnswered`, `NeverCold`, `DownAtThreshold`, `EveryGetAnswered` | 2 pairs (1 with a default), cache of 1, 2 Gets, 1 Update, 1 venue with threshold 2, fairness |
| `rate_stream` | `StreamTypeOK`, `NoSendOnClosed`, `WholeFrames`, `CloseUnblocks` | 1 client, consumer and 1 poller, 2 messages (1 malformed), channel of 1, buffer of 1, 3 commands, fairness |
| `rate_fanout` | `NothingMissed`, `FanoutEnds` | 2 clients, the consumer, 2 messages (1 malformed), 2 commands, fairness |
| `pricing` | `PricingTypeOK`, `PricedAsConfigured`, `ReloadTakesEffect`, `AddsUp`, `NoRoundTripGain` | the seven seeded schedules, 180 requests, spots 0, 3, 20, FX rates 0, 0.8, 1.1, hedge costs 0 and 25, 2 reload handlers, 3 generations |
| `migrations` | `MigrationsTypeOK`, `SchemaMatchesRecord`, `ServesOnSchema`, `MigrationsEnd` | 3 processes, 2 runs each, new or migrated database, fairness |

Why the bounds are enough for the cases of interest: the request that issues a
quote is one of the requests, and others may name the quote as soon as its row is
saved, so two claims can race for it while it is being issued or after; the
second quote lets a refresh of the first complete while a claim of it is under
way. `lifecycle_sweeper` has one quote, hence no refresh, which would need a second id: with
two, its liveness check does not end in reasonable time. With a TTL of one tick the clock can be before, at and after `expires_at`.
`Tick` goes past `Horizon` as long as an open quote has yet to lapse, so no quote
is stuck in its window. A lock entry more than there are keys lets the callback of
a dead entry meet the one that replaced it. A queue of one makes the dispatcher
meet a full queue when it puts an event back. A cache of one with two pairs evicts
on every change of pair; the second pair has no default rate, so both a reseed
that answers a Get and one that does not occur. A buffer of one part makes a writer
block inside every frame whose client does not read; three commands let the only
client subscribe, ping and send one more while it is blocked; two clients are enough
for one to fail while the other is still to be served. Two restarts are one into a
process without Redis and one back. The amounts of `pricing` lie on
and beside every end of a band; spots and SELL amounts are small because TLC's integers
have 32 bits, which changes no rounding case: quotients below, at and above a half all
occur. Three generations are the first and two of a reload each, in any overlap, or a
reload and a refresh tick in either order. Three processes let an Up wait for a Down that
waits for another Up, and let two Downs meet an Up; the second run of each is the restart
after a failure.

`Symmetry` permutes requests and quote ids, or reload handlers (no action orders or names
them), and is not used in runs with liveness. `View` leaves out `result`, the counts of
the events other than claims and refusals, and the locals of answered requests,
which no action reads and no property of those runs mentions.
The audit, spot, stream and migration runs have `CHECK_DEADLOCK FALSE`: their calls
are finitely many and end.

Fairness: a goroutine that can run is scheduled (weak fairness of its steps), the
sweeper's ticker keeps firing, time passes, and timers that are due fire. A Go
`sync.Mutex` hands itself to a waiter after a bounded time, hence strong fairness
for each goroutine of `SpotService`, which wait for `mu` now and then. In `RateStream` a
read that no frame ends is ended by its deadline; as the deadline is set anew before every
read (`ws.go:247`), it never passes for a client that keeps sending. In `Migrations` the
context of a running process expires (`main.go:79`, `Fail`). Clients need not read, send,
stop sending or hang up, and nothing is assumed of prices, Redis, restarts or Close.

What the stream runs show and what they do not: `FanoutEnds` and `CloseUnblocks` hold
unless some client `HoldsOn`: it has stopped reading for good while its connection stays
open, and its goroutine is again and again outside the read. That happens in two ways: the
client keeps sending frames without a command, each of which renews the deadline
(`ws.go:247-260`), or it has sent one more command, for which its goroutine waits for the
write mutex that the blocked `Write` holds (`ws.go:262`), without any deadline. Then Update,
and with it the consumer, waits until the client reads or the connection breaks. No other
behaviour of clients holds an Update up for ever.

`AddsUp` leaves out cross quotes without a hedge cost, because their figures do not agree
(section 4). `ReloadTakesEffect` holds a request to the generation that the reload which
returned before it has seeded, but when other reloads were under way at that return, only
to the earliest of theirs: of two that overlap, the older copy may be indexed last.
`SchemaMatchesRecord` excepts what follows on `crossed`: Down 2 finds version 1, Down 1
is committed, an Up finds nothing and creates the tables, Down 2's DROPs find no committed
table, the Up is committed, and Down 2's DELETE removes its row. Without the exception TLC
finds this sequence.

## 4. Runs that show a disagreement

Each checks one sentence of the documents or comments; `PROJECT.json` quotes it.

| Run | What happens |
|---|---|
| `finding_refresh_vs_claim` | claim takes the lock, refresh cancels and re-issues, claim commits: the canceled quote is CLAIMED |
| `finding_setnx_retry` | a repeated SETNX brings back a lock that a claim had taken: two grants |

Other disagreements met while modelling. The models contain the behaviour; no run
is spent on it:

* `server.go:661-662` has the sweeper mark "expired unclaimed quotes"; it decides from
  the ListQuotes snapshot and overwrites a row claimed since (`server.go:684`).
* `README.md:33` rejects quotes past `expires_at` at claim time; the expiry is checked
  once, before the lock is taken (`claim.go:56`), so a delayed claim is granted later.
* `PROJECT_PLAN.md:89` has a lock for every `201`; `createQuote` ignores a failed SetNX
  (`server.go:373`). `OpenQuoteIsClaimable` is checked without Redis failures.
* `README.md:46` degrades to last-good with a staleness flag; with no source left Get
  reseeds and answers with built-in constants, unflagged (`spot.go:191`).
* `README.md:31` has percentage fees; on a SELL the fee is computed from a total that
  is still zero (`pricer.go:85`), so it is zero.
* `PROJECT_PLAN.md:156` combines the FX leg with the spot; with a hedge cost of zero only
  rate and spot are converted, total and crypto amount stay those of the USD leg
  (`fx.go:100`). An FX rate of zero panics in `Div` (`fx.go:96`).
* `README.md:36` prices cross pairs through fx-hedging; `createQuote` calls `Compute`, and
  nothing calls `CrossPairQuote`.
* `server.go:690-693`: the refresh tick seeds the store and does not rebuild the index; two
  reloads that overlap may leave the older schedules in it (`pricer.go:27-30`), which is
  why the floor of `ReloadTakesEffect` is that of the earliest reload under way.
* `PROJECT_PLAN.md:147` lists backpressure; a client that stops reading holds up Update,
  hence all clients, for up to 60 s, and for as long as it likes if it sends a frame within
  every 60 s (`ws.go:247-260`) or has sent one more command (`ws.go:262`).
* `ws.go:217` documents `{"pairs":[...]}` as a way to subscribe; without an action it
  does nothing (`ws.go:263-276`).
* `migrations.go:10` calls Up idempotent; of two replicas that boot together on a new
  database the second fails on the primary key (`migrations.go:41`) and exits.
* `migrations.go:53` has Down revert the latest migration; of two Downs that overlap the
  second may delete the row of an Up that came after the first and leave its tables
  (`migrations.go:65-74`, `95-96`, `001_init.down.sql:1-3`).
* `README.md:144-145` writes the lock before the row; `createQuote` saves the row
  first (`server.go:364`, `373`), so a claim in between is told `already_claimed`.
* `PROJECT_PLAN.md:178` has an audit event for every transition; GET marks a row
  EXPIRED without one (`server.go:418`).
* `README.md:24` has locks survive restarts; `Claim` needs the row, which does not
  (`claim.go:46`).
* `PROJECT_PLAN.md:112` answers a second claim with `already_claimed`; after a refresh
  of the claimed quote (`server.go:438`) the answer is EXPIRED.
* `quotes.go:51-52` counts every dropped event; concurrent `dropped++` (`quotes.go:129`)
  loses counts, which is why only `DroppedNotOverstated` holds.
* `quotes.go:86-87` re-queues an event once; a failing event is put back every time.
* `quotes.go:87-88` flushes what is queued at shutdown; while draining the error of
  Send is discarded (`quotes.go:110`), which is why `CloseFlushes` speaks of events
  *offered* to the sink.
* `PROJECT_PLAN.md:45` has Get return an updated rate; the reseed of one stale pair
  discards the fresh rates of all others (`spot.go:123`).
* `spot.go:211-212` has a polled rate refresh the cache; it is not stored (`spot.go:188`).

`finding_setnx_retry` needs a Redis client that repeats commands after network
errors; go-redis does so by default and `newRedisLockBackend` keeps the default.
That is why `RedisRetries` is a constant, and why the theorems about grants assume it to
be FALSE (section 6 says which).

## 5. Refinement

`ImplementsContract` maps the lifecycle to `QuoteContract`: an id is *offered* from
the moment it is minted while its token (below) exists, *granted* when a claim
commits, and *withdrawn* once the token is gone otherwise. `ImplementsBackend` maps
a lock store to the keys that are present and not lapsed, with their values and
deadlines: in `LockBackend` a key ends by Del, by Claim or at its deadline, not
earlier. TLC checks both on small instances, and both are proved for all of them
(`ContractIsKept`, `StoreImplementsBackend`, section 6). The two together say what the
composition needs: the keys that `QuoteLifecycle` works with are what `LockStore` offers.

## 6. What is proved

`QuoteLifecycleProofs`, for every set of quotes and requests, every TTL, bulk size,
spread, tolerance and set of prices, from `ConstantsAssumption` alone:

* `TypeCorrect`: `Spec => []TypeOK`. The invariant is `TypeInv`: `TypeOK` and
  `ItemsLeft`, that a handler about to price an item has an item left (without it
  `left - 1` might leave the naturals).
* `TokenIsUnique`, if `RedisRetries = FALSE`: `Spec => []TokenUnique`.
* `NoDoubleClaim`, if `RedisRetries = FALSE`: `Spec => []AtMostOneGrant`.
* `RefusalIsFinal`, if `RedisRetries = FALSE`: `Spec => []RejectedNeverGranted`.

`AtMostOneGrant` is not inductive: it says nothing of claims that hold the lock but
have not committed, nor of the lock. `TokenUnique` adds that. The right to claim a
quote is a token that moves from the handler that issues it (`Setters`) to the
lock, to the claim that took it (`Holders`), to `granted`; it is in one of these
places at most, and a slippage refusal destroys it. Ids that were not minted have
no token, which is why a fresh id can be given one. The proof takes one step per
action; most actions leave the token alone (`TokenFrame`), the moves are
`ComputePrice`, `SetLock`, `RefreshDel`, `ClaimTake`, `ClaimReject`, `ClaimCommit`
and `Restart`. With `RedisRetries = TRUE` the statement is false
(`finding_setnx_retry`).

`QuoteRowProofs`, from the same assumption, about the rows, which handlers and sweeper
write from copies and clock readings that may be old by then:

* `ExpiryIsNeverEarly`: `Spec => []NoEarlyExpiry`, with or without repeated SETNX.
* `ClaimerIsKept`, if `RedisRetries = FALSE`: `Spec => []GrantRecorded`.
* `GrantIsAudited`, if `RedisRetries = FALSE`: `Spec => []GrantsAudited`.
* `OpenMeansClaimable`, if `RedisFaults = FALSE` and `RedisRetries = FALSE`:
  `Spec => []OpenQuoteIsClaimable`. A failed SetNX is ignored by `createQuote`, so the
  statement is false with Redis faults (section 4).
* `ContractIsKept`, if `RedisRetries = FALSE`: `Spec => ImplementsContract`.

`NoEarlyExpiry` speaks of rows only; what makes it inductive (`RowInv`) is that the
copies still tell the truth where it matters: a row's expiry never changes, so a copy has
the right one (`RowHeld`); what was past its expiry when it was read or listed still is
(`RowHeld`, `SweepDue`); and nobody else saves the id that a handler is about to save
(`SaversApart`). For the grants `TokenUnique` is needed as well: the claimer of a row can
only be overwritten by a second commit. `AuditedOnce` counts the event once, either in
the log or still in the hand of the claim that is about to append it. For an open row
`OpenHeld` says where its token is: with the issuing handler, in a lock that lasts as long
as the row, with a claim, or gone because the row has lapsed or the claim was refused.
These invariants share one classification of the steps: all but ten leave token, grant,
row status and claim events of a quote alone (`Quiet`, `Moves`). The refinement needs only
the same lemmas: a step that makes no new offer withdraws at most (`NoNewOffer`),
`ComputePrice` offers one id (`PricingOffers`) and `ClaimCommit` grants one
(`CommitGrants`).

`LockStoreProofs`, for any keys, values, lifetimes and number of entries, from
`LockStoreAssumption`:

* `StoreTypeCorrect`: `StoreSpec => []StoreTypeOK`.
* `NoTimerIsOrphaned`: `StoreSpec => []NoOrphanTimer`.
* `StoreImplementsBackend`: `StoreSpec => ImplementsBackend`.

`StoreInv` adds `EntriesKept`: a callback that has started belongs to an entry that has
lapsed. That is what makes an eviction by a late callback invisible to the contract, in
which the key had ended already.

`AuditLogProofs`, for any events, queue size and number of sink failures, from
`AuditAssumption`:

* `AuditTypeCorrect`: `AuditSpec => []AuditTypeOK`.
* `CloseLeavesNothing`: `AuditSpec => []CloseFlushes`.
* `DropsAreNotInvented`: `AuditSpec => []DroppedNotOverstated`.

`AuditInv` follows an event through the places it can be in: `OnePlace` (one at a time),
`Accounted` (an event appended before Close is offered, given up, queued or in the
dispatcher's hand). For the unsynchronised counter, `Counted` reserves room under the
number of lost events for every increment that is under way, in the counter and in every
value that was read from it: a lost update lowers the counter and can never raise it.

`SpotServiceProofs`, for any pairs, default rates, capacity, Gets and Updates, from
`SpotAssumption`:

* `SpotTypeCorrect`: `SpotSpec => []SpotTypeOK`, with the bound of the LRU list.
* `KnownPairsAreAnswered`: `SpotSpec => []KnownPairAnswered`.
* `ReadyIsNeverCold`: `SpotSpec => []NeverCold`.
* `BreakerOpensAtThreshold`: `SpotSpec => []DownAtThreshold`.

`SpotInv` says of every cache ever current that it is within its bound and has one entry
per pair (a call may still hold the pointer to a replaced one, an Update made by the poll
hook of a Get as well), that the Get which seeds
is the holder of `mu`, and that the current cache is empty only before the first rate of a
seeding (`MutexInv`), which is what a reader of the readiness probe could otherwise see.
`KnownInv`: a last-good rate is replaced and never removed.

`PricingProofs`, for any seeded schedules, requests, prices, FX rates and hedge costs and
any number of reloads and refresh ticks, from `PricingAssumption`, `SeedsAssumption` and,
where a schedule has to be the configured one, `BandsAssumption`:

* `PricingTypeCorrect`: `PricingSpec => []PricingTypeOK`.
* `ReloadIsSeen`: `PricingSpec => []ReloadTakesEffect`.
* `SpreadIsConfigured`: `PricingSpec => []PricedAsConfigured`.
* `QuotesAddUp`: `PricingSpec => []AddsUp`.
* `RoundTripsDoNotGain`: `PricingSpec => []NoRoundTripGain`.

`PricingInv` holds the index to one generation, no older than the floor (`IndexInv`), and
every reload under way to a seeding that is no older either (`ReloadInv`), so that none of
them can take the index below the floor; at the return of a reload the floor rises to the
earliest seeding of those under way and never falls (`FloorRises`). A result is the price
by the schedule it names (`DoneInv`). `ScanInv` is what joins the two lookups: the scan of the store, which takes
the first match of a wider test, is reached only when no row with the key fits.
The figures rest on lemmas about integers: the error of a rounded division is at most
half of the divisor (`RoundDivError`), and a BUY followed by a SELL of what it bought
gains no more than the two roundings can give (`RoundTrip`), whatever the spreads.

`RateStreamProofs`, for any clients, pollers, messages, channel and buffer sizes, from
`FeedAssumption`, `HubAssumption` and `StreamAssumption`:

* `StreamTypeCorrect`: `StreamSpec => []StreamTypeOK`.
* `NeverSendsOnClosed`: `StreamSpec => []NoSendOnClosed`.
* `NobodyLeftOut`: `StreamSpec => []NothingMissed`.
* `FramesAreWhole`: `StreamSpec => WholeFrames`, an action property: a payload is written
  directly after the header of the same frame.

`StreamInv` is the conjunction of an invariant of the feed and one of the hub; every step
is a step of one and leaves the other alone, or starts an Update. `Mutex`: who writes a
frame holds the client's write mutex. `Begun`: on a connection that can still be written
to, a header is without its payload only while its writer holds the mutex. `Owing`: what
is owed to a client is in the hands of an Update that has yet to come to it.

`MigrationsProofs`, for every set of processes and number of starts, from
`MigrationsAssumption` alone:

* `MigrationsTypeCorrect`: `MigrationsSpec => []MigrationsTypeOK`.
* `SchemaFollowsRecord`: `MigrationsSpec => []SchemaMatchesRecord`.
* `ServingHasSchema`: `MigrationsSpec => []ServesOnSchema`.

The invariant is `MigrationsInv`: the types, the shape of each transaction (`Shape`),
`UpSawRecord`, `SchemaMatchesRecord` and, until two Downs cross, `AllProgress`.
`SchemaMatchesRecord` alone is not inductive: a commit changes the tables its transaction
has come across, and these are all or none of the tables for reasons that have to be
carried along. An Up that found no table creates every one (`UpProgress`); one that found a
table found the first, whose index lock keeps Downs from it, so the row stays and its INSERT
fails. A Down that no other one has overtaken finds every table and drops it, and the row is
there for it to delete (`DownProgress`); two transactions never create one table, nor does
one drop what the other indexes (`Apart`). `UpSawRecord` says that the record is there after
an Up that returned nil unless a Down was committed; with `SchemaMatchesRecord` it gives
`ServesOnSchema`, since Downs that cross are Downs. One lemma per action.

## 7. Only model-checked

Liveness (`SweeperConverges`, `EvictionGuaranteed`, `QueuedIsSettled`,
`EveryGetAnswered`, `CloseUnblocks`, `FanoutEnds`, `MigrationsEnd`): the prover handles
neither fairness nor ENABLED. The two runs of section 4 are counterexamples and have
nothing to prove. Every other property of a run is a theorem of section 6. No theorem needs
an induction over data: what the code builds in a loop (the index, the seeded cache) is
given by place in the model, not by recursion.

## 8. Not modelled

Validation, JSON, HTTP status codes, the list endpoints and `selectRateSource` (no state
changes); the WebSocket handshake and frame encoding; the columns of the SQL
scripts; several replicas over one Redis (each would have rows of its own, so a claim
sent to another replica is answered 404 as after a restart). Graceful shutdown
(`server.go:176-189`): handlers still running after its 5 s meet a closed Redis client and
then the end of the process, which the failing calls and `Restart` of `QuoteLifecycle`
cover; the sweeper and the refresh tick stop last and keep nothing.
Configuration is the CONSTANTS; logging, metrics and tracing are state that nothing in the
service reads back; the health check is one HTTP probe.

## 9. Plan

Done: `QuoteLifecycle` and its contract; `LockStore` and its contract; `AuditLog`;
`SpotService`; `Pricing`; `RateFeed`, `RateHub` and their composition; `Migrations`; for each
of them a theorem for every safety property that its runs check, and both refinements.

Next:

1. Facts that the proofs use inside and that say something by themselves, as action
   properties: a row's expiry never changes and a closed row is not opened again
   (`RowsKept`); a last-good rate is never removed.
2. The hazards in `PROJECT.json` that no property covers: `claim.go:56`, `spot.go:191`,
   `pricer.go:85`, `fx.go:96` and `migrations.go:95`, where the code does not have the
   property one would want.
