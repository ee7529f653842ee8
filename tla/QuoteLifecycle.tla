--------------------------- MODULE QuoteLifecycle ---------------------------
(***************************************************************************)
(* The life of a quote: creation (single and bulk), GET, refresh, the      *)
(* orchestrator's claim and the background sweeper, running concurrently   *)
(* against the quote store, the lock backend and the audit log of one      *)
(* process (server.go, claim.go, store.go).                                *)
(*                                                                         *)
(* Every goroutine of net/http that serves a request is a member of        *)
(* Requests.  The store and the lock backend are each guarded by a mutex   *)
(* held for one call only, so one action is one such call together with    *)
(* the local code around it; whatever a handler keeps between two calls    *)
(* is in loc.  A read of time.Now() is a step of its own wherever another  *)
(* goroutine could move between it and the neighbouring call.              *)
(*                                                                         *)
(* GET /v1/quotes publishes the ids of all saved rows, so any request may  *)
(* name any id; an id with no row is answered 404.                         *)
(***************************************************************************)
EXTENDS Integers, FiniteSets

CONSTANTS QuoteIds,              \* UUIDs newQuoteID can return
          Requests,              \* request goroutines, each serves one call
          Nobody,                \* claimed_by = "" of an unclaimed row
          NoId,                  \* a handler local that holds no quote id
          RateLockTTL,           \* RATE_LOCK_TTL_SECONDS, in clock ticks
          BulkQuoteMaxItems,     \* BULK_QUOTE_MAX_ITEMS
          SpotRates,             \* spot prices; 0 is "no usable rate"
          Side,                  \* side of the quotes of this pair: BUY or SELL
          SpreadBPS,             \* spread of the matching fee schedule
          SlippageToleranceBPS,  \* SLIPPAGE_TOLERANCE_BPS
          Backends,              \* lock backends that a boot may end up with
          RedisFaults,           \* whether a call to Redis may fail
          RedisRetries,          \* whether go-redis repeats a SETNX whose reply was lost
          Horizon,               \* bound: clock value up to which time runs freely
          MaxRestarts            \* bound: number of process restarts

ASSUME ConstantsAssumption ==
    /\ Nobody \notin Requests
    /\ NoId \notin QuoteIds
    /\ RateLockTTL \in Nat \ {0}
    /\ BulkQuoteMaxItems \in Nat \ {0}
    /\ SpotRates \subseteq Nat /\ SpotRates # {}
    /\ Side \in {"BUY", "SELL"}
    /\ SpreadBPS \in Nat
    /\ SlippageToleranceBPS \in Nat
    /\ Backends \subseteq {"redis", "memory"} /\ Backends # {}
    /\ RedisFaults \in BOOLEAN
    /\ RedisRetries \in BOOLEAN
    /\ Horizon \in Nat
    /\ MaxRestarts \in Nat

VARIABLES quotes,    \* Store.quotes: the row of every id
          locks,     \* LockBackend: expiry of lock:quote:{id}, 0 when absent
          audit,     \* AuditLog.local: how often each event was recorded for an id
          clock,     \* time.Now()
          spot,      \* what SpotService.Get currently yields
          backend,   \* the lock backend this process was started with
          durable,   \* ids whose lock an earlier process left in Redis
          minted,    \* ids newQuoteID has returned so far
          pc,        \* where each request goroutine is
          loc,       \* its local variables
          result,    \* what its caller was answered
          sweep,     \* the sweeper goroutine: position and locals
          granted,   \* history: the requests whose claim of a quote succeeded
          restarts   \* number of restarts so far

vars == <<quotes, locks, audit, clock, spot, backend, durable, minted, pc, loc,
          result, sweep, granted, restarts>>

-----------------------------------------------------------------------------
(* Rows, locals and types. *)

Statuses == {"ABSENT", "OPEN", "CLAIMED", "EXPIRED", "CANCELED"}

Row == [status : Statuses, rate : Int, expiresAt : Nat,
        claimedAt : Nat, claimedBy : Requests \cup {Nobody}]

NoRow == [status |-> "ABSENT", rate |-> 0, expiresAt |-> 0,
          claimedAt |-> 0, claimedBy |-> Nobody]

Locals == [id    : QuoteIds \cup {NoId},   \* the quote named in the URL
           new   : QuoteIds \cup {NoId},   \* the quote being issued
           row   : Row,                    \* copy of a row, or the row being built
           now   : Nat,                    \* last reading of the clock
           left  : Nat,                    \* items of the request still to price
           bulk  : BOOLEAN]

NoLocals == [id |-> NoId, new |-> NoId, row |-> NoRow, now |-> 0,
             left |-> 0, bulk |-> FALSE]

Labels == {"idle", "compute", "save", "setnx", "issued",
           "cancel", "del", "refreshed",
           "getcheck", "getexpire",
           "check", "expire", "expired", "take", "slippage", "reject",
           "commit", "claimed", "done"}

Results == {"none", "created", "refreshed", "spot_unavailable", "not_found",
            "found", "expired", "missing", "EXPIRED", "already_claimed",
            "slippage_exceeded", "ok", "aborted"}

Events == {"quote.issued", "quote.refreshed", "quote.expired",
           "quote.claimed", "quote.slippage_rejected"}

NoEvents == [e \in Events |-> 0]

Asleep == [at |-> "sleep", now |-> 0, todo |-> {}, cur |-> NoId]

TypeOK ==
    /\ quotes \in [QuoteIds -> Row]
    /\ locks \in [QuoteIds -> Nat]
    /\ audit \in [QuoteIds -> [Events -> Nat]]
    /\ clock \in Nat
    /\ spot \in SpotRates
    /\ backend \in Backends
    /\ durable \subseteq QuoteIds
    /\ minted \subseteq QuoteIds
    /\ pc \in [Requests -> Labels]
    /\ loc \in [Requests -> Locals]
    /\ result \in [Requests -> Results]
    /\ sweep \in [at : {"sleep", "list", "mark", "audit"}, now : Nat,
                  todo : SUBSET QuoteIds, cur : QuoteIds \cup {NoId}]
    /\ granted \in [QuoteIds -> SUBSET Requests]
    /\ restarts \in Nat

Init ==
    /\ quotes = [q \in QuoteIds |-> NoRow]
    /\ locks = [q \in QuoteIds |-> 0]
    /\ audit = [q \in QuoteIds |-> NoEvents]
    /\ clock = 0
    /\ spot \in SpotRates
    /\ backend \in Backends
    /\ durable = {}
    /\ minted = {}
    /\ pc = [r \in Requests |-> "idle"]
    /\ loc = [r \in Requests |-> NoLocals]
    /\ result = [r \in Requests |-> "none"]
    /\ sweep = Asleep
    /\ granted = [q \in QuoteIds |-> {}]
    /\ restarts = 0

-----------------------------------------------------------------------------
(* Helpers. *)

\* Pricer.Compute: the spot marked up (BUY) or down (SELL) by the spread.
EffectiveRate(s) ==
    IF Side = "BUY" THEN s + (s * SpreadBPS) \div 10000
                    ELSE s - (s * SpreadBPS) \div 10000

AbsDiff(a, b) == IF a >= b THEN a - b ELSE b - a

\* The guard is skipped when the spot lookup failed or yielded no usable rate.
\* bps.IntPart() drops the fraction of a basis point.
SlippageExceeded(base, locked) ==
    /\ base > 0
    /\ locked > 0
    /\ (AbsDiff(base, locked) * 10000) \div locked > SlippageToleranceBPS

Present(q) == quotes[q].status # "ABSENT"

\* Mutant of PastExpiry: expired at expires_at already.
PastExpiryInclusive(now, row) == now >= row.expiresAt

\* time.Now().UTC().After(expires_at)
PastExpiry(now, row) == now > row.expiresAt

LockLive(q) == clock < locks[q]

BackendMayFail == RedisFaults /\ backend = "redis"

SetStatus(q, s) == quotes' = [quotes EXCEPT ![q].status = s]

Record(q, e) == audit' = [audit EXCEPT ![q][e] = @ + 1]

Goto(r, l) == pc' = [pc EXCEPT ![r] = l] /\ UNCHANGED result

\* The handler answers and its goroutine ends; only the id it was called with
\* is remembered.
Answer(r, id, res) ==
    /\ pc' = [pc EXCEPT ![r] = "done"]
    /\ result' = [result EXCEPT ![r] = res]
    /\ loc' = [loc EXCEPT ![r] = [NoLocals EXCEPT !.id = id]]

\* The handler makes no further use of its copy of the row.
DropRow(r) == loc' = [loc EXCEPT ![r].row = NoRow]

\* Bound: a request starts only while QuoteIds has ids left for every item of
\* every request in flight, so that newQuoteID never runs dry.
IdsLeftFor(n) ==
    Cardinality({p \in Requests \X (1..BulkQuoteMaxItems) : p[2] <= loc[p[1]].left}) + n
        <= Cardinality(QuoteIds \ minted)

world == <<clock, spot, backend, durable, restarts>>

-----------------------------------------------------------------------------
(* POST /v1/quotes: a single quote, or each item of a bulk request in turn. *)

\* Requests and items that fail validation touch no state, so n counts the
\* valid items and is at most BULK_QUOTE_MAX_ITEMS.
ReceiveQuoteRequest(r) ==
    /\ pc[r] = "idle"
    /\ \E n \in 1..BulkQuoteMaxItems, b \in BOOLEAN :
         /\ b \/ n = 1
         /\ IdsLeftFor(n)
         /\ loc' = [loc EXCEPT ![r] = [NoLocals EXCEPT !.left = n, !.bulk = b]]
    /\ Goto(r, "compute")
    /\ UNCHANGED <<quotes, locks, audit, minted, sweep, granted, world>>

\* What the handler does once the current item is issued or has failed.
NextItem(r, res) ==
    IF loc[r].left > 0
      THEN Goto(r, "compute") /\ UNCHANGED loc
      ELSE Answer(r, loc[r].id, res)

\* Pricer.Compute, newQuoteID and the expiry reckoned from time.Now().
ComputePrice(r) ==
    /\ pc[r] = "compute"
    /\ spot > 0
    /\ \E q \in QuoteIds \ minted :
         /\ minted' = minted \cup {q}
         /\ loc' = [loc EXCEPT ![r].new = q,
                               ![r].row = [NoRow EXCEPT !.status = "OPEN",
                                                        !.rate = EffectiveRate(spot),
                                                        !.expiresAt = clock + RateLockTTL],
                               ![r].left = @ - 1]
    /\ Goto(r, "save")
    /\ UNCHANGED <<quotes, locks, audit, sweep, granted, world>>

\* No spot rate: a single quote and a refresh answer 503, a bulk request notes
\* the failed item and goes on with the next.
SpotUnavailable(r) ==
    /\ pc[r] = "compute"
    /\ spot = 0
    /\ IF loc[r].bulk /\ loc[r].left > 1
         THEN loc' = [loc EXCEPT ![r].left = @ - 1] /\ Goto(r, "compute")
         ELSE Answer(r, loc[r].id, IF loc[r].bulk THEN "created" ELSE "spot_unavailable")
    /\ UNCHANGED <<quotes, locks, audit, minted, sweep, granted, world>>

SaveQuote(r) ==
    /\ pc[r] = "save"
    /\ quotes' = [quotes EXCEPT ![loc[r].new] = loc[r].row]
    /\ Goto(r, "setnx") /\ DropRow(r)
    /\ UNCHANGED <<locks, audit, minted, sweep, granted, world>>

\* Mutant of SetLock: the lock's TTL is a tick shorter than the quote's window.
SetLockShort(r) ==
    /\ pc[r] = "setnx"
    /\ locks' = [locks EXCEPT ![loc[r].new] = clock + RateLockTTL - 1]
    /\ Goto(r, "issued")
    /\ UNCHANGED <<quotes, audit, minted, loc, sweep, granted, world>>

\* locks.SetNX(lockKey(id), payload, RateLockTTL).  Its result is ignored.
SetLock(r) ==
    /\ pc[r] = "setnx"
    /\ LET q == loc[r].new
       IN \/ locks' = [locks EXCEPT ![q] = IF LockLive(q) THEN @ ELSE clock + RateLockTTL]
          \/ BackendMayFail /\ UNCHANGED locks
    /\ Goto(r, "issued")
    /\ UNCHANGED <<quotes, audit, minted, loc, sweep, granted, world>>

\* Redis executed the SETNX, the reply was lost, and go-redis sends it again.
RetrySetLock(r) ==
    /\ pc[r] = "setnx"
    /\ BackendMayFail /\ RedisRetries
    /\ locks[loc[r].new] = 0
    /\ locks' = [locks EXCEPT ![loc[r].new] = clock + RateLockTTL]
    /\ UNCHANGED <<quotes, audit, minted, pc, loc, result, sweep, granted, world>>

\* Mutant of AuditIssued: a lock that could not be set is set after all.
AuditIssuedRelocks(r) ==
    /\ pc[r] = "issued"
    /\ Record(loc[r].new, "quote.issued")
    /\ locks' = [locks EXCEPT ![loc[r].new] = IF @ = 0 THEN clock + RateLockTTL ELSE @]
    /\ NextItem(r, IF loc[r].id = NoId THEN "created" ELSE "refreshed")
    /\ UNCHANGED <<quotes, minted, sweep, granted, world>>

AuditIssued(r) ==
    /\ pc[r] = "issued"
    /\ Record(loc[r].new, "quote.issued")
    /\ NextItem(r, IF loc[r].id = NoId THEN "created" ELSE "refreshed")
    /\ UNCHANGED <<quotes, locks, minted, sweep, granted, world>>

-----------------------------------------------------------------------------
(* POST /v1/quotes/:id/refresh: cancel, drop the lock, then issue anew with *)
(* the steps above.                                                         *)

\* Any status may be refreshed, a claimed quote too.
RefreshLoad(r, q) ==
    /\ pc[r] = "idle"
    /\ IF Present(q)
         THEN /\ IdsLeftFor(1)
              /\ loc' = [loc EXCEPT ![r] = [NoLocals EXCEPT !.id = q, !.left = 1]]
              /\ Goto(r, "cancel")
         ELSE Answer(r, q, "not_found")
    /\ UNCHANGED <<quotes, locks, audit, minted, sweep, granted, world>>

\* Mutant of RefreshCancel: the row is written back as it was when unclaimed.
RefreshCancelWholeRow(r) ==
    /\ pc[r] = "cancel"
    /\ quotes' = [quotes EXCEPT ![loc[r].id].status = "CANCELED",
                                ![loc[r].id].claimedBy = Nobody]
    /\ Goto(r, "del")
    /\ UNCHANGED <<locks, audit, minted, loc, sweep, granted, world>>

RefreshCancel(r) ==
    /\ pc[r] = "cancel"
    /\ SetStatus(loc[r].id, "CANCELED")
    /\ Goto(r, "del")
    /\ UNCHANGED <<locks, audit, minted, loc, sweep, granted, world>>

\* locks.Del(lockKey(id)).  Its result is ignored.
RefreshDel(r) ==
    /\ pc[r] = "del"
    /\ \/ locks' = [locks EXCEPT ![loc[r].id] = 0]
       \/ BackendMayFail /\ UNCHANGED locks
    /\ Goto(r, "refreshed")
    /\ UNCHANGED <<quotes, audit, minted, loc, sweep, granted, world>>

RefreshAudit(r) ==
    /\ pc[r] = "refreshed"
    /\ Record(loc[r].id, "quote.refreshed")
    /\ Goto(r, "compute")
    /\ UNCHANGED <<quotes, locks, minted, loc, sweep, granted, world>>

-----------------------------------------------------------------------------
(* GET /v1/quotes/:id *)

GetLoad(r, q) ==
    /\ pc[r] = "idle"
    /\ IF Present(q)
         THEN /\ loc' = [loc EXCEPT ![r] = [NoLocals EXCEPT !.id = q, !.row = quotes[q]]]
              /\ Goto(r, "getcheck")
         ELSE Answer(r, q, "not_found")
    /\ UNCHANGED <<quotes, locks, audit, minted, sweep, granted, world>>

GetCheck(r) ==
    /\ pc[r] = "getcheck"
    /\ LET row == loc[r].row
       IN IF row.status = "EXPIRED" \/ (row.status = "OPEN" /\ PastExpiry(clock, row))
            THEN Goto(r, "getexpire") /\ DropRow(r)
            ELSE Answer(r, loc[r].id, "found")
    /\ UNCHANGED <<quotes, locks, audit, minted, sweep, granted, world>>

\* The row is marked whatever it holds by now, and no audit event is appended.
GetExpire(r) ==
    /\ pc[r] = "getexpire"
    /\ SetStatus(loc[r].id, "EXPIRED")
    /\ Answer(r, loc[r].id, "expired")
    /\ UNCHANGED <<locks, audit, minted, sweep, granted, world>>

-----------------------------------------------------------------------------
(* POST /internal/v1/quotes/:id/claim: ClaimService.Claim *)

ClaimLoad(r, q) ==
    /\ pc[r] = "idle"
    /\ LET status == quotes[q].status
       IN CASE status = "ABSENT"               -> Answer(r, q, "missing")
            [] status \in {"CANCELED", "EXPIRED"} -> Answer(r, q, "EXPIRED")
            [] status = "CLAIMED"              -> Answer(r, q, "already_claimed")
            [] status = "OPEN" ->
                 /\ loc' = [loc EXCEPT ![r] = [NoLocals EXCEPT !.id = q, !.row = quotes[q]]]
                 /\ Goto(r, "check")
    /\ UNCHANGED <<quotes, locks, audit, minted, sweep, granted, world>>

ClaimCheck(r) ==
    /\ pc[r] = "check"
    /\ IF PastExpiry(clock, loc[r].row)
         THEN Goto(r, "expire") /\ DropRow(r)
         ELSE Goto(r, "take") /\ UNCHANGED loc
    /\ UNCHANGED <<quotes, locks, audit, minted, sweep, granted, world>>

ClaimExpire(r) ==
    /\ pc[r] = "expire"
    /\ SetStatus(loc[r].id, "EXPIRED")
    /\ Goto(r, "expired")
    /\ UNCHANGED <<locks, audit, minted, loc, sweep, granted, world>>

ClaimExpireAudit(r) ==
    /\ pc[r] = "expired"
    /\ Record(loc[r].id, "quote.expired")
    /\ Answer(r, loc[r].id, "EXPIRED")
    /\ UNCHANGED <<quotes, locks, minted, sweep, granted, world>>

\* Mutant of ClaimTake: the lock is read and left in place.
ClaimTakeKeepsLock(r) ==
    /\ pc[r] = "take"
    /\ IF LockLive(loc[r].id)
         THEN Goto(r, "slippage") /\ UNCHANGED loc
         ELSE Answer(r, loc[r].id, "already_claimed")
    /\ UNCHANGED <<quotes, locks, audit, minted, sweep, granted, world>>

\* locks.Claim: value and deletion in one step, for a live key only.  A missing
\* key, a failed call and a lost reply all read as already_claimed.
ClaimTake(r) ==
    /\ pc[r] = "take"
    /\ LET q == loc[r].id
       IN \/ /\ LockLive(q)
             /\ locks' = [locks EXCEPT ![q] = 0]
             /\ Goto(r, "slippage") /\ UNCHANGED loc
          \/ /\ ~LockLive(q)
             /\ locks' = [locks EXCEPT ![q] = 0]
             /\ Answer(r, q, "already_claimed")
          \/ /\ BackendMayFail
             /\ locks' \in {locks, [locks EXCEPT ![q] = 0]}
             /\ Answer(r, q, "already_claimed")
    /\ UNCHANGED <<quotes, audit, minted, sweep, granted, world>>

\* The live spot against the rate of the copy taken in ClaimLoad; then
\* time.Now() for claimed_at.
ClaimSlippage(r) ==
    /\ pc[r] = "slippage"
    /\ IF SlippageExceeded(spot, loc[r].row.rate)
         THEN Goto(r, "reject") /\ DropRow(r)
         ELSE Goto(r, "commit") /\ loc' = [loc EXCEPT ![r].row = NoRow, ![r].now = clock]
    /\ UNCHANGED <<quotes, locks, audit, minted, sweep, granted, world>>

\* Mutant of ClaimReject: the refused claim puts the lock back.
ClaimRejectRelocks(r) ==
    /\ pc[r] = "reject"
    /\ Record(loc[r].id, "quote.slippage_rejected")
    /\ locks' = [locks EXCEPT ![loc[r].id] = quotes[loc[r].id].expiresAt]
    /\ Answer(r, loc[r].id, "slippage_exceeded")
    /\ UNCHANGED <<quotes, minted, sweep, granted, world>>

\* Mutant of ClaimReject: the refusal is logged as a claim.
ClaimRejectLogsClaim(r) ==
    /\ pc[r] = "reject"
    /\ Record(loc[r].id, "quote.claimed")
    /\ Answer(r, loc[r].id, "slippage_exceeded")
    /\ UNCHANGED <<quotes, locks, minted, sweep, granted, world>>

\* The lock is already gone and the row stays OPEN.
ClaimReject(r) ==
    /\ pc[r] = "reject"
    /\ Record(loc[r].id, "quote.slippage_rejected")
    /\ Answer(r, loc[r].id, "slippage_exceeded")
    /\ UNCHANGED <<quotes, locks, minted, sweep, granted, world>>

\* Mutant of ClaimCommit: the quote's id is stored as claimed_by.
ClaimCommitSwapped(r) ==
    /\ pc[r] = "commit"
    /\ quotes' = [quotes EXCEPT ![loc[r].id].status = "CLAIMED",
                                ![loc[r].id].claimedAt = loc[r].now,
                                ![loc[r].id].claimedBy = loc[r].id]
    /\ granted' = [granted EXCEPT ![loc[r].id] = @ \cup {r}]
    /\ Goto(r, "claimed")
    /\ UNCHANGED <<locks, audit, minted, loc, sweep, world>>

ClaimCommit(r) ==
    /\ pc[r] = "commit"
    /\ quotes' = [quotes EXCEPT ![loc[r].id].status = "CLAIMED",
                                ![loc[r].id].claimedAt = loc[r].now,
                                ![loc[r].id].claimedBy = r]
    /\ granted' = [granted EXCEPT ![loc[r].id] = @ \cup {r}]
    /\ Goto(r, "claimed")
    /\ UNCHANGED <<locks, audit, minted, loc, sweep, world>>

ClaimAudit(r) ==
    /\ pc[r] = "claimed"
    /\ Record(loc[r].id, "quote.claimed")
    /\ Answer(r, loc[r].id, "ok")
    /\ UNCHANGED <<quotes, locks, minted, sweep, granted, world>>

-----------------------------------------------------------------------------
(* The sweeper goroutine: every tick of its ticker runs sweepExpired. *)

sweeperOnly == <<locks, minted, pc, loc, result, granted, world>>

\* Mutant of SweepTick: the clock is read once, before the loop.
SweepTickStaleNow ==
    /\ sweep.at = "sleep"
    /\ sweep' = [sweep EXCEPT !.at = "list"]
    /\ UNCHANGED <<quotes, audit, sweeperOnly>>

SweepTick ==
    /\ sweep.at = "sleep"
    /\ sweep' = [sweep EXCEPT !.at = "list", !.now = clock]
    /\ UNCHANGED <<quotes, audit, sweeperOnly>>

\* Store.ListQuotes; its order does not matter to the sweeper.
ListQuotes == {q \in QuoteIds : Present(q)}

\* ListQuotes is a snapshot; which of its rows to mark is decided from it.
SweepList ==
    /\ sweep.at = "list"
    /\ LET due == {q \in ListQuotes : /\ quotes[q].status = "OPEN"
                                      /\ PastExpiry(sweep.now, quotes[q])}
       IN sweep' = IF due = {} THEN Asleep
                               ELSE [Asleep EXCEPT !.at = "mark", !.todo = due]
    /\ UNCHANGED <<quotes, audit, sweeperOnly>>

SweepMark ==
    /\ sweep.at = "mark"
    /\ \E q \in sweep.todo :
         /\ SetStatus(q, "EXPIRED")
         /\ sweep' = [sweep EXCEPT !.at = "audit", !.todo = @ \ {q}, !.cur = q]
    /\ UNCHANGED <<audit, sweeperOnly>>

SweepAudit ==
    /\ sweep.at = "audit"
    /\ Record(sweep.cur, "quote.expired")
    /\ sweep' = IF sweep.todo = {} THEN Asleep
                                   ELSE [Asleep EXCEPT !.at = "mark", !.todo = sweep.todo]
    /\ UNCHANGED <<quotes, sweeperOnly>>

-----------------------------------------------------------------------------
(* The environment. *)

\* Bound: past Horizon time passes only while an open quote has yet to expire.
Tick ==
    /\ \/ clock < Horizon
       \/ \E q \in QuoteIds : quotes[q].status = "OPEN" /\ ~PastExpiry(clock, quotes[q])
    /\ clock' = clock + 1
    /\ UNCHANGED <<quotes, locks, audit, spot, backend, durable, minted, pc, loc, result,
                   sweep, granted, restarts>>

SpotMoves ==
    /\ spot' \in SpotRates \ {spot}
    /\ UNCHANGED <<quotes, locks, audit, clock, backend, durable, minted, pc, loc, result,
                   sweep, granted, restarts>>

\* The lock of q is in Redis: this process set it there, or an earlier one did.
InRedis(q) == backend = "redis" \/ q \in durable

\* Only Redis keeps locks when the process dies, and it keeps them whether or not
\* the next process can reach it (initLockBackend falls back to memory).  A process
\* has no row of an id that an earlier one minted, so it never asks for such a lock.
LocksAfterBoot == [q \in QuoteIds |-> IF InRedis(q) THEN locks[q] ELSE 0]

\* The process dies and boots again.  Rows and audit log lived in its memory.
Restart ==
    /\ restarts < MaxRestarts
    /\ restarts' = restarts + 1
    /\ backend' \in Backends
    /\ spot' \in SpotRates
    /\ quotes' = [q \in QuoteIds |-> NoRow]
    /\ audit' = [q \in QuoteIds |-> NoEvents]
    /\ locks' = LocksAfterBoot
    /\ durable' = {q \in QuoteIds : LocksAfterBoot[q] > 0}
    /\ pc' = [r \in Requests |-> IF pc[r] = "idle" THEN "idle" ELSE "done"]
    /\ result' = [r \in Requests |-> IF pc[r] \in {"idle", "done"} THEN result[r] ELSE "aborted"]
    /\ loc' = [r \in Requests |-> [NoLocals EXCEPT !.id = loc[r].id]]
    /\ sweep' = Asleep
    /\ UNCHANGED <<clock, minted, granted>>

-----------------------------------------------------------------------------
(* The specification. *)

\* /v1/quotes/{id} and /v1/quotes/{id}/refresh; a malformed id touches nothing.
QuoteByID(r) == \E q \in QuoteIds : RefreshLoad(r, q) \/ GetLoad(r, q)

\* /internal/v1/quotes/{id}/claim; a request without claimed_by touches nothing.
InternalQuote(r) == \E q \in QuoteIds : ClaimLoad(r, q)

Receive(r) == ReceiveQuoteRequest(r) \/ QuoteByID(r) \/ InternalQuote(r)

Serve(r) ==
    \/ ComputePrice(r) \/ SpotUnavailable(r)
    \/ SaveQuote(r) \/ SetLock(r) \/ RetrySetLock(r) \/ AuditIssued(r)
    \/ RefreshCancel(r) \/ RefreshDel(r) \/ RefreshAudit(r)
    \/ GetCheck(r) \/ GetExpire(r)
    \/ ClaimCheck(r) \/ ClaimExpire(r) \/ ClaimExpireAudit(r) \/ ClaimTake(r)
    \/ ClaimSlippage(r) \/ ClaimReject(r) \/ ClaimCommit(r) \/ ClaimAudit(r)

Sweep == SweepTick \/ SweepList \/ SweepMark \/ SweepAudit

Next == \/ \E r \in Requests : Receive(r) \/ Serve(r)
        \/ Sweep
        \/ Tick
        \/ SpotMoves
        \/ Restart

Spec == Init /\ [][Next]_vars

\* A goroutine that can run is eventually scheduled, the ticker of the sweeper
\* keeps firing and time passes.  Nothing is assumed of clients, prices and
\* restarts.
Fairness == /\ \A r \in Requests : WF_vars(Serve(r))
            /\ WF_vars(Sweep)
            /\ WF_vars(Tick)

FairSpec == Spec /\ Fairness

-----------------------------------------------------------------------------
(* Who may still turn a quote into a grant.  A quote's right to be claimed is *)
(* a token: first with the handler that issues it, then in the lock backend,  *)
(* then with the claim that took the lock, and at last in granted.            *)

Setters(q) == {r \in Requests : pc[r] \in {"save", "setnx"} /\ loc[r].new = q}

Holders(q) == {r \in Requests : pc[r] \in {"slippage", "reject", "commit"} /\ loc[r].id = q}

Rejected(q) == audit[q]["quote.slippage_rejected"] > 0

Claimable(q) == \/ Setters(q) # {}
                \/ LockLive(q)
                \/ \E r \in Holders(q) : pc[r] # "reject"

-----------------------------------------------------------------------------
(* Safety. *)

\* README.md:48 "atomic claim; no double-claim".  However claims, refreshes,
\* reads, the sweeper, failing Redis calls and restarts interleave, at most one
\* claim of a quote ever succeeds (claim.go:62, server.go:438-439).
AtMostOneGrant == \A q \in QuoteIds : \A r1, r2 \in granted[q] : r1 = r2

\* README.md:35 "the claim is rejected and a refresh is required".  Once a claim
\* of a quote was refused for slippage no other claim of it succeeds, whether it
\* started before or after and wherever the spot moves back to (claim.go:85-91).
RejectedNeverGranted == \A q \in QuoteIds : Rejected(q) => granted[q] = {}

\* A row keeps the name of the claimer who was told "ok": neither a refresh, nor
\* a stale expiry, nor a second claimer that read the row earlier overwrites
\* claimed_by (claim.go:95-99).
GrantRecorded ==
    \A q \in QuoteIds : Present(q) => \A r \in granted[q] : quotes[q].claimedBy = r

\* README.md:16 "Honor the locked rate at settlement".  While a row is open and
\* inside its window its lock is there to be claimed, unless the handler that
\* issues it has yet to set it, a claim holds it, or a claim was refused for
\* slippage.  Depends on the order of SaveQuote, SetNX and time.Now() in
\* createQuote (server.go:342-373) and on refresh canceling before it deletes.
OpenQuoteIsClaimable ==
    \A q \in QuoteIds :
        (quotes[q].status = "OPEN" /\ clock < quotes[q].expiresAt) =>
            Claimable(q) \/ Holders(q) # {} \/ Rejected(q)

\* A quote whose window is still open is never marked EXPIRED, although GET, the
\* claim and the sweeper each decide it from a copy of the row and a clock
\* reading they took earlier (server.go:417, claim.go:56, server.go:681-684).
NoEarlyExpiry ==
    \A q \in QuoteIds :
        quotes[q].status = "EXPIRED" => clock > quotes[q].expiresAt

\* Every successful claim is in the audit log exactly once, or is about to be;
\* no other outcome logs one (claim.go:103).  Lost only with the process.
GrantsAudited ==
    \A q \in QuoteIds : Present(q) =>
        Cardinality(granted[q]) = audit[q]["quote.claimed"]
            + Cardinality({r \in Requests : pc[r] = "claimed" /\ loc[r].id = q})

Token(q) ==
    /\ \A r1, r2 \in Setters(q) : r1 = r2
    /\ \A r1, r2 \in Holders(q) : r1 = r2
    /\ \A r1, r2 \in granted[q] : r1 = r2
    /\ Setters(q) # {} => locks[q] = 0
    /\ Setters(q) # {} \/ locks[q] # 0 => q \in minted /\ Holders(q) = {} /\ granted[q] = {}
    /\ Holders(q) # {} => q \in minted /\ granted[q] = {}
    /\ granted[q] # {} => q \in minted
    /\ Rejected(q) => /\ q \in minted /\ granted[q] = {} /\ locks[q] = 0
                      /\ Setters(q) = {} /\ Holders(q) = {}

\* The inductive invariant behind AtMostOneGrant and RejectedNeverGranted: the
\* token of a quote is in one place at a time.  Whoever issues a quote is alone
\* with it; a lock excludes holders and grants; a holder is alone and excludes a
\* grant; a refusal has destroyed the token (server.go:364-373, claim.go:62-99).
TokenUnique == \A q \in QuoteIds : Token(q)

-----------------------------------------------------------------------------
(* Refinement. *)

ContractPhase(q) ==
    IF q \notin minted THEN "unissued"
    ELSE IF granted[q] # {} THEN "granted"
    ELSE IF Claimable(q) THEN "offered" ELSE "withdrawn"

ContractHolder(q) ==
    IF granted[q] = {} THEN Nobody ELSE CHOOSE r \in Requests : r \in granted[q]

Contract == INSTANCE QuoteContract WITH
                phase  <- [q \in QuoteIds |-> ContractPhase(q)],
                holder <- [q \in QuoteIds |-> ContractHolder(q)]

\* README.md:34 "the Transaction Orchestrator claims the quote by ID atomically".
\* Every interleaving of the handlers implements the atomic contract: a quote is
\* offered when its id is minted, granted in one step when the claim that took
\* the lock commits, and never offered again once its lock ran out, was deleted
\* or was lost (server.go:332-485, claim.go:45-107, redis_lock.go:35-77).
ImplementsContract == Contract!ContractSpec

-----------------------------------------------------------------------------
(* Liveness. *)

\* PROJECT_PLAN.md:114 "The sweeper converges quotes.status to expired for
\* abandoned rows": no row stays OPEN for ever (server.go:663-688).
SweeperConverges ==
    \A q \in QuoteIds : (quotes[q].status = "OPEN") ~> (quotes[q].status # "OPEN")

-----------------------------------------------------------------------------
(* What the documents say and the code does not guarantee. *)

\* README.md:114 "The old quote is canceled": once a refresh has answered with a
\* new quote the old one is not claimed afterwards.  A claim that took the lock
\* before the refresh commits after it (claim.go:95, server.go:438).
RefreshedStaysCanceled ==
    [][\A r \in Requests : \A q \in QuoteIds :
         (result[r] = "refreshed" /\ loc[r].id = q /\ quotes[q].status = "CANCELED")
            => quotes'[q].status # "CLAIMED"]_vars
=============================================================================
