-------------------------- MODULE MCQuoteLifecycle --------------------------
(***************************************************************************)
(* Instances of QuoteLifecycle for TLC.  Rates are scaled so that a spot   *)
(* of 10000 is locked at 10100 by a spread of 100 bps; against a tolerance *)
(* of 150 bps a spot of 10000 (99 bps away) is accepted and one of 10300   *)
(* (198 bps away) is refused.                                              *)
(***************************************************************************)
EXTENDS QuoteLifecycle, TLC

Symmetry == Permutations(Requests) \cup Permutations(QuoteIds)

\* What actions and invariants read: not result, not the events that record an
\* issue, a refresh or an expiry, not the locals of a request that was answered
\* and not, once its last item is being issued, whether a request was bulk.
View == <<quotes, locks, clock, spot, backend, durable, minted, pc, sweep, granted, restarts,
          [q \in QuoteIds |-> <<audit[q]["quote.claimed"], audit[q]["quote.slippage_rejected"]>>],
          [r \in Requests |-> IF pc[r] = "done" THEN NoLocals
                              ELSE [loc[r] EXCEPT !.bulk = @ /\ loc[r].left > 0]]>>

StableSpot == {10000}
MovingSpot == {10000, 10300}
FailingSpot == {0, 10000}

RedisOnly == {"redis"}
MemoryOnly == {"memory"}
EitherBackend == {"redis", "memory"}
=============================================================================
