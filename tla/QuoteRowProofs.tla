---------------------------- MODULE QuoteRowProofs ----------------------------
(***************************************************************************)
(* Proofs about the rows of the quote store in QuoteLifecycle: handlers    *)
(* and sweeper act on copies of rows and on clock readings taken earlier,  *)
(* and yet no row is expired early, loses its claimer, is claimed without  *)
(* an audit event, or is open with nothing left to claim.                  *)
(***************************************************************************)
EXTENDS QuoteLifecycleProofs, FiniteSetTheorems

\* What request r relies on about the rows it has read or is about to write,
\* however old its copies are.
RowHeld(r) ==
    LET id == loc[r].id
        new == loc[r].new
        row == loc[r].row
    IN /\ pc[r] \in {"cancel", "del", "getcheck", "getexpire", "check", "expire", "expired", "take",
                     "slippage", "reject", "commit", "claimed"} => id \in QuoteIds /\ Present(id)
       /\ pc[r] \in {"getcheck", "check"} => row.expiresAt = quotes[id].expiresAt
       /\ pc[r] = "getcheck" /\ row.status = "EXPIRED" => clock > row.expiresAt
       /\ pc[r] \in {"getexpire", "expire"} => clock > quotes[id].expiresAt
       /\ pc[r] = "del" => quotes[id].status # "OPEN"
       /\ pc[r] = "save" => /\ new \in QuoteIds /\ new \in minted /\ ~Present(new)
                            /\ row.status = "OPEN" /\ row.expiresAt <= clock + RateLockTTL
                            /\ row.claimedBy = Nobody
       /\ pc[r] = "setnx" => /\ new \in QuoteIds /\ Present(new)
                             /\ quotes[new].expiresAt <= clock + RateLockTTL

\* Two handlers never save the same id, and no row has an id yet to be minted.
SaversApart ==
    /\ \A r, s \in Requests : pc[r] = "save" /\ pc[s] = "save" /\ loc[r].new = loc[s].new => r = s
    /\ \A q \in QuoteIds : Present(q) => q \in minted

\* What the sweeper is about to mark was due when it listed it, and still is.
SweepDue ==
    /\ sweep.now <= clock
    /\ \A q \in sweep.todo : Present(q) /\ clock > quotes[q].expiresAt

\* The inductive invariant behind NoEarlyExpiry.
RowInv == (\A r \in Requests : RowHeld(r)) /\ SaversApart /\ SweepDue /\ NoEarlyExpiry

Claimers(q) == {r \in Requests : pc[r] = "claimed" /\ loc[r].id = q}

\* The claim that was granted is either in the log or about to be.
AuditedOnce(q) ==
    /\ Claimers(q) \subseteq granted[q]
    /\ Present(q) => IF granted[q] = {} \/ Claimers(q) # {}
                       THEN audit[q]["quote.claimed"] = 0
                       ELSE audit[q]["quote.claimed"] = 1
    /\ ~Present(q) => audit[q]["quote.claimed"] = 0 /\ Claimers(q) = {}

GrantInv == GrantRecorded /\ \A q \in QuoteIds : AuditedOnce(q)

\* Where the right to claim an open row is, or why it is gone.
OpenHeld(q) ==
    quotes[q].status = "OPEN" =>
        \/ Setters(q) # {} \/ Holders(q) # {} \/ Rejected(q)
        \/ locks[q] >= quotes[q].expiresAt \/ clock >= quotes[q].expiresAt

OpenInv == \A q \in QuoteIds : OpenHeld(q)

-----------------------------------------------------------------------------
(* No row is expired early. *)

\* Rows that are there stay there, with their expiry, and are not opened again.
RowsKept ==
    \A q \in QuoteIds :
        Present(q) => /\ quotes'[q].status # "ABSENT"
                      /\ quotes'[q].expiresAt = quotes[q].expiresAt
                      /\ quotes'[q].status = "OPEN" => quotes[q].status = "OPEN"

\* What a request relies on outlives the steps of the others and of the clock.
LEMMA RowHeldByOther ==
    ASSUME TypeOK, TypeOK', NEW s \in Requests, RowHeld(s), RowsKept, clock <= clock',
           minted \subseteq minted', pc'[s] = pc[s], loc'[s] = loc[s],
           pc[s] = "save" => quotes'[loc[s].new].status = "ABSENT"
    PROVE  RowHeld(s)'
<1> USE ConstantsAssumption
<1>1. /\ clock \in Nat /\ clock' \in Nat /\ loc[s].row.expiresAt \in Nat
      /\ \A q \in QuoteIds : quotes[q].expiresAt \in Nat
  BY DEF TypeOK, Locals, Row
<1>2. CASE pc[s] = "save"
  BY <1>1, <1>2 DEF RowHeld, Present
<1>3. CASE pc[s] = "setnx"
  <2>1. loc[s].new \in QuoteIds /\ Present(loc[s].new) /\ quotes[loc[s].new].expiresAt <= clock + RateLockTTL
    BY <1>3 DEF RowHeld
  <2>2. /\ quotes'[loc[s].new].status # "ABSENT"
        /\ quotes'[loc[s].new].expiresAt <= clock' + RateLockTTL
    BY <1>1, <2>1 DEF RowsKept, Present
  <2> QED BY <1>3, <2>1, <2>2 DEF RowHeld, Present
<1>4. CASE pc[s] \in {"cancel", "del", "getcheck", "getexpire", "check", "expire", "expired", "take",
                      "slippage", "reject", "commit", "claimed"}
  <2>1. loc[s].id \in QuoteIds /\ Present(loc[s].id)
    BY <1>4 DEF RowHeld
  <2>2. /\ quotes'[loc[s].id].status # "ABSENT"
        /\ quotes'[loc[s].id].expiresAt = quotes[loc[s].id].expiresAt
        /\ quotes'[loc[s].id].status = "OPEN" => quotes[loc[s].id].status = "OPEN"
    BY <2>1 DEF RowsKept, Present
  <2>3. pc[s] \in {"getcheck", "check"} => loc[s].row.expiresAt = quotes'[loc[s].id].expiresAt
    BY <2>2 DEF RowHeld
  <2>4. pc[s] = "getcheck" /\ loc[s].row.status = "EXPIRED" => clock' > loc[s].row.expiresAt
    BY <1>1 DEF RowHeld
  <2>5. pc[s] \in {"getexpire", "expire"} => clock' > quotes'[loc[s].id].expiresAt
    <3>1. pc[s] \in {"getexpire", "expire"} => clock > quotes[loc[s].id].expiresAt
      BY DEF RowHeld
    <3> QED BY <1>1, <2>1, <2>2, <3>1
  <2>6. pc[s] = "del" => quotes'[loc[s].id].status # "OPEN"
    BY <2>2 DEF RowHeld
  <2> QED BY <1>4, <2>1, <2>2, <2>3, <2>4, <2>5, <2>6 DEF RowHeld, Present
<1>5. CASE pc[s] \notin {"save", "setnx", "cancel", "del", "getcheck", "getexpire", "check", "expire",
                         "expired", "take", "slippage", "reject", "commit", "claimed"}
  BY <1>5 DEF RowHeld
<1> QED BY <1>2, <1>3, <1>4, <1>5

\* A step of request r that saves at most the row it was about to save.
LEMMA RowFrame ==
    ASSUME TypeOK, TypeOK', RowInv, NEW r \in Requests, RowHeld(r)', RowsKept, NoEarlyExpiry',
           UNCHANGED <<clock, minted, sweep>>, pc'[r] # "save",
           \A s \in Requests : s # r => pc'[s] = pc[s] /\ loc'[s] = loc[s],
           \A q \in QuoteIds : quotes'[q].status # "ABSENT" =>
                                 Present(q) \/ (pc[r] = "save" /\ q = loc[r].new)
    PROVE  RowInv'
<1>1. ASSUME NEW s \in Requests, s # r PROVE RowHeld(s)'
  <2>1. RowHeld(s) /\ clock <= clock' /\ minted \subseteq minted'
    BY DEF RowInv, TypeOK
  <2>2. pc[s] = "save" => quotes'[loc[s].new].status = "ABSENT"
    BY <1>1, <2>1 DEF RowInv, SaversApart, RowHeld
  <2> QED BY <1>1, <2>1, <2>2, RowHeldByOther
<1>2. SaversApart'
  <2>1. \A q \in QuoteIds : quotes'[q].status # "ABSENT" => q \in minted'
    BY DEF RowInv, SaversApart, RowHeld
  <2>2. \A a, b \in Requests : pc'[a] = "save" /\ pc'[b] = "save" /\ loc'[a].new = loc'[b].new => a = b
    BY DEF RowInv, SaversApart
  <2> QED BY <2>1, <2>2 DEF SaversApart, Present
<1>3. SweepDue'
  <2>1. sweep.todo \subseteq QuoteIds
    BY DEF TypeOK
  <2>2. sweep.now <= clock /\ \A q \in sweep.todo : Present(q) /\ clock > quotes[q].expiresAt
    BY DEF RowInv, SweepDue
  <2>3. \A q \in sweep.todo : quotes'[q].status # "ABSENT" /\ clock > quotes'[q].expiresAt
    BY <2>1, <2>2 DEF RowsKept, Present
  <2> QED BY <2>2, <2>3 DEF SweepDue, Present
<1> QED BY <1>1, <1>2, <1>3 DEF RowInv

\* The same for a step that leaves the rows alone, as most do.
LEMMA RowFrameSame ==
    ASSUME TypeOK, TypeOK', RowInv, NEW r \in Requests, RowHeld(r)',
           UNCHANGED <<quotes, clock, minted, sweep>>, pc'[r] # "save",
           \A s \in Requests : s # r => pc'[s] = pc[s] /\ loc'[s] = loc[s]
    PROVE  RowInv'
<1>1. RowsKept /\ NoEarlyExpiry'
  BY DEF RowsKept, RowInv, NoEarlyExpiry, Present
<1>2. \A q \in QuoteIds : quotes'[q].status # "ABSENT" =>
                           Present(q) \/ (pc[r] = "save" /\ q = loc[r].new)
  BY DEF Present
<1> QED BY <1>1, <1>2, RowFrame

\* A request that answers relies on nothing any more.
LEMMA AnswerKeepsRows ==
    ASSUME TypeOK, TypeOK', RowInv, NEW r \in Requests, NEW id, NEW res, Answer(r, id, res),
           UNCHANGED <<quotes, clock, minted, sweep>>
    PROVE  RowInv'
<1>1. pc'[r] = "done" /\ \A s \in Requests : s # r => pc'[s] = pc[s] /\ loc'[s] = loc[s]
  BY DEF Answer, TypeOK
<1>2. RowHeld(r)'
  BY <1>1 DEF RowHeld
<1> QED BY <1>1, <1>2, RowFrameSame

\* Nor does one that goes on to a step that uses no row.
LEMMA GotoKeepsRows ==
    ASSUME TypeOK, TypeOK', RowInv, NEW r \in Requests, NEW l \in {"compute", "issued", "refreshed"},
           Goto(r, l), UNCHANGED <<quotes, clock, minted, sweep>>,
           \A s \in Requests : s # r => loc'[s] = loc[s]
    PROVE  RowInv'
<1>1. pc'[r] = l /\ \A s \in Requests : s # r => pc'[s] = pc[s] /\ loc'[s] = loc[s]
  BY DEF Goto, TypeOK
<1>2. RowHeld(r)'
  BY <1>1 DEF RowHeld
<1> QED BY <1>1, <1>2, RowFrameSame

\* Marking a row that is there.
LEMMA SetStatusKeepsRows ==
    ASSUME TypeOK, NEW q \in QuoteIds, Present(q), NEW st \in {"EXPIRED", "CANCELED"}, SetStatus(q, st)
    PROVE  /\ RowsKept
           /\ quotes'[q].status = st
           /\ \A p \in QuoteIds : quotes'[p].status # "ABSENT" => Present(p)
           /\ \A p \in QuoteIds : /\ quotes'[p].claimedBy = quotes[p].claimedBy
                                  /\ quotes'[p].expiresAt = quotes[p].expiresAt
                                  /\ p # q => quotes'[p] = quotes[p]
<1>1. quotes \in [QuoteIds -> Row]
  BY DEF TypeOK
<1>2. /\ quotes'[q].status = st /\ quotes'[q].expiresAt = quotes[q].expiresAt
      /\ quotes'[q].claimedBy = quotes[q].claimedBy
      /\ \A p \in QuoteIds : p # q => quotes'[p] = quotes[p]
  BY <1>1 DEF SetStatus, Row
<1> QED BY <1>2 DEF RowsKept, Present
\* The write of a commit.
LEMMA CommitWrites ==
    ASSUME TypeOK, NEW r \in Requests, ClaimCommit(r), loc[r].id \in QuoteIds
    PROVE  /\ quotes'[loc[r].id].status = "CLAIMED"
           /\ quotes'[loc[r].id].claimedBy = r
           /\ quotes'[loc[r].id].expiresAt = quotes[loc[r].id].expiresAt
           /\ \A p \in QuoteIds : p # loc[r].id => quotes'[p] = quotes[p]
  BY DEF ClaimCommit, TypeOK, Row

\* Where a request is after it moves on; the others stay where they are.
LEMMA MoveOn ==
    ASSUME TypeOK, NEW r \in Requests, NEW l, Goto(r, l),
           \A s \in Requests : s # r => loc'[s] = loc[s]
    PROVE  pc'[r] = l /\ \A s \in Requests : s # r => pc'[s] = pc[s] /\ loc'[s] = loc[s]
  BY DEF Goto, TypeOK

\* What a handler that drops its copy of the row still knows.
LEMMA DropRowKeepsIds ==
    ASSUME TypeOK, NEW r \in Requests, DropRow(r)
    PROVE  /\ loc'[r].id = loc[r].id /\ loc'[r].new = loc[r].new
           /\ \A s \in Requests : s # r => loc'[s] = loc[s]
  BY DEF DropRow, TypeOK, Locals

\* A step of the sweeper or of the environment, which moves no request.
LEMMA RowFrameAll ==
    ASSUME TypeOK, TypeOK', RowInv, RowsKept, NoEarlyExpiry', SweepDue',
           UNCHANGED <<minted, pc, loc>>, clock <= clock',
           \A q \in QuoteIds : quotes'[q].status # "ABSENT" => Present(q)
    PROVE  RowInv'
<1>1. ASSUME NEW s \in Requests PROVE RowHeld(s)'
  <2>1. RowHeld(s) /\ minted \subseteq minted' /\ pc'[s] = pc[s] /\ loc'[s] = loc[s]
    BY DEF RowInv
  <2>2. pc[s] = "save" => quotes'[loc[s].new].status = "ABSENT"
    BY <2>1 DEF RowHeld
  <2> QED BY <2>1, <2>2, RowHeldByOther
<1>2. SaversApart'
  <2>1. \A q \in QuoteIds : quotes'[q].status # "ABSENT" => q \in minted'
    BY DEF RowInv, SaversApart
  <2>2. \A a, b \in Requests : pc'[a] = "save" /\ pc'[b] = "save" /\ loc'[a].new = loc'[b].new => a = b
    BY DEF RowInv, SaversApart
  <2> QED BY <2>1, <2>2 DEF SaversApart, Present
<1> QED BY <1>1, <1>2 DEF RowInv

\* The same when no row changes.
LEMMA RowsUnchanged ==
    ASSUME TypeOK, TypeOK', RowInv, SweepDue', UNCHANGED <<quotes, minted, pc, loc>>,
           clock' = clock \/ clock' = clock + 1
    PROVE  RowInv'
<1>1. clock <= clock' /\ clock \in Nat /\ \A q \in QuoteIds : quotes[q].expiresAt \in Nat
  BY DEF TypeOK, Row
<1>2. RowsKept /\ \A q \in QuoteIds : quotes'[q].status # "ABSENT" => Present(q)
  BY DEF RowsKept, Present
<1>3. NoEarlyExpiry'
  BY <1>1 DEF RowInv, NoEarlyExpiry
<1> QED BY <1>1, <1>2, <1>3, RowFrameAll

\* Every step keeps what the handlers and the sweeper rely on.
LEMMA RowStep == ASSUME TypeInv, RowInv, [Next]_vars PROVE RowInv'
<1> USE ConstantsAssumption
<1>0. TypeOK /\ TypeOK' /\ RowInv
  BY TypeStep DEF TypeInv
<1>a. \A s \in Requests : RowHeld(s)
  BY DEF RowInv
<1>1. ASSUME NEW r \in Requests, ReceiveQuoteRequest(r) PROVE RowInv'
  <2>1. \A s \in Requests : s # r => loc'[s] = loc[s]
    BY <1>0, <1>1 DEF ReceiveQuoteRequest, TypeOK
  <2> QED BY <1>0, <1>1, <2>1, GotoKeepsRows DEF ReceiveQuoteRequest, world
<1>2. ASSUME NEW r \in Requests, ComputePrice(r) PROVE RowInv'
  <2>1. PICK q \in QuoteIds \ minted :
          /\ minted' = minted \cup {q}
          /\ loc' = [loc EXCEPT ![r].new = q,
                                ![r].row = [NoRow EXCEPT !.status = "OPEN",
                                                         !.rate = EffectiveRate(spot),
                                                         !.expiresAt = clock + RateLockTTL],
                                ![r].left = @ - 1]
    BY <1>2 DEF ComputePrice
  <2>2. loc'[r].new = q /\ \A s \in Requests : s # r => loc'[s] = loc[s]
    BY <1>0, <2>1 DEF TypeOK, Locals
  <2>3. loc'[r].row = [NoRow EXCEPT !.status = "OPEN", !.rate = EffectiveRate(spot),
                                    !.expiresAt = clock + RateLockTTL]
    BY <1>0, <2>1 DEF TypeOK, Locals
  <2>4. /\ loc'[r].row.status = "OPEN" /\ loc'[r].row.expiresAt = clock + RateLockTTL
        /\ loc'[r].row.claimedBy = Nobody
    BY <2>3 DEF NoRow
  <2>5. pc'[r] = "save" /\ \A s \in Requests : s # r => pc'[s] = pc[s] /\ loc'[s] = loc[s]
    BY <1>0, <1>2, <2>2, MoveOn DEF ComputePrice
  <2>6. UNCHANGED <<quotes, clock, sweep>>
    BY <1>2 DEF ComputePrice, world
  <2>7. ~Present(q)
    BY <1>0, <2>1 DEF RowInv, SaversApart
  <2>8. RowHeld(r)'
    <3>1. loc'[r].row.expiresAt <= clock' + RateLockTTL
      BY <1>0, <2>4, <2>6 DEF TypeOK
    <3>2. loc'[r].new \in QuoteIds /\ loc'[r].new \in minted' /\ quotes'[loc'[r].new].status = "ABSENT"
      BY <2>1, <2>2, <2>6, <2>7 DEF Present
    <3> QED BY <2>4, <2>5, <3>1, <3>2 DEF RowHeld, Present
  <2>9. ASSUME NEW s \in Requests, s # r PROVE RowHeld(s)'
    <3>1. RowsKept /\ clock <= clock' /\ minted \subseteq minted'
      BY <1>0, <2>1, <2>6 DEF RowsKept, TypeOK, Present
    <3>2. pc[s] = "save" => quotes'[loc[s].new].status = "ABSENT"
      BY <1>a, <2>6 DEF RowHeld, Present
    <3> QED BY <1>0, <1>a, <2>5, <2>9, <3>1, <3>2, RowHeldByOther
  <2>10. SaversApart'
    <3>1. \A s \in Requests : pc[s] = "save" => loc[s].new # q
      BY <1>a, <2>1 DEF RowHeld
    <3>2. \A a, b \in Requests : pc'[a] = "save" /\ pc'[b] = "save" /\ loc'[a].new = loc'[b].new => a = b
      BY <1>0, <2>2, <2>5, <3>1 DEF RowInv, SaversApart
    <3>3. \A p \in QuoteIds : quotes'[p].status # "ABSENT" => p \in minted'
      BY <1>0, <2>1, <2>6 DEF RowInv, SaversApart, Present
    <3> QED BY <3>2, <3>3 DEF SaversApart, Present
  <2>11. SweepDue' /\ NoEarlyExpiry'
    BY <1>0, <2>6 DEF RowInv, SweepDue, NoEarlyExpiry, Present
  <2> QED BY <2>8, <2>9, <2>10, <2>11 DEF RowInv
<1>3. ASSUME NEW r \in Requests, SpotUnavailable(r) PROVE RowInv'
  <2>1. CASE loc[r].bulk /\ loc[r].left > 1
    <3>1. Goto(r, "compute") /\ \A s \in Requests : s # r => loc'[s] = loc[s]
      BY <1>0, <1>3, <2>1 DEF SpotUnavailable, TypeOK
    <3> QED BY <1>0, <1>3, <3>1, GotoKeepsRows DEF SpotUnavailable, world
  <2>2. CASE ~(loc[r].bulk /\ loc[r].left > 1)
    BY <1>0, <1>3, <2>2, AnswerKeepsRows DEF SpotUnavailable, world
  <2> QED BY <2>1, <2>2
<1>4. ASSUME NEW r \in Requests, SaveQuote(r) PROVE RowInv'
  <2>1. /\ loc[r].new \in QuoteIds /\ ~Present(loc[r].new)
        /\ loc[r].row.status = "OPEN" /\ loc[r].row.expiresAt <= clock + RateLockTTL
    BY <1>4, <1>a DEF SaveQuote, RowHeld
  <2>2. /\ quotes'[loc[r].new] = loc[r].row
        /\ \A q \in QuoteIds : q # loc[r].new => quotes'[q] = quotes[q]
    BY <1>0, <1>4, <2>1 DEF SaveQuote, TypeOK
  <2>3. /\ pc'[r] = "setnx" /\ loc'[r].new = loc[r].new
        /\ \A s \in Requests : s # r => pc'[s] = pc[s] /\ loc'[s] = loc[s]
    BY <1>0, <1>4, MoveOn, DropRowKeepsIds DEF SaveQuote
  <2>4. UNCHANGED <<clock, minted, sweep>> /\ pc[r] = "save"
    BY <1>4 DEF SaveQuote, world
  <2>5. RowHeld(r)'
    BY <2>1, <2>2, <2>3, <2>4 DEF RowHeld, Present
  <2>6. RowsKept
    BY <2>1, <2>2 DEF RowsKept, Present
  <2>7. NoEarlyExpiry'
    BY <1>0, <2>1, <2>2, <2>4 DEF RowInv, NoEarlyExpiry
  <2>8. \A q \in QuoteIds : quotes'[q].status # "ABSENT" =>
                               Present(q) \/ (pc[r] = "save" /\ q = loc[r].new)
    BY <2>2, <2>4 DEF Present
  <2> QED BY <1>0, <2>3, <2>4, <2>5, <2>6, <2>7, <2>8, RowFrame
<1>5. ASSUME NEW r \in Requests, SetLock(r) PROVE RowInv'
  BY <1>0, <1>5, GotoKeepsRows DEF SetLock, world
<1>6. ASSUME NEW r \in Requests, RetrySetLock(r) PROVE RowInv'
  <2>1. UNCHANGED <<quotes, clock, minted, sweep, pc, loc>> /\ pc'[r] # "save"
    BY <1>6 DEF RetrySetLock, world
  <2>2. RowHeld(r)'
    BY <1>6, <1>a, <2>1 DEF RetrySetLock, RowHeld, Present
  <2> QED BY <1>0, <2>1, <2>2, RowFrameSame
<1>7. ASSUME NEW r \in Requests, AuditIssued(r) PROVE RowInv'
  <2>1. CASE loc[r].left > 0
    BY <1>0, <1>7, <2>1, GotoKeepsRows DEF AuditIssued, NextItem, world
  <2>2. CASE ~(loc[r].left > 0)
    BY <1>0, <1>7, <2>2, AnswerKeepsRows DEF AuditIssued, NextItem, world
  <2> QED BY <2>1, <2>2
<1>8. ASSUME NEW r \in Requests, NEW q \in QuoteIds, RefreshLoad(r, q) PROVE RowInv'
  <2>1. UNCHANGED <<quotes, clock, minted, sweep>>
    BY <1>8 DEF RefreshLoad, world
  <2>2. CASE Present(q)
    <3>0. loc' = [loc EXCEPT ![r] = [NoLocals EXCEPT !.id = q, !.left = 1]]
      BY <1>8, <2>2 DEF RefreshLoad
    <3>1. loc'[r].id = q /\ \A s \in Requests : s # r => loc'[s] = loc[s]
      BY <1>0, <3>0 DEF TypeOK, NoLocals
    <3>2. pc'[r] = "cancel" /\ \A s \in Requests : s # r => pc'[s] = pc[s] /\ loc'[s] = loc[s]
      BY <1>0, <1>8, <2>2, <3>1, MoveOn DEF RefreshLoad
    <3>3. RowHeld(r)'
      BY <2>1, <2>2, <3>1, <3>2 DEF RowHeld, Present
    <3> QED BY <1>0, <2>1, <3>2, <3>3, RowFrameSame
  <2>3. CASE ~Present(q)
    BY <1>0, <1>8, <2>1, <2>3, AnswerKeepsRows DEF RefreshLoad
  <2> QED BY <2>2, <2>3
<1>9. ASSUME NEW r \in Requests, RefreshCancel(r) PROVE RowInv'
  <2>1. loc[r].id \in QuoteIds /\ Present(loc[r].id)
    BY <1>9, <1>a DEF RefreshCancel, RowHeld
  <2>2. UNCHANGED <<clock, minted, sweep, loc>> /\ SetStatus(loc[r].id, "CANCELED")
    BY <1>9 DEF RefreshCancel, world
  <2>3. pc'[r] = "del" /\ \A s \in Requests : s # r => pc'[s] = pc[s] /\ loc'[s] = loc[s]
    BY <1>0, <1>9, <2>2, MoveOn DEF RefreshCancel
  <2>4. /\ RowsKept /\ quotes'[loc[r].id].status = "CANCELED"
        /\ \A p \in QuoteIds : quotes'[p].status # "ABSENT" => Present(p)
        /\ \A p \in QuoteIds : p # loc[r].id => quotes'[p] = quotes[p]
    BY <1>0, <2>1, <2>2, SetStatusKeepsRows
  <2>5. RowHeld(r)'
    BY <2>1, <2>2, <2>3, <2>4 DEF RowHeld, Present
  <2>6. NoEarlyExpiry'
    BY <1>0, <2>2, <2>4 DEF RowInv, NoEarlyExpiry
  <2> QED BY <1>0, <2>2, <2>3, <2>4, <2>5, <2>6, RowFrame
<1>10. ASSUME NEW r \in Requests, RefreshDel(r) PROVE RowInv'
  BY <1>0, <1>10, GotoKeepsRows DEF RefreshDel, world
<1>11. ASSUME NEW r \in Requests, RefreshAudit(r) PROVE RowInv'
  BY <1>0, <1>11, GotoKeepsRows DEF RefreshAudit, world
<1>12. ASSUME NEW r \in Requests, NEW q \in QuoteIds, GetLoad(r, q) PROVE RowInv'
  <2>1. UNCHANGED <<quotes, clock, minted, sweep>>
    BY <1>12 DEF GetLoad, world
  <2>2. CASE Present(q)
    <3>0. loc' = [loc EXCEPT ![r] = [NoLocals EXCEPT !.id = q, !.row = quotes[q]]]
      BY <1>12, <2>2 DEF GetLoad
    <3>1. /\ loc'[r].id = q /\ loc'[r].row = quotes[q]
          /\ \A s \in Requests : s # r => loc'[s] = loc[s]
      BY <1>0, <3>0 DEF TypeOK, NoLocals
    <3>2. pc'[r] = "getcheck" /\ \A s \in Requests : s # r => pc'[s] = pc[s] /\ loc'[s] = loc[s]
      BY <1>0, <1>12, <2>2, <3>1, MoveOn DEF GetLoad
    <3>3. quotes[q].status = "EXPIRED" => clock > quotes[q].expiresAt
      BY <1>0 DEF RowInv, NoEarlyExpiry
    <3>4. RowHeld(r)'
      BY <2>1, <2>2, <3>1, <3>2, <3>3 DEF RowHeld, Present
    <3> QED BY <1>0, <2>1, <3>2, <3>4, RowFrameSame
  <2>3. CASE ~Present(q)
    BY <1>0, <1>12, <2>1, <2>3, AnswerKeepsRows DEF GetLoad
  <2> QED BY <2>2, <2>3
<1>13. ASSUME NEW r \in Requests, GetCheck(r) PROVE RowInv'
  <2>1. UNCHANGED <<quotes, clock, minted, sweep>>
    BY <1>13 DEF GetCheck, world
  <2>2. CASE Answer(r, loc[r].id, "found")
    BY <1>0, <2>1, <2>2, AnswerKeepsRows
  <2>3. CASE /\ loc[r].row.status = "EXPIRED" \/ PastExpiry(clock, loc[r].row)
             /\ Goto(r, "getexpire") /\ DropRow(r)
    <3>1. /\ loc[r].id \in QuoteIds /\ Present(loc[r].id)
          /\ loc[r].row.expiresAt = quotes[loc[r].id].expiresAt
          /\ loc[r].row.status = "EXPIRED" => clock > loc[r].row.expiresAt
      BY <1>13, <1>a DEF GetCheck, RowHeld
    <3>2. clock > quotes[loc[r].id].expiresAt
      BY <2>3, <3>1 DEF PastExpiry
    <3>3. loc'[r].id = loc[r].id /\ pc'[r] = "getexpire"
          /\ \A s \in Requests : s # r => pc'[s] = pc[s] /\ loc'[s] = loc[s]
      BY <1>0, <2>3, MoveOn, DropRowKeepsIds
    <3>4. RowHeld(r)'
      BY <2>1, <3>1, <3>2, <3>3 DEF RowHeld, Present
    <3> QED BY <1>0, <2>1, <3>3, <3>4, RowFrameSame
  <2> QED BY <1>13, <2>2, <2>3 DEF GetCheck
<1>14. ASSUME NEW r \in Requests, GetExpire(r) PROVE RowInv'
  <2>1. loc[r].id \in QuoteIds /\ Present(loc[r].id) /\ clock > quotes[loc[r].id].expiresAt
    BY <1>14, <1>a DEF GetExpire, RowHeld
  <2>2. UNCHANGED <<clock, minted, sweep>> /\ SetStatus(loc[r].id, "EXPIRED")
    BY <1>14 DEF GetExpire, world
  <2>3. pc'[r] = "done" /\ \A s \in Requests : s # r => pc'[s] = pc[s] /\ loc'[s] = loc[s]
    BY <1>0, <1>14 DEF GetExpire, Answer, TypeOK
  <2>4. /\ RowsKept
        /\ \A p \in QuoteIds : quotes'[p].status # "ABSENT" => Present(p)
        /\ \A p \in QuoteIds : p # loc[r].id => quotes'[p] = quotes[p]
        /\ quotes'[loc[r].id].expiresAt = quotes[loc[r].id].expiresAt
    BY <1>0, <2>1, <2>2, SetStatusKeepsRows
  <2>5. RowHeld(r)'
    BY <2>3 DEF RowHeld
  <2>6. NoEarlyExpiry'
    BY <1>0, <2>1, <2>2, <2>4 DEF RowInv, NoEarlyExpiry
  <2> QED BY <1>0, <2>2, <2>3, <2>4, <2>5, <2>6, RowFrame
<1>15. ASSUME NEW r \in Requests, NEW q \in QuoteIds, ClaimLoad(r, q) PROVE RowInv'
  <2>1. UNCHANGED <<quotes, clock, minted, sweep>>
    BY <1>15 DEF ClaimLoad, world
  <2>2. CASE quotes[q].status = "OPEN"
    <3>0. loc' = [loc EXCEPT ![r] = [NoLocals EXCEPT !.id = q, !.row = quotes[q]]]
      BY <1>15, <2>2 DEF ClaimLoad
    <3>1. /\ loc'[r].id = q /\ loc'[r].row = quotes[q]
          /\ \A s \in Requests : s # r => loc'[s] = loc[s]
      BY <1>0, <3>0 DEF TypeOK, NoLocals
    <3>2. pc'[r] = "check" /\ \A s \in Requests : s # r => pc'[s] = pc[s] /\ loc'[s] = loc[s]
      BY <1>0, <1>15, <2>2, <3>1, MoveOn DEF ClaimLoad
    <3>3. RowHeld(r)'
      BY <2>1, <2>2, <3>1, <3>2 DEF RowHeld, Present
    <3> QED BY <1>0, <2>1, <3>2, <3>3, RowFrameSame
  <2>3. CASE quotes[q].status # "OPEN"
    <3>1. quotes[q].status \in Statuses
      BY <1>0 DEF TypeOK, Row
    <3> QED BY <1>0, <1>15, <2>1, <2>3, <3>1, AnswerKeepsRows DEF ClaimLoad, Statuses
  <2> QED BY <2>2, <2>3
<1>16. ASSUME NEW r \in Requests, ClaimCheck(r) PROVE RowInv'
  <2>1. UNCHANGED <<quotes, clock, minted, sweep>>
    BY <1>16 DEF ClaimCheck, world
  <2>2. /\ loc[r].id \in QuoteIds /\ Present(loc[r].id)
        /\ loc[r].row.expiresAt = quotes[loc[r].id].expiresAt
    BY <1>16, <1>a DEF ClaimCheck, RowHeld
  <2>3. CASE PastExpiry(clock, loc[r].row)
    <3>1. loc'[r].id = loc[r].id /\ pc'[r] = "expire"
          /\ \A s \in Requests : s # r => pc'[s] = pc[s] /\ loc'[s] = loc[s]
      BY <1>0, <1>16, <2>3, MoveOn, DropRowKeepsIds DEF ClaimCheck
    <3>2. clock > quotes[loc[r].id].expiresAt
      BY <2>2, <2>3 DEF PastExpiry
    <3>3. RowHeld(r)'
      BY <2>1, <2>2, <3>1, <3>2 DEF RowHeld, Present
    <3> QED BY <1>0, <2>1, <3>1, <3>3, RowFrameSame
  <2>4. CASE ~PastExpiry(clock, loc[r].row)
    <3>1. loc' = loc /\ pc'[r] = "take"
          /\ \A s \in Requests : s # r => pc'[s] = pc[s] /\ loc'[s] = loc[s]
      BY <1>0, <1>16, <2>4, MoveOn DEF ClaimCheck
    <3>2. RowHeld(r)'
      BY <2>1, <2>2, <3>1 DEF RowHeld, Present
    <3> QED BY <1>0, <2>1, <3>1, <3>2, RowFrameSame
  <2> QED BY <2>3, <2>4
<1>17. ASSUME NEW r \in Requests, ClaimExpire(r) PROVE RowInv'
  <2>1. loc[r].id \in QuoteIds /\ Present(loc[r].id) /\ clock > quotes[loc[r].id].expiresAt
    BY <1>17, <1>a DEF ClaimExpire, RowHeld
  <2>2. UNCHANGED <<clock, minted, sweep, loc>> /\ SetStatus(loc[r].id, "EXPIRED")
    BY <1>17 DEF ClaimExpire, world
  <2>3. pc'[r] = "expired" /\ \A s \in Requests : s # r => pc'[s] = pc[s] /\ loc'[s] = loc[s]
    BY <1>0, <1>17, <2>2, MoveOn DEF ClaimExpire
  <2>4. /\ RowsKept /\ quotes'[loc[r].id].status = "EXPIRED"
        /\ \A p \in QuoteIds : quotes'[p].status # "ABSENT" => Present(p)
        /\ \A p \in QuoteIds : p # loc[r].id => quotes'[p] = quotes[p]
        /\ quotes'[loc[r].id].expiresAt = quotes[loc[r].id].expiresAt
    BY <1>0, <2>1, <2>2, SetStatusKeepsRows
  <2>5. RowHeld(r)'
    BY <2>1, <2>2, <2>3, <2>4 DEF RowHeld, Present
  <2>6. NoEarlyExpiry'
    BY <1>0, <2>1, <2>2, <2>4 DEF RowInv, NoEarlyExpiry
  <2> QED BY <1>0, <2>2, <2>3, <2>4, <2>5, <2>6, RowFrame
<1>18. ASSUME NEW r \in Requests, ClaimExpireAudit(r) PROVE RowInv'
  BY <1>0, <1>18, AnswerKeepsRows DEF ClaimExpireAudit, world
<1>19. ASSUME NEW r \in Requests, ClaimTake(r) PROVE RowInv'
  <2>1. UNCHANGED <<quotes, clock, minted, sweep>>
    BY <1>19 DEF ClaimTake, world
  <2>2. CASE Answer(r, loc[r].id, "already_claimed")
    BY <1>0, <2>1, <2>2, AnswerKeepsRows
  <2>3. CASE Goto(r, "slippage") /\ UNCHANGED loc
    <3>1. loc' = loc /\ pc'[r] = "slippage"
          /\ \A s \in Requests : s # r => pc'[s] = pc[s] /\ loc'[s] = loc[s]
      BY <1>0, <2>3, MoveOn
    <3>2. loc[r].id \in QuoteIds /\ Present(loc[r].id)
      BY <1>19, <1>a DEF ClaimTake, RowHeld
    <3>3. RowHeld(r)'
      BY <2>1, <3>1, <3>2 DEF RowHeld, Present
    <3> QED BY <1>0, <2>1, <3>1, <3>3, RowFrameSame
  <2> QED BY <1>19, <2>2, <2>3 DEF ClaimTake
<1>20. ASSUME NEW r \in Requests, ClaimSlippage(r) PROVE RowInv'
  <2>1. UNCHANGED <<quotes, clock, minted, sweep>>
    BY <1>20 DEF ClaimSlippage, world
  <2>2. loc'[r].id = loc[r].id /\ \A s \in Requests : s # r => loc'[s] = loc[s]
    BY <1>0, <1>20 DEF ClaimSlippage, DropRow, TypeOK, Locals
  <2>3. PICK l \in {"reject", "commit"} : Goto(r, l)
    BY <1>20 DEF ClaimSlippage
  <2>4. pc'[r] = l /\ \A s \in Requests : s # r => pc'[s] = pc[s] /\ loc'[s] = loc[s]
    BY <1>0, <2>2, <2>3, MoveOn
  <2>5. loc[r].id \in QuoteIds /\ Present(loc[r].id)
    BY <1>20, <1>a DEF ClaimSlippage, RowHeld
  <2>6. RowHeld(r)'
    BY <2>1, <2>2, <2>3, <2>4, <2>5 DEF RowHeld, Present
  <2> QED BY <1>0, <2>1, <2>3, <2>4, <2>6, RowFrameSame
<1>21. ASSUME NEW r \in Requests, ClaimReject(r) PROVE RowInv'
  BY <1>0, <1>21, AnswerKeepsRows DEF ClaimReject, world
<1>22. ASSUME NEW r \in Requests, ClaimCommit(r) PROVE RowInv'
  <2>1. loc[r].id \in QuoteIds /\ Present(loc[r].id)
    BY <1>22, <1>a DEF ClaimCommit, RowHeld
  <2>2. UNCHANGED <<clock, minted, sweep, loc>>
    BY <1>22 DEF ClaimCommit, world
  <2>3. pc'[r] = "claimed" /\ \A s \in Requests : s # r => pc'[s] = pc[s] /\ loc'[s] = loc[s]
    BY <1>0, <1>22, <2>2, MoveOn DEF ClaimCommit
  <2>4. /\ quotes'[loc[r].id].status = "CLAIMED"
        /\ quotes'[loc[r].id].expiresAt = quotes[loc[r].id].expiresAt
        /\ \A p \in QuoteIds : p # loc[r].id => quotes'[p] = quotes[p]
    BY <2>1, <1>0, <1>22, CommitWrites
  <2>5. RowsKept
    BY <2>4 DEF RowsKept, Present
  <2>6. RowHeld(r)'
    BY <2>1, <2>2, <2>3, <2>4 DEF RowHeld, Present
  <2>7. NoEarlyExpiry'
    BY <1>0, <2>2, <2>4 DEF RowInv, NoEarlyExpiry
  <2>8. \A p \in QuoteIds : quotes'[p].status # "ABSENT" => Present(p)
    BY <2>1, <2>4 DEF Present
  <2> QED BY <1>0, <2>2, <2>3, <2>5, <2>6, <2>7, <2>8, RowFrame
<1>23. ASSUME NEW r \in Requests, ClaimAudit(r) PROVE RowInv'
  BY <1>0, <1>23, AnswerKeepsRows DEF ClaimAudit, world
<1>24. ASSUME SweepTick PROVE RowInv'
  <2>1. UNCHANGED <<quotes, clock, minted, pc, loc>>
    BY <1>24 DEF SweepTick, sweeperOnly, world
  <2>2. sweep'.now = clock /\ sweep'.todo = sweep.todo
    BY <1>0, <1>24 DEF SweepTick, TypeOK
  <2>3. SweepDue'
    BY <1>0, <2>1, <2>2 DEF RowInv, SweepDue, Present, TypeOK
  <2> QED BY <1>0, <2>1, <2>3, RowsUnchanged
<1>25. ASSUME SweepList PROVE RowInv'
  <2>1. UNCHANGED <<quotes, clock, minted, pc, loc>>
    BY <1>25 DEF SweepList, sweeperOnly, world
  <2>2. /\ sweep'.now = 0
        /\ sweep'.todo \subseteq {q \in QuoteIds : Present(q) /\ PastExpiry(sweep.now, quotes[q])}
    BY <1>25 DEF SweepList, ListQuotes, Asleep
  <2>3. \A q \in sweep'.todo : clock > quotes[q].expiresAt
    <3>1. /\ sweep.now \in Nat /\ clock \in Nat /\ sweep.now <= clock
          /\ \A q \in QuoteIds : quotes[q].expiresAt \in Nat
      BY <1>0 DEF TypeOK, Row, RowInv, SweepDue
    <3> QED BY <2>2, <3>1 DEF PastExpiry
  <2>4. SweepDue'
    BY <1>0, <2>1, <2>2, <2>3 DEF SweepDue, Present, TypeOK
  <2> QED BY <1>0, <2>1, <2>4, RowsUnchanged
<1>26. ASSUME SweepMark PROVE RowInv'
  <2>1. UNCHANGED <<clock, minted, pc, loc>>
    BY <1>26 DEF SweepMark, sweeperOnly, world
  <2>2. PICK q \in sweep.todo : SetStatus(q, "EXPIRED") /\ sweep'.todo = sweep.todo \ {q} /\ sweep'.now = sweep.now
    BY <1>0, <1>26 DEF SweepMark, TypeOK
  <2>3. /\ sweep.now <= clock /\ sweep.todo \subseteq QuoteIds
        /\ \A p \in sweep.todo : Present(p) /\ clock > quotes[p].expiresAt
    BY <1>0 DEF RowInv, SweepDue, TypeOK
  <2>4. /\ RowsKept
        /\ \A p \in QuoteIds : quotes'[p].status # "ABSENT" => Present(p)
        /\ \A p \in QuoteIds : /\ quotes'[p].expiresAt = quotes[p].expiresAt
                               /\ p # q => quotes'[p] = quotes[p]
    BY <1>0, <2>2, <2>3, SetStatusKeepsRows
  <2>5. NoEarlyExpiry'
    BY <1>0, <2>1, <2>2, <2>3, <2>4 DEF RowInv, NoEarlyExpiry
  <2>6. SweepDue'
    <3>1. \A p \in sweep'.todo : quotes'[p].status # "ABSENT" /\ clock' > quotes'[p].expiresAt
      BY <2>1, <2>2, <2>3, <2>4 DEF RowsKept
    <3> QED BY <2>1, <2>2, <2>3, <3>1 DEF SweepDue, Present
  <2> QED BY <1>0, <2>1, <2>4, <2>5, <2>6, RowFrameAll DEF TypeOK
<1>27. ASSUME SweepAudit PROVE RowInv'
  <2>1. UNCHANGED <<quotes, clock, minted, pc, loc>>
    BY <1>27 DEF SweepAudit, sweeperOnly, world
  <2>2. sweep'.now = 0 /\ sweep'.todo = sweep.todo
    BY <1>0, <1>27 DEF SweepAudit, Asleep, TypeOK
  <2>3. SweepDue'
    BY <1>0, <2>1, <2>2 DEF RowInv, SweepDue, Present, TypeOK
  <2> QED BY <1>0, <2>1, <2>3, RowsUnchanged
<1>28. ASSUME Tick PROVE RowInv'
  <2>1. UNCHANGED <<quotes, minted, pc, loc, sweep>> /\ clock' = clock + 1
    BY <1>28 DEF Tick
  <2>2. /\ clock \in Nat /\ sweep.now \in Nat /\ sweep.todo \subseteq QuoteIds
        /\ \A q \in QuoteIds : quotes[q].expiresAt \in Nat
    BY <1>0 DEF TypeOK, Row
  <2>3. SweepDue'
    <3>1. sweep.now <= clock /\ \A q \in sweep.todo : Present(q) /\ clock > quotes[q].expiresAt
      BY <1>0 DEF RowInv, SweepDue
    <3>2. sweep.now <= clock' /\ \A q \in sweep.todo : clock' > quotes[q].expiresAt
      BY <2>1, <2>2, <3>1
    <3> QED BY <2>1, <3>1, <3>2 DEF SweepDue, Present
  <2> QED BY <1>0, <2>1, <2>2, <2>3, RowsUnchanged
<1>29. ASSUME SpotMoves PROVE RowInv'
  <2>1. UNCHANGED <<quotes, clock, minted, pc, loc, sweep>>
    BY <1>29 DEF SpotMoves
  <2>2. SweepDue'
    BY <1>0, <2>1 DEF RowInv, SweepDue, Present
  <2> QED BY <1>0, <2>1, <2>2, RowsUnchanged
<1>30. ASSUME Restart PROVE RowInv'
  <2>1. \A q \in QuoteIds : quotes'[q].status = "ABSENT"
    BY <1>30 DEF Restart, NoRow
  <2>2. \A s \in Requests : pc'[s] \in {"idle", "done"}
    BY <1>30 DEF Restart
  <2>3. sweep'.now = 0 /\ sweep'.todo = {} /\ clock' = clock
    BY <1>30 DEF Restart, Asleep
  <2>4. \A s \in Requests : RowHeld(s)'
    BY <2>2 DEF RowHeld
  <2>5. SaversApart'
    BY <2>1, <2>2 DEF SaversApart, Present
  <2>6. SweepDue'
    BY <1>0, <2>3 DEF SweepDue, TypeOK
  <2>7. NoEarlyExpiry'
    BY <2>1 DEF NoEarlyExpiry
  <2> QED BY <2>4, <2>5, <2>6, <2>7 DEF RowInv
<1>31. CASE UNCHANGED vars
  <2>1. UNCHANGED <<quotes, clock, minted, pc, loc, sweep>>
    BY <1>31 DEF vars
  <2>2. SweepDue'
    BY <1>0, <2>1 DEF RowInv, SweepDue, Present
  <2> QED BY <1>0, <2>1, <2>2, RowsUnchanged
<1> QED
  BY <1>1, <1>2, <1>3, <1>4, <1>5, <1>6, <1>7, <1>8, <1>9, <1>10, <1>11, <1>12, <1>13, <1>14, <1>15, <1>16, <1>17, <1>18, <1>19, <1>20, <1>21, <1>22, <1>23, <1>24, <1>25, <1>26, <1>27, <1>28, <1>29, <1>30, <1>31
     DEF Next, Receive, QuoteByID, InternalQuote, Serve, Sweep

LEMMA RowInit == Init => RowInv
<1> SUFFICES ASSUME Init PROVE RowInv
  OBVIOUS
<1>1. \A r \in Requests : RowHeld(r)
  BY DEF Init, RowHeld
<1>2. SaversApart /\ SweepDue /\ NoEarlyExpiry
  BY DEF Init, SaversApart, SweepDue, NoEarlyExpiry, Present, NoRow, Asleep
<1> QED BY <1>1, <1>2 DEF RowInv

\* For every instance, and with go-redis retries too: a quote whose window is
\* still open is never marked EXPIRED (server.go:417, claim.go:56, server.go:681-684).
THEOREM ExpiryIsNeverEarly == Spec => []NoEarlyExpiry
<1>1. Init => TypeInv /\ RowInv
  BY TypeInit, RowInit
<1>2. TypeInv /\ RowInv /\ [Next]_vars => (TypeInv /\ RowInv)'
  BY TypeStep, RowStep
<1>3. RowInv => NoEarlyExpiry
  BY DEF RowInv
<1> QED BY <1>1, <1>2, <1>3, PTL DEF Spec
-----------------------------------------------------------------------------
(* Most steps leave the token of a quote, its grant and its claimer alone. *)

\* The row of q is the same but for a status that is not opened again.
SameRow(q) ==
    /\ quotes'[q].status # "ABSENT" <=> quotes[q].status # "ABSENT"
    /\ quotes'[q].claimedBy = quotes[q].claimedBy
    /\ quotes'[q].expiresAt = quotes[q].expiresAt
    /\ quotes'[q].status = "OPEN" => quotes[q].status = "OPEN"

SameRoles(q) ==
    /\ Setters(q)' = Setters(q) /\ Holders(q)' = Holders(q) /\ Claimers(q)' = Claimers(q)
    /\ \A s \in Holders(q) : pc'[s] = pc[s]

SameEvents(q) ==
    /\ audit'[q]["quote.claimed"] = audit[q]["quote.claimed"]
    /\ audit'[q]["quote.slippage_rejected"] = audit[q]["quote.slippage_rejected"]

Quiet(q) ==
    /\ SameRow(q) /\ SameRoles(q) /\ SameEvents(q)
    /\ locks'[q] = locks[q] /\ granted' = granted /\ minted' = minted /\ clock' = clock

\* The steps that move a token, a grant or a claimer.
Moves(r) ==
    \/ ComputePrice(r) \/ SaveQuote(r) \/ SetLock(r) \/ RetrySetLock(r) \/ RefreshDel(r)
    \/ ClaimTake(r) \/ ClaimSlippage(r) \/ ClaimReject(r) \/ ClaimCommit(r) \/ ClaimAudit(r)

Bystander == Labels \ {"save", "setnx", "slippage", "reject", "commit", "claimed"}

LEMMA BystanderMoves ==
    ASSUME NEW q \in QuoteIds, NEW r \in Requests, pc[r] \in Bystander, pc'[r] \in Bystander,
           \A s \in Requests : s # r => pc'[s] = pc[s] /\ loc'[s] = loc[s]
    PROVE  SameRoles(q)
  BY DEF SameRoles, Setters, Holders, Claimers, Bystander

LEMMA BystanderAnswers ==
    ASSUME TypeOK, NEW q \in QuoteIds, NEW r \in Requests, NEW id, NEW res, pc[r] \in Bystander,
           Answer(r, id, res)
    PROVE  SameRoles(q)
<1>1. pc'[r] \in Bystander /\ \A s \in Requests : s # r => pc'[s] = pc[s] /\ loc'[s] = loc[s]
  BY DEF Answer, TypeOK, Bystander, Labels
<1> QED BY <1>1, BystanderMoves

LEMMA BystanderGoes ==
    ASSUME TypeOK, NEW q \in QuoteIds, NEW r \in Requests, pc[r] \in Bystander,
           NEW l \in Bystander, Goto(r, l), \A s \in Requests : s # r => loc'[s] = loc[s]
    PROVE  SameRoles(q)
  BY MoveOn, BystanderMoves

\* An event of another kind, or of another quote, leaves the two counts alone.
LEMMA OtherEvent ==
    ASSUME TypeOK, NEW q \in QuoteIds, NEW id, NEW e \in Events, Record(id, e),
           e \notin {"quote.claimed", "quote.slippage_rejected"} \/ q # id
    PROVE  SameEvents(q)
<1>1. /\ audit \in [QuoteIds -> [Events -> Nat]]
      /\ {"quote.claimed", "quote.slippage_rejected"} \subseteq Events
  BY DEF TypeOK, Events
<1>2. CASE q = id
  <2>1. audit'[q] = [audit[q] EXCEPT ![e] = audit[q][e] + 1]
    BY <1>1, <1>2 DEF Record
  <2> QED BY <1>1, <1>2, <2>1 DEF SameEvents
<1>3. CASE q # id
  BY <1>1, <1>3 DEF Record, SameEvents
<1> QED BY <1>2, <1>3

LEMMA MarkedRow ==
    ASSUME TypeOK, NEW q \in QuoteIds, NEW id \in QuoteIds, Present(id),
           NEW st \in {"EXPIRED", "CANCELED"}, SetStatus(id, st)
    PROVE  SameRow(q)
  BY SetStatusKeepsRows DEF SameRow, RowsKept, Present

LEMMA QuietOrMoves ==
    ASSUME TypeInv, RowInv, [Next]_vars, NEW q \in QuoteIds
    PROVE  Quiet(q) \/ (\E r \in Requests : Moves(r)) \/ Tick \/ Restart
<1>0. TypeOK /\ \A s \in Requests : RowHeld(s)
  BY DEF TypeInv, RowInv
<1>a. quotes' = quotes => SameRow(q)
  BY DEF SameRow
<1>b. audit' = audit => SameEvents(q)
  BY DEF SameEvents
<1>c. pc' = pc /\ loc' = loc => SameRoles(q)
  BY DEF SameRoles, Setters, Holders, Claimers
<1>1. ASSUME NEW r \in Requests, ReceiveQuoteRequest(r) PROVE Quiet(q)
  <2>1. pc[r] \in Bystander /\ Goto(r, "compute") /\ "compute" \in Bystander
        /\ \A s \in Requests : s # r => loc'[s] = loc[s]
    BY <1>0, <1>1 DEF ReceiveQuoteRequest, TypeOK, Bystander, Labels
  <2> QED BY <1>0, <1>1, <1>a, <1>b, <2>1, BystanderGoes DEF ReceiveQuoteRequest, Quiet, world
<1>2. ASSUME NEW r \in Requests, SpotUnavailable(r) PROVE Quiet(q)
  <2>1. pc[r] \in Bystander /\ "compute" \in Bystander
    BY <1>2 DEF SpotUnavailable, Bystander, Labels
  <2>2. SameRoles(q)
    <3>1. CASE loc[r].bulk /\ loc[r].left > 1
      <4>1. Goto(r, "compute") /\ \A s \in Requests : s # r => loc'[s] = loc[s]
        BY <1>0, <1>2, <3>1 DEF SpotUnavailable, TypeOK
      <4> QED BY <1>0, <2>1, <4>1, BystanderGoes
    <3>2. CASE ~(loc[r].bulk /\ loc[r].left > 1)
      BY <1>0, <1>2, <2>1, <3>2, BystanderAnswers DEF SpotUnavailable
    <3> QED BY <3>1, <3>2
  <2> QED BY <1>2, <1>a, <1>b, <2>2 DEF SpotUnavailable, Quiet, world
<1>3. ASSUME NEW r \in Requests, AuditIssued(r) PROVE Quiet(q)
  <2>1. pc[r] \in Bystander /\ "compute" \in Bystander
    BY <1>3 DEF AuditIssued, Bystander, Labels
  <2>2. SameRoles(q)
    <3>1. CASE loc[r].left > 0
      BY <1>0, <1>3, <2>1, <3>1, BystanderGoes DEF AuditIssued, NextItem
    <3>2. CASE ~(loc[r].left > 0)
      BY <1>0, <1>3, <2>1, <3>2, BystanderAnswers DEF AuditIssued, NextItem
    <3> QED BY <3>1, <3>2
  <2>3. SameEvents(q)
    BY <1>0, <1>3, OtherEvent DEF AuditIssued, Events
  <2> QED BY <1>3, <1>a, <2>2, <2>3 DEF AuditIssued, Quiet, world
<1>4. ASSUME NEW r \in Requests, NEW id \in QuoteIds, RefreshLoad(r, id) PROVE Quiet(q)
  <2>1. pc[r] \in Bystander /\ "cancel" \in Bystander
    BY <1>4 DEF RefreshLoad, Bystander, Labels
  <2>2. SameRoles(q)
    <3>1. CASE Present(id)
      <4>1. Goto(r, "cancel") /\ \A s \in Requests : s # r => loc'[s] = loc[s]
        BY <1>0, <1>4, <3>1 DEF RefreshLoad, TypeOK
      <4> QED BY <1>0, <2>1, <4>1, BystanderGoes
    <3>2. CASE ~Present(id)
      BY <1>0, <1>4, <2>1, <3>2, BystanderAnswers DEF RefreshLoad
    <3> QED BY <3>1, <3>2
  <2> QED BY <1>4, <1>a, <1>b, <2>2 DEF RefreshLoad, Quiet, world
<1>5. ASSUME NEW r \in Requests, RefreshCancel(r) PROVE Quiet(q)
  <2>1. pc[r] \in Bystander /\ "del" \in Bystander
    BY <1>5 DEF RefreshCancel, Bystander, Labels
  <2>2. SameRoles(q)
    BY <1>0, <1>5, <2>1, BystanderGoes DEF RefreshCancel
  <2>3. loc[r].id \in QuoteIds /\ Present(loc[r].id)
    BY <1>0, <1>5 DEF RefreshCancel, RowHeld
  <2>4. SameRow(q)
    BY <1>0, <1>5, <2>3, MarkedRow DEF RefreshCancel
  <2> QED BY <1>5, <1>b, <2>2, <2>4 DEF RefreshCancel, Quiet, world
<1>6. ASSUME NEW r \in Requests, RefreshAudit(r) PROVE Quiet(q)
  <2>1. pc[r] \in Bystander /\ "compute" \in Bystander
    BY <1>6 DEF RefreshAudit, Bystander, Labels
  <2>2. SameRoles(q)
    BY <1>0, <1>6, <2>1, BystanderGoes DEF RefreshAudit
  <2>3. SameEvents(q)
    BY <1>0, <1>6, OtherEvent DEF RefreshAudit, Events
  <2> QED BY <1>6, <1>a, <2>2, <2>3 DEF RefreshAudit, Quiet, world
<1>7. ASSUME NEW r \in Requests, NEW id \in QuoteIds, GetLoad(r, id) PROVE Quiet(q)
  <2>1. pc[r] \in Bystander /\ "getcheck" \in Bystander
    BY <1>7 DEF GetLoad, Bystander, Labels
  <2>2. SameRoles(q)
    <3>1. CASE Present(id)
      <4>1. Goto(r, "getcheck") /\ \A s \in Requests : s # r => loc'[s] = loc[s]
        BY <1>0, <1>7, <3>1 DEF GetLoad, TypeOK
      <4> QED BY <1>0, <2>1, <4>1, BystanderGoes
    <3>2. CASE ~Present(id)
      BY <1>0, <1>7, <2>1, <3>2, BystanderAnswers DEF GetLoad
    <3> QED BY <3>1, <3>2
  <2> QED BY <1>7, <1>a, <1>b, <2>2 DEF GetLoad, Quiet, world
<1>8. ASSUME NEW r \in Requests, GetCheck(r) PROVE Quiet(q)
  <2>1. pc[r] \in Bystander /\ "getexpire" \in Bystander
    BY <1>8 DEF GetCheck, Bystander, Labels
  <2>2. SameRoles(q)
    BY <1>0, <1>8, <2>1, BystanderGoes, BystanderAnswers, DropRowKeepsIds DEF GetCheck
  <2> QED BY <1>8, <1>a, <1>b, <2>2 DEF GetCheck, Quiet, world
<1>9. ASSUME NEW r \in Requests, GetExpire(r) PROVE Quiet(q)
  <2>1. pc[r] \in Bystander
    BY <1>9 DEF GetExpire, Bystander, Labels
  <2>2. SameRoles(q)
    BY <1>0, <1>9, <2>1, BystanderAnswers DEF GetExpire
  <2>3. loc[r].id \in QuoteIds /\ Present(loc[r].id)
    BY <1>0, <1>9 DEF GetExpire, RowHeld
  <2>4. SameRow(q)
    BY <1>0, <1>9, <2>3, MarkedRow DEF GetExpire
  <2> QED BY <1>9, <1>b, <2>2, <2>4 DEF GetExpire, Quiet, world
<1>10. ASSUME NEW r \in Requests, NEW id \in QuoteIds, ClaimLoad(r, id) PROVE Quiet(q)
  <2>1. pc[r] \in Bystander /\ "check" \in Bystander
    BY <1>10 DEF ClaimLoad, Bystander, Labels
  <2>2. SameRoles(q)
    <3>1. CASE quotes[id].status = "OPEN"
      <4>1. Goto(r, "check") /\ \A s \in Requests : s # r => loc'[s] = loc[s]
        BY <1>0, <1>10, <3>1 DEF ClaimLoad, TypeOK
      <4> QED BY <1>0, <2>1, <4>1, BystanderGoes
    <3>2. CASE quotes[id].status # "OPEN"
      <4>1. quotes[id].status \in Statuses
        BY <1>0 DEF TypeOK, Row
      <4> QED BY <1>0, <1>10, <2>1, <3>2, <4>1, BystanderAnswers DEF ClaimLoad, Statuses
    <3> QED BY <3>1, <3>2
  <2> QED BY <1>10, <1>a, <1>b, <2>2 DEF ClaimLoad, Quiet, world
<1>11. ASSUME NEW r \in Requests, ClaimCheck(r) PROVE Quiet(q)
  <2>1. pc[r] \in Bystander /\ "expire" \in Bystander /\ "take" \in Bystander
    BY <1>11 DEF ClaimCheck, Bystander, Labels
  <2>2. SameRoles(q)
    BY <1>0, <1>11, <2>1, BystanderGoes, DropRowKeepsIds DEF ClaimCheck
  <2> QED BY <1>11, <1>a, <1>b, <2>2 DEF ClaimCheck, Quiet, world
<1>12. ASSUME NEW r \in Requests, ClaimExpire(r) PROVE Quiet(q)
  <2>1. pc[r] \in Bystander /\ "expired" \in Bystander
    BY <1>12 DEF ClaimExpire, Bystander, Labels
  <2>2. SameRoles(q)
    BY <1>0, <1>12, <2>1, BystanderGoes DEF ClaimExpire
  <2>3. loc[r].id \in QuoteIds /\ Present(loc[r].id)
    BY <1>0, <1>12 DEF ClaimExpire, RowHeld
  <2>4. SameRow(q)
    BY <1>0, <1>12, <2>3, MarkedRow DEF ClaimExpire
  <2> QED BY <1>12, <1>b, <2>2, <2>4 DEF ClaimExpire, Quiet, world
<1>13. ASSUME NEW r \in Requests, ClaimExpireAudit(r) PROVE Quiet(q)
  <2>1. pc[r] \in Bystander
    BY <1>13 DEF ClaimExpireAudit, Bystander, Labels
  <2>2. SameRoles(q)
    BY <1>0, <1>13, <2>1, BystanderAnswers DEF ClaimExpireAudit
  <2>3. SameEvents(q)
    BY <1>0, <1>13, OtherEvent DEF ClaimExpireAudit, Events
  <2> QED BY <1>13, <1>a, <2>2, <2>3 DEF ClaimExpireAudit, Quiet, world
<1>14. ASSUME SweepTick \/ SweepList PROVE Quiet(q)
  BY <1>14, <1>a, <1>b, <1>c DEF SweepTick, SweepList, sweeperOnly, Quiet, world
<1>15. ASSUME SweepMark PROVE Quiet(q)
  <2>1. PICK id \in sweep.todo : SetStatus(id, "EXPIRED")
    BY <1>15 DEF SweepMark
  <2>2. id \in QuoteIds /\ Present(id)
    BY <1>0, <2>1 DEF TypeOK, RowInv, SweepDue
  <2>3. SameRow(q)
    BY <1>0, <2>1, <2>2, MarkedRow
  <2> QED BY <1>15, <1>b, <1>c, <2>3 DEF SweepMark, sweeperOnly, Quiet, world
<1>16. ASSUME SweepAudit PROVE Quiet(q)
  <2>1. SameEvents(q)
    BY <1>0, <1>16, OtherEvent DEF SweepAudit, Events
  <2> QED BY <1>16, <1>a, <1>c, <2>1 DEF SweepAudit, sweeperOnly, Quiet, world
<1>17. ASSUME SpotMoves PROVE Quiet(q)
  BY <1>17, <1>a, <1>b, <1>c DEF SpotMoves, Quiet
<1>18. CASE UNCHANGED vars
  BY <1>18, <1>a, <1>b, <1>c DEF vars, Quiet
<1> QED
  BY <1>1, <1>2, <1>3, <1>4, <1>5, <1>6, <1>7, <1>8, <1>9, <1>10, <1>11, <1>12, <1>13, <1>14, <1>15, <1>16, <1>17, <1>18
     DEF Next, Receive, QuoteByID, InternalQuote, Serve, Sweep, Moves
-----------------------------------------------------------------------------
(* A grant keeps its claimer's name and is audited once. *)

\* GrantInv, for one quote.
GrantHeld(q) ==
    /\ Present(q) => \A r \in granted[q] : quotes[q].claimedBy = r
    /\ AuditedOnce(q)

LEMMA GrantInvIsGrantHeld == GrantInv <=> \A q \in QuoteIds : GrantHeld(q)
  BY DEF GrantInv, GrantHeld, GrantRecorded

\* A step that changes neither grant, claimers, claimer nor count.
LEMMA GrantFrame ==
    ASSUME NEW q \in QuoteIds, GrantHeld(q), Claimers(q)' = Claimers(q), granted'[q] = granted[q],
           SameRow(q), audit'[q]["quote.claimed"] = audit[q]["quote.claimed"]
    PROVE  GrantHeld(q)'
  BY DEF GrantHeld, AuditedOnce, SameRow, Present

\* A request that was not in the middle of a claim and is not now.
LEMMA NoClaimer ==
    ASSUME NEW q \in QuoteIds, NEW r \in Requests, pc[r] # "claimed", pc'[r] # "claimed",
           \A s \in Requests : s # r => pc'[s] = pc[s] /\ loc'[s] = loc[s]
    PROVE  Claimers(q)' = Claimers(q)
  BY DEF Claimers

\* A refusal is not logged as a claim.
LEMMA RefusalIsNoClaim ==
    ASSUME TypeOK, NEW q \in QuoteIds, NEW id, Record(id, "quote.slippage_rejected")
    PROVE  audit'[q]["quote.claimed"] = audit[q]["quote.claimed"]
<1>1. /\ audit \in [QuoteIds -> [Events -> Nat]]
      /\ {"quote.claimed", "quote.slippage_rejected"} \subseteq Events
  BY DEF TypeOK, Events
<1>2. CASE q = id
  <2>1. audit'[q] = [audit[q] EXCEPT !["quote.slippage_rejected"] = audit[q]["quote.slippage_rejected"] + 1]
    BY <1>1, <1>2 DEF Record
  <2> QED BY <1>1, <2>1
<1>3. CASE q # id
  BY <1>1, <1>3 DEF Record
<1> QED BY <1>2, <1>3

\* Every step keeps the name and the count of a grant.
LEMMA GrantStep ==
    ASSUME RedisRetries = FALSE, TypeInv, RowInv, TokenUnique, GrantInv, [Next]_vars
    PROVE  GrantInv'
<1> SUFFICES ASSUME NEW q \in QuoteIds PROVE GrantHeld(q)'
  BY DEF GrantInv, GrantHeld, GrantRecorded
<1>0. TypeOK /\ GrantHeld(q) /\ Token(q) /\ \A s \in Requests : RowHeld(s)
  BY GrantInvIsGrantHeld DEF TypeInv, RowInv, TokenUnique
<1>a. quotes' = quotes => SameRow(q)
  BY DEF SameRow
<1>1. CASE Quiet(q)
  BY <1>0, <1>1, GrantFrame DEF Quiet, SameRoles, SameEvents
<1>2. ASSUME NEW r \in Requests, ComputePrice(r) PROVE GrantHeld(q)'
  <2>1. \A s \in Requests : s # r => loc'[s] = loc[s]
    BY <1>0, <1>2 DEF ComputePrice, TypeOK
  <2>2. Claimers(q)' = Claimers(q)
    BY <1>0, <1>2, <2>1, MoveOn, NoClaimer DEF ComputePrice
  <2> QED BY <1>0, <1>2, <1>a, <2>2, GrantFrame DEF ComputePrice
<1>3. ASSUME NEW r \in Requests, SaveQuote(r) PROVE GrantHeld(q)'
  <2>1. Claimers(q)' = Claimers(q)
    BY <1>0, <1>3, MoveOn, NoClaimer, DropRowKeepsIds DEF SaveQuote
  <2>2. CASE q = loc[r].new
    <3>1. r \in Setters(q) /\ ~Present(q)
      BY <1>0, <1>3, <2>2 DEF SaveQuote, Setters, RowHeld
    <3>2. granted[q] = {}
      BY <1>0, <3>1 DEF Token
    <3>3. audit[q]["quote.claimed"] = 0 /\ Claimers(q) = {}
      BY <1>0, <3>1 DEF GrantHeld, AuditedOnce
    <3> QED BY <1>3, <2>1, <3>2, <3>3 DEF GrantHeld, AuditedOnce, SaveQuote
  <2>3. CASE q # loc[r].new
    <3>1. quotes'[q] = quotes[q]
      BY <1>0, <1>3, <2>3 DEF SaveQuote, TypeOK
    <3> QED BY <1>0, <1>3, <2>1, <3>1, GrantFrame DEF SaveQuote, SameRow
  <2> QED BY <2>2, <2>3
<1>4. ASSUME NEW r \in Requests, SetLock(r) PROVE GrantHeld(q)'
  <2>1. Claimers(q)' = Claimers(q)
    BY <1>0, <1>4, MoveOn, NoClaimer DEF SetLock
  <2> QED BY <1>0, <1>4, <1>a, <2>1, GrantFrame DEF SetLock
<1>5. ASSUME NEW r \in Requests, RetrySetLock(r) PROVE GrantHeld(q)'
  BY <1>5 DEF RetrySetLock
<1>6. ASSUME NEW r \in Requests, RefreshDel(r) PROVE GrantHeld(q)'
  <2>1. Claimers(q)' = Claimers(q)
    BY <1>0, <1>6, MoveOn, NoClaimer DEF RefreshDel
  <2> QED BY <1>0, <1>6, <1>a, <2>1, GrantFrame DEF RefreshDel
<1>7. ASSUME NEW r \in Requests, ClaimTake(r) PROVE GrantHeld(q)'
  <2>1. pc'[r] # "claimed" /\ \A s \in Requests : s # r => pc'[s] = pc[s] /\ loc'[s] = loc[s]
    BY <1>0, <1>7 DEF ClaimTake, Answer, Goto, TypeOK
  <2>2. Claimers(q)' = Claimers(q)
    BY <1>7, <2>1, NoClaimer DEF ClaimTake
  <2> QED BY <1>0, <1>7, <1>a, <2>2, GrantFrame DEF ClaimTake
<1>8. ASSUME NEW r \in Requests, ClaimSlippage(r) PROVE GrantHeld(q)'
  <2>1. pc'[r] # "claimed" /\ \A s \in Requests : s # r => pc'[s] = pc[s] /\ loc'[s] = loc[s]
    BY <1>0, <1>8 DEF ClaimSlippage, Goto, DropRow, TypeOK
  <2>2. Claimers(q)' = Claimers(q)
    BY <1>8, <2>1, NoClaimer DEF ClaimSlippage
  <2> QED BY <1>0, <1>8, <1>a, <2>2, GrantFrame DEF ClaimSlippage
<1>9. ASSUME NEW r \in Requests, ClaimReject(r) PROVE GrantHeld(q)'
  <2>1. pc'[r] # "claimed" /\ \A s \in Requests : s # r => pc'[s] = pc[s] /\ loc'[s] = loc[s]
    BY <1>0, <1>9 DEF ClaimReject, Answer, TypeOK
  <2>2. Claimers(q)' = Claimers(q)
    BY <1>9, <2>1, NoClaimer DEF ClaimReject
  <2>3. audit'[q]["quote.claimed"] = audit[q]["quote.claimed"]
    BY <1>0, <1>9, RefusalIsNoClaim DEF ClaimReject
  <2> QED BY <1>0, <1>9, <1>a, <2>2, <2>3, GrantFrame DEF ClaimReject
<1>10. ASSUME NEW r \in Requests, ClaimCommit(r) PROVE GrantHeld(q)'
  <2>1. loc[r].id \in QuoteIds /\ Present(loc[r].id)
    BY <1>0, <1>10 DEF ClaimCommit, RowHeld
  <2>2. /\ quotes'[loc[r].id].status = "CLAIMED" /\ quotes'[loc[r].id].claimedBy = r
        /\ \A p \in QuoteIds : p # loc[r].id => quotes'[p] = quotes[p]
    BY <1>0, <1>10, <2>1, CommitWrites
  <2>3. /\ pc'[r] = "claimed" /\ loc' = loc
        /\ \A s \in Requests : s # r => pc'[s] = pc[s] /\ loc'[s] = loc[s]
    BY <1>0, <1>10, MoveOn DEF ClaimCommit
  <2>4. CASE q = loc[r].id
    <3>1. r \in Holders(q)
      BY <1>10, <2>4 DEF ClaimCommit, Holders
    <3>2. granted[q] = {} /\ granted'[q] = {r}
      BY <1>0, <1>10, <2>4, <3>1 DEF ClaimCommit, Token, TypeOK
    <3>3. audit[q]["quote.claimed"] = 0 /\ Claimers(q) = {}
      BY <1>0, <2>1, <2>4, <3>2 DEF GrantHeld, AuditedOnce
    <3>4. Claimers(q)' = {r}
      BY <2>3, <2>4, <3>3 DEF Claimers
    <3>5. audit'[q]["quote.claimed"] = 0
      BY <1>10, <3>3 DEF ClaimCommit
    <3> QED BY <2>2, <2>4, <3>2, <3>4, <3>5 DEF GrantHeld, AuditedOnce, Present
  <2>5. CASE q # loc[r].id
    <3>1. Claimers(q)' = Claimers(q)
      BY <1>10, <2>3, <2>5 DEF ClaimCommit, Claimers
    <3>2. granted'[q] = granted[q] /\ quotes'[q] = quotes[q]
      BY <1>0, <1>10, <2>2, <2>5 DEF ClaimCommit, TypeOK
    <3> QED BY <1>0, <1>10, <3>1, <3>2, GrantFrame DEF ClaimCommit, SameRow
  <2> QED BY <2>4, <2>5
<1>11. ASSUME NEW r \in Requests, ClaimAudit(r) PROVE GrantHeld(q)'
  <2>1. /\ pc[r] = "claimed" /\ pc'[r] = "done"
        /\ \A s \in Requests : s # r => pc'[s] = pc[s] /\ loc'[s] = loc[s]
    BY <1>0, <1>11 DEF ClaimAudit, Answer, TypeOK
  <2>2. CASE q = loc[r].id
    <3>1. r \in Claimers(q) /\ Present(q)
      BY <1>0, <1>11, <2>1, <2>2 DEF Claimers, RowHeld
    <3>2. Claimers(q) = {r} /\ granted[q] = {r}
      BY <1>0, <3>1 DEF GrantHeld, AuditedOnce, Token
    <3>3. Claimers(q)' = {}
      BY <2>1, <3>2 DEF Claimers
    <3>4. audit[q]["quote.claimed"] = 0
      BY <1>0, <3>1 DEF GrantHeld, AuditedOnce
    <3>5. audit'[q]["quote.claimed"] = 1
      <4>1. audit \in [QuoteIds -> [Events -> Nat]] /\ "quote.claimed" \in Events
        BY <1>0 DEF TypeOK, Events
      <4>2. audit'[q] = [audit[q] EXCEPT !["quote.claimed"] = audit[q]["quote.claimed"] + 1]
        BY <1>11, <2>2, <4>1 DEF ClaimAudit, Record
      <4> QED BY <3>4, <4>1, <4>2
    <3>6. quotes' = quotes /\ granted' = granted
      BY <1>11 DEF ClaimAudit
    <3>7. \A s \in granted[q] : quotes[q].claimedBy = s
      BY <1>0, <3>1 DEF GrantHeld
    <3> QED BY <3>1, <3>2, <3>3, <3>5, <3>6, <3>7 DEF GrantHeld, AuditedOnce, Present
  <2>3. CASE q # loc[r].id
    <3>1. Claimers(q)' = Claimers(q)
      BY <2>1, <2>3 DEF Claimers
    <3>2. SameEvents(q)
      BY <1>0, <1>11, <2>3, OtherEvent DEF ClaimAudit, Events
    <3> QED BY <1>0, <1>11, <1>a, <3>1, <3>2, GrantFrame DEF ClaimAudit, SameEvents
  <2> QED BY <2>2, <2>3
<1>12. CASE Tick
  <2>1. Claimers(q)' = Claimers(q)
    BY <1>12 DEF Tick, Claimers
  <2> QED BY <1>0, <1>12, <1>a, <2>1, GrantFrame DEF Tick
<1>13. CASE Restart
  <2>1. quotes'[q].status = "ABSENT" /\ audit'[q]["quote.claimed"] = 0
    BY <1>13 DEF Restart, NoRow, NoEvents, Events
  <2>2. Claimers(q)' = {}
    BY <1>13 DEF Restart, Claimers
  <2> QED BY <2>1, <2>2 DEF GrantHeld, AuditedOnce, Present
<1> QED
  BY QuietOrMoves, <1>1, <1>2, <1>3, <1>4, <1>5, <1>6, <1>7, <1>8, <1>9, <1>10, <1>11, <1>12, <1>13 DEF Moves

LEMMA GrantInit == Init => TypeInv /\ RowInv /\ TokenUnique /\ GrantInv
<1> SUFFICES ASSUME Init PROVE RowInv /\ TokenUnique /\ GrantInv
  BY TypeInit
<1>1. RowInv
  BY RowInit
<1>2. ASSUME NEW q \in QuoteIds PROVE Token(q) /\ GrantHeld(q)
  <2>1. Setters(q) = {} /\ Holders(q) = {} /\ Claimers(q) = {}
    BY DEF Init, Setters, Holders, Claimers
  <2>2. /\ ~Rejected(q) /\ locks[q] = 0 /\ granted[q] = {} /\ ~Present(q)
        /\ audit[q]["quote.claimed"] = 0
    BY DEF Init, Rejected, NoEvents, Events, Present, NoRow
  <2> QED BY <2>1, <2>2 DEF Token, GrantHeld, AuditedOnce
<1> QED BY <1>1, <1>2, GrantInvIsGrantHeld DEF TokenUnique

\* For every instance: a row keeps the name of the claimer who was told "ok",
\* whatever refreshes, stale expiries and other claims do to it (claim.go:95-99).
THEOREM ClaimerIsKept == RedisRetries = FALSE => (Spec => []GrantRecorded)
<1> SUFFICES ASSUME RedisRetries = FALSE PROVE Spec => []GrantRecorded
  OBVIOUS
<1>1. /\ TypeInv /\ RowInv /\ TokenUnique /\ GrantInv /\ [Next]_vars
      => (TypeInv /\ RowInv /\ TokenUnique /\ GrantInv)'
  BY TypeStep, RowStep, TokenStep, GrantStep
<1>2. GrantInv => GrantRecorded
  BY DEF GrantInv
<1> QED BY <1>1, <1>2, GrantInit, PTL DEF Spec

\* For every instance: a claim that succeeded is in the audit log exactly once,
\* or is about to be, and nothing else is logged as a claim (claim.go:103).
THEOREM GrantIsAudited == RedisRetries = FALSE => (Spec => []GrantsAudited)
<1> SUFFICES ASSUME RedisRetries = FALSE PROVE Spec => []GrantsAudited
  OBVIOUS
<1>1. /\ TypeInv /\ RowInv /\ TokenUnique /\ GrantInv /\ [Next]_vars
      => (TypeInv /\ RowInv /\ TokenUnique /\ GrantInv)'
  BY TypeStep, RowStep, TokenStep, GrantStep
<1>2. TokenUnique /\ GrantInv => GrantsAudited
  <2> SUFFICES ASSUME TokenUnique, GrantInv, NEW q \in QuoteIds, Present(q)
               PROVE  Cardinality(granted[q]) = audit[q]["quote.claimed"] + Cardinality(Claimers(q))
    BY DEF GrantsAudited, Claimers
  <2>1. Token(q) /\ AuditedOnce(q)
    BY DEF TokenUnique, GrantInv
  <2>2. CASE granted[q] = {}
    <3>1. Claimers(q) = {} /\ audit[q]["quote.claimed"] = 0
      BY <2>1, <2>2 DEF AuditedOnce
    <3> QED BY <2>2, <3>1, FS_EmptySet
  <2>3. CASE granted[q] # {}
    <3>1. PICK r : granted[q] = {r}
      BY <2>1, <2>3 DEF Token
    <3>2. CASE Claimers(q) = {}
      <4>1. Cardinality(granted[q]) = 1 /\ Cardinality(Claimers(q)) = 0
        BY <3>1, <3>2, FS_EmptySet, FS_Singleton, Zenon
      <4>2. audit[q]["quote.claimed"] = 1
        BY <2>1, <2>3, <3>2 DEF AuditedOnce
      <4> QED BY <4>1, <4>2
    <3>3. CASE Claimers(q) # {}
      <4>1. Claimers(q) = {r} /\ audit[q]["quote.claimed"] = 0
        BY <2>1, <3>1, <3>3 DEF AuditedOnce
      <4>2. Cardinality(granted[q]) = 1 /\ Cardinality(Claimers(q)) = 1
        BY <3>1, <4>1, FS_Singleton, Zenon
      <4> QED BY <4>1, <4>2
    <3> QED BY <3>2, <3>3
  <2> QED BY <2>2, <2>3
<1> QED BY <1>1, <1>2, GrantInit, PTL DEF Spec
-----------------------------------------------------------------------------
(* An open quote can be claimed, as long as calls to the lock backend do not *)
(* fail (a failed SETNX or a lost reply of a claim does lose the lock).       *)

\* A step that loses nobody, keeps the lock and opens no row.
LEMMA OpenFrame ==
    ASSUME TypeOK, TypeOK', NEW q \in QuoteIds, OpenHeld(q), Setters(q) \subseteq Setters(q)',
           Holders(q) \subseteq Holders(q)', Rejected(q) => Rejected(q)', locks'[q] = locks[q],
           SameRow(q), clock <= clock'
    PROVE  OpenHeld(q)'
<1>1. clock \in Nat /\ clock' \in Nat /\ quotes[q].expiresAt \in Nat
  BY DEF TypeOK, Row
<1> QED BY <1>1 DEF OpenHeld, SameRow

LEMMA OpenStep ==
    ASSUME RedisFaults = FALSE, TypeInv, RowInv, TokenUnique, OpenInv, [Next]_vars
    PROVE  OpenInv'
<1> SUFFICES ASSUME NEW q \in QuoteIds PROVE OpenHeld(q)'
  BY DEF OpenInv
<1> USE ConstantsAssumption
<1>0. TypeOK /\ TypeOK' /\ OpenHeld(q) /\ Token(q) /\ (\A s \in Requests : RowHeld(s)) /\ clock <= clock
  BY TypeStep DEF TypeInv, OpenInv, RowInv, TokenUnique, TypeOK
<1>a. quotes' = quotes => SameRow(q)
  BY DEF SameRow
<1>b. audit' = audit => (Rejected(q) => Rejected(q)')
  BY DEF Rejected
<1>1. CASE Quiet(q)
  <2>1. Rejected(q) => Rejected(q)'
    BY <1>1 DEF Quiet, SameEvents, Rejected
  <2> QED BY <1>0, <1>1, <2>1, OpenFrame DEF Quiet, SameRoles
<1>2. ASSUME NEW r \in Requests, ComputePrice(r) PROVE OpenHeld(q)'
  <2>1. pc[r] = "compute" /\ pc'[r] = "save" /\ \A s \in Requests : s # r => pc'[s] = pc[s] /\ loc'[s] = loc[s]
    BY <1>0, <1>2 DEF ComputePrice, Goto, TypeOK
  <2>2. Setters(q) \subseteq Setters(q)' /\ Holders(q) \subseteq Holders(q)'
    BY <2>1 DEF Setters, Holders
  <2> QED BY <1>0, <1>2, <1>a, <1>b, <2>2, OpenFrame DEF ComputePrice, world
<1>3. ASSUME NEW r \in Requests, SaveQuote(r) PROVE OpenHeld(q)'
  <2>1. /\ pc[r] = "save" /\ pc'[r] = "setnx" /\ loc'[r].new = loc[r].new
        /\ \A s \in Requests : s # r => pc'[s] = pc[s] /\ loc'[s] = loc[s]
    BY <1>0, <1>3, MoveOn, DropRowKeepsIds DEF SaveQuote
  <2>2. Setters(q) \subseteq Setters(q)' /\ Holders(q) \subseteq Holders(q)'
    BY <2>1 DEF Setters, Holders
  <2>3. CASE q = loc[r].new
    <3>1. r \in Setters(q)
      BY <2>1, <2>3 DEF Setters
    <3> QED BY <2>2, <3>1 DEF OpenHeld
  <2>4. CASE q # loc[r].new
    <3>1. SameRow(q)
      BY <1>0, <1>3, <2>4 DEF SaveQuote, TypeOK, SameRow
    <3> QED BY <1>0, <1>3, <1>b, <2>2, <3>1, OpenFrame DEF SaveQuote, world
  <2> QED BY <2>3, <2>4
<1>4. ASSUME NEW r \in Requests, SetLock(r) PROVE OpenHeld(q)'
  <2>1. /\ pc[r] = "setnx" /\ pc'[r] = "issued" /\ loc' = loc /\ quotes' = quotes /\ clock' = clock
        /\ \A s \in Requests : s # r => pc'[s] = pc[s] /\ loc'[s] = loc[s]
    BY <1>0, <1>4, MoveOn DEF SetLock, world
  <2>2. CASE q = loc[r].new
    <3>1. r \in Setters(q) /\ quotes[q].expiresAt <= clock + RateLockTTL
      BY <1>0, <2>1, <2>2 DEF Setters, RowHeld
    <3>2. locks[q] = 0
      BY <1>0, <3>1 DEF Token
    <3>3. ~LockLive(q)
      BY <1>0, <3>2 DEF LockLive, TypeOK
    <3>4. locks'[q] = clock + RateLockTTL
      BY <1>0, <1>4, <2>2, <3>3 DEF SetLock, BackendMayFail, TypeOK
    <3> QED BY <1>0, <2>1, <3>1, <3>4 DEF OpenHeld, TypeOK, Row
  <2>3. CASE q # loc[r].new
    <3>1. Setters(q) \subseteq Setters(q)' /\ Holders(q) \subseteq Holders(q)'
      BY <2>1, <2>3 DEF Setters, Holders
    <3>2. locks'[q] = locks[q]
      BY <1>0, <1>4, <2>3 DEF SetLock, TypeOK
    <3> QED BY <1>0, <1>4, <1>a, <1>b, <2>1, <3>1, <3>2, OpenFrame DEF SetLock
  <2> QED BY <2>2, <2>3
<1>5. ASSUME NEW r \in Requests, RetrySetLock(r) PROVE OpenHeld(q)'
  BY <1>5 DEF RetrySetLock, BackendMayFail
<1>6. ASSUME NEW r \in Requests, RefreshDel(r) PROVE OpenHeld(q)'
  <2>1. /\ pc[r] = "del" /\ pc'[r] = "refreshed" /\ loc' = loc /\ quotes' = quotes /\ clock' = clock
        /\ \A s \in Requests : s # r => pc'[s] = pc[s] /\ loc'[s] = loc[s]
    BY <1>0, <1>6, MoveOn DEF RefreshDel, world
  <2>2. CASE q = loc[r].id
    <3>1. quotes[q].status # "OPEN"
      BY <1>0, <2>1, <2>2 DEF RowHeld
    <3> QED BY <2>1, <3>1 DEF OpenHeld
  <2>3. CASE q # loc[r].id
    <3>1. Setters(q) \subseteq Setters(q)' /\ Holders(q) \subseteq Holders(q)'
      BY <2>1 DEF Setters, Holders
    <3>2. locks'[q] = locks[q]
      BY <1>0, <1>6, <2>3 DEF RefreshDel, TypeOK
    <3> QED BY <1>0, <1>6, <1>a, <1>b, <2>1, <3>1, <3>2, OpenFrame DEF RefreshDel
  <2> QED BY <2>2, <2>3
<1>7. ASSUME NEW r \in Requests, ClaimTake(r) PROVE OpenHeld(q)'
  <2>1. /\ pc[r] = "take" /\ quotes' = quotes /\ clock' = clock /\ audit' = audit
        /\ \A s \in Requests : s # r => pc'[s] = pc[s] /\ loc'[s] = loc[s]
    BY <1>0, <1>7 DEF ClaimTake, Answer, Goto, TypeOK, world
  <2>2. Setters(q) \subseteq Setters(q)' /\ Holders(q) \subseteq Holders(q)'
    BY <2>1 DEF Setters, Holders
  <2>3. CASE q # loc[r].id
    <3>1. locks'[q] = locks[q]
      BY <1>0, <1>7, <2>3 DEF ClaimTake, TypeOK
    <3> QED BY <1>0, <1>a, <1>b, <2>1, <2>2, <3>1, OpenFrame
  <2>4. CASE q = loc[r].id /\ LockLive(q)
    <3>1. loc' = loc /\ pc'[r] = "slippage"
      BY <1>0, <1>7, <2>4, MoveOn DEF ClaimTake, BackendMayFail, LockLive
    <3>2. r \in Holders(q)'
      BY <2>4, <3>1 DEF Holders
    <3> QED BY <3>2 DEF OpenHeld
  <2>5. CASE q = loc[r].id /\ ~LockLive(q)
    <3>1. locks[q] <= clock
      BY <1>0, <2>5 DEF LockLive, TypeOK
    <3>2. locks[q] >= quotes[q].expiresAt => clock >= quotes[q].expiresAt
      BY <1>0, <3>1 DEF TypeOK, Row
    <3>3. Rejected(q) => Rejected(q)'
      BY <1>b, <2>1
    <3> QED BY <1>0, <2>1, <2>2, <3>2, <3>3 DEF OpenHeld
  <2> QED BY <2>3, <2>4, <2>5
<1>8. ASSUME NEW r \in Requests, ClaimSlippage(r) PROVE OpenHeld(q)'
  <2>1. /\ pc[r] = "slippage" /\ pc'[r] \in {"reject", "commit"} /\ loc'[r].id = loc[r].id
        /\ \A s \in Requests : s # r => pc'[s] = pc[s] /\ loc'[s] = loc[s]
    BY <1>0, <1>8 DEF ClaimSlippage, DropRow, Goto, TypeOK, Locals
  <2>2. Setters(q) \subseteq Setters(q)' /\ Holders(q) \subseteq Holders(q)'
    BY <2>1 DEF Setters, Holders
  <2> QED BY <1>0, <1>8, <1>a, <1>b, <2>2, OpenFrame DEF ClaimSlippage, world
<1>9. ASSUME NEW r \in Requests, ClaimReject(r) PROVE OpenHeld(q)'
  <2>1. /\ pc[r] = "reject" /\ \A s \in Requests : s # r => pc'[s] = pc[s] /\ loc'[s] = loc[s]
    BY <1>0, <1>9 DEF ClaimReject, Answer, TypeOK
  <2>2. CASE q = loc[r].id
    <3>1. audit \in [QuoteIds -> [Events -> Nat]] /\ "quote.slippage_rejected" \in Events
      BY <1>0 DEF TypeOK, Events
    <3>2. audit'[q] = [audit[q] EXCEPT !["quote.slippage_rejected"] = audit[q]["quote.slippage_rejected"] + 1]
      BY <1>9, <2>2, <3>1 DEF ClaimReject, Record
    <3>3. audit'[q]["quote.slippage_rejected"] > 0
      BY <3>1, <3>2
    <3> QED BY <3>3 DEF OpenHeld, Rejected
  <2>3. CASE q # loc[r].id
    <3>1. Setters(q) \subseteq Setters(q)' /\ Holders(q) \subseteq Holders(q)'
      BY <2>1, <2>3 DEF Setters, Holders
    <3>2. Rejected(q) => Rejected(q)'
      BY <1>0, <1>9, <2>3, OtherEvent DEF ClaimReject, Events, SameEvents, Rejected
    <3> QED BY <1>0, <1>9, <1>a, <3>1, <3>2, OpenFrame DEF ClaimReject, world
  <2> QED BY <2>2, <2>3
<1>10. ASSUME NEW r \in Requests, ClaimCommit(r) PROVE OpenHeld(q)'
  <2>1. /\ pc[r] = "commit" /\ \A s \in Requests : s # r => pc'[s] = pc[s] /\ loc'[s] = loc[s]
    BY <1>0, <1>10, MoveOn DEF ClaimCommit
  <2>2. loc[r].id \in QuoteIds
    BY <1>0, <2>1 DEF RowHeld
  <2>3. /\ quotes'[loc[r].id].status = "CLAIMED"
        /\ \A p \in QuoteIds : p # loc[r].id => quotes'[p] = quotes[p]
    BY <1>0, <1>10, <2>2, CommitWrites
  <2>4. CASE q = loc[r].id
    BY <2>3, <2>4 DEF OpenHeld
  <2>5. CASE q # loc[r].id
    <3>1. Setters(q) \subseteq Setters(q)' /\ Holders(q) \subseteq Holders(q)'
      BY <2>1, <2>5 DEF Setters, Holders
    <3>2. SameRow(q)
      BY <2>3, <2>5 DEF SameRow
    <3> QED BY <1>0, <1>10, <1>b, <3>1, <3>2, OpenFrame DEF ClaimCommit, world
  <2> QED BY <2>4, <2>5
<1>11. ASSUME NEW r \in Requests, ClaimAudit(r) PROVE OpenHeld(q)'
  <2>1. /\ pc[r] = "claimed" /\ \A s \in Requests : s # r => pc'[s] = pc[s] /\ loc'[s] = loc[s]
    BY <1>0, <1>11 DEF ClaimAudit, Answer, TypeOK
  <2>2. Setters(q) \subseteq Setters(q)' /\ Holders(q) \subseteq Holders(q)'
    BY <2>1 DEF Setters, Holders
  <2>3. Rejected(q)' = Rejected(q)
    BY <1>0, <1>11, RecordKeepsRejected DEF ClaimAudit, Events
  <2> QED BY <1>0, <1>11, <1>a, <2>2, <2>3, OpenFrame DEF ClaimAudit, world
<1>12. CASE Tick
  <2>1. Setters(q) \subseteq Setters(q)' /\ Holders(q) \subseteq Holders(q)'
    BY <1>12 DEF Tick, Setters, Holders
  <2>2. clock <= clock'
    BY <1>0, <1>12 DEF Tick, TypeOK
  <2> QED BY <1>0, <1>12, <1>a, <1>b, <2>1, <2>2, OpenFrame DEF Tick
<1>13. CASE Restart
  BY <1>13 DEF Restart, NoRow, OpenHeld
<1> QED
  BY QuietOrMoves, <1>1, <1>2, <1>3, <1>4, <1>5, <1>6, <1>7, <1>8, <1>9, <1>10, <1>11, <1>12, <1>13 DEF Moves

\* README.md:16 "Honor the locked rate at settlement", for every instance in which
\* the lock backend answers: an open quote inside its window can be claimed, is
\* being issued or claimed, or was refused (server.go:342-373, claim.go:62-91).
THEOREM OpenMeansClaimable ==
    RedisFaults = FALSE /\ RedisRetries = FALSE => (Spec => []OpenQuoteIsClaimable)
<1> SUFFICES ASSUME RedisFaults = FALSE, RedisRetries = FALSE PROVE Spec => []OpenQuoteIsClaimable
  OBVIOUS
<1>1. Init => TypeInv /\ RowInv /\ TokenUnique /\ OpenInv
  <2>1. Init => OpenInv
    BY DEF Init, OpenInv, OpenHeld, NoRow
  <2> QED BY <2>1, GrantInit
<1>2. /\ TypeInv /\ RowInv /\ TokenUnique /\ OpenInv /\ [Next]_vars
      => (TypeInv /\ RowInv /\ TokenUnique /\ OpenInv)'
  BY TypeStep, RowStep, TokenStep, OpenStep
<1>3. TypeInv /\ OpenInv => OpenQuoteIsClaimable
  <2> SUFFICES ASSUME TypeInv, OpenInv, NEW q \in QuoteIds,
                      quotes[q].status = "OPEN", clock < quotes[q].expiresAt
               PROVE  Claimable(q) \/ Holders(q) # {} \/ Rejected(q)
    BY DEF OpenQuoteIsClaimable
  <2>1. OpenHeld(q) /\ clock \in Nat /\ quotes[q].expiresAt \in Nat /\ locks[q] \in Nat
    BY DEF OpenInv, TypeInv, TypeOK, Row
  <2>2. locks[q] >= quotes[q].expiresAt => LockLive(q)
    BY <2>1 DEF LockLive
  <2>3. ~(clock >= quotes[q].expiresAt)
    BY <2>1
  <2> QED BY <2>1, <2>2, <2>3 DEF OpenHeld, Claimable
<1> QED BY <1>1, <1>2, <1>3, PTL DEF Spec
-----------------------------------------------------------------------------
(* The handlers implement the contract. *)

\* A quote is neither minted nor granted, and not claimable if it was not.
NoNewOffer(q) ==
    /\ q \in minted' <=> q \in minted
    /\ granted'[q] = granted[q]
    /\ Claimable(q)' => Claimable(q)

\* Whoever the contract says holds a quote depends on its grants alone.
LEMMA HolderKept ==
    ASSUME NEW q \in QuoteIds, granted'[q] = granted[q]
    PROVE  ContractHolder(q)' = ContractHolder(q)
<1> DEFINE H(S) == IF S = {} THEN Nobody ELSE CHOOSE r \in Requests : r \in S
<1>1. ContractHolder(q) = H(granted[q]) /\ ContractHolder(q)' = H(granted'[q])
  BY DEF ContractHolder
<1> HIDE DEF H
<1> QED BY <1>1

\* Such a step withdraws the offers that are claimable no more, possibly none.
LEMMA WithdrawsAtMost ==
    ASSUME \A q \in QuoteIds : NoNewOffer(q)
    PROVE  Contract!ContractNext
<1> DEFINE S == {q \in QuoteIds : ContractPhase(q) = "offered" /\ ContractPhase(q)' # "offered"}
<1>1. \A q \in QuoteIds : ContractPhase(q)' = IF q \in S THEN "withdrawn" ELSE ContractPhase(q)
  BY DEF ContractPhase, NoNewOffer
<1>2. \A q \in QuoteIds : ContractHolder(q)' = ContractHolder(q)
  BY HolderKept DEF NoNewOffer
<1>3. Contract!Withdraw(S)
  BY <1>1, <1>2 DEF Contract!Withdraw
<1>4. S \in SUBSET QuoteIds
  OBVIOUS
<1> QED BY <1>3, <1>4 DEF Contract!ContractNext

\* Only pricing and committing do more to a quote than that.
LEMMA OffersOnlyByPricing ==
    ASSUME RedisRetries = FALSE, TypeInv, RowInv, TokenUnique, [Next]_vars, NEW q \in QuoteIds,
           \A r \in Requests : ~ComputePrice(r) /\ ~ClaimCommit(r)
    PROVE  NoNewOffer(q)
<1> USE ConstantsAssumption
<1>0. TypeOK /\ Token(q)
  BY DEF TypeInv, TokenUnique
<1>1. CASE Quiet(q)
  BY <1>1 DEF Quiet, SameRoles, NoNewOffer, Claimable, LockLive
<1>2. ASSUME NEW r \in Requests, SaveQuote(r) PROVE NoNewOffer(q)
  <2>1. /\ pc[r] = "save" /\ pc'[r] = "setnx" /\ loc'[r].new = loc[r].new
        /\ \A s \in Requests : s # r => pc'[s] = pc[s] /\ loc'[s] = loc[s]
    BY <1>0, <1>2, MoveOn, DropRowKeepsIds DEF SaveQuote
  <2>2. Setters(q)' = Setters(q) /\ Holders(q)' = Holders(q) /\ \A s \in Holders(q) : pc'[s] = pc[s]
    BY <2>1 DEF Setters, Holders
  <2> QED BY <1>2, <2>2 DEF SaveQuote, world, NoNewOffer, Claimable, LockLive
<1>3. ASSUME NEW r \in Requests, SetLock(r) PROVE NoNewOffer(q)
  <2>1. /\ pc[r] = "setnx" /\ pc'[r] = "issued"
        /\ \A s \in Requests : s # r => pc'[s] = pc[s] /\ loc'[s] = loc[s]
    BY <1>0, <1>3, MoveOn DEF SetLock
  <2>2. Setters(q)' \subseteq Setters(q) /\ Holders(q)' = Holders(q) /\ \A s \in Holders(q) : pc'[s] = pc[s]
    BY <2>1 DEF Setters, Holders
  <2>3. CASE q = loc[r].new
    <3>1. Claimable(q)
      BY <2>1, <2>3 DEF Setters, Claimable
    <3> QED BY <1>3, <3>1 DEF SetLock, NoNewOffer
  <2>4. CASE q # loc[r].new
    <3>1. locks'[q] = locks[q]
      BY <1>0, <1>3, <2>4 DEF SetLock, TypeOK
    <3> QED BY <1>3, <2>2, <3>1 DEF SetLock, world, NoNewOffer, Claimable, LockLive
  <2> QED BY <2>3, <2>4
<1>4. ASSUME NEW r \in Requests, RetrySetLock(r) PROVE NoNewOffer(q)
  BY <1>4 DEF RetrySetLock
<1>5. ASSUME NEW r \in Requests, RefreshDel(r) PROVE NoNewOffer(q)
  <2>1. /\ pc[r] = "del" /\ pc'[r] = "refreshed"
        /\ \A s \in Requests : s # r => pc'[s] = pc[s] /\ loc'[s] = loc[s]
    BY <1>0, <1>5, MoveOn DEF RefreshDel
  <2>2. Setters(q)' = Setters(q) /\ Holders(q)' = Holders(q) /\ \A s \in Holders(q) : pc'[s] = pc[s]
    BY <2>1 DEF Setters, Holders
  <2>3. LockLive(q)' => LockLive(q)
    <3>1. locks'[q] \in {locks[q], 0} /\ clock' = clock /\ clock \in Nat
      BY <1>0, <1>5 DEF RefreshDel, TypeOK, world
    <3> QED BY <3>1 DEF LockLive
  <2> QED BY <1>5, <2>2, <2>3 DEF RefreshDel, NoNewOffer, Claimable
<1>6. ASSUME NEW r \in Requests, ClaimTake(r) PROVE NoNewOffer(q)
  <2>1. /\ pc[r] = "take" /\ pc'[r] \in {"done", "slippage"}
        /\ \A s \in Requests : s # r => pc'[s] = pc[s] /\ loc'[s] = loc[s]
    BY <1>0, <1>6 DEF ClaimTake, Answer, Goto, TypeOK
  <2>2. LockLive(q)' => LockLive(q)
    <3>1. locks'[q] \in {locks[q], 0} /\ clock' = clock /\ clock \in Nat
      BY <1>0, <1>6 DEF ClaimTake, TypeOK, world
    <3> QED BY <3>1 DEF LockLive
  <2>3. CASE r \in Holders(q)'
    <3>1. pc'[r] = "slippage" /\ loc'[r].id = q
      BY <2>1, <2>3 DEF Holders
    <3>2. LockLive(loc[r].id) /\ loc' = loc
      BY <1>0, <1>6, <3>1 DEF ClaimTake, Answer, TypeOK
    <3> QED BY <1>6, <3>1, <3>2 DEF ClaimTake, NoNewOffer, Claimable
  <2>4. CASE r \notin Holders(q)'
    <3>1. /\ Setters(q)' = Setters(q) /\ Holders(q)' = Holders(q)
          /\ \A s \in Holders(q) : pc'[s] = pc[s]
      BY <2>1, <2>4 DEF Setters, Holders
    <3> QED BY <1>6, <2>2, <3>1 DEF ClaimTake, NoNewOffer, Claimable
  <2> QED BY <2>3, <2>4
<1>7. ASSUME NEW r \in Requests, ClaimSlippage(r) PROVE NoNewOffer(q)
  <2>1. /\ pc[r] = "slippage" /\ pc'[r] \in {"reject", "commit"} /\ loc'[r].id = loc[r].id
        /\ \A s \in Requests : s # r => pc'[s] = pc[s] /\ loc'[s] = loc[s]
    BY <1>0, <1>7 DEF ClaimSlippage, DropRow, Goto, TypeOK, Locals
  <2>2. /\ Setters(q)' = Setters(q) /\ Holders(q)' = Holders(q)
        /\ \A s \in Holders(q) : pc[s] = "reject" => pc'[s] = "reject"
    BY <2>1 DEF Setters, Holders
  <2> QED BY <1>7, <2>2 DEF ClaimSlippage, world, NoNewOffer, Claimable, LockLive
<1>8. ASSUME NEW r \in Requests, ClaimReject(r) \/ ClaimAudit(r) PROVE NoNewOffer(q)
  <2>1. /\ pc[r] \in {"reject", "claimed"} /\ pc'[r] = "done"
        /\ \A s \in Requests : s # r => pc'[s] = pc[s] /\ loc'[s] = loc[s]
    BY <1>0, <1>8 DEF ClaimReject, ClaimAudit, Answer, TypeOK
  <2>2. /\ Setters(q)' = Setters(q) /\ Holders(q)' \subseteq Holders(q)
        /\ \A s \in Holders(q)' : pc'[s] = pc[s]
    BY <2>1 DEF Setters, Holders
  <2> QED BY <1>8, <2>2 DEF ClaimReject, ClaimAudit, world, NoNewOffer, Claimable, LockLive
<1>9. CASE Tick
  <2>1. /\ Setters(q)' = Setters(q) /\ Holders(q)' = Holders(q) /\ pc' = pc
    BY <1>9 DEF Tick, Setters, Holders
  <2>2. LockLive(q)' => LockLive(q)
    BY <1>0, <1>9 DEF Tick, LockLive, TypeOK
  <2> QED BY <1>9, <2>1, <2>2 DEF Tick, NoNewOffer, Claimable
<1>10. CASE Restart
  <2>1. Setters(q)' = {} /\ Holders(q)' = {}
    BY <1>10 DEF Restart, Setters, Holders
  <2>2. LockLive(q)' => LockLive(q)
    <3>1. locks'[q] \in {locks[q], 0} /\ clock' = clock /\ clock \in Nat
      BY <1>0, <1>10 DEF Restart, LocksAfterBoot, TypeOK
    <3> QED BY <3>1 DEF LockLive
  <2> QED BY <1>10, <2>1, <2>2 DEF Restart, NoNewOffer, Claimable
<1> QED BY QuietOrMoves, <1>1, <1>2, <1>3, <1>4, <1>5, <1>6, <1>7, <1>8, <1>9, <1>10 DEF Moves

\* Pricing an item offers the id it mints.
LEMMA PricingOffers ==
    ASSUME TypeInv, TokenUnique, NEW r \in Requests, ComputePrice(r)
    PROVE  Contract!ContractNext
<1>0. TypeOK
  BY DEF TypeInv
<1>1. PICK q \in QuoteIds \ minted :
        /\ minted' = minted \cup {q}
        /\ loc' = [loc EXCEPT ![r].new = q,
                              ![r].row = [NoRow EXCEPT !.status = "OPEN",
                                                       !.rate = EffectiveRate(spot),
                                                       !.expiresAt = clock + RateLockTTL],
                              ![r].left = @ - 1]
  BY DEF ComputePrice
<1>2. loc'[r].new = q /\ \A s \in Requests : s # r => loc'[s] = loc[s]
  BY <1>0, <1>1 DEF TypeOK, Locals
<1>3. /\ pc[r] = "compute" /\ pc'[r] = "save"
      /\ \A s \in Requests : s # r => pc'[s] = pc[s] /\ loc'[s] = loc[s]
  BY <1>0, <1>2, MoveOn DEF ComputePrice
<1>4. granted' = granted /\ locks' = locks /\ clock' = clock
  BY DEF ComputePrice, world
<1>5. ContractPhase(q) = "unissued" /\ ContractPhase(q)' = "offered"
  <2>1. granted[q] = {}
    BY <1>1 DEF TokenUnique, Token
  <2>2. Claimable(q)'
    BY <1>2, <1>3 DEF Claimable, Setters
  <2> QED BY <1>1, <1>4, <2>1, <2>2 DEF ContractPhase
<1>6. ASSUME NEW p \in QuoteIds, p # q PROVE ContractPhase(p)' = ContractPhase(p)
  <2>1. /\ Setters(p)' = Setters(p) /\ Holders(p)' = Holders(p)
        /\ \A s \in Holders(p) : pc'[s] = pc[s]
    BY <1>2, <1>3, <1>6 DEF Setters, Holders
  <2>2. Claimable(p)' <=> Claimable(p)
    BY <1>4, <2>1 DEF Claimable, LockLive
  <2> QED BY <1>1, <1>4, <1>6, <2>2 DEF ContractPhase
<1>7. \A p \in QuoteIds : ContractHolder(p)' = ContractHolder(p)
  BY <1>4 DEF ContractHolder
<1>8. Contract!Offer(q)
  BY <1>5, <1>6, <1>7 DEF Contract!Offer
<1> QED BY <1>8 DEF Contract!ContractNext

\* A commit grants an offer to its request.
LEMMA CommitGrants ==
    ASSUME TypeInv, RowInv, TokenUnique, NEW r \in Requests, ClaimCommit(r)
    PROVE  Contract!ContractNext
<1>a. PICK q \in QuoteIds : q = loc[r].id
  BY DEF RowInv, RowHeld, ClaimCommit
<1>0. TypeOK /\ Token(q)
  BY DEF TypeInv, TokenUnique
<1>1. /\ pc[r] = "commit" /\ pc'[r] = "claimed" /\ loc' = loc
      /\ \A s \in Requests : s # r => pc'[s] = pc[s] /\ loc'[s] = loc[s]
  BY <1>0, MoveOn DEF ClaimCommit
<1>2. minted' = minted /\ locks' = locks /\ clock' = clock
  BY DEF ClaimCommit, world
<1>3. granted'[q] = granted[q] \cup {r} /\ \A p \in QuoteIds : p # q => granted'[p] = granted[p]
  BY <1>0, <1>a DEF ClaimCommit, TypeOK
<1>4. r \in Holders(q)
  BY <1>1, <1>a DEF Holders
<1>5. q \in minted /\ granted[q] = {} /\ granted'[q] = {r} /\ Claimable(q)
  BY <1>0, <1>1, <1>3, <1>4 DEF Token, Claimable
<1>6. ContractPhase(q) = "offered" /\ ContractPhase(q)' = "granted"
  BY <1>2, <1>5 DEF ContractPhase
<1>7. ContractHolder(q)' = r
  <2>1. ContractHolder(q)' = CHOOSE s \in Requests : s \in granted'[q]
    BY <1>5 DEF ContractHolder
  <2> QED BY <1>5, <2>1
<1>8. ASSUME NEW p \in QuoteIds, p # q
      PROVE  ContractPhase(p)' = ContractPhase(p) /\ ContractHolder(p)' = ContractHolder(p)
  <2>1. /\ Setters(p)' = Setters(p) /\ Holders(p)' = Holders(p)
        /\ \A s \in Holders(p) : pc'[s] = pc[s]
    BY <1>1, <1>8, <1>a DEF Setters, Holders
  <2>2. Claimable(p)' <=> Claimable(p)
    BY <1>2, <2>1 DEF Claimable, LockLive
  <2> QED BY <1>2, <1>3, <1>8, <2>2, HolderKept DEF ContractPhase
<1>9. Contract!Grant(q, r)
  BY <1>0, <1>6, <1>7, <1>8 DEF Contract!Grant
<1> QED BY <1>0, <1>9 DEF Contract!ContractNext

\* README.md:34 "claims the quote by ID atomically", for every instance: each
\* interleaving of the handlers, the sweeper, the clock, failing Redis calls and
\* restarts is a behaviour of the atomic contract (server.go:332-485,
\* claim.go:45-107, redis_lock.go:35-77).
THEOREM ContractIsKept == RedisRetries = FALSE => (Spec => ImplementsContract)
<1> SUFFICES ASSUME RedisRetries = FALSE PROVE Spec => ImplementsContract
  OBVIOUS
<1>1. Init => Contract!ContractInit
  BY DEF Init, Contract!ContractInit, ContractPhase, ContractHolder
<1>2. TypeInv /\ RowInv /\ TokenUnique /\ [Next]_vars => (TypeInv /\ RowInv /\ TokenUnique)'
  BY TypeStep, RowStep, TokenStep
<1>3. TypeInv /\ RowInv /\ TokenUnique /\ [Next]_vars => Contract!ContractNext
  BY OffersOnlyByPricing, WithdrawsAtMost, PricingOffers, CommitGrants
<1>4. Init => TypeInv /\ RowInv /\ TokenUnique
  BY GrantInit
<1> QED
  BY <1>1, <1>2, <1>3, <1>4, PTL DEF Spec, ImplementsContract, Contract!ContractSpec
=============================================================================
