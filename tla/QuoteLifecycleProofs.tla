------------------------ MODULE QuoteLifecycleProofs ------------------------
(***************************************************************************)
(* Proofs about QuoteLifecycle, for every number of quotes and requests,   *)
(* every TTL, spread, tolerance, price set, choice of backends and number  *)
(* of restarts.                                                            *)
(***************************************************************************)
EXTENDS QuoteLifecycle, TLAPS

-----------------------------------------------------------------------------
(* Type correctness. *)

\* A handler that is about to price an item has one to price.  Without it the
\* countdown of items in createQuote's callers could leave the naturals.
ItemsLeft ==
    \A r \in Requests :
        pc[r] \in {"compute", "cancel", "del", "refreshed"} => loc[r].left > 0

TypeInv == TypeOK /\ ItemsLeft

\* The effective rate is an integer, whichever side and spread (pricer.go:73-87).
LEMMA EffectiveRateInt ==
    ASSUME NEW s \in Nat
    PROVE  EffectiveRate(s) \in Int
<1>1. s * SpreadBPS \in Nat
  BY ConstantsAssumption
<1>2. (s * SpreadBPS) \div 10000 \in Int
  BY <1>1
<1> QED
  BY <1>2 DEF EffectiveRate

LEMMA NoLocalsTyped == NoLocals \in Locals /\ NoRow \in Row
  BY ConstantsAssumption DEF NoLocals, Locals, NoRow, Row, Statuses

LEMMA TypeInit == Init => TypeInv
<1> SUFFICES ASSUME Init PROVE TypeInv
  OBVIOUS
<1> USE ConstantsAssumption, NoLocalsTyped
<1>1. quotes \in [QuoteIds -> Row] /\ loc \in [Requests -> Locals]
  BY DEF Init
<1>2. audit \in [QuoteIds -> [Events -> Nat]]
  BY DEF Init, NoEvents
<1>3. sweep \in [at : {"sleep", "list", "mark", "audit"}, now : Nat,
                 todo : SUBSET QuoteIds, cur : QuoteIds \cup {NoId}]
  BY DEF Init, Asleep
<1>4. ItemsLeft
  BY DEF Init, ItemsLeft
<1> QED
  BY <1>1, <1>2, <1>3, <1>4 DEF Init, TypeInv, TypeOK, Labels, Results

\* A handler's answer keeps the types of what it changes.
LEMMA AnswerTyped ==
    ASSUME TypeInv, NEW r \in Requests, NEW id \in QuoteIds \cup {NoId}, NEW res \in Results,
           Answer(r, id, res)
    PROVE  /\ pc' \in [Requests -> Labels]
           /\ loc' \in [Requests -> Locals]
           /\ result' \in [Requests -> Results]
           /\ ItemsLeft'
<1>1. [NoLocals EXCEPT !.id = id] \in Locals
  BY NoLocalsTyped DEF Locals, NoLocals
<1>2. loc' \in [Requests -> Locals]
  BY <1>1 DEF Answer, TypeInv, TypeOK
<1>3. pc' \in [Requests -> Labels] /\ result' \in [Requests -> Results]
  BY DEF Answer, TypeInv, TypeOK, Labels
<1>4. ItemsLeft'
  BY DEF Answer, TypeInv, TypeOK, ItemsLeft
<1> QED
  BY <1>2, <1>3, <1>4

\* Recording an audit event keeps the type of the log.
LEMMA RecordTyped ==
    ASSUME TypeOK, NEW q, NEW e \in Events, Record(q, e)
    PROVE  audit' \in [QuoteIds -> [Events -> Nat]]
<1>1. audit \in [QuoteIds -> [Events -> Nat]]
  BY DEF TypeOK
<1>2. CASE q \in QuoteIds
  <2>1. audit[q] \in [Events -> Nat]
    BY <1>1, <1>2
  <2>2. [audit[q] EXCEPT ![e] = audit[q][e] + 1] \in [Events -> Nat]
    BY <2>1
  <2>3. audit' = [audit EXCEPT ![q] = [audit[q] EXCEPT ![e] = audit[q][e] + 1]]
    BY DEF Record
  <2> QED
    BY <1>1, <2>2, <2>3
<1>3. CASE q \notin QuoteIds
  BY <1>1, <1>3 DEF Record
<1> QED
  BY <1>2, <1>3

\* Writing a status keeps the type of the store.
LEMMA SetStatusTyped ==
    ASSUME TypeOK, NEW q, NEW s \in Statuses, SetStatus(q, s)
    PROVE  quotes' \in [QuoteIds -> Row]
<1>1. quotes \in [QuoteIds -> Row]
  BY DEF TypeOK
<1>2. CASE q \in QuoteIds
  <2>1. quotes[q] \in Row
    BY <1>1, <1>2
  <2>2. [quotes[q] EXCEPT !.status = s] \in Row
    BY <2>1 DEF Row
  <2>3. quotes' = [quotes EXCEPT ![q] = [quotes[q] EXCEPT !.status = s]]
    BY DEF SetStatus
  <2> QED
    BY <1>1, <2>2, <2>3
<1>3. CASE q \notin QuoteIds
  BY <1>1, <1>3 DEF SetStatus
<1> QED
  BY <1>2, <1>3

\* Moving on to a label that prices no item keeps the types of what it changes.
LEMMA GotoTyped ==
    ASSUME TypeInv, NEW r \in Requests, NEW l \in Labels, Goto(r, l),
           loc' \in [Requests -> Locals],
           \A s \in Requests : s # r => loc'[s] = loc[s],
           l \in {"compute", "cancel", "del", "refreshed"} => loc'[r].left > 0
    PROVE  /\ pc' \in [Requests -> Labels]
           /\ result' \in [Requests -> Results]
           /\ ItemsLeft'
  BY DEF Goto, TypeInv, TypeOK, ItemsLeft

\* Dropping the copy of a row keeps the types of the locals.
LEMMA DropRowTyped ==
    ASSUME TypeOK, NEW r \in Requests, DropRow(r)
    PROVE  /\ loc' \in [Requests -> Locals]
           /\ \A s \in Requests : s # r => loc'[s] = loc[s]
           /\ loc'[r].left = loc[r].left
<1>1. [loc[r] EXCEPT !.row = NoRow] \in Locals
  BY NoLocalsTyped DEF TypeOK, Locals
<1>2. loc' = [loc EXCEPT ![r] = [loc[r] EXCEPT !.row = NoRow]]
  BY DEF DropRow
<1> QED
  BY <1>1, <1>2 DEF TypeOK, Locals

\* Every step of the system preserves the types (one step per action).
LEMMA TypeStep == TypeInv /\ [Next]_vars => TypeInv'
<1> SUFFICES ASSUME TypeInv, [Next]_vars PROVE TypeInv'
  OBVIOUS
<1> USE ConstantsAssumption
<1>0. TypeOK /\ ItemsLeft
  BY DEF TypeInv
<1>1. ASSUME NEW r \in Requests, ReceiveQuoteRequest(r) PROVE TypeInv'
  <2>1. PICK n \in 1..BulkQuoteMaxItems, b \in BOOLEAN :
          loc' = [loc EXCEPT ![r] = [NoLocals EXCEPT !.left = n, !.bulk = b]]
    BY <1>1 DEF ReceiveQuoteRequest
  <2>2. [NoLocals EXCEPT !.left = n, !.bulk = b] \in Locals
    <3>1. n \in Nat
      OBVIOUS
    <3> QED
      BY <3>1, NoLocalsTyped DEF Locals, NoLocals
  <2>3. loc' \in [Requests -> Locals] /\ loc'[r].left > 0
        /\ \A s \in Requests : s # r => loc'[s] = loc[s]
    BY <1>0, <2>1, <2>2 DEF TypeOK, NoLocals
  <2>4. Goto(r, "compute") /\ "compute" \in Labels
    BY <1>1 DEF ReceiveQuoteRequest, Labels
  <2>5. pc' \in [Requests -> Labels] /\ result' \in [Requests -> Results] /\ ItemsLeft'
    BY <2>3, <2>4, GotoTyped
  <2> QED
    BY <1>0, <1>1, <2>3, <2>5 DEF ReceiveQuoteRequest, TypeInv, TypeOK, world
<1>2. ASSUME NEW r \in Requests, ComputePrice(r) PROVE TypeInv'
  <2>1. PICK q \in QuoteIds \ minted :
          /\ minted' = minted \cup {q}
          /\ loc' = [loc EXCEPT ![r].new = q,
                                ![r].row = [NoRow EXCEPT !.status = "OPEN",
                                                         !.rate = EffectiveRate(spot),
                                                         !.expiresAt = clock + RateLockTTL],
                                ![r].left = @ - 1]
    BY <1>2 DEF ComputePrice
  <2> DEFINE draft == [NoRow EXCEPT !.status = "OPEN", !.rate = EffectiveRate(spot),
                                    !.expiresAt = clock + RateLockTTL]
  <2>2. EffectiveRate(spot) \in Int /\ clock + RateLockTTL \in Nat
    BY <1>0, EffectiveRateInt DEF TypeOK
  <2>3. draft \in Row
    BY <2>2, NoLocalsTyped DEF NoRow, Row, Statuses
  <2>4. loc[r] \in Locals /\ loc[r].left > 0
    BY <1>0, <1>2 DEF TypeOK, ItemsLeft, ComputePrice
  <2> HIDE DEF draft
  <2>5. [loc[r] EXCEPT !.new = q, !.row = draft, !.left = loc[r].left - 1] \in Locals
    <3>1. loc[r].left - 1 \in Nat
      BY <2>4 DEF Locals
    <3> QED
      BY <2>3, <2>4, <3>1 DEF Locals
  <2>6. loc' = [loc EXCEPT ![r] = [loc[r] EXCEPT !.new = q, !.row = draft,
                                                 !.left = loc[r].left - 1]]
    BY <1>0, <2>1 DEF draft, TypeOK, Locals
  <2>7. loc' \in [Requests -> Locals] /\ \A s \in Requests : s # r => loc'[s] = loc[s]
    BY <1>0, <2>5, <2>6 DEF TypeOK
  <2>8. Goto(r, "save") /\ "save" \in Labels
    BY <1>2 DEF ComputePrice, Labels
  <2>9. pc' \in [Requests -> Labels] /\ result' \in [Requests -> Results] /\ ItemsLeft'
    BY <2>7, <2>8, GotoTyped
  <2> QED
    BY <1>0, <1>2, <2>1, <2>7, <2>9 DEF ComputePrice, TypeInv, TypeOK, world
<1>3. ASSUME NEW r \in Requests, SpotUnavailable(r) PROVE TypeInv'
  <2>1. CASE loc[r].bulk /\ loc[r].left > 1
    <3>1. loc' = [loc EXCEPT ![r] = [loc[r] EXCEPT !.left = loc[r].left - 1]]
      BY <1>3, <2>1 DEF SpotUnavailable
    <3>2. [loc[r] EXCEPT !.left = loc[r].left - 1] \in Locals
      <4>1. loc[r] \in Locals
        BY <1>0 DEF TypeOK
      <4>2. loc[r].left - 1 \in Nat
        BY <2>1, <4>1 DEF Locals
      <4> QED
        BY <4>1, <4>2 DEF Locals
    <3>3. loc' \in [Requests -> Locals] /\ loc'[r].left > 0
          /\ \A s \in Requests : s # r => loc'[s] = loc[s]
      BY <1>0, <2>1, <3>1, <3>2 DEF TypeOK, Locals
    <3>4. Goto(r, "compute") /\ "compute" \in Labels
      BY <1>3, <2>1 DEF SpotUnavailable, Labels
    <3>5. pc' \in [Requests -> Labels] /\ result' \in [Requests -> Results] /\ ItemsLeft'
      BY <3>3, <3>4, GotoTyped
    <3> QED
      BY <1>0, <1>3, <3>3, <3>5 DEF SpotUnavailable, TypeInv, TypeOK, world
  <2>2. CASE ~(loc[r].bulk /\ loc[r].left > 1)
    <3>1. PICK res \in Results : Answer(r, loc[r].id, res)
      BY <1>3, <2>2 DEF SpotUnavailable, Results
    <3>2. loc[r].id \in QuoteIds \cup {NoId}
      BY <1>0 DEF TypeOK, Locals
    <3>3. /\ pc' \in [Requests -> Labels] /\ loc' \in [Requests -> Locals]
          /\ result' \in [Requests -> Results] /\ ItemsLeft'
      BY <3>1, <3>2, AnswerTyped
    <3> QED
      BY <1>0, <1>3, <3>3 DEF SpotUnavailable, TypeInv, TypeOK, world
  <2> QED
    BY <2>1, <2>2
<1>4. ASSUME NEW r \in Requests, SaveQuote(r) PROVE TypeInv'
  <2>1. Goto(r, "setnx") /\ DropRow(r) /\ "setnx" \in Labels
    BY <1>4 DEF SaveQuote, Labels
  <2>2. /\ pc' \in [Requests -> Labels] /\ loc' \in [Requests -> Locals]
        /\ result' \in [Requests -> Results] /\ ItemsLeft'
    BY <1>0, <2>1, GotoTyped, DropRowTyped
  <2>3. quotes' \in [QuoteIds -> Row]
    BY <1>0, <1>4 DEF SaveQuote, TypeOK, Locals
  <2> QED
    BY <1>0, <1>4, <2>1, <2>2, <2>3 DEF SaveQuote, TypeInv, TypeOK, world
<1>5. ASSUME NEW r \in Requests, SetLock(r) PROVE TypeInv'
  <2>1. Goto(r, "issued") /\ "issued" \in Labels /\ loc' = loc
    BY <1>5 DEF SetLock, Labels
  <2>2. pc' \in [Requests -> Labels] /\ result' \in [Requests -> Results] /\ ItemsLeft'
    BY <1>0, <2>1, GotoTyped DEF TypeOK
  <2>3. locks' \in [QuoteIds -> Nat]
    BY <1>0, <1>5 DEF SetLock, TypeOK
  <2> QED
    BY <1>0, <1>5, <2>1, <2>2, <2>3 DEF SetLock, TypeInv, TypeOK, world
<1>6. ASSUME NEW r \in Requests, RetrySetLock(r) PROVE TypeInv'
  <2>1. locks' \in [QuoteIds -> Nat]
    <3>1. clock + RateLockTTL \in Nat
      BY <1>0 DEF TypeOK
    <3> QED
      BY <1>0, <1>6, <3>1 DEF RetrySetLock, TypeOK
  <2>2. ItemsLeft'
    BY <1>0, <1>6 DEF RetrySetLock, ItemsLeft
  <2> QED
    BY <1>0, <1>6, <2>1, <2>2 DEF RetrySetLock, TypeInv, TypeOK, world
<1>7. ASSUME NEW r \in Requests, AuditIssued(r) PROVE TypeInv'
  <2>1. audit' \in [QuoteIds -> [Events -> Nat]]
    BY <1>0, <1>7, RecordTyped DEF AuditIssued, Events
  <2>2. PICK res \in Results : NextItem(r, res)
    BY <1>7 DEF AuditIssued, Results
  <2>3. loc[r].id \in QuoteIds \cup {NoId}
    BY <1>0 DEF TypeOK, Locals
  <2>4. CASE loc[r].left > 0
    <3>1. Goto(r, "compute") /\ "compute" \in Labels /\ loc' = loc
      BY <2>2, <2>4 DEF NextItem, Labels
    <3>2. pc' \in [Requests -> Labels] /\ result' \in [Requests -> Results] /\ ItemsLeft'
      BY <1>0, <2>4, <3>1, GotoTyped DEF TypeOK
    <3> QED
      BY <1>0, <1>7, <2>1, <3>1, <3>2 DEF AuditIssued, TypeInv, TypeOK, world
  <2>5. CASE ~(loc[r].left > 0)
    <3>1. Answer(r, loc[r].id, res)
      BY <2>2, <2>5 DEF NextItem
    <3>2. /\ pc' \in [Requests -> Labels] /\ loc' \in [Requests -> Locals]
          /\ result' \in [Requests -> Results] /\ ItemsLeft'
      BY <2>3, <3>1, AnswerTyped
    <3> QED
      BY <1>0, <1>7, <2>1, <3>2 DEF AuditIssued, TypeInv, TypeOK, world
  <2> QED
    BY <2>4, <2>5
<1>8. ASSUME NEW r \in Requests, NEW q \in QuoteIds, RefreshLoad(r, q) PROVE TypeInv'
  <2>1. CASE Present(q)
    <3>1. loc' = [loc EXCEPT ![r] = [NoLocals EXCEPT !.id = q, !.left = 1]]
      BY <1>8, <2>1 DEF RefreshLoad
    <3>2. [NoLocals EXCEPT !.id = q, !.left = 1] \in Locals
      BY <1>0, NoLocalsTyped DEF TypeOK, NoLocals, Locals
    <3>3. loc' \in [Requests -> Locals] /\ \A s \in Requests : s # r => loc'[s] = loc[s]
      BY <1>0, <3>1, <3>2 DEF TypeOK
    <3>4. Goto(r, "cancel") /\ "cancel" \in Labels
      BY <1>8, <2>1 DEF RefreshLoad, Labels
    <3>5. pc' \in [Requests -> Labels] /\ result' \in [Requests -> Results] /\ ItemsLeft'
      BY <1>0, <3>1, <3>3, <3>4, GotoTyped DEF TypeOK
    <3> QED
      BY <1>0, <1>8, <3>3, <3>5 DEF RefreshLoad, TypeInv, TypeOK, world
  <2>2. CASE ~Present(q)
    <3>1. Answer(r, q, "not_found") /\ "not_found" \in Results
      BY <1>8, <2>2 DEF RefreshLoad, Results
    <3>2. /\ pc' \in [Requests -> Labels] /\ loc' \in [Requests -> Locals]
          /\ result' \in [Requests -> Results] /\ ItemsLeft'
      BY <3>1, AnswerTyped
    <3> QED
      BY <1>0, <1>8, <3>2 DEF RefreshLoad, TypeInv, TypeOK, world
  <2> QED
    BY <2>1, <2>2
<1>9. ASSUME NEW r \in Requests, RefreshCancel(r) PROVE TypeInv'
  <2>1. Goto(r, "del") /\ "del" \in Labels /\ loc' = loc
    BY <1>9 DEF RefreshCancel, Labels
  <2>2. pc' \in [Requests -> Labels] /\ result' \in [Requests -> Results] /\ ItemsLeft'
    BY <1>0, <1>9, <2>1, GotoTyped DEF TypeOK, ItemsLeft, RefreshCancel
  <2>3. quotes' \in [QuoteIds -> Row]
    BY <1>0, <1>9, SetStatusTyped DEF RefreshCancel, Statuses
  <2> QED
    BY <1>0, <1>9, <2>1, <2>2, <2>3 DEF RefreshCancel, TypeInv, TypeOK, world
<1>10. ASSUME NEW r \in Requests, RefreshDel(r) PROVE TypeInv'
  <2>1. Goto(r, "refreshed") /\ "refreshed" \in Labels /\ loc' = loc
    BY <1>10 DEF RefreshDel, Labels
  <2>2. pc' \in [Requests -> Labels] /\ result' \in [Requests -> Results] /\ ItemsLeft'
    BY <1>0, <1>10, <2>1, GotoTyped DEF TypeOK, ItemsLeft, RefreshDel
  <2>3. locks' \in [QuoteIds -> Nat]
    BY <1>0, <1>10 DEF RefreshDel, TypeOK
  <2> QED
    BY <1>0, <1>10, <2>1, <2>2, <2>3 DEF RefreshDel, TypeInv, TypeOK, world
<1>11. ASSUME NEW r \in Requests, RefreshAudit(r) PROVE TypeInv'
  <2>1. Goto(r, "compute") /\ "compute" \in Labels /\ loc' = loc
    BY <1>11 DEF RefreshAudit, Labels
  <2>2. pc' \in [Requests -> Labels] /\ result' \in [Requests -> Results] /\ ItemsLeft'
    BY <1>0, <1>11, <2>1, GotoTyped DEF TypeOK, ItemsLeft, RefreshAudit
  <2>3. audit' \in [QuoteIds -> [Events -> Nat]]
    BY <1>0, <1>11, RecordTyped DEF RefreshAudit, Events
  <2> QED
    BY <1>0, <1>11, <2>1, <2>2, <2>3 DEF RefreshAudit, TypeInv, TypeOK, world
<1>12. ASSUME NEW r \in Requests, NEW q \in QuoteIds, GetLoad(r, q) PROVE TypeInv'
  <2>1. CASE Present(q)
    <3>1. loc' = [loc EXCEPT ![r] = [NoLocals EXCEPT !.id = q, !.row = quotes[q]]]
      BY <1>12, <2>1 DEF GetLoad
    <3>2. [NoLocals EXCEPT !.id = q, !.row = quotes[q]] \in Locals
      BY <1>0, NoLocalsTyped DEF TypeOK, NoLocals, Locals
    <3>3. loc' \in [Requests -> Locals] /\ \A s \in Requests : s # r => loc'[s] = loc[s]
      BY <1>0, <3>1, <3>2 DEF TypeOK
    <3>4. Goto(r, "getcheck") /\ "getcheck" \in Labels
      BY <1>12, <2>1 DEF GetLoad, Labels
    <3>5. pc' \in [Requests -> Labels] /\ result' \in [Requests -> Results] /\ ItemsLeft'
      BY <1>0, <3>1, <3>3, <3>4, GotoTyped DEF TypeOK
    <3> QED
      BY <1>0, <1>12, <3>3, <3>5 DEF GetLoad, TypeInv, TypeOK, world
  <2>2. CASE ~Present(q)
    <3>1. Answer(r, q, "not_found") /\ "not_found" \in Results
      BY <1>12, <2>2 DEF GetLoad, Results
    <3>2. /\ pc' \in [Requests -> Labels] /\ loc' \in [Requests -> Locals]
          /\ result' \in [Requests -> Results] /\ ItemsLeft'
      BY <3>1, AnswerTyped
    <3> QED
      BY <1>0, <1>12, <3>2 DEF GetLoad, TypeInv, TypeOK, world
  <2> QED
    BY <2>1, <2>2
<1>13. ASSUME NEW r \in Requests, GetCheck(r) PROVE TypeInv'
  <2>1. CASE Goto(r, "getexpire") /\ DropRow(r)
    <3>1. "getexpire" \in Labels
      BY DEF Labels
    <3>2. /\ pc' \in [Requests -> Labels] /\ loc' \in [Requests -> Locals]
          /\ result' \in [Requests -> Results] /\ ItemsLeft'
      BY <1>0, <2>1, <3>1, GotoTyped, DropRowTyped
    <3> QED
      BY <1>0, <1>13, <3>2 DEF GetCheck, TypeInv, TypeOK, world
  <2>2. CASE Answer(r, loc[r].id, "found")
    <3>1. loc[r].id \in QuoteIds \cup {NoId} /\ "found" \in Results
      BY <1>0 DEF TypeOK, Locals, Results
    <3>2. /\ pc' \in [Requests -> Labels] /\ loc' \in [Requests -> Locals]
          /\ result' \in [Requests -> Results] /\ ItemsLeft'
      BY <2>2, <3>1, AnswerTyped
    <3> QED
      BY <1>0, <1>13, <3>2 DEF GetCheck, TypeInv, TypeOK, world
  <2> QED
    BY <1>13, <2>1, <2>2 DEF GetCheck
<1>14. ASSUME NEW r \in Requests, GetExpire(r) PROVE TypeInv'
  <2>1. loc[r].id \in QuoteIds \cup {NoId} /\ "expired" \in Results
    BY <1>0 DEF TypeOK, Locals, Results
  <2>2. /\ pc' \in [Requests -> Labels] /\ loc' \in [Requests -> Locals]
        /\ result' \in [Requests -> Results] /\ ItemsLeft'
    BY <1>14, <2>1, AnswerTyped DEF GetExpire
  <2>3. quotes' \in [QuoteIds -> Row]
    BY <1>0, <1>14, SetStatusTyped DEF GetExpire, Statuses
  <2> QED
    BY <1>0, <1>14, <2>1, <2>2, <2>3 DEF GetExpire, TypeInv, TypeOK, world
<1>15. ASSUME NEW r \in Requests, NEW q \in QuoteIds, ClaimLoad(r, q) PROVE TypeInv'
  <2>1. CASE quotes[q].status = "OPEN"
    <3>1. loc' = [loc EXCEPT ![r] = [NoLocals EXCEPT !.id = q, !.row = quotes[q]]]
      BY <1>15, <2>1 DEF ClaimLoad
    <3>2. [NoLocals EXCEPT !.id = q, !.row = quotes[q]] \in Locals
      BY <1>0, NoLocalsTyped DEF TypeOK, NoLocals, Locals
    <3>3. loc' \in [Requests -> Locals] /\ \A s \in Requests : s # r => loc'[s] = loc[s]
      BY <1>0, <3>1, <3>2 DEF TypeOK
    <3>4. Goto(r, "check") /\ "check" \in Labels
      BY <1>15, <2>1 DEF ClaimLoad, Labels
    <3>5. pc' \in [Requests -> Labels] /\ result' \in [Requests -> Results] /\ ItemsLeft'
      BY <3>3, <3>4, GotoTyped
    <3> QED
      BY <1>0, <1>15, <3>3, <3>5 DEF ClaimLoad, TypeInv, TypeOK, world
  <2>2. CASE quotes[q].status # "OPEN"
    <3>1. quotes[q].status \in Statuses
      BY <1>0 DEF TypeOK, Row
    <3>2. PICK res \in Results : Answer(r, q, res)
      BY <1>15, <2>2, <3>1 DEF ClaimLoad, Statuses, Results
    <3>3. /\ pc' \in [Requests -> Labels] /\ loc' \in [Requests -> Locals]
          /\ result' \in [Requests -> Results] /\ ItemsLeft'
      BY <3>2, AnswerTyped
    <3> QED
      BY <1>0, <1>15, <3>3 DEF ClaimLoad, TypeInv, TypeOK, world
  <2> QED
    BY <2>1, <2>2
<1>16. ASSUME NEW r \in Requests, ClaimCheck(r) PROVE TypeInv'
  <2>1. PICK l \in Labels \ {"compute", "cancel", "del", "refreshed"} :
          Goto(r, l) /\ (DropRow(r) \/ UNCHANGED loc)
    BY <1>16 DEF ClaimCheck, Labels
  <2>2. /\ pc' \in [Requests -> Labels] /\ loc' \in [Requests -> Locals]
        /\ result' \in [Requests -> Results] /\ ItemsLeft'
    BY <1>0, <2>1, GotoTyped, DropRowTyped DEF TypeOK
  <2> QED
    BY <1>0, <1>16, <2>1, <2>2 DEF ClaimCheck, TypeInv, TypeOK, world
<1>17. ASSUME NEW r \in Requests, ClaimExpire(r) PROVE TypeInv'
  <2>1. Goto(r, "expired") /\ "expired" \in Labels /\ loc' = loc
    BY <1>17 DEF ClaimExpire, Labels
  <2>2. pc' \in [Requests -> Labels] /\ result' \in [Requests -> Results] /\ ItemsLeft'
    BY <1>0, <2>1, GotoTyped DEF TypeOK
  <2>3. quotes' \in [QuoteIds -> Row]
    BY <1>0, <1>17, SetStatusTyped DEF ClaimExpire, Statuses
  <2> QED
    BY <1>0, <1>17, <2>1, <2>2, <2>3 DEF ClaimExpire, TypeInv, TypeOK, world
<1>18. ASSUME NEW r \in Requests, ClaimExpireAudit(r) PROVE TypeInv'
  <2>1. loc[r].id \in QuoteIds \cup {NoId} /\ "EXPIRED" \in Results
    BY <1>0 DEF TypeOK, Locals, Results
  <2>2. /\ pc' \in [Requests -> Labels] /\ loc' \in [Requests -> Locals]
        /\ result' \in [Requests -> Results] /\ ItemsLeft'
    BY <1>18, <2>1, AnswerTyped DEF ClaimExpireAudit
  <2>3. audit' \in [QuoteIds -> [Events -> Nat]]
    BY <1>0, <1>18, RecordTyped DEF ClaimExpireAudit, Events
  <2> QED
    BY <1>0, <1>18, <2>1, <2>2, <2>3 DEF ClaimExpireAudit, TypeInv, TypeOK, world
<1>19. ASSUME NEW r \in Requests, ClaimTake(r) PROVE TypeInv'
  <2>1. locks' \in [QuoteIds -> Nat]
    BY <1>0, <1>19 DEF ClaimTake, TypeOK
  <2>2. CASE Goto(r, "slippage") /\ UNCHANGED loc
    <3>1. "slippage" \in Labels
      BY DEF Labels
    <3>2. pc' \in [Requests -> Labels] /\ result' \in [Requests -> Results] /\ ItemsLeft'
      BY <1>0, <2>2, <3>1, GotoTyped DEF TypeOK
    <3> QED
      BY <1>0, <1>19, <2>1, <2>2, <3>2 DEF ClaimTake, TypeInv, TypeOK, world
  <2>3. CASE Answer(r, loc[r].id, "already_claimed")
    <3>1. loc[r].id \in QuoteIds \cup {NoId} /\ "already_claimed" \in Results
      BY <1>0 DEF TypeOK, Locals, Results
    <3>2. /\ pc' \in [Requests -> Labels] /\ loc' \in [Requests -> Locals]
          /\ result' \in [Requests -> Results] /\ ItemsLeft'
      BY <2>3, <3>1, AnswerTyped
    <3> QED
      BY <1>0, <1>19, <2>1, <3>2 DEF ClaimTake, TypeInv, TypeOK, world
  <2> QED
    BY <1>19, <2>2, <2>3 DEF ClaimTake
<1>20. ASSUME NEW r \in Requests, ClaimSlippage(r) PROVE TypeInv'
  <2>1. CASE Goto(r, "reject") /\ DropRow(r)
    <3>1. "reject" \in Labels
      BY DEF Labels
    <3>2. /\ pc' \in [Requests -> Labels] /\ loc' \in [Requests -> Locals]
          /\ result' \in [Requests -> Results] /\ ItemsLeft'
      BY <1>0, <2>1, <3>1, GotoTyped, DropRowTyped
    <3> QED
      BY <1>0, <1>20, <3>2 DEF ClaimSlippage, TypeInv, TypeOK, world
  <2>2. CASE Goto(r, "commit") /\ loc' = [loc EXCEPT ![r].row = NoRow, ![r].now = clock]
    <3>1. [loc[r] EXCEPT !.row = NoRow, !.now = clock] \in Locals
      BY <1>0, NoLocalsTyped DEF TypeOK, Locals
    <3>2. loc' = [loc EXCEPT ![r] = [loc[r] EXCEPT !.row = NoRow, !.now = clock]]
      BY <1>0, <2>2 DEF TypeOK
    <3>3. loc' \in [Requests -> Locals] /\ \A s \in Requests : s # r => loc'[s] = loc[s]
      BY <1>0, <3>1, <3>2 DEF TypeOK
    <3>4. "commit" \in Labels
      BY DEF Labels
    <3>5. pc' \in [Requests -> Labels] /\ result' \in [Requests -> Results] /\ ItemsLeft'
      BY <2>2, <3>3, <3>4, GotoTyped
    <3> QED
      BY <1>0, <1>20, <3>3, <3>5 DEF ClaimSlippage, TypeInv, TypeOK, world
  <2> QED
    BY <1>20, <2>1, <2>2 DEF ClaimSlippage
<1>21. ASSUME NEW r \in Requests, ClaimReject(r) PROVE TypeInv'
  <2>1. loc[r].id \in QuoteIds \cup {NoId} /\ "slippage_exceeded" \in Results
    BY <1>0 DEF TypeOK, Locals, Results
  <2>2. /\ pc' \in [Requests -> Labels] /\ loc' \in [Requests -> Locals]
        /\ result' \in [Requests -> Results] /\ ItemsLeft'
    BY <1>21, <2>1, AnswerTyped DEF ClaimReject
  <2>3. audit' \in [QuoteIds -> [Events -> Nat]]
    BY <1>0, <1>21, RecordTyped DEF ClaimReject, Events
  <2> QED
    BY <1>0, <1>21, <2>1, <2>2, <2>3 DEF ClaimReject, TypeInv, TypeOK, world
<1>22. ASSUME NEW r \in Requests, ClaimCommit(r) PROVE TypeInv'
  <2>1. Goto(r, "claimed") /\ "claimed" \in Labels /\ loc' = loc
    BY <1>22 DEF ClaimCommit, Labels
  <2>2. pc' \in [Requests -> Labels] /\ result' \in [Requests -> Results] /\ ItemsLeft'
    BY <1>0, <2>1, GotoTyped DEF TypeOK
  <2>3. ASSUME NEW q \in QuoteIds PROVE quotes'[q] \in Row
    <3>1. quotes[q] \in Row /\ loc[r].now \in Nat
      BY <1>0 DEF TypeOK, Locals
    <3>2. [quotes[q] EXCEPT !.status = "CLAIMED", !.claimedAt = loc[r].now, !.claimedBy = r] \in Row
      BY <3>1 DEF Row, Statuses
    <3>3. \/ quotes'[q] = quotes[q]
          \/ quotes'[q] = [quotes[q] EXCEPT !.status = "CLAIMED", !.claimedAt = loc[r].now,
                                            !.claimedBy = r]
      BY <1>0, <1>22 DEF ClaimCommit, TypeOK
    <3> QED
      BY <3>1, <3>2, <3>3
  <2>4. quotes' \in [QuoteIds -> Row]
    BY <1>0, <1>22, <2>3 DEF ClaimCommit, TypeOK
  <2>5. granted' \in [QuoteIds -> SUBSET Requests]
    BY <1>0, <1>22 DEF ClaimCommit, TypeOK
  <2> QED
    BY <1>0, <1>22, <2>1, <2>2, <2>4, <2>5 DEF ClaimCommit, TypeInv, TypeOK, world
<1>23. ASSUME NEW r \in Requests, ClaimAudit(r) PROVE TypeInv'
  <2>1. loc[r].id \in QuoteIds \cup {NoId} /\ "ok" \in Results
    BY <1>0 DEF TypeOK, Locals, Results
  <2>2. /\ pc' \in [Requests -> Labels] /\ loc' \in [Requests -> Locals]
        /\ result' \in [Requests -> Results] /\ ItemsLeft'
    BY <1>23, <2>1, AnswerTyped DEF ClaimAudit
  <2>3. audit' \in [QuoteIds -> [Events -> Nat]]
    BY <1>0, <1>23, RecordTyped DEF ClaimAudit, Events
  <2> QED
    BY <1>0, <1>23, <2>1, <2>2, <2>3 DEF ClaimAudit, TypeInv, TypeOK, world
<1>24. ASSUME SweepTick PROVE TypeInv'
  <2>1. sweep' \in [at : {"sleep", "list", "mark", "audit"}, now : Nat,
                   todo : SUBSET QuoteIds, cur : QuoteIds \cup {NoId}]
    BY <1>0, <1>24 DEF SweepTick, TypeOK, Asleep
  <2>2. ItemsLeft'
    BY <1>0, <1>24 DEF SweepTick, sweeperOnly, ItemsLeft
  <2> QED
    BY <1>0, <1>24, <2>1, <2>2 DEF SweepTick, TypeInv, TypeOK, world, sweeperOnly
<1>25. ASSUME SweepList PROVE TypeInv'
  <2>1. sweep' \in [at : {"sleep", "list", "mark", "audit"}, now : Nat,
                   todo : SUBSET QuoteIds, cur : QuoteIds \cup {NoId}]
    BY <1>0, <1>25 DEF SweepList, ListQuotes, TypeOK, Asleep
  <2>2. ItemsLeft'
    BY <1>0, <1>25 DEF SweepList, sweeperOnly, ItemsLeft
  <2> QED
    BY <1>0, <1>25, <2>1, <2>2 DEF SweepList, TypeInv, TypeOK, world, sweeperOnly
<1>26. ASSUME SweepMark PROVE TypeInv'
  <2>1. sweep' \in [at : {"sleep", "list", "mark", "audit"}, now : Nat,
                   todo : SUBSET QuoteIds, cur : QuoteIds \cup {NoId}]
    <3>1. PICK q \in sweep.todo :
            sweep' = [sweep EXCEPT !.at = "audit", !.todo = sweep.todo \ {q}, !.cur = q]
      BY <1>26 DEF SweepMark
    <3>2. q \in QuoteIds /\ sweep.todo \ {q} \subseteq QuoteIds
      BY <1>0 DEF TypeOK
    <3> QED
      BY <1>0, <3>1, <3>2 DEF TypeOK
  <2>2. ItemsLeft'
    BY <1>0, <1>26 DEF SweepMark, sweeperOnly, ItemsLeft
  <2>3. quotes' \in [QuoteIds -> Row]
    BY <1>0, <1>26, SetStatusTyped DEF SweepMark, Statuses
  <2> QED
    BY <1>0, <1>26, <2>1, <2>2, <2>3 DEF SweepMark, TypeInv, TypeOK, world, sweeperOnly
<1>27. ASSUME SweepAudit PROVE TypeInv'
  <2>1. sweep' \in [at : {"sleep", "list", "mark", "audit"}, now : Nat,
                   todo : SUBSET QuoteIds, cur : QuoteIds \cup {NoId}]
    BY <1>0, <1>27 DEF SweepAudit, TypeOK, Asleep
  <2>2. ItemsLeft'
    BY <1>0, <1>27 DEF SweepAudit, sweeperOnly, ItemsLeft
  <2>3. audit' \in [QuoteIds -> [Events -> Nat]]
    BY <1>0, <1>27, RecordTyped DEF SweepAudit, Events
  <2> QED
    BY <1>0, <1>27, <2>1, <2>2, <2>3 DEF SweepAudit, TypeInv, TypeOK, world, sweeperOnly
<1>28. ASSUME Tick PROVE TypeInv'
  <2>1. ItemsLeft'
    BY <1>0, <1>28 DEF Tick, ItemsLeft
  <2> QED
    BY <1>0, <1>28, <2>1 DEF Tick, TypeInv, TypeOK
<1>29. ASSUME SpotMoves PROVE TypeInv'
  <2>1. ItemsLeft'
    BY <1>0, <1>29 DEF SpotMoves, ItemsLeft
  <2> QED
    BY <1>0, <1>29, <2>1 DEF SpotMoves, TypeInv, TypeOK
<1>30. ASSUME Restart PROVE TypeInv'
  <2>1. ASSUME NEW r \in Requests PROVE [NoLocals EXCEPT !.id = loc[r].id] \in Locals
    BY <1>0, NoLocalsTyped DEF TypeOK, NoLocals, Locals
  <2>2. loc' \in [Requests -> Locals]
    BY <1>30, <2>1 DEF Restart
  <2>3. quotes' \in [QuoteIds -> Row] /\ audit' \in [QuoteIds -> [Events -> Nat]]
    BY <1>30, NoLocalsTyped DEF Restart, NoEvents
  <2>4. locks' \in [QuoteIds -> Nat] /\ pc' \in [Requests -> Labels]
    BY <1>0, <1>30 DEF Restart, LocksAfterBoot, TypeOK, Labels
  <2>5. result' \in [Requests -> Results]
    BY <1>0, <1>30 DEF Restart, TypeOK, Results
  <2>6. sweep' \in [at : {"sleep", "list", "mark", "audit"}, now : Nat,
                   todo : SUBSET QuoteIds, cur : QuoteIds \cup {NoId}]
    BY <1>30 DEF Restart, Asleep
  <2>7. ItemsLeft'
    BY <1>30 DEF Restart, ItemsLeft
  <2> QED
    BY <1>0, <1>30, <2>2, <2>3, <2>4, <2>5, <2>6, <2>7 DEF Restart, TypeInv, TypeOK
<1>31. CASE UNCHANGED vars
  BY <1>0, <1>31 DEF vars, TypeInv, TypeOK, ItemsLeft
<1> QED
  BY <1>1, <1>2, <1>3, <1>4, <1>5, <1>6, <1>7, <1>8, <1>9, <1>10, <1>11, <1>12, <1>13, <1>14, <1>15, <1>16, <1>17, <1>18, <1>19, <1>20, <1>21, <1>22, <1>23, <1>24, <1>25, <1>26, <1>27, <1>28, <1>29, <1>30, <1>31
     DEF Next, Receive, QuoteByID, InternalQuote, Serve, Sweep

\* The specification is type correct: whatever happens, rows, locks, handlers and
\* sweeper stay within their types and every item countdown stays in Nat.
THEOREM TypeCorrect == Spec => []TypeOK
<1>1. Init => TypeInv
  BY TypeInit
<1>2. TypeInv /\ [Next]_vars => TypeInv'
  BY TypeStep
<1>3. TypeInv => TypeOK
  BY DEF TypeInv
<1> QED
  BY <1>1, <1>2, <1>3, PTL DEF Spec

-----------------------------------------------------------------------------
(* The token of a quote. *)

\* A step that adds neither setters nor holders nor grants, sets no lock and
\* records no refusal leaves the token where it is or destroys it.
LEMMA TokenFrame ==
    ASSUME NEW q \in QuoteIds, Token(q),
           Setters(q)' \subseteq Setters(q), Holders(q)' \subseteq Holders(q),
           locks'[q] \in {locks[q], 0}, granted'[q] = granted[q],
           q \in minted => q \in minted', Rejected(q)' => Rejected(q)
    PROVE  Token(q)'
  BY DEF Token

\* A request that answers is neither setter nor holder any more.
LEMMA AnswerLeaves ==
    ASSUME TypeOK, NEW r \in Requests, NEW id, NEW res, Answer(r, id, res), NEW q \in QuoteIds
    PROVE  Setters(q)' \subseteq Setters(q) \ {r} /\ Holders(q)' \subseteq Holders(q) \ {r}
  BY DEF Answer, TypeOK, Setters, Holders

\* Nor is a request that goes on to a label outside both roles.
LEMMA GotoLeaves ==
    ASSUME TypeOK, NEW r \in Requests, NEW l, Goto(r, l),
           l \notin {"save", "setnx", "slippage", "reject", "commit"},
           \A s \in Requests : s # r => loc'[s] = loc[s], NEW q \in QuoteIds
    PROVE  Setters(q)' \subseteq Setters(q) \ {r} /\ Holders(q)' \subseteq Holders(q) \ {r}
  BY DEF Goto, TypeOK, Setters, Holders

\* An audit event other than a refusal leaves Rejected alone.
LEMMA RecordKeepsRejected ==
    ASSUME TypeOK, NEW id, NEW e \in Events \ {"quote.slippage_rejected"}, Record(id, e),
           NEW q \in QuoteIds
    PROVE  Rejected(q)' = Rejected(q)
<1>1. audit \in [QuoteIds -> [Events -> Nat]] /\ "quote.slippage_rejected" \in Events
  BY DEF TypeOK, Events
<1>2. audit'[q]["quote.slippage_rejected"] = audit[q]["quote.slippage_rejected"]
  <2>1. CASE q = id
    <3>1. audit'[q] = [audit[q] EXCEPT ![e] = audit[q][e] + 1]
      BY <1>1, <2>1 DEF Record
    <3> QED
      BY <1>1, <3>1
  <2>2. CASE q # id
    BY <1>1, <2>2 DEF Record
  <2> QED
    BY <2>1, <2>2
<1> QED
  BY <1>2 DEF Rejected

\* Every step keeps the token of every quote in one place, provided go-redis does
\* not repeat a SETNX that Redis has already executed.
LEMMA TokenStep ==
    ASSUME RedisRetries = FALSE, TypeInv, TokenUnique, [Next]_vars
    PROVE  TokenUnique'
<1> SUFFICES ASSUME NEW q \in QuoteIds PROVE Token(q)'
  BY DEF TokenUnique
<1> USE ConstantsAssumption
<1>0. TypeOK /\ ItemsLeft /\ Token(q)
  BY DEF TypeInv, TokenUnique
<1>1. ASSUME NEW r \in Requests, ReceiveQuoteRequest(r) PROVE Token(q)'
  <2>1. Setters(q)' \subseteq Setters(q) /\ Holders(q)' \subseteq Holders(q)
    <3>1. \A s \in Requests : s # r => loc'[s] = loc[s]
      BY <1>0, <1>1 DEF ReceiveQuoteRequest, TypeOK
    <3> QED
      BY <1>0, <1>1, <3>1, GotoLeaves DEF ReceiveQuoteRequest
  <2>2. Rejected(q)' => Rejected(q)
    BY <1>1 DEF ReceiveQuoteRequest, Rejected
  <2> QED
    BY <1>0, <1>1, <2>1, <2>2, TokenFrame DEF ReceiveQuoteRequest
<1>2. ASSUME NEW r \in Requests, ComputePrice(r) PROVE Token(q)'
  <2>1. PICK p \in QuoteIds \ minted :
          /\ minted' = minted \cup {p}
          /\ loc' = [loc EXCEPT ![r].new = p,
                                ![r].row = [NoRow EXCEPT !.status = "OPEN",
                                                         !.rate = EffectiveRate(spot),
                                                         !.expiresAt = clock + RateLockTTL],
                                ![r].left = @ - 1]
    BY <1>2 DEF ComputePrice
  <2>2. loc'[r].new = p /\ \A s \in Requests : s # r => loc'[s] = loc[s]
    BY <1>0, <2>1 DEF TypeOK, Locals
  <2>3. pc[r] = "compute" /\ pc' = [pc EXCEPT ![r] = "save"]
    BY <1>2 DEF ComputePrice, Goto
  <2>4. Holders(q)' = Holders(q) /\ Setters(q)' \subseteq Setters(q) \cup {r}
    BY <1>0, <2>2, <2>3 DEF TypeOK, Holders, Setters
  <2>5. q # p => Setters(q)' \subseteq Setters(q)
    BY <1>0, <2>2, <2>3 DEF TypeOK, Setters
  <2>6. Rejected(q)' => Rejected(q)
    BY <1>2 DEF ComputePrice, Rejected
  <2>7. CASE q = p
    BY <1>0, <1>2, <2>1, <2>4, <2>6, <2>7 DEF ComputePrice, Token
  <2>8. CASE q # p
    BY <1>0, <1>2, <2>1, <2>4, <2>5, <2>6, <2>8, TokenFrame DEF ComputePrice
  <2> QED
    BY <2>7, <2>8
<1>3. ASSUME NEW r \in Requests, SpotUnavailable(r) PROVE Token(q)'
  <2>1. Setters(q)' \subseteq Setters(q) /\ Holders(q)' \subseteq Holders(q)
    <3>1. CASE loc[r].bulk /\ loc[r].left > 1
      <4>1. \A s \in Requests : s # r => loc'[s] = loc[s]
        BY <1>0, <1>3, <3>1 DEF SpotUnavailable, TypeOK
      <4> QED
        BY <1>0, <1>3, <3>1, <4>1, GotoLeaves DEF SpotUnavailable
    <3>2. CASE ~(loc[r].bulk /\ loc[r].left > 1)
      BY <1>0, <1>3, <3>2, AnswerLeaves DEF SpotUnavailable
    <3> QED
      BY <3>1, <3>2
  <2>2. Rejected(q)' => Rejected(q)
    BY <1>3 DEF SpotUnavailable, Rejected
  <2> QED
    BY <1>0, <1>3, <2>1, <2>2, TokenFrame DEF SpotUnavailable
<1>4. ASSUME NEW r \in Requests, SaveQuote(r) PROVE Token(q)'
  <2>1. Setters(q)' \subseteq Setters(q) /\ Holders(q)' \subseteq Holders(q)
    <3>1. pc[r] = "save" /\ pc' = [pc EXCEPT ![r] = "setnx"]
      BY <1>4 DEF SaveQuote, Goto
    <3>2. /\ loc'[r].new = loc[r].new /\ loc'[r].id = loc[r].id
          /\ \A s \in Requests : s # r => loc'[s] = loc[s]
      BY <1>0, <1>4 DEF SaveQuote, DropRow, TypeOK, Locals
    <3> QED
      BY <1>0, <3>1, <3>2 DEF TypeOK, Setters, Holders
  <2>2. Rejected(q)' => Rejected(q)
    BY <1>4 DEF SaveQuote, Rejected
  <2> QED
    BY <1>0, <1>4, <2>1, <2>2, TokenFrame DEF SaveQuote
<1>5. ASSUME NEW r \in Requests, SetLock(r) PROVE Token(q)'
  <2>1. Setters(q)' \subseteq Setters(q) \ {r} /\ Holders(q)' \subseteq Holders(q)
    BY <1>0, <1>5, GotoLeaves DEF SetLock
  <2>2. Rejected(q)' => Rejected(q)
    BY <1>5 DEF SetLock, Rejected
  <2>3. CASE q = loc[r].new
    <3>1. r \in Setters(q)
      BY <1>5, <2>3 DEF SetLock, Setters
    <3> QED
      BY <1>0, <1>5, <2>1, <2>2, <3>1 DEF SetLock, Token
  <2>4. CASE q # loc[r].new
    <3>1. locks'[q] = locks[q]
      BY <1>0, <1>5, <2>4 DEF SetLock, TypeOK
    <3> QED
      BY <1>0, <1>5, <2>1, <2>2, <3>1, TokenFrame DEF SetLock
  <2> QED
    BY <2>3, <2>4
<1>6. ASSUME NEW r \in Requests, RetrySetLock(r) PROVE Token(q)'
  BY <1>6 DEF RetrySetLock
<1>7. ASSUME NEW r \in Requests, AuditIssued(r) PROVE Token(q)'
  <2>1. Setters(q)' \subseteq Setters(q) /\ Holders(q)' \subseteq Holders(q)
    <3>1. CASE loc[r].left > 0
      BY <1>0, <1>7, <3>1, GotoLeaves DEF AuditIssued, NextItem
    <3>2. CASE ~(loc[r].left > 0)
      BY <1>0, <1>7, <3>2, AnswerLeaves DEF AuditIssued, NextItem
    <3> QED
      BY <3>1, <3>2
  <2>2. Rejected(q)' => Rejected(q)
    BY <1>0, <1>7, RecordKeepsRejected DEF AuditIssued, Events
  <2> QED
    BY <1>0, <1>7, <2>1, <2>2, TokenFrame DEF AuditIssued
<1>8. ASSUME NEW r \in Requests, NEW id \in QuoteIds, RefreshLoad(r, id) PROVE Token(q)'
  <2>1. Setters(q)' \subseteq Setters(q) /\ Holders(q)' \subseteq Holders(q)
    <3>1. CASE Present(id)
      <4>1. \A s \in Requests : s # r => loc'[s] = loc[s]
        BY <1>0, <1>8, <3>1 DEF RefreshLoad, TypeOK
      <4> QED
        BY <1>0, <1>8, <3>1, <4>1, GotoLeaves DEF RefreshLoad
    <3>2. CASE ~Present(id)
      BY <1>0, <1>8, <3>2, AnswerLeaves DEF RefreshLoad
    <3> QED
      BY <3>1, <3>2
  <2>2. Rejected(q)' => Rejected(q)
    BY <1>8 DEF RefreshLoad, Rejected
  <2> QED
    BY <1>0, <1>8, <2>1, <2>2, TokenFrame DEF RefreshLoad
<1>9. ASSUME NEW r \in Requests, RefreshCancel(r) PROVE Token(q)'
  <2>1. Setters(q)' \subseteq Setters(q) /\ Holders(q)' \subseteq Holders(q)
    BY <1>0, <1>9, GotoLeaves DEF RefreshCancel
  <2>2. Rejected(q)' => Rejected(q)
    BY <1>9 DEF RefreshCancel, Rejected
  <2> QED
    BY <1>0, <1>9, <2>1, <2>2, TokenFrame DEF RefreshCancel
<1>10. ASSUME NEW r \in Requests, RefreshDel(r) PROVE Token(q)'
  <2>1. Setters(q)' \subseteq Setters(q) /\ Holders(q)' \subseteq Holders(q)
    BY <1>0, <1>10, GotoLeaves DEF RefreshDel
  <2>2. Rejected(q)' => Rejected(q)
    BY <1>10 DEF RefreshDel, Rejected
  <2>3. locks'[q] \in {locks[q], 0}
    BY <1>0, <1>10 DEF RefreshDel, TypeOK
  <2> QED
    BY <1>0, <1>10, <2>1, <2>2, <2>3, TokenFrame DEF RefreshDel
<1>11. ASSUME NEW r \in Requests, RefreshAudit(r) PROVE Token(q)'
  <2>1. Setters(q)' \subseteq Setters(q) /\ Holders(q)' \subseteq Holders(q)
    BY <1>0, <1>11, GotoLeaves DEF RefreshAudit
  <2>2. Rejected(q)' => Rejected(q)
    BY <1>0, <1>11, RecordKeepsRejected DEF RefreshAudit, Events
  <2> QED
    BY <1>0, <1>11, <2>1, <2>2, TokenFrame DEF RefreshAudit
<1>12. ASSUME NEW r \in Requests, NEW id \in QuoteIds, GetLoad(r, id) PROVE Token(q)'
  <2>1. Setters(q)' \subseteq Setters(q) /\ Holders(q)' \subseteq Holders(q)
    <3>1. CASE Present(id)
      <4>1. \A s \in Requests : s # r => loc'[s] = loc[s]
        BY <1>0, <1>12, <3>1 DEF GetLoad, TypeOK
      <4> QED
        BY <1>0, <1>12, <3>1, <4>1, GotoLeaves DEF GetLoad
    <3>2. CASE ~Present(id)
      BY <1>0, <1>12, <3>2, AnswerLeaves DEF GetLoad
    <3> QED
      BY <3>1, <3>2
  <2>2. Rejected(q)' => Rejected(q)
    BY <1>12 DEF GetLoad, Rejected
  <2> QED
    BY <1>0, <1>12, <2>1, <2>2, TokenFrame DEF GetLoad
<1>13. ASSUME NEW r \in Requests, GetCheck(r) PROVE Token(q)'
  <2>1. Setters(q)' \subseteq Setters(q) /\ Holders(q)' \subseteq Holders(q)
    BY <1>0, <1>13, GotoLeaves, DropRowTyped, AnswerLeaves DEF GetCheck
  <2>2. Rejected(q)' => Rejected(q)
    BY <1>13 DEF GetCheck, Rejected
  <2> QED
    BY <1>0, <1>13, <2>1, <2>2, TokenFrame DEF GetCheck
<1>14. ASSUME NEW r \in Requests, GetExpire(r) PROVE Token(q)'
  <2>1. Setters(q)' \subseteq Setters(q) /\ Holders(q)' \subseteq Holders(q)
    BY <1>0, <1>14, AnswerLeaves DEF GetExpire
  <2>2. Rejected(q)' => Rejected(q)
    BY <1>14 DEF GetExpire, Rejected
  <2> QED
    BY <1>0, <1>14, <2>1, <2>2, TokenFrame DEF GetExpire
<1>15. ASSUME NEW r \in Requests, NEW id \in QuoteIds, ClaimLoad(r, id) PROVE Token(q)'
  <2>1. Setters(q)' \subseteq Setters(q) /\ Holders(q)' \subseteq Holders(q)
    <3>1. CASE quotes[id].status = "OPEN"
      <4>1. \A s \in Requests : s # r => loc'[s] = loc[s]
        BY <1>0, <1>15, <3>1 DEF ClaimLoad, TypeOK
      <4> QED
        BY <1>0, <1>15, <3>1, <4>1, GotoLeaves DEF ClaimLoad
    <3>2. CASE quotes[id].status # "OPEN"
      <4>1. quotes[id].status \in Statuses
        BY <1>0 DEF TypeOK, Row
      <4> QED
        BY <1>0, <1>15, <3>2, <4>1, AnswerLeaves DEF ClaimLoad, Statuses
    <3> QED
      BY <3>1, <3>2
  <2>2. Rejected(q)' => Rejected(q)
    BY <1>15 DEF ClaimLoad, Rejected
  <2> QED
    BY <1>0, <1>15, <2>1, <2>2, TokenFrame DEF ClaimLoad
<1>16. ASSUME NEW r \in Requests, ClaimCheck(r) PROVE Token(q)'
  <2>1. Setters(q)' \subseteq Setters(q) /\ Holders(q)' \subseteq Holders(q)
    BY <1>0, <1>16, GotoLeaves, DropRowTyped DEF ClaimCheck
  <2>2. Rejected(q)' => Rejected(q)
    BY <1>16 DEF ClaimCheck, Rejected
  <2> QED
    BY <1>0, <1>16, <2>1, <2>2, TokenFrame DEF ClaimCheck
<1>17. ASSUME NEW r \in Requests, ClaimExpire(r) PROVE Token(q)'
  <2>1. Setters(q)' \subseteq Setters(q) /\ Holders(q)' \subseteq Holders(q)
    BY <1>0, <1>17, GotoLeaves DEF ClaimExpire
  <2>2. Rejected(q)' => Rejected(q)
    BY <1>17 DEF ClaimExpire, Rejected
  <2> QED
    BY <1>0, <1>17, <2>1, <2>2, TokenFrame DEF ClaimExpire
<1>18. ASSUME NEW r \in Requests, ClaimExpireAudit(r) PROVE Token(q)'
  <2>1. Setters(q)' \subseteq Setters(q) /\ Holders(q)' \subseteq Holders(q)
    BY <1>0, <1>18, AnswerLeaves DEF ClaimExpireAudit
  <2>2. Rejected(q)' => Rejected(q)
    BY <1>0, <1>18, RecordKeepsRejected DEF ClaimExpireAudit, Events
  <2> QED
    BY <1>0, <1>18, <2>1, <2>2, TokenFrame DEF ClaimExpireAudit
<1>19. ASSUME NEW r \in Requests, ClaimTake(r) PROVE Token(q)'
  <2>1. Rejected(q)' => Rejected(q)
    BY <1>19 DEF ClaimTake, Rejected
  <2>2. locks'[q] \in {locks[q], 0}
    BY <1>0, <1>19 DEF ClaimTake, TypeOK
  <2>3. CASE Answer(r, loc[r].id, "already_claimed")
    <3>1. Setters(q)' \subseteq Setters(q) /\ Holders(q)' \subseteq Holders(q)
      BY <1>0, <2>3, AnswerLeaves
    <3> QED
      BY <1>0, <1>19, <2>1, <2>2, <3>1, TokenFrame DEF ClaimTake
  <2>4. CASE /\ LockLive(loc[r].id)
             /\ locks' = [locks EXCEPT ![loc[r].id] = 0]
             /\ Goto(r, "slippage") /\ UNCHANGED loc
    <3>1. pc[r] = "take" /\ pc' = [pc EXCEPT ![r] = "slippage"]
      BY <1>19, <2>4 DEF ClaimTake, Goto
    <3>2. Setters(q)' = Setters(q) /\ Holders(q)' \subseteq Holders(q) \cup {r}
      BY <1>0, <2>4, <3>1 DEF TypeOK, Setters, Holders
    <3>3. CASE q = loc[r].id
      <4>1. locks[q] # 0 /\ locks'[q] = 0
        BY <1>0, <2>4, <3>3 DEF LockLive, TypeOK
      <4> QED
        BY <1>0, <1>19, <2>1, <3>2, <4>1 DEF ClaimTake, Token
    <3>4. CASE q # loc[r].id
      <4>1. Holders(q)' \subseteq Holders(q)
        BY <1>0, <2>4, <3>1, <3>4 DEF TypeOK, Holders
      <4> QED
        BY <1>0, <1>19, <2>1, <2>2, <3>2, <4>1, TokenFrame DEF ClaimTake
    <3> QED
      BY <3>3, <3>4
  <2> QED
    BY <1>19, <2>3, <2>4 DEF ClaimTake
<1>20. ASSUME NEW r \in Requests, ClaimSlippage(r) PROVE Token(q)'
  <2>1. Setters(q)' \subseteq Setters(q) /\ Holders(q)' \subseteq Holders(q)
    <3>1. PICK l : pc[r] = "slippage" /\ pc' = [pc EXCEPT ![r] = l]
                   /\ l \in {"reject", "commit"}
      BY <1>20 DEF ClaimSlippage, Goto
    <3>2. /\ loc'[r].new = loc[r].new /\ loc'[r].id = loc[r].id
          /\ \A s \in Requests : s # r => loc'[s] = loc[s]
      BY <1>0, <1>20 DEF ClaimSlippage, DropRow, TypeOK, Locals
    <3> QED
      BY <1>0, <3>1, <3>2 DEF TypeOK, Setters, Holders
  <2>2. Rejected(q)' => Rejected(q)
    BY <1>20 DEF ClaimSlippage, Rejected
  <2> QED
    BY <1>0, <1>20, <2>1, <2>2, TokenFrame DEF ClaimSlippage
<1>21. ASSUME NEW r \in Requests, ClaimReject(r) PROVE Token(q)'
  <2>1. Setters(q)' \subseteq Setters(q) /\ Holders(q)' \subseteq Holders(q) \ {r}
    BY <1>0, <1>21, AnswerLeaves DEF ClaimReject
  <2>2. CASE q = loc[r].id
    <3>1. r \in Holders(q)
      BY <1>21, <2>2 DEF ClaimReject, Holders
    <3> QED
      BY <1>0, <1>21, <2>1, <3>1 DEF ClaimReject, Token
  <2>3. CASE q # loc[r].id
    <3>1. audit'[q] = audit[q]
      BY <1>0, <1>21, <2>3 DEF ClaimReject, Record, TypeOK
    <3>2. Rejected(q)' => Rejected(q)
      BY <3>1 DEF Rejected
    <3> QED
      BY <1>0, <1>21, <2>1, <3>2, TokenFrame DEF ClaimReject
  <2> QED
    BY <2>2, <2>3
<1>22. ASSUME NEW r \in Requests, ClaimCommit(r) PROVE Token(q)'
  <2>1. Setters(q)' \subseteq Setters(q) /\ Holders(q)' \subseteq Holders(q) \ {r}
    BY <1>0, <1>22, GotoLeaves DEF ClaimCommit
  <2>2. Rejected(q)' => Rejected(q)
    BY <1>22 DEF ClaimCommit, Rejected
  <2>3. CASE q = loc[r].id
    <3>1. r \in Holders(q)
      BY <1>22, <2>3 DEF ClaimCommit, Holders
    <3>2. granted'[q] = granted[q] \cup {r}
      BY <1>0, <1>22, <2>3 DEF ClaimCommit, TypeOK
    <3> QED
      BY <1>0, <1>22, <2>1, <2>2, <3>1, <3>2 DEF ClaimCommit, Token
  <2>4. CASE q # loc[r].id
    <3>1. granted'[q] = granted[q]
      BY <1>0, <1>22, <2>4 DEF ClaimCommit, TypeOK
    <3> QED
      BY <1>0, <1>22, <2>1, <2>2, <3>1, TokenFrame DEF ClaimCommit
  <2> QED
    BY <2>3, <2>4
<1>23. ASSUME NEW r \in Requests, ClaimAudit(r) PROVE Token(q)'
  <2>1. Setters(q)' \subseteq Setters(q) /\ Holders(q)' \subseteq Holders(q)
    BY <1>0, <1>23, AnswerLeaves DEF ClaimAudit
  <2>2. Rejected(q)' => Rejected(q)
    BY <1>0, <1>23, RecordKeepsRejected DEF ClaimAudit, Events
  <2> QED
    BY <1>0, <1>23, <2>1, <2>2, TokenFrame DEF ClaimAudit
<1>24. ASSUME SweepTick PROVE Token(q)'
  <2>1. Setters(q)' = Setters(q) /\ Holders(q)' = Holders(q)
    BY <1>24 DEF SweepTick, Setters, Holders, sweeperOnly
  <2>2. Rejected(q)' => Rejected(q)
    BY <1>24 DEF SweepTick, Rejected
  <2> QED
    BY <1>0, <1>24, <2>1, <2>2, TokenFrame DEF SweepTick, sweeperOnly
<1>25. ASSUME SweepList PROVE Token(q)'
  <2>1. Setters(q)' = Setters(q) /\ Holders(q)' = Holders(q)
    BY <1>25 DEF SweepList, Setters, Holders, sweeperOnly
  <2>2. Rejected(q)' => Rejected(q)
    BY <1>25 DEF SweepList, Rejected
  <2> QED
    BY <1>0, <1>25, <2>1, <2>2, TokenFrame DEF SweepList, sweeperOnly
<1>26. ASSUME SweepMark PROVE Token(q)'
  <2>1. Setters(q)' = Setters(q) /\ Holders(q)' = Holders(q)
    BY <1>26 DEF SweepMark, Setters, Holders, sweeperOnly
  <2>2. Rejected(q)' => Rejected(q)
    BY <1>26 DEF SweepMark, Rejected
  <2> QED
    BY <1>0, <1>26, <2>1, <2>2, TokenFrame DEF SweepMark, sweeperOnly
<1>27. ASSUME SweepAudit PROVE Token(q)'
  <2>1. Setters(q)' = Setters(q) /\ Holders(q)' = Holders(q)
    BY <1>27 DEF SweepAudit, Setters, Holders, sweeperOnly
  <2>2. Rejected(q)' => Rejected(q)
    BY <1>0, <1>27, RecordKeepsRejected DEF SweepAudit, Events
  <2> QED
    BY <1>0, <1>27, <2>1, <2>2, TokenFrame DEF SweepAudit, sweeperOnly
<1>28. ASSUME Tick PROVE Token(q)'
  <2>1. Setters(q)' = Setters(q) /\ Holders(q)' = Holders(q)
    BY <1>28 DEF Tick, Setters, Holders
  <2>2. Rejected(q)' => Rejected(q)
    BY <1>28 DEF Tick, Rejected
  <2> QED
    BY <1>0, <1>28, <2>1, <2>2, TokenFrame DEF Tick
<1>29. ASSUME SpotMoves PROVE Token(q)'
  <2>1. Setters(q)' = Setters(q) /\ Holders(q)' = Holders(q)
    BY <1>29 DEF SpotMoves, Setters, Holders
  <2>2. Rejected(q)' => Rejected(q)
    BY <1>29 DEF SpotMoves, Rejected
  <2> QED
    BY <1>0, <1>29, <2>1, <2>2, TokenFrame DEF SpotMoves
<1>30. ASSUME Restart PROVE Token(q)'
  <2>1. Setters(q)' = {} /\ Holders(q)' = {}
    BY <1>30 DEF Restart, Setters, Holders
  <2>2. ~Rejected(q)'
    BY <1>30 DEF Restart, Rejected, NoEvents, Events
  <2>3. locks'[q] \in {locks[q], 0}
    BY <1>30 DEF Restart, LocksAfterBoot
  <2> QED
    BY <1>0, <1>30, <2>1, <2>2, <2>3, TokenFrame DEF Restart
<1>31. CASE UNCHANGED vars
  <2>1. Setters(q)' = Setters(q) /\ Holders(q)' = Holders(q) /\ Rejected(q)' = Rejected(q)
    BY <1>31 DEF vars, Setters, Holders, Rejected
  <2> QED
    BY <1>0, <1>31, <2>1, TokenFrame DEF vars
<1> QED
  BY <1>1, <1>2, <1>3, <1>4, <1>5, <1>6, <1>7, <1>8, <1>9, <1>10, <1>11, <1>12, <1>13, <1>14, <1>15, <1>16, <1>17, <1>18, <1>19, <1>20, <1>21, <1>22, <1>23, <1>24, <1>25, <1>26, <1>27, <1>28, <1>29, <1>30, <1>31
     DEF Next, Receive, QuoteByID, InternalQuote, Serve, Sweep

\* The token invariant: for every number of quotes and concurrent requests, with
\* failing Redis calls and restarts, the right to claim a quote is in one place.
THEOREM TokenIsUnique == RedisRetries = FALSE => (Spec => []TokenUnique)
<1> SUFFICES ASSUME RedisRetries = FALSE PROVE Spec => []TokenUnique
  OBVIOUS
<1>1. Init => TypeInv /\ TokenUnique
  <2> SUFFICES ASSUME Init, NEW q \in QuoteIds PROVE Token(q)
    BY TypeInit DEF TokenUnique
  <2>1. Setters(q) = {} /\ Holders(q) = {}
    BY DEF Init, Setters, Holders
  <2>2. ~Rejected(q) /\ locks[q] = 0 /\ granted[q] = {}
    BY DEF Init, Rejected, NoEvents, Events
  <2> QED
    BY <2>1, <2>2 DEF Token
<1>2. TypeInv /\ TokenUnique /\ [Next]_vars => (TypeInv /\ TokenUnique)'
  BY TypeStep, TokenStep
<1> QED
  BY <1>1, <1>2, PTL DEF Spec

\* README.md:48 "no double-claim", for every instance: at most one claim of a
\* quote succeeds (claim.go:62-99).
THEOREM NoDoubleClaim == RedisRetries = FALSE => (Spec => []AtMostOneGrant)
<1>1. TokenUnique => AtMostOneGrant
  BY DEF TokenUnique, Token, AtMostOneGrant
<1> QED
  BY <1>1, TokenIsUnique, PTL

\* README.md:35, for every instance: after a slippage refusal the quote is never
\* granted (claim.go:85-91).
THEOREM RefusalIsFinal == RedisRetries = FALSE => (Spec => []RejectedNeverGranted)
<1>1. TokenUnique => RejectedNeverGranted
  BY DEF TokenUnique, Token, RejectedNeverGranted
<1> QED
  BY <1>1, TokenIsUnique, PTL
=============================================================================
