---------------------------- MODULE AuditLogProofs ----------------------------
(***************************************************************************)
(* Proofs about the audit log, for any events, queue size, number of sink  *)
(* failures and interleaving of appenders, dispatcher and Close: what      *)
(* Close promises, and what the racy counter of dropped events may claim.  *)
(***************************************************************************)
EXTENDS AuditLog, FiniteSetTheorems, TLAPS

Has(q, e) == \E i \in 1..Len(q) : q[i] = e

Distinct(q) == \A i, j \in 1..Len(q) : q[i] = q[j] => i = j

\* An event is in one place at a time: still to be appended, in the queue, in the
\* dispatcher's hand, or given up.  So nothing is given up twice.
OnePlace ==
    /\ Distinct(queue)
    /\ disp.event # NoEvent <=> disp.at \in {"send", "requeue", "flush"}
    /\ \A e \in Events : Has(queue, e) => e \notin lost /\ disp.event # e
    /\ \A e \in Events : disp.event = e => e \notin lost
    /\ \A e \in Events : appender[e] \in {"new", "enqueue"} =>
                            e \notin lost /\ ~Has(queue, e) /\ disp.event # e
    /\ \A e \in Events : appender[e] \in {"load", "store"} => e \in lost

\* Goroutines that have given an event up and are yet to finish dropped++.
Pending == {e \in Events : appender[e] \in {"load", "store"}}
           \cup (IF disp.at \in {"load", "store"} THEN {NoEvent} ELSE {})

\* Every unfinished increment leaves room for itself under the number of events
\* lost, both in the counter and in what any goroutine has read of it.
Counted ==
    /\ IsFiniteSet(lost) /\ IsFiniteSet(Pending)
    /\ dropped + Cardinality(Pending) <= Cardinality(lost)
    /\ \A g \in Incrementers : loaded[g] + Cardinality(Pending) <= Cardinality(lost)

\* An event appended in time is somewhere until it has been offered or given up.
Accounted ==
    /\ disp.at \in {"drain", "flush", "exit"} => closed
    /\ hasSink => \A e \in early : attempts[e] > 0 \/ e \in lost \/ Has(queue, e) \/ disp.event = e

\* The inductive invariant.
AuditInv == AuditTypeOK /\ OnePlace /\ Counted /\ Accounted /\ CloseFlushes

-----------------------------------------------------------------------------
(* The channel as a sequence. *)

LEMMA AppendHas ==
    ASSUME NEW S, NEW q \in Seq(S), NEW e \in S
    PROVE  /\ Append(q, e) \in Seq(S) /\ Len(Append(q, e)) = Len(q) + 1
           /\ \A x : Has(Append(q, e), x) <=> (Has(q, x) \/ x = e)
           /\ Distinct(q) /\ ~Has(q, e) => Distinct(Append(q, e))
<1>1. /\ Append(q, e) \in Seq(S) /\ Len(Append(q, e)) = Len(q) + 1 /\ Len(q) \in Nat
      /\ \A i \in 1..Len(q) : Append(q, e)[i] = q[i]
      /\ Append(q, e)[Len(q) + 1] = e
  OBVIOUS
<1> DEFINE a == Append(q, e)
<1> HIDE DEF a
<1>2. \A i \in 1..Len(a) : i = Len(q) + 1 \/ i \in 1..Len(q)
  BY <1>1 DEF a
<1>3. \A x : Has(a, x) <=> (Has(q, x) \/ x = e)
  BY <1>1, <1>2 DEF a, Has
<1>4. Distinct(q) /\ ~Has(q, e) => Distinct(a)
  BY <1>1, <1>2 DEF a, Has, Distinct
<1> QED BY <1>1, <1>3, <1>4 DEF a

LEMMA TailHas ==
    ASSUME NEW S, NEW q \in Seq(S), q # <<>>, Distinct(q)
    PROVE  /\ Head(q) \in S /\ Has(q, Head(q))
           /\ Tail(q) \in Seq(S) /\ Len(Tail(q)) <= Len(q) /\ Distinct(Tail(q))
           /\ \A x : Has(Tail(q), x) <=> (Has(q, x) /\ x # Head(q))
<1>1. /\ Tail(q) \in Seq(S) /\ Len(Tail(q)) = Len(q) - 1 /\ Len(q) \in Nat \ {0}
      /\ Head(q) \in S /\ Head(q) = q[1]
      /\ \A i \in 1..Len(Tail(q)) : Tail(q)[i] = q[i + 1]
  OBVIOUS
<1> DEFINE t == Tail(q)
           h == Head(q)
<1> HIDE DEF t, h
<1>2. \A i \in 1..Len(q) : i = 1 \/ i - 1 \in 1..Len(t)
  BY <1>1 DEF t
<1>3. Has(q, h)
  BY <1>1 DEF h, Has
<1>4. Distinct(t)
  BY <1>1 DEF t, Distinct
<1>5. ASSUME NEW x PROVE Has(t, x) <=> (Has(q, x) /\ x # h)
  <2>1. ASSUME Has(t, x) PROVE Has(q, x) /\ x # h
    <3>1. PICK i \in 1..Len(t) : t[i] = x
      BY <2>1 DEF Has
    <3>2. i + 1 \in 1..Len(q) /\ q[i + 1] = x /\ i + 1 # 1 /\ 1 \in 1..Len(q)
      BY <1>1, <3>1 DEF t
    <3> QED BY <1>1, <3>2 DEF h, Has, Distinct
  <2>2. ASSUME Has(q, x), x # h PROVE Has(t, x)
    <3>1. PICK i \in 1..Len(q) : q[i] = x
      BY <2>2 DEF Has
    <3>2. i - 1 \in 1..Len(t) /\ t[i - 1] = x
      BY <1>1, <1>2, <2>2, <3>1 DEF t, h
    <3> QED BY <3>2 DEF Has
  <2> QED BY <2>1, <2>2
<1> QED BY <1>1, <1>3, <1>4, <1>5 DEF t, h

-----------------------------------------------------------------------------

LEMMA AuditInvInit == AuditInit => AuditInv
<1> SUFFICES ASSUME AuditInit PROVE AuditInv
  OBVIOUS
<1>1. AuditTypeOK
  <2>1. loaded \in [Incrementers -> Nat] /\ sent \in [Events -> Nat] /\ attempts \in [Events -> Nat]
    BY DEF AuditInit
  <2>2. queue \in Seq(Events) /\ Len(queue) <= QueueSize /\ failures \in 0..MaxFailures
    BY AuditAssumption DEF AuditInit
  <2>3. disp \in [at : {"select", "send", "requeue", "load", "store", "drain", "flush", "exit"},
                  event : Incrementers]
    BY DEF AuditInit, Incrementers
  <2> QED BY <2>1, <2>2, <2>3 DEF AuditInit, AuditTypeOK
<1>2. \A e : ~Has(queue, e)
  BY DEF AuditInit, Has
<1>3. OnePlace
  BY <1>2, AuditAssumption DEF AuditInit, OnePlace, Distinct
<1>4. Pending = {} /\ lost = {} /\ IsFiniteSet({}) /\ Cardinality({}) = 0
  BY FS_EmptySet DEF AuditInit, Pending
<1>5. Counted
  BY <1>4 DEF AuditInit, Counted, Incrementers
<1>6. Accounted /\ CloseFlushes
  BY DEF AuditInit, Accounted, CloseFlushes
<1> QED BY <1>1, <1>3, <1>5, <1>6 DEF AuditInv

\* Giving an event up: one more event lost, one more increment pending.
LEMMA LoseCounted ==
    ASSUME AuditInv, NEW e \in Events, e \notin lost, lost' = lost \cup {e},
           NEW g \in Incrementers, g \notin Pending, Pending' = Pending \cup {g},
           UNCHANGED <<dropped, loaded>>
    PROVE  Counted'
<1>1. /\ IsFiniteSet(lost') /\ Cardinality(lost') = Cardinality(lost) + 1
      /\ IsFiniteSet(Pending') /\ Cardinality(Pending') = Cardinality(Pending) + 1
      /\ Cardinality(lost) \in Nat /\ Cardinality(Pending) \in Nat
  BY FS_AddElement, FS_CardinalityType DEF AuditInv, Counted
<1>2. dropped \in Nat /\ \A h \in Incrementers : loaded[h] \in Nat
  BY DEF AuditInv, AuditTypeOK
<1>3. \A h \in Incrementers : loaded'[h] + Cardinality(Pending') <= Cardinality(lost')
  BY <1>1, <1>2 DEF AuditInv, Counted
<1>4. dropped' + Cardinality(Pending') <= Cardinality(lost')
  BY <1>1, <1>2 DEF AuditInv, Counted
<1> QED BY <1>1, <1>3, <1>4 DEF Counted

\* The load of dropped++ by goroutine g.
LEMMA LoadCounted ==
    ASSUME AuditInv, NEW g \in Incrementers, Load(g), lost' = lost, Pending' = Pending
    PROVE  Counted' /\ loaded' \in [Incrementers -> Nat] /\ dropped' = dropped
BY DEF AuditInv, AuditTypeOK, Counted, Load

\* The store of dropped++ by goroutine g, with which its increment is over: it
\* may wipe out increments of others, never make one up.
LEMMA StoreCounted ==
    ASSUME AuditInv, NEW g \in Incrementers, Store(g), lost' = lost,
           g \in Pending, Pending' = Pending \ {g}
    PROVE  Counted' /\ loaded' \in [Incrementers -> Nat] /\ dropped' \in Nat
<1>1. /\ IsFiniteSet(Pending') /\ Cardinality(Pending') = Cardinality(Pending) - 1
      /\ Cardinality(lost) \in Nat /\ Cardinality(Pending) \in Nat /\ Cardinality(Pending') \in Nat
  BY FS_RemoveElement, FS_CardinalityType DEF AuditInv, Counted
<1>2. /\ dropped' = loaded[g] + 1 /\ loaded[g] \in Nat
      /\ loaded' \in [Incrementers -> Nat]
      /\ \A h \in Incrementers : loaded'[h] \in Nat /\ loaded[h] \in Nat /\ loaded'[h] <= loaded[h]
  BY DEF AuditInv, AuditTypeOK, Store
<1>3. dropped' + Cardinality(Pending') <= Cardinality(lost')
  BY <1>1, <1>2 DEF AuditInv, Counted
<1>4. \A h \in Incrementers : loaded'[h] + Cardinality(Pending') <= Cardinality(lost')
  BY <1>1, <1>2 DEF AuditInv, Counted
<1> QED BY <1>1, <1>2, <1>3, <1>4 DEF AuditInv, Counted

\* A step that neither loses an event nor touches the counter.
LEMMA SameCounted ==
    ASSUME AuditInv, UNCHANGED <<lost, dropped, loaded>>, Pending' = Pending
    PROVE  Counted'
BY DEF AuditInv, Counted

-----------------------------------------------------------------------------

LEMMA AuditInvStep == AuditInv /\ [AuditNext]_auditVars => AuditInv'
<1> SUFFICES ASSUME AuditInv, [AuditNext]_auditVars PROVE AuditInv'
  OBVIOUS
<1> USE AuditAssumption
<1>1. ASSUME NEW e \in Events, AppendLocal(e) PROVE AuditInv'
  <2>1. AuditTypeOK'
    BY <1>1 DEF AppendLocal, Appended, AuditInv, AuditTypeOK
  <2>2. OnePlace'
    BY <1>1 DEF AppendLocal, Appended, AuditInv, AuditTypeOK, OnePlace
  <2>3. Pending' = Pending
    BY <1>1 DEF AppendLocal, Appended, AuditInv, AuditTypeOK, Pending
  <2>4. Counted'
    BY <1>1, <2>3, SameCounted DEF AppendLocal
  <2>5. Accounted' /\ CloseFlushes'
    BY <1>1 DEF AppendLocal, AuditInv, Accounted, CloseFlushes
  <2> QED BY <2>1, <2>2, <2>4, <2>5 DEF AuditInv
<1>2. ASSUME NEW e \in Events, AppendEnqueue(e) PROVE AuditInv'
  <2>0. /\ appender[e] = "enqueue" /\ e \notin lost /\ ~Has(queue, e) /\ disp.event # e
        /\ queue \in Seq(Events)
        /\ UNCHANGED <<local, dropped, disp, loaded, sent, attempts, failures, hasSink, closed>>
    BY <1>2 DEF AppendEnqueue, AuditInv, OnePlace, AuditTypeOK
  <2>1. CASE Room
    <3>1. /\ queue' = Append(queue, e) /\ lost' = lost
          /\ appender' = [appender EXCEPT ![e] = "returned"]
          /\ early' = IF closed THEN early ELSE early \cup {e}
      BY <1>2, <2>1 DEF AppendEnqueue, Return, Appended
    <3>2. /\ queue' \in Seq(Events) /\ Len(queue') <= QueueSize
          /\ \A x : Has(queue', x) <=> (Has(queue, x) \/ x = e)
          /\ Distinct(queue')
      BY <2>0, <2>1, <3>1, AppendHas DEF Room, AuditInv, AuditTypeOK, OnePlace
    <3>3. AuditTypeOK'
      BY <2>0, <3>1, <3>2 DEF AuditInv, AuditTypeOK
    <3>4. OnePlace'
      BY <2>0, <3>1, <3>2 DEF AuditInv, AuditTypeOK, OnePlace
    <3>5. Pending' = Pending
      BY <2>0, <3>1 DEF AuditInv, AuditTypeOK, Pending
    <3>6. Counted'
      BY <2>0, <3>1, <3>5, SameCounted
    <3>7. Accounted'
      BY <2>0, <3>1, <3>2 DEF AuditInv, Accounted
    <3>8. CloseFlushes'
      BY <2>0, <3>1 DEF AuditInv, Accounted, CloseFlushes
    <3> QED BY <3>3, <3>4, <3>6, <3>7, <3>8 DEF AuditInv
  <2>2. CASE ~Room
    <3>1. /\ queue' = queue /\ lost' = lost \cup {e} /\ early' = early
          /\ appender' = [appender EXCEPT ![e] = "load"]
      BY <1>2, <2>2 DEF AppendEnqueue, Appended
    <3>2. AuditTypeOK'
      BY <2>0, <3>1 DEF AuditInv, AuditTypeOK
    <3>3. OnePlace'
      BY <2>0, <3>1 DEF AuditInv, AuditTypeOK, OnePlace
    <3>4. e \in Incrementers /\ e \notin Pending /\ Pending' = Pending \cup {e}
      BY <2>0, <3>1 DEF AuditInv, AuditTypeOK, Pending, Incrementers
    <3>5. Counted'
      BY <2>0, <3>1, <3>4, LoseCounted
    <3>6. Accounted' /\ CloseFlushes'
      BY <2>0, <3>1 DEF AuditInv, Accounted, CloseFlushes
    <3> QED BY <3>2, <3>3, <3>5, <3>6 DEF AuditInv
  <2> QED BY <2>1, <2>2
<1>3. ASSUME NEW e \in Events, AppendDrop(e) PROVE AuditInv'
  <2>0. /\ e \in Incrementers
        /\ UNCHANGED <<local, queue, disp, sent, attempts, failures, hasSink, closed, lost>>
    BY <1>3 DEF AppendDrop, Incrementers
  <2>1. CASE appender[e] = "load"
    <3>1. Load(e) /\ appender' = [appender EXCEPT ![e] = "store"] /\ early' = early
      BY <1>3, <2>1 DEF AppendDrop, Appended
    <3>2. Pending' = Pending
      BY <2>0, <2>1, <3>1 DEF AuditInv, AuditTypeOK, Pending
    <3>3. Counted' /\ loaded' \in [Incrementers -> Nat] /\ dropped' = dropped
      BY <2>0, <3>1, <3>2, LoadCounted
    <3>4. AuditTypeOK'
      BY <2>0, <3>1, <3>3 DEF AuditInv, AuditTypeOK
    <3>5. OnePlace'
      BY <2>0, <2>1, <3>1 DEF AuditInv, AuditTypeOK, OnePlace
    <3>6. Accounted' /\ CloseFlushes'
      BY <2>0, <3>1 DEF AuditInv, Accounted, CloseFlushes
    <3> QED BY <3>3, <3>4, <3>5, <3>6 DEF AuditInv
  <2>2. CASE appender[e] = "store"
    <3>1. /\ Store(e) /\ appender' = [appender EXCEPT ![e] = "returned"]
          /\ early' = IF closed THEN early ELSE early \cup {e}
      BY <1>3, <2>2 DEF AppendDrop, Return, Appended
    <3>2. e \in Pending /\ Pending' = Pending \ {e}
      BY <2>0, <2>2, <3>1 DEF AuditInv, AuditTypeOK, Pending
    <3>3. Counted' /\ loaded' \in [Incrementers -> Nat] /\ dropped' \in Nat
      BY <2>0, <3>1, <3>2, StoreCounted
    <3>4. AuditTypeOK'
      BY <2>0, <3>1, <3>3 DEF AuditInv, AuditTypeOK
    <3>5. OnePlace'
      BY <2>0, <3>1 DEF AuditInv, AuditTypeOK, OnePlace
    <3>6. Accounted' /\ CloseFlushes'
      BY <2>0, <2>2, <3>1 DEF AuditInv, OnePlace, Accounted, CloseFlushes
    <3> QED BY <3>3, <3>4, <3>5, <3>6 DEF AuditInv
  <2> QED BY <1>3, <2>1, <2>2 DEF AppendDrop
<1>4. CASE Receive
  <2>0. /\ disp.at \in {"select", "drain"} /\ queue # <<>> /\ queue' = Tail(queue)
        /\ queue \in Seq(Events) /\ Distinct(queue) /\ disp.event = NoEvent
        /\ UNCHANGED <<local, dropped, appender, loaded, sent, attempts, failures, hasSink,
                       closed, lost, early>>
        /\ ~hasSink => disp' = disp
        /\ hasSink => disp' = [at |-> IF disp.at = "select" THEN "send" ELSE "flush",
                               event |-> Head(queue)]
    BY <1>4 DEF Receive, At, AuditInv, AuditTypeOK, OnePlace
  <2>1. /\ Head(queue) \in Events /\ Has(queue, Head(queue))
        /\ queue' \in Seq(Events) /\ Len(queue') <= Len(queue) /\ Distinct(queue')
        /\ \A x : Has(queue', x) <=> (Has(queue, x) /\ x # Head(queue))
    BY <2>0, TailHas
  <2>2. /\ disp' \in [at : {"select", "send", "flush", "drain"}, event : Incrementers]
        /\ disp'.event # NoEvent <=> disp'.at \in {"send", "flush"}
        /\ disp'.event # NoEvent => disp'.event = Head(queue)
        /\ disp'.at \in {"drain", "flush"} => disp.at = "drain"
    <3>1. CASE hasSink
      BY <2>0, <2>1, <3>1 DEF AuditInv, AuditTypeOK, Incrementers
    <3>2. CASE ~hasSink
      BY <2>0, <3>2 DEF AuditInv, AuditTypeOK
    <3> QED BY <3>1, <3>2
  <2>3. AuditTypeOK'
    BY <2>0, <2>1, <2>2 DEF AuditInv, AuditTypeOK
  <2>4. OnePlace'
    <3>1. disp'.event # NoEvent <=> disp'.at \in {"send", "requeue", "flush"}
      BY <2>2
    <3> QED BY <2>0, <2>1, <2>2, <3>1 DEF AuditInv, AuditTypeOK, OnePlace
  <2>5. Pending' = Pending
    BY <2>0, <2>2 DEF Pending
  <2>6. Counted'
    BY <2>0, <2>5, SameCounted
  <2>7. hasSink => \A e \in early : \/ attempts'[e] > 0 \/ e \in lost'
                                    \/ Has(queue', e) \/ disp'.event = e
    <3> SUFFICES ASSUME hasSink, NEW e \in early
                 PROVE  attempts'[e] > 0 \/ e \in lost' \/ Has(queue', e) \/ disp'.event = e
      OBVIOUS
    <3>1. attempts[e] > 0 \/ e \in lost \/ Has(queue, e)
      BY <2>0 DEF AuditInv, AuditTypeOK, Accounted
    <3> QED BY <2>0, <2>1, <3>1
  <2>8. Accounted' /\ CloseFlushes'
    BY <2>0, <2>2, <2>7 DEF AuditInv, Accounted, CloseFlushes
  <2> QED BY <2>3, <2>4, <2>6, <2>8 DEF AuditInv
<1>5. CASE Send
  <2>0. /\ disp.at \in {"send", "flush"} /\ disp.event \in Events
        /\ UNCHANGED <<local, queue, dropped, appender, loaded, hasSink, closed, lost, early>>
        /\ attempts' = [attempts EXCEPT ![disp.event] = @ + 1]
        /\ sent' \in {sent, [sent EXCEPT ![disp.event] = @ + 1]}
        /\ failures' = failures \/ (failures < MaxFailures /\ failures' = failures + 1)
    BY <1>5 DEF Send, AuditInv, AuditTypeOK, OnePlace, Incrementers
  <2>1. /\ disp' \in [at : {"select", "requeue", "drain"}, event : Incrementers]
        /\ disp'.event # NoEvent <=> disp'.at = "requeue"
        /\ disp'.event # NoEvent => disp'.event = disp.event
        /\ disp'.at = "drain" => disp.at = "flush"
    BY <1>5, <2>0 DEF Send, At, Incrementers
  <2>2. /\ attempts' \in [Events -> Nat] /\ sent' \in [Events -> Nat] /\ failures' \in 0..MaxFailures
        /\ \A e \in Events : attempts'[e] >= attempts[e]
        /\ attempts'[disp.event] > 0
    BY <2>0 DEF AuditInv, AuditTypeOK
  <2>3. AuditTypeOK'
    BY <2>0, <2>1, <2>2 DEF AuditInv, AuditTypeOK
  <2>4. OnePlace'
    BY <2>0, <2>1 DEF AuditInv, OnePlace
  <2>5. Pending' = Pending
    BY <2>0, <2>1 DEF Pending
  <2>6. Counted'
    BY <2>0, <2>5, SameCounted
  <2>7. Accounted' /\ CloseFlushes'
    BY <2>0, <2>1, <2>2 DEF AuditInv, AuditTypeOK, Accounted, CloseFlushes
  <2> QED BY <2>3, <2>4, <2>6, <2>7 DEF AuditInv
<1>6. CASE Requeue
  <2>0. /\ disp.at = "requeue" /\ disp.event \in Events /\ disp.event \notin lost
        /\ ~Has(queue, disp.event) /\ queue \in Seq(Events)
        /\ UNCHANGED <<local, dropped, appender, loaded, sent, attempts, failures, hasSink,
                       closed, early>>
    BY <1>6 DEF Requeue, AuditInv, AuditTypeOK, OnePlace, Incrementers
  <2>1. CASE Room
    <3>1. /\ queue' = Append(queue, disp.event) /\ lost' = lost
          /\ disp' = [at |-> "select", event |-> NoEvent]
      BY <1>6, <2>1 DEF Requeue, At
    <3>2. /\ queue' \in Seq(Events) /\ Len(queue') <= QueueSize
          /\ \A x : Has(queue', x) <=> (Has(queue, x) \/ x = disp.event)
          /\ Distinct(queue')
      BY <2>0, <2>1, <3>1, AppendHas DEF Room, AuditInv, AuditTypeOK, OnePlace
    <3>3. AuditTypeOK'
      BY <2>0, <3>1, <3>2 DEF AuditInv, AuditTypeOK, Incrementers
    <3>4. OnePlace'
      BY <2>0, <3>1, <3>2 DEF AuditInv, AuditTypeOK, OnePlace
    <3>5. Pending' = Pending
      BY <2>0, <3>1 DEF Pending
    <3>6. Counted'
      BY <2>0, <3>1, <3>5, SameCounted
    <3>7. Accounted' /\ CloseFlushes'
      BY <2>0, <3>1, <3>2 DEF AuditInv, Accounted, CloseFlushes
    <3> QED BY <3>3, <3>4, <3>6, <3>7 DEF AuditInv
  <2>2. CASE ~Room
    <3>1. /\ queue' = queue /\ lost' = lost \cup {disp.event}
          /\ disp' = [at |-> "load", event |-> NoEvent]
      BY <1>6, <2>2 DEF Requeue, At
    <3>2. AuditTypeOK'
      BY <2>0, <3>1 DEF AuditInv, AuditTypeOK, Incrementers
    <3>3. OnePlace'
      BY <2>0, <3>1 DEF AuditInv, AuditTypeOK, OnePlace
    <3>4. NoEvent \in Incrementers /\ NoEvent \notin Pending /\ Pending' = Pending \cup {NoEvent}
      BY <2>0, <3>1 DEF Pending, Incrementers
    <3>5. Counted'
      BY <2>0, <3>1, <3>4, LoseCounted
    <3>6. Accounted' /\ CloseFlushes'
      BY <2>0, <3>1 DEF AuditInv, Accounted, CloseFlushes
    <3> QED BY <3>2, <3>3, <3>5, <3>6 DEF AuditInv
  <2> QED BY <2>1, <2>2
<1>7. CASE RequeueDrop
  <2>0. /\ NoEvent \in Incrementers /\ disp.at \in {"load", "store"} /\ disp.event = NoEvent
        /\ UNCHANGED <<local, queue, appender, sent, attempts, failures, hasSink, closed, lost, early>>
    BY <1>7 DEF RequeueDrop, Incrementers, AuditInv, OnePlace
  <2>1. CASE disp.at = "load"
    <3>1. Load(NoEvent) /\ disp' = [at |-> "store", event |-> NoEvent]
      BY <1>7, <2>1 DEF RequeueDrop, At
    <3>2. Pending' = Pending
      BY <2>0, <2>1, <3>1 DEF Pending
    <3>3. Counted' /\ loaded' \in [Incrementers -> Nat] /\ dropped' = dropped
      BY <2>0, <3>1, <3>2, LoadCounted
    <3>4. AuditTypeOK'
      BY <2>0, <3>1, <3>3 DEF AuditInv, AuditTypeOK
    <3>5. OnePlace'
      BY <2>0, <3>1 DEF AuditInv, OnePlace
    <3>6. Accounted' /\ CloseFlushes'
      BY <2>0, <3>1 DEF AuditInv, AuditTypeOK, Accounted, CloseFlushes
    <3> QED BY <3>3, <3>4, <3>5, <3>6 DEF AuditInv
  <2>2. CASE disp.at = "store"
    <3>1. Store(NoEvent) /\ disp' = [at |-> "select", event |-> NoEvent]
      BY <1>7, <2>2 DEF RequeueDrop, At
    <3>2. NoEvent \in Pending /\ Pending' = Pending \ {NoEvent}
      BY <2>0, <2>2, <3>1 DEF Pending
    <3>3. Counted' /\ loaded' \in [Incrementers -> Nat] /\ dropped' \in Nat
      BY <2>0, <3>1, <3>2, StoreCounted
    <3>4. AuditTypeOK'
      BY <2>0, <3>1, <3>3 DEF AuditInv, AuditTypeOK
    <3>5. OnePlace'
      BY <2>0, <3>1 DEF AuditInv, OnePlace
    <3>6. Accounted' /\ CloseFlushes'
      BY <2>0, <3>1 DEF AuditInv, AuditTypeOK, Accounted, CloseFlushes
    <3> QED BY <3>3, <3>4, <3>5, <3>6 DEF AuditInv
  <2> QED BY <2>0, <2>1, <2>2
<1>8. CASE SeeStop \/ Exit
  <2>0. /\ disp.at \in {"select", "drain"} /\ disp.event = NoEvent
        /\ disp' \in [at : {"drain", "exit"}, event : {NoEvent}] /\ closed
        /\ disp'.at = "exit" => queue = <<>>
        /\ UNCHANGED <<local, queue, dropped, appender, loaded, sent, attempts, failures, hasSink,
                       closed, lost, early>>
    BY <1>8 DEF SeeStop, Exit, At, AuditInv, OnePlace, Accounted
  <2>1. AuditTypeOK'
    BY <2>0 DEF AuditInv, AuditTypeOK, Incrementers
  <2>2. OnePlace'
    BY <2>0 DEF AuditInv, OnePlace
  <2>3. Pending' = Pending
    BY <2>0 DEF Pending
  <2>4. Counted'
    BY <2>0, <2>3, SameCounted
  <2>5. Accounted'
    BY <2>0 DEF AuditInv, AuditTypeOK, Accounted
  <2>6. CloseFlushes'
    <3>1. queue = <<>> => \A e : ~Has(queue, e)
      BY DEF Has
    <3>2. \A e \in early : disp.event # e
      BY <2>0 DEF AuditInv, AuditTypeOK
    <3> QED BY <2>0, <3>1, <3>2 DEF AuditInv, Accounted, CloseFlushes
  <2> QED BY <2>1, <2>2, <2>4, <2>5, <2>6 DEF AuditInv
<1>9. CASE Close \/ UNCHANGED auditVars
  <2>0. /\ UNCHANGED <<local, queue, dropped, appender, disp, loaded, sent, attempts, failures,
                       hasSink, lost, early>>
        /\ closed' \in BOOLEAN /\ (closed => closed')
    BY <1>9 DEF Close, auditVars, AuditInv, AuditTypeOK
  <2>1. AuditTypeOK' /\ OnePlace' /\ Accounted' /\ CloseFlushes'
    BY <2>0 DEF AuditInv, AuditTypeOK, OnePlace, Accounted, CloseFlushes
  <2>2. Pending' = Pending
    BY <2>0 DEF Pending
  <2>3. Counted'
    BY <2>0, <2>2, SameCounted
  <2> QED BY <2>1, <2>3 DEF AuditInv
<1> QED
  BY <1>1, <1>2, <1>3, <1>4, <1>5, <1>6, <1>7, <1>8, <1>9 DEF AuditNext, Dispatch

LEMMA AuditInvHolds == AuditSpec => []AuditInv
BY AuditInvInit, AuditInvStep, PTL DEF AuditSpec

\* The queue never exceeds the capacity of the channel, and every goroutine is
\* where quotes.go:88-147 can put it.
THEOREM AuditTypeCorrect == AuditSpec => []AuditTypeOK
<1>1. AuditInv => AuditTypeOK
  BY DEF AuditInv
<1> QED BY AuditInvHolds, <1>1, PTL

\* Once Close has returned, every event whose Append returned before the call has
\* been offered to the sink or was dropped for lack of room, whichever of the stop
\* signal and the waiting events select saw first (quotes.go:88-118, 138-141).
THEOREM CloseLeavesNothing == AuditSpec => []CloseFlushes
<1>1. AuditInv => CloseFlushes
  BY DEF AuditInv
<1> QED BY AuditInvHolds, <1>1, PTL

\* However the unsynchronised increments of quotes.go:100 and 129 interleave, the
\* counter never claims more dropped events than there are.
THEOREM DropsAreNotInvented == AuditSpec => []DroppedNotOverstated
<1>1. AuditInv => DroppedNotOverstated
  <2> SUFFICES ASSUME AuditInv PROVE dropped <= Cardinality(lost)
    BY DEF DroppedNotOverstated
  <2>1. dropped \in Nat /\ Cardinality(Pending) \in Nat /\ Cardinality(lost) \in Nat
    BY FS_CardinalityType DEF AuditInv, AuditTypeOK, Counted
  <2> QED BY <2>1 DEF AuditInv, Counted
<1> QED BY AuditInvHolds, <1>1, PTL
=============================================================================
