--------------------------- MODULE LockStoreProofs ---------------------------
(***************************************************************************)
(* Proofs about the in-memory lock store: its type invariant, that every   *)
(* running timer belongs to an entry in the map, and that the store        *)
(* implements the lock contract, all for any keys, values, lifetimes and   *)
(* number of entries.                                                      *)
(***************************************************************************)
EXTENDS LockStore, TLAPS

\* What an entry keeps to, in the map or not: once it is allocated it has a key
\* and a value, and its callback starts no earlier than its expiry.
EntriesKept ==
    \A e \in EntryIds :
        /\ e > used => entries[e].timer = "none"
        /\ entries[e].timer # "none" => entries[e].key \in Keys /\ entries[e].value \in Values
        /\ entries[e].timer = "fired" => entries[e].expiresAt <= clock

\* The inductive invariant.
StoreInv == StoreTypeOK /\ EntriesKept /\ NoOrphanTimer

Entry == [value : Values \cup {NoValue}, expiresAt : Nat, key : Keys \cup {NoValue},
          timer : Timers]

Reply == [op : {"none", "SetNX", "Get", "Del", "Claim"}, key : Keys \cup {NoValue},
          ok : BOOLEAN, value : Values \cup {NoValue}]

-----------------------------------------------------------------------------
(* Type correctness and NoOrphanTimer. *)

LEMMA StoreInvInit == StoreInit => StoreInv
BY LockStoreAssumption
   DEF StoreInit, StoreInv, StoreTypeOK, EntriesKept, NoOrphanTimer, EntryIds, FreeEntry, Timers, InMap

LEMMA RepliesTyped ==
    ASSUME NEW op \in {"SetNX", "Get", "Del", "Claim"}, NEW k \in Keys, NEW ok \in BOOLEAN,
           NEW v \in Values \cup {NoValue}, Replies(op, k, ok, v)
    PROVE  reply' \in Reply
BY DEF Replies, Reply

\* A key in the map leads to an entry of its own.
LEMMA EntryOfKey ==
    ASSUME StoreInv, NEW k \in Keys, InMap(k)
    PROVE  /\ locks[k] \in EntryIds
           /\ entries[locks[k]] \in Entry
           /\ entries[locks[k]].key = k
           /\ entries[locks[k]].value \in Values
           /\ entries[locks[k]].expiresAt \in Nat
           /\ entries[locks[k]].timer \in {"armed", "fired"}
<1>1. locks[k] \in EntryIds
  BY LockStoreAssumption DEF StoreInv, StoreTypeOK, InMap, EntryIds
<1>2. entries[locks[k]] \in Entry
  BY <1>1 DEF StoreInv, StoreTypeOK, Entry
<1>3. entries[locks[k]].key = k /\ entries[locks[k]].timer \in {"armed", "fired"}
  BY DEF StoreInv, StoreTypeOK
<1> QED BY <1>1, <1>2, <1>3 DEF StoreInv, EntriesKept, Entry

\* timer.Stop() changes nothing but the timer, and leaves none armed.
LEMMA StopTimerKeeps ==
    ASSUME StoreInv, NEW k \in Keys, InMap(k), StopTimer(k)
    PROVE  /\ entries' \in [EntryIds -> Entry]
           /\ \A e \in EntryIds : /\ entries'[e].value = entries[e].value
                                  /\ entries'[e].expiresAt = entries[e].expiresAt
                                  /\ entries'[e].key = entries[e].key
                                  /\ e # locks[k] => entries'[e].timer = entries[e].timer
           /\ entries'[locks[k]].timer \in {"stopped", "fired"}
           /\ entries'[locks[k]].timer = "fired" => entries[locks[k]].timer = "fired"
<1>1. entries \in [EntryIds -> Entry]
  BY DEF StoreInv, StoreTypeOK, Entry
<1>2. entries' = [entries EXCEPT ![locks[k]] = [entries[locks[k]] EXCEPT !.timer = Stopped(entries[locks[k]].timer)]]
  BY <1>1, EntryOfKey DEF StopTimer
<1>3. Stopped(entries[locks[k]].timer) \in {"stopped", "fired"}
      /\ (Stopped(entries[locks[k]].timer) = "fired" => entries[locks[k]].timer = "fired")
  BY EntryOfKey DEF Stopped
<1>4. [entries[locks[k]] EXCEPT !.timer = Stopped(entries[locks[k]].timer)] \in Entry
  BY <1>3, EntryOfKey DEF Entry, Timers
<1> QED BY <1>1, <1>2, <1>3, <1>4, EntryOfKey DEF Entry

\* A key leaves the map and its timer is stopped: the end of Get, Del and Claim.
LEMMA RemoveKeepsInv ==
    ASSUME StoreInv, NEW k \in Keys, InMap(k), StopTimer(k),
           locks' = [locks EXCEPT ![k] = 0], UNCHANGED <<used, clock>>,
           reply' \in Reply
    PROVE  StoreInv'
<1>1. StoreTypeOK'
  <2>1. locks' \in [Keys -> 0..MaxEntries]
        /\ \A j \in Keys : InMap(j)' => j # k /\ InMap(j) /\ locks'[j] = locks[j]
    BY LockStoreAssumption DEF StoreInv, StoreTypeOK, InMap
  <2>2. \A j \in Keys : InMap(j)' => locks[j] # locks[k]
    BY <2>1, EntryOfKey
  <2>3. \A j \in Keys : InMap(j)' => /\ locks'[j] <= used'
                                     /\ entries'[locks'[j]].key = j
                                     /\ entries'[locks'[j]].timer \in {"armed", "fired"}
    BY <2>1, <2>2, StopTimerKeeps, EntryOfKey DEF StoreInv, StoreTypeOK
  <2> QED BY <2>1, <2>3, StopTimerKeeps DEF StoreInv, StoreTypeOK, Entry, Reply
<1>2. EntriesKept'
  <2> SUFFICES ASSUME NEW e \in EntryIds
               PROVE  /\ e > used => entries'[e].timer = "none"
                      /\ entries'[e].timer # "none" => entries'[e].key \in Keys /\ entries'[e].value \in Values
                      /\ entries'[e].timer = "fired" => entries'[e].expiresAt <= clock
    BY DEF EntriesKept
  <2>1. CASE e = locks[k]
    BY <2>1, StopTimerKeeps, EntryOfKey DEF StoreInv, StoreTypeOK, EntriesKept, EntryIds
  <2>2. CASE e # locks[k]
    BY <2>2, StopTimerKeeps DEF StoreInv, EntriesKept
  <2> QED BY <2>1, <2>2
<1>3. NoOrphanTimer'
  BY StopTimerKeeps, EntryOfKey DEF StoreInv, StoreTypeOK, EntriesKept, NoOrphanTimer
<1> QED BY <1>1, <1>2, <1>3 DEF StoreInv

LEMMA StoreInvStep == StoreInv /\ [StoreNext]_storeVars => StoreInv'
<1> SUFFICES ASSUME StoreInv, [StoreNext]_storeVars PROVE StoreInv'
  OBVIOUS
<1>1. ASSUME NEW k \in Keys, NEW v \in Values, NEW ttl \in TTLs, SetNX(k, v, ttl)
      PROVE  StoreInv'
  <2>0. reply' \in Reply
    BY <1>1, RepliesTyped DEF SetNX
  <2>1. CASE InMap(k) /\ Before(k)
    BY <1>1, <2>0, <2>1
       DEF SetNX, StoreInv, StoreTypeOK, EntriesKept, NoOrphanTimer, InMap, Reply
  <2>2. CASE ~(InMap(k) /\ Before(k))
    <3>0. /\ used < MaxEntries /\ used' = used + 1 /\ clock' = clock
          /\ locks' = [locks EXCEPT ![k] = used + 1]
          /\ entries' =
                [e \in EntryIds |->
                    IF e = used + 1
                      THEN [value |-> v, expiresAt |-> clock + ttl, key |-> k, timer |-> "armed"]
                    ELSE IF e = locks[k] THEN [entries[e] EXCEPT !.timer = Stopped(@)]
                    ELSE entries[e]]
      BY <1>1, <2>2, Zenon DEF SetNX
    <3>1. /\ used \in Nat /\ used + 1 \in EntryIds /\ clock + ttl \in Nat
          /\ clock \in Nat /\ clock < clock + ttl
          /\ entries \in [EntryIds -> Entry]
          /\ locks \in [Keys -> 0..MaxEntries]
      BY <3>0, LockStoreAssumption DEF StoreInv, StoreTypeOK, EntryIds, Entry
    <3>2. \A e \in EntryIds : [entries[e] EXCEPT !.timer = Stopped(@)] \in Entry
      BY <3>1 DEF Entry, Timers, Stopped
    <3>3. /\ entries' \in [EntryIds -> Entry]
          /\ entries'[used + 1] = [value |-> v, expiresAt |-> clock + ttl, key |-> k, timer |-> "armed"]
          /\ \A e \in EntryIds \ {used + 1} :
                /\ entries'[e].value = entries[e].value
                /\ entries'[e].expiresAt = entries[e].expiresAt
                /\ entries'[e].key = entries[e].key
                /\ entries'[e].timer = IF e = locks[k] THEN Stopped(entries[e].timer) ELSE entries[e].timer
      <4>1. [value |-> v, expiresAt |-> clock + ttl, key |-> k, timer |-> "armed"] \in Entry
        BY <3>1 DEF Entry, Timers
      <4>2. entries' \in [EntryIds -> Entry]
        BY <3>0, <3>1, <3>2, <4>1
      <4> QED BY <3>0, <3>1, <4>2 DEF Entry
    <3>4. StoreTypeOK'
      <4>1. locks' \in [Keys -> 0..MaxEntries] /\ used' \in 0..MaxEntries
        BY <3>0, <3>1, LockStoreAssumption DEF EntryIds
      <4>2. ASSUME NEW j \in Keys, InMap(j)'
            PROVE  /\ locks'[j] <= used'
                   /\ entries'[locks'[j]].key = j
                   /\ entries'[locks'[j]].timer \in {"armed", "fired"}
        <5>1. CASE j = k
          BY <3>0, <3>1, <3>3, <5>1
        <5>2. CASE j # k
          <6>1. InMap(j) /\ locks'[j] = locks[j] /\ locks[j] # used + 1
            BY <3>0, <3>1, <4>2, <5>2 DEF InMap, StoreInv, StoreTypeOK
          <6>2. locks[j] # locks[k]
            BY <5>2, <6>1, EntryOfKey DEF InMap
          <6> QED BY <3>0, <3>1, <3>3, <6>1, <6>2, EntryOfKey DEF StoreInv, StoreTypeOK, EntryIds
        <5> QED BY <5>1, <5>2
      <4> QED BY <2>0, <3>0, <3>1, <3>3, <4>1, <4>2 DEF StoreTypeOK, Entry, Reply
    <3>5. EntriesKept'
      <4> SUFFICES ASSUME NEW e \in EntryIds
                   PROVE  /\ e > used' => entries'[e].timer = "none"
                          /\ entries'[e].timer # "none" => entries'[e].key \in Keys /\ entries'[e].value \in Values
                          /\ entries'[e].timer = "fired" => entries'[e].expiresAt <= clock'
        BY DEF EntriesKept
      <4>1. CASE e = used + 1
        BY <3>0, <3>1, <3>3, <4>1
      <4>2. CASE e # used + 1
        BY <3>0, <3>1, <3>3, <4>2 DEF StoreInv, EntriesKept, EntryIds, Stopped
      <4> QED BY <4>1, <4>2
    <3>6. NoOrphanTimer'
      BY <3>0, <3>1, <3>3 DEF StoreInv, EntriesKept, NoOrphanTimer, EntryIds, Stopped
    <3> QED BY <3>4, <3>5, <3>6 DEF StoreInv
  <2> QED BY <2>1, <2>2
<1>2. ASSUME NEW k \in Keys, Get(k) PROVE StoreInv'
  <2>1. reply' \in Reply
    BY <1>2, EntryOfKey, RepliesTyped DEF Get
  <2>2. CASE InMap(k) /\ ~Before(k)
    BY <1>2, <2>1, <2>2, RemoveKeepsInv DEF Get
  <2>3. CASE ~(InMap(k) /\ ~Before(k))
    BY <1>2, <2>1, <2>3 DEF Get, StoreInv, StoreTypeOK, EntriesKept, NoOrphanTimer, InMap, Reply
  <2> QED BY <2>2, <2>3
<1>3. ASSUME NEW k \in Keys, Del(k) PROVE StoreInv'
  <2>1. reply' \in Reply
    BY <1>3, RepliesTyped DEF Del, InMap
  <2>2. CASE InMap(k)
    BY <1>3, <2>1, <2>2, RemoveKeepsInv DEF Del
  <2>3. CASE ~InMap(k)
    <3>1. locks' = locks
      BY <1>3, <2>3 DEF Del, InMap, StoreInv, StoreTypeOK
    <3> QED BY <1>3, <2>1, <2>3, <3>1 DEF Del, StoreInv, StoreTypeOK, EntriesKept, NoOrphanTimer, InMap, Reply
  <2> QED BY <2>2, <2>3
<1>4. ASSUME NEW k \in Keys, Claim(k) PROVE StoreInv'
  <2>1. reply' \in Reply
    BY <1>4, EntryOfKey, RepliesTyped DEF Claim
  <2>2. CASE InMap(k)
    BY <1>4, <2>1, <2>2, RemoveKeepsInv DEF Claim
  <2>3. CASE ~InMap(k)
    <3>1. locks' = locks
      BY <1>4, <2>3 DEF Claim, InMap, StoreInv, StoreTypeOK
    <3> QED BY <1>4, <2>1, <2>3, <3>1 DEF Claim, StoreInv, StoreTypeOK, EntriesKept, NoOrphanTimer, InMap, Reply
  <2> QED BY <2>2, <2>3
<1>5. ASSUME NEW e \in EntryIds, TimerFires(e) PROVE StoreInv'
  <2>1. /\ entries' \in [EntryIds -> Entry]
        /\ entries'[e].timer = "fired"
        /\ \A f \in EntryIds : /\ entries'[f].value = entries[f].value
                               /\ entries'[f].expiresAt = entries[f].expiresAt
                               /\ entries'[f].key = entries[f].key
                               /\ f # e => entries'[f].timer = entries[f].timer
    BY <1>5 DEF TimerFires, StoreInv, StoreTypeOK, Entry, Timers
  <2>2. StoreTypeOK'
    BY <1>5, <2>1 DEF TimerFires, StoreInv, StoreTypeOK, InMap, EntryIds, Entry
  <2>3. EntriesKept' /\ NoOrphanTimer'
    BY <1>5, <2>1 DEF TimerFires, StoreInv, StoreTypeOK, EntriesKept, NoOrphanTimer, EntryIds
  <2> QED BY <2>2, <2>3 DEF StoreInv
<1>6. ASSUME NEW e \in EntryIds, Evict(e) PROVE StoreInv'
  <2>1. /\ entries' \in [EntryIds -> Entry]
        /\ entries'[e].timer = "done"
        /\ \A f \in EntryIds : /\ entries'[f].value = entries[f].value
                               /\ entries'[f].expiresAt = entries[f].expiresAt
                               /\ entries'[f].key = entries[f].key
                               /\ f # e => entries'[f].timer = entries[f].timer
    BY <1>6 DEF Evict, StoreInv, StoreTypeOK, Entry, Timers
  <2>2. /\ entries[e].key \in Keys
        /\ locks' \in [Keys -> 0..MaxEntries]
        /\ \A k \in Keys : locks'[k] = IF locks[k] = e THEN 0 ELSE locks[k]
    BY <1>6, LockStoreAssumption DEF Evict, StoreInv, StoreTypeOK, EntriesKept, InMap, EntryIds
  <2>3. StoreTypeOK'
    BY <1>6, <2>1, <2>2 DEF Evict, StoreInv, StoreTypeOK, InMap, EntryIds, Entry
  <2>4. EntriesKept'
    BY <1>6, <2>1 DEF Evict, StoreInv, StoreTypeOK, EntriesKept, EntryIds
  <2>5. NoOrphanTimer'
    BY <1>6, <2>1, <2>2 DEF Evict, StoreInv, StoreTypeOK, EntriesKept, NoOrphanTimer, EntryIds
  <2> QED BY <2>3, <2>4, <2>5 DEF StoreInv
<1>7. CASE StoreTick
  BY <1>7 DEF StoreTick, StoreInv, StoreTypeOK, EntriesKept, NoOrphanTimer, InMap, EntryIds
<1>8. CASE UNCHANGED storeVars
  BY <1>8 DEF storeVars, StoreInv, StoreTypeOK, EntriesKept, NoOrphanTimer, InMap
<1> QED
  BY <1>1, <1>2, <1>3, <1>4, <1>5, <1>6, <1>7, <1>8 DEF StoreNext

\* The map always leads to allocated entries of the right key that have a timer
\* still to evict them, whatever calls and callbacks interleave (store.go:236-313).
THEOREM StoreTypeCorrect == StoreSpec => []StoreTypeOK
<1>1. StoreInv => StoreTypeOK
  BY DEF StoreInv
<1> QED BY StoreInvInit, StoreInvStep, <1>1, PTL DEF StoreSpec

\* No call leaves behind a timer that still runs for an entry outside the map: a
\* claimed, deleted or replaced lock does not stay alive for the rest of its ttl.
THEOREM NoTimerIsOrphaned == StoreSpec => []NoOrphanTimer
<1>1. StoreInv => NoOrphanTimer
  BY DEF StoreInv
<1> QED BY StoreInvInit, StoreInvStep, <1>1, PTL DEF StoreSpec
-----------------------------------------------------------------------------
(* The store implements the lock contract. *)

\* Which keys count as held, for the caller and in the map.
LEMMA HeldByEntry ==
    ASSUME StoreInv, NEW k \in Keys
    PROVE  /\ Held(k) # NoValue <=> (InMap(k) /\ Before(k))
           /\ InMap(k) /\ Before(k) => Held(k) = entries[locks[k]].value
           /\ InMap(k) /\ Before(k) => HeldUntil(k) = entries[locks[k]].expiresAt
           /\ ~(InMap(k) /\ Before(k)) => HeldUntil(k) = 0
BY EntryOfKey, LockStoreAssumption DEF Held, HeldUntil

\* What a key is held with depends on its entry's value and expiry alone.
LEMMA HeldSame ==
    ASSUME NEW j \in Keys, locks'[j] = locks[j], clock' = clock,
           InMap(j) => /\ entries'[locks[j]].value = entries[locks[j]].value
                       /\ entries'[locks[j]].expiresAt = entries[locks[j]].expiresAt
    PROVE  Held(j)' = Held(j) /\ HeldUntil(j)' = HeldUntil(j)
BY DEF Held, HeldUntil, InMap, Before

\* Taking a key out of the map frees that key and no other.
LEMMA RemoveFrees ==
    ASSUME StoreInv, NEW k \in Keys, locks' = [locks EXCEPT ![k] = 0], clock' = clock,
           IF InMap(k) THEN StopTimer(k) ELSE UNCHANGED entries
    PROVE  /\ Held(k)' = NoValue /\ HeldUntil(k)' = 0
           /\ \A j \in Keys \ {k} : Held(j)' = Held(j) /\ HeldUntil(j)' = HeldUntil(j)
<1>1. Held(k)' = NoValue /\ HeldUntil(k)' = 0
  BY DEF Held, HeldUntil, InMap, StoreInv, StoreTypeOK
<1>2. ASSUME NEW j \in Keys \ {k} PROVE Held(j)' = Held(j) /\ HeldUntil(j)' = HeldUntil(j)
  <2>1. locks'[j] = locks[j]
    BY DEF StoreInv, StoreTypeOK
  <2>2. InMap(j) => /\ entries'[locks[j]].value = entries[locks[j]].value
                    /\ entries'[locks[j]].expiresAt = entries[locks[j]].expiresAt
    BY StopTimerKeeps, EntryOfKey
  <2> QED BY <2>1, <2>2, HeldSame
<1> QED BY <1>1, <1>2

LEMMA BackendInitHolds == StoreInit => Backend!BackendInit
BY DEF StoreInit, Backend!BackendInit, Held, HeldUntil, InMap

\* Every step of the store is the call of the contract, its Lapse, or no step.
LEMMA BackendStep ==
    StoreInv /\ [StoreNext]_storeVars => [Backend!BackendNext]_(Backend!backendVars)
<1> SUFFICES ASSUME StoreInv, [StoreNext]_storeVars
             PROVE  [Backend!BackendNext]_(Backend!backendVars)
  OBVIOUS
<1> DEFINE held == [k \in Keys |-> Held(k)]
           until == [k \in Keys |-> HeldUntil(k)]
<1>1. ASSUME NEW k \in Keys, NEW v \in Values, NEW ttl \in TTLs, SetNX(k, v, ttl)
      PROVE  Backend!SetNX(k, v, ttl)
  <2>1. CASE InMap(k) /\ Before(k)
    <3>1. held' = held /\ until' = until
      BY <1>1, <2>1, HeldSame DEF SetNX
    <3> QED BY <1>1, <2>1, <3>1, HeldByEntry DEF SetNX, Replies, Backend!SetNX, Backend!Replies
  <2>2. CASE ~(InMap(k) /\ Before(k))
    <3>0. /\ used < MaxEntries /\ used' = used + 1 /\ clock' = clock
          /\ locks' = [locks EXCEPT ![k] = used + 1]
          /\ entries' =
                [e \in EntryIds |->
                    IF e = used + 1
                      THEN [value |-> v, expiresAt |-> clock + ttl, key |-> k, timer |-> "armed"]
                    ELSE IF e = locks[k] THEN [entries[e] EXCEPT !.timer = Stopped(@)]
                    ELSE entries[e]]
          /\ Replies("SetNX", k, TRUE, NoValue)
      BY <1>1, <2>2, Zenon DEF SetNX
    <3>1. /\ used + 1 \in EntryIds /\ clock \in Nat /\ clock < clock + ttl
          /\ locks \in [Keys -> 0..MaxEntries]
      BY <3>0, LockStoreAssumption DEF StoreInv, StoreTypeOK, EntryIds
    <3>2. entries'[used + 1] = [value |-> v, expiresAt |-> clock + ttl, key |-> k, timer |-> "armed"]
      BY <3>0, <3>1
    <3>3. Held(k)' = v /\ HeldUntil(k)' = clock + ttl
      BY <3>0, <3>1, <3>2 DEF Held, HeldUntil, InMap, Before, EntryIds
    <3>4. ASSUME NEW j \in Keys \ {k} PROVE Held(j)' = Held(j) /\ HeldUntil(j)' = HeldUntil(j)
      <4>1. locks'[j] = locks[j]
        BY <3>0, <3>1
      <4>2. CASE InMap(j)
        <5>1. locks[j] # used + 1 /\ locks[j] # locks[k] /\ locks[j] \in EntryIds
          BY <4>2, EntryOfKey DEF StoreInv, StoreTypeOK, InMap
        <5>2. entries'[locks[j]] = entries[locks[j]]
          BY <3>0, <5>1
        <5> QED BY <3>0, <4>1, <5>2, HeldSame
      <4>3. CASE ~InMap(j)
        BY <3>0, <4>1, <4>3, HeldSame
      <4> QED BY <4>2, <4>3
    <3>5. held' = [held EXCEPT ![k] = v] /\ until' = [until EXCEPT ![k] = clock + ttl]
      BY <3>3, <3>4
    <3>6. held[k] = NoValue
      BY <2>2, HeldByEntry
    <3> QED BY <3>0, <3>5, <3>6 DEF Replies, Backend!SetNX, Backend!Replies
  <2> QED BY <2>1, <2>2
<1>2. ASSUME NEW k \in Keys, Get(k) PROVE Backend!Get(k)
  <2>1. held' = held /\ until' = until /\ clock' = clock
    <3>1. CASE InMap(k) /\ ~Before(k)
      <4>1. \A j \in Keys : Held(j)' = Held(j) /\ HeldUntil(j)' = HeldUntil(j)
        BY <1>2, <3>1, RemoveFrees, HeldByEntry DEF Get
      <4> QED BY <1>2, <4>1 DEF Get
    <3>2. CASE ~(InMap(k) /\ ~Before(k))
      BY <1>2, <3>2, HeldSame DEF Get
    <3> QED BY <3>1, <3>2
  <2>2. Replies("Get", k, held[k] # NoValue, held[k])
    <3>1. CASE InMap(k) /\ Before(k)
      BY <1>2, <3>1, HeldByEntry DEF Get, Replies
    <3>2. CASE ~(InMap(k) /\ Before(k))
      BY <1>2, <3>2, HeldByEntry DEF Get, Replies
    <3> QED BY <3>1, <3>2
  <2> QED BY <2>1, <2>2 DEF Replies, Backend!Get, Backend!Replies
<1>3. ASSUME NEW k \in Keys, Del(k) PROVE Backend!Del(k)
  <2>1. Backend!Free({k}) /\ clock' = clock
    BY <1>3, RemoveFrees DEF Del, Backend!Free
  <2>2. held[k] # NoValue => InMap(k)
    BY HeldByEntry
  <2>3. InMap(k) \in BOOLEAN
    BY DEF InMap
  <2> QED BY <1>3, <2>1, <2>2, <2>3 DEF Del, Replies, Backend!Del, Backend!Replies
<1>4. ASSUME NEW k \in Keys, Claim(k) PROVE Backend!Claim(k)
  <2>1. Backend!Free({k}) /\ clock' = clock
    BY <1>4, RemoveFrees DEF Claim, Backend!Free
  <2>2. Replies("Claim", k, held[k] # NoValue, held[k])
    <3>1. CASE InMap(k) /\ Before(k)
      BY <1>4, <3>1, HeldByEntry DEF Claim, Replies
    <3>2. CASE ~(InMap(k) /\ Before(k))
      BY <1>4, <3>2, HeldByEntry DEF Claim, Replies
    <3> QED BY <3>1, <3>2
  <2> QED BY <2>1, <2>2 DEF Replies, Backend!Claim, Backend!Replies
<1>5. ASSUME NEW e \in EntryIds, TimerFires(e) PROVE UNCHANGED Backend!backendVars
  <2>1. \A f \in EntryIds : /\ entries'[f].value = entries[f].value
                            /\ entries'[f].expiresAt = entries[f].expiresAt
    BY <1>5 DEF TimerFires, StoreInv, StoreTypeOK
  <2>2. \A j \in Keys : Held(j)' = Held(j) /\ HeldUntil(j)' = HeldUntil(j)
    BY <1>5, <2>1, EntryOfKey, HeldSame DEF TimerFires
  <2> QED BY <1>5, <2>2 DEF TimerFires, Backend!backendVars
<1>6. ASSUME NEW e \in EntryIds, Evict(e) PROVE UNCHANGED Backend!backendVars
  <2>1. \A f \in EntryIds : /\ entries'[f].value = entries[f].value
                            /\ entries'[f].expiresAt = entries[f].expiresAt
    BY <1>6 DEF Evict, StoreInv, StoreTypeOK
  <2>2. \A j \in Keys : locks'[j] = IF locks[j] = e THEN 0 ELSE locks[j]
    BY <1>6 DEF Evict, StoreInv, StoreTypeOK, EntriesKept, InMap, EntryIds
  <2>3. ASSUME NEW j \in Keys PROVE Held(j)' = Held(j) /\ HeldUntil(j)' = HeldUntil(j)
    <3>1. CASE locks[j] = e
      <4>1. ~Before(j)
        BY <1>6, <3>1 DEF Evict, StoreInv, StoreTypeOK, EntriesKept, Before
      <4> QED BY <2>2, <3>1, <4>1 DEF Held, HeldUntil, InMap
    <3>2. CASE locks[j] # e
      BY <1>6, <2>1, <2>2, <3>2, EntryOfKey, HeldSame DEF Evict
    <3> QED BY <3>1, <3>2
  <2> QED BY <1>6, <2>3 DEF Evict, Backend!backendVars
<1>7. CASE StoreTick
  <2>1. /\ clock' = clock + 1 /\ clock \in Nat /\ reply' = reply
        /\ locks' = locks /\ entries' = entries
    BY <1>7 DEF StoreTick, StoreInv, StoreTypeOK
  <2>2. ASSUME NEW j \in Keys
        PROVE  /\ Held(j)' = IF HeldUntil(j) <= clock + 1 THEN NoValue ELSE Held(j)
               /\ HeldUntil(j)' = IF HeldUntil(j) <= clock + 1 THEN 0 ELSE HeldUntil(j)
    <3>1. CASE InMap(j) /\ Before(j)
      BY <2>1, <3>1, EntryOfKey DEF Held, HeldUntil, InMap, Before
    <3>2. CASE InMap(j) /\ ~Before(j)
      BY <2>1, <3>2, EntryOfKey DEF Held, HeldUntil, InMap, Before
    <3>3. CASE ~InMap(j)
      BY <2>1, <3>3 DEF Held, HeldUntil, InMap
    <3> QED BY <3>1, <3>2, <3>3
  <2>3. Backend!Free({k \in Keys : until[k] <= clock'})
    BY <2>1, <2>2 DEF Backend!Free
  <2> QED BY <2>1, <2>3 DEF Backend!Lapse, Backend!BackendNext
<1>8. CASE UNCHANGED storeVars
  BY <1>8, HeldSame DEF storeVars, Backend!backendVars
<1> QED
  BY <1>1, <1>2, <1>3, <1>4, <1>5, <1>6, <1>7, <1>8 DEF StoreNext, Backend!BackendNext

\* The store keeps the contract of store.go:193-209: a lock ends only by Del, by a
\* Claim that returns its value, or with its ttl, and never because of a callback
\* that waited for the mutex while its entry was replaced (store.go:254).
THEOREM StoreImplementsBackend == StoreSpec => ImplementsBackend
<1> QED
  BY StoreInvInit, StoreInvStep, BackendInitHolds, BackendStep, PTL
     DEF StoreSpec, ImplementsBackend, Backend!BackendSpec
=============================================================================
