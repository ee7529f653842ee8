------------------------------ MODULE LockStore ------------------------------
(***************************************************************************)
(* The in-memory LockBackend (store.go:186-313): a map from key to entry,  *)
(* one time.AfterFunc timer per entry, and one mutex held for the whole of *)
(* every call and of every timer callback.                                 *)
(*                                                                         *)
(* A call is one action.  A timer is not: the runtime starts the callback  *)
(* on a goroutine of its own, which then waits for the mutex, and Stop no  *)
(* longer prevents it.  In that gap the key may be claimed, deleted or set *)
(* anew, so entries have an identity (the pointer compared by cur == entry)*)
(* which outlives their place in the map.                                  *)
(***************************************************************************)
EXTENDS Naturals

CONSTANTS Keys, Values, NoValue,
          TTLs,        \* lifetimes callers ask for
          MaxEntries,  \* bound: entries that are ever allocated
          Horizon      \* bound: time up to which the clock runs freely

ASSUME LockStoreAssumption ==
    /\ NoValue \notin Values \cup Keys
    /\ TTLs \subseteq Nat \ {0}
    /\ MaxEntries \in Nat
    /\ Horizon \in Nat

VARIABLES locks,    \* LockStore.locks: the entry of every key, 0 when absent
          entries,  \* the heap of lockEntry values ever allocated
          used,     \* how many of them are allocated
          clock,    \* time.Now()
          reply     \* the latest call and what it returned

storeVars == <<locks, entries, used, clock, reply>>

EntryIds == 1..MaxEntries

Timers == {"none", "armed", "stopped", "fired", "done"}

FreeEntry == [value |-> NoValue, expiresAt |-> 0, key |-> NoValue, timer |-> "none"]

InMap(k) == locks[k] # 0

\* Besides the types: the map leads to allocated entries of the right key, each
\* with a timer that is still to evict it.
StoreTypeOK ==
    /\ locks \in [Keys -> 0..MaxEntries]
    /\ entries \in [EntryIds -> [value : Values \cup {NoValue}, expiresAt : Nat,
                                 key : Keys \cup {NoValue}, timer : Timers]]
    /\ used \in 0..MaxEntries
    /\ clock \in Nat
    /\ reply \in [op : {"none", "SetNX", "Get", "Del", "Claim"}, key : Keys \cup {NoValue},
                  ok : BOOLEAN, value : Values \cup {NoValue}]
    /\ \A k \in Keys : InMap(k) => /\ locks[k] <= used
                                  /\ entries[locks[k]].key = k
                                  /\ entries[locks[k]].timer \in {"armed", "fired"}

StoreInit ==
    /\ locks = [k \in Keys |-> 0]
    /\ entries = [e \in EntryIds |-> FreeEntry]
    /\ used = 0
    /\ clock = 0
    /\ reply = [op |-> "none", key |-> NoValue, ok |-> FALSE, value |-> NoValue]

-----------------------------------------------------------------------------

\* time.Now().Before(e.expiresAt) for the entry of k.
Before(k) == clock < entries[locks[k]].expiresAt

\* timer.Stop(): a callback that has started is not stopped by it.
Stopped(timer) == IF timer = "armed" THEN "stopped" ELSE timer

\* Stop the timer of the entry of k.
StopTimer(k) == entries' = [entries EXCEPT ![locks[k]].timer = Stopped(@)]

Replies(op, k, ok, v) == reply' = [op |-> op, key |-> k, ok |-> ok, value |-> v]

\* Mutant of SetNX: the entry that replaces a lapsed one gets no timer.
SetNXNoTimer(k, v, ttl) ==
    IF InMap(k) /\ Before(k)
      THEN Replies("SetNX", k, FALSE, NoValue) /\ UNCHANGED <<locks, entries, used, clock>>
      ELSE /\ used < MaxEntries
           /\ used' = used + 1
           /\ entries' =
                [e \in EntryIds |->
                    IF e = used + 1
                      THEN [value |-> v, expiresAt |-> clock + ttl, key |-> k,
                            timer |-> IF InMap(k) THEN "none" ELSE "armed"]
                    ELSE IF e = locks[k] THEN [entries[e] EXCEPT !.timer = Stopped(@)]
                    ELSE entries[e]]
           /\ locks' = [locks EXCEPT ![k] = used + 1]
           /\ Replies("SetNX", k, TRUE, NoValue)
           /\ UNCHANGED clock

SetNX(k, v, ttl) ==
    IF InMap(k) /\ Before(k)
      THEN Replies("SetNX", k, FALSE, NoValue) /\ UNCHANGED <<locks, entries, used, clock>>
      ELSE /\ used < MaxEntries
           /\ used' = used + 1
           /\ entries' =
                [e \in EntryIds |->
                    IF e = used + 1
                      THEN [value |-> v, expiresAt |-> clock + ttl, key |-> k, timer |-> "armed"]
                    ELSE IF e = locks[k] THEN [entries[e] EXCEPT !.timer = Stopped(@)]
                    ELSE entries[e]]
           /\ locks' = [locks EXCEPT ![k] = used + 1]
           /\ Replies("SetNX", k, TRUE, NoValue)
           /\ UNCHANGED clock

\* An expired entry is evicted on the way.
Get(k) ==
    /\ IF InMap(k) /\ ~Before(k)
         THEN StopTimer(k) /\ locks' = [locks EXCEPT ![k] = 0]
         ELSE UNCHANGED <<locks, entries>>
    /\ IF InMap(k) /\ Before(k)
         THEN Replies("Get", k, TRUE, entries[locks[k]].value)
         ELSE Replies("Get", k, FALSE, NoValue)
    /\ UNCHANGED <<used, clock>>

\* True for an expired entry that was not evicted yet.
Del(k) ==
    /\ IF InMap(k) THEN StopTimer(k) ELSE UNCHANGED entries
    /\ locks' = [locks EXCEPT ![k] = 0]
    /\ Replies("Del", k, InMap(k), NoValue)
    /\ UNCHANGED <<used, clock>>

\* Mutant of Claim: the entry is removed and its timer left running.
ClaimKeepsTimer(k) ==
    /\ locks' = [locks EXCEPT ![k] = 0]
    /\ IF InMap(k) /\ Before(k)
         THEN Replies("Claim", k, TRUE, entries[locks[k]].value)
         ELSE Replies("Claim", k, FALSE, NoValue)
    /\ UNCHANGED <<entries, used, clock>>

\* The entry is removed first, then its expiry decides the answer.
Claim(k) ==
    /\ IF InMap(k) THEN StopTimer(k) ELSE UNCHANGED entries
    /\ locks' = [locks EXCEPT ![k] = 0]
    /\ IF InMap(k) /\ Before(k)
         THEN Replies("Claim", k, TRUE, entries[locks[k]].value)
         ELSE Replies("Claim", k, FALSE, NoValue)
    /\ UNCHANGED <<used, clock>>

\* The runtime starts the callback of an entry whose ttl has run out.
TimerFires(e) ==
    /\ entries[e].timer = "armed"
    /\ clock >= entries[e].expiresAt
    /\ entries' = [entries EXCEPT ![e].timer = "fired"]
    /\ UNCHANGED <<locks, used, clock, reply>>

\* Mutant of Evict: the callback deletes whatever entry its key has by now.
EvictAnyEntry(e) ==
    /\ entries[e].timer = "fired"
    /\ entries' = [entries EXCEPT ![e].timer = "done"]
    /\ locks' = [locks EXCEPT ![entries[e].key] = 0]
    /\ UNCHANGED <<used, clock, reply>>

\* Mutant of Evict: the callback returns without deleting its entry.
EvictNothing(e) ==
    /\ entries[e].timer = "fired"
    /\ entries' = [entries EXCEPT ![e].timer = "done"]
    /\ UNCHANGED <<locks, used, clock, reply>>

\* The callback has the mutex and deletes its own entry only.
Evict(e) ==
    /\ entries[e].timer = "fired"
    /\ entries' = [entries EXCEPT ![e].timer = "done"]
    /\ locks' = [locks EXCEPT ![entries[e].key] = IF @ = e THEN 0 ELSE @]
    /\ UNCHANGED <<used, clock, reply>>

\* Bound: past Horizon time passes only while some entry has yet to expire.
StoreTick ==
    /\ clock < Horizon \/ \E k \in Keys : InMap(k) /\ Before(k)
    /\ clock' = clock + 1
    /\ UNCHANGED <<locks, entries, used, reply>>

StoreNext ==
    \/ \E k \in Keys : Get(k) \/ Del(k) \/ Claim(k)
                       \/ \E v \in Values, ttl \in TTLs : SetNX(k, v, ttl)
    \/ \E e \in EntryIds : TimerFires(e) \/ Evict(e)
    \/ StoreTick

StoreSpec == StoreInit /\ [][StoreNext]_storeVars

\* The runtime fires due timers and schedules their callbacks, the mutex is
\* handed to a waiting callback, and time passes.  Callers may do nothing.
StoreFairness == /\ \A e \in EntryIds : WF_storeVars(TimerFires(e)) /\ WF_storeVars(Evict(e))
                 /\ WF_storeVars(StoreTick)

FairStoreSpec == StoreSpec /\ StoreFairness

-----------------------------------------------------------------------------
(* Properties. *)

\* An entry whose timer still runs is the one its key maps to.  Every way out of
\* the map stops the timer (store.go:246-247, 271-274, 289-292, 305-308), so no
\* claimed or deleted lock keeps a timer and its closure alive for the full TTL.
NoOrphanTimer ==
    \A e \in EntryIds : entries[e].timer = "armed" => locks[entries[e].key] = e

Held(k) == IF InMap(k) /\ Before(k) THEN entries[locks[k]].value ELSE NoValue

HeldUntil(k) == IF InMap(k) /\ Before(k) THEN entries[locks[k]].expiresAt ELSE 0

Backend == INSTANCE LockBackend WITH held  <- [k \in Keys |-> Held(k)],
                                     until <- [k \in Keys |-> HeldUntil(k)],
                                     now   <- clock

\* The contract of store.go:193-209 holds of every call, in particular a lock
\* vanishes only by Del, by a Claim that returns its value, or when its ttl ends: a
\* callback that lost the race for the mutex never deletes the entry that has
\* replaced its own (store.go:254), and a Claim never returns a lapsed value.
ImplementsBackend == Backend!BackendSpec

\* README.md:48 "TTL eviction guaranteed": every entry leaves the map, even if
\* nobody asks for its key again (store.go:251-257).
EvictionGuaranteed ==
    \A e \in EntryIds : (entries[e].timer # "none") ~> (\A k \in Keys : locks[k] # e)
=============================================================================
