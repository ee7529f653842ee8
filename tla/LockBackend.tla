----------------------------- MODULE LockBackend -----------------------------
(***************************************************************************)
(* The locked-quote store contract of store.go:193-209: what a caller may  *)
(* rely on, whatever implements it.  A key is held with a value until it   *)
(* is deleted, is claimed, or its time has come; nothing else ends it.     *)
(***************************************************************************)
EXTENDS Naturals

CONSTANTS Keys, Values, NoValue, TTLs

VARIABLES held,   \* the value of every key that is present and not expired
          until,  \* when each held key expires, 0 for the others
          now,
          reply   \* the latest call and what it returned

backendVars == <<held, until, now, reply>>

BackendInit ==
    /\ held = [k \in Keys |-> NoValue]
    /\ until = [k \in Keys |-> 0]
    /\ now = 0
    /\ reply = [op |-> "none", key |-> NoValue, ok |-> FALSE, value |-> NoValue]

Replies(op, k, ok, v) == reply' = [op |-> op, key |-> k, ok |-> ok, value |-> v]

Free(S) ==
    /\ held' = [k \in Keys |-> IF k \in S THEN NoValue ELSE held[k]]
    /\ until' = [k \in Keys |-> IF k \in S THEN 0 ELSE until[k]]

\* Sets key = value with ttl only if key is absent.  True if set.
SetNX(k, v, ttl) ==
    /\ IF held[k] = NoValue
         THEN held' = [held EXCEPT ![k] = v] /\ until' = [until EXCEPT ![k] = now + ttl]
         ELSE UNCHANGED <<held, until>>
    /\ Replies("SetNX", k, held[k] = NoValue, NoValue)
    /\ UNCHANGED now

\* Returns the value for key if present and not expired.
Get(k) == Replies("Get", k, held[k] # NoValue, held[k]) /\ UNCHANGED <<held, until, now>>

\* Removes the key.  A key that expired may or may not still count as existing.
Del(k) ==
    /\ Free({k})
    /\ \E ok \in BOOLEAN : (held[k] # NoValue => ok) /\ Replies("Del", k, ok, NoValue)
    /\ UNCHANGED now

\* Atomically returns the value and deletes the key if present and not expired.
Claim(k) ==
    /\ Free({k})
    /\ Replies("Claim", k, held[k] # NoValue, held[k])
    /\ UNCHANGED now

\* Time passes and takes along exactly the keys whose ttl has run out.
Lapse ==
    /\ now' = now + 1
    /\ Free({k \in Keys : until[k] <= now'})
    /\ UNCHANGED reply

BackendNext ==
    \/ \E k \in Keys : Get(k) \/ Del(k) \/ Claim(k)
                       \/ \E v \in Values, ttl \in TTLs : SetNX(k, v, ttl)
    \/ Lapse

BackendSpec == BackendInit /\ [][BackendNext]_backendVars
=============================================================================
