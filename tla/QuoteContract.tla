---------------------------- MODULE QuoteContract ----------------------------
(***************************************************************************)
(* What the service promises the Transaction Orchestrator about a quote    *)
(* id, without stores, locks, clocks and handlers: an id is offered once,  *)
(* an offer is granted to one claimer at most, and an offer that was       *)
(* withdrawn (expired, refreshed, refused for slippage, forgotten by a     *)
(* restart or lost with a failed Redis call) never comes back.             *)
(***************************************************************************)
CONSTANTS QuoteIds, Requests, Nobody

VARIABLES phase,   \* unissued, offered, granted or withdrawn
          holder   \* whom the quote was granted to

contractVars == <<phase, holder>>

ContractInit ==
    /\ phase = [q \in QuoteIds |-> "unissued"]
    /\ holder = [q \in QuoteIds |-> Nobody]

Offer(q) ==
    /\ phase[q] = "unissued"
    /\ phase' = [phase EXCEPT ![q] = "offered"]
    /\ UNCHANGED holder

Grant(q, r) ==
    /\ phase[q] = "offered"
    /\ phase' = [phase EXCEPT ![q] = "granted"]
    /\ holder' = [holder EXCEPT ![q] = r]

\* The passing of time and a restart withdraw several offers at once.
Withdraw(S) ==
    /\ \A q \in S : phase[q] = "offered"
    /\ phase' = [q \in QuoteIds |-> IF q \in S THEN "withdrawn" ELSE phase[q]]
    /\ UNCHANGED holder

ContractNext ==
    \/ \E q \in QuoteIds : Offer(q) \/ \E r \in Requests : Grant(q, r)
    \/ \E S \in SUBSET QuoteIds : Withdraw(S)

ContractSpec == ContractInit /\ [][ContractNext]_contractVars
=============================================================================
