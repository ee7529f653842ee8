------------------------------- MODULE RateHub -------------------------------
(***************************************************************************)
(* The WebSocket side of the live rates (ws.go): SpotService.Update calls  *)
(* wsHub.fanout, which takes a snapshot of the subscribers and writes a    *)
(* frame to each of them in turn; each connection has a goroutine that     *)
(* reads the client's commands and answers pings.                          *)
(*                                                                         *)
(* wsSubscriber.write is a mutex that is held while a frame is written: a  *)
(* header and a payload, two calls of conn.Write, which block while the    *)
(* client does not read.  wsHub.mu is never held across such a call, so    *)
(* what is done under it is one action.                                    *)
(***************************************************************************)
EXTENDS Naturals, Sequences

CONSTANTS Clients,      \* connections, each with its reading goroutine
          Updaters,     \* goroutines that call SpotService.Update
          Pairs,
          Rates,        \* the rates that are ever passed to Update
          PairOf,       \* the pair of each of them
          Pong,
          Nobody,
          BufferSize,   \* parts of frames that fit between Write and the client
          MaxCommands   \* bound: commands that the clients send, all together

ASSUME HubAssumption ==
    /\ Clients \cap Updaters = {} /\ Nobody \notin Clients \cup Updaters \cup Rates
    /\ Pong \notin Rates \cup {Nobody}
    /\ PairOf \in [Rates -> Pairs]
    /\ BufferSize \in Nat \ {0} /\ MaxCommands \in Nat

VARIABLES subscribers,  \* wsHub.subscribers
          conn,         \* the connection: open, broken by the peer, closed by us
          pairs,        \* wsSubscriber.pairs
          write,        \* who holds wsSubscriber.write
          buf,          \* parts of frames written and not yet read by the client
          begun,        \* history: the header whose payload is yet to be written
          commands,     \* commands received so far
          proc,         \* where every goroutine is, and its locals
          owed          \* history: rates a client has yet to be sent

hubVars == <<subscribers, conn, pairs, write, buf, begun, commands, proc, owed>>

Goroutines == Clients \cup Updaters

Part == [frame : Rates \cup {Pong}, of : Goroutines, kind : {"header", "payload"}]

NoPart == [frame |-> Nobody, of |-> Nobody, kind |-> "header"]

HubTypeOK ==
    /\ subscribers \subseteq Clients
    /\ conn \in [Clients -> {"none", "open", "broken", "closed"}]
    /\ pairs \in [Clients -> SUBSET Pairs]
    /\ write \in [Clients -> Goroutines \cup {Nobody}]
    /\ \A c \in Clients : buf[c] \in Seq(Part) /\ Len(buf[c]) <= BufferSize
    /\ begun \in [Clients -> Part \cup {NoPart}]
    /\ commands \in 0..MaxCommands
    /\ proc \in [Goroutines ->
                    [at : {"idle", "want", "lock", "header", "payload", "read", "loop",
                           "command", "gone"},
                     to : Clients \cup {Nobody}, todo : SUBSET Clients,
                     rate : Rates \cup {Nobody}]]
    /\ owed \in [Clients -> SUBSET Rates]
    \* Only subscribers whose connection we have not closed are registered.
    /\ \A c \in subscribers : conn[c] \in {"open", "broken"}

Idle == [at |-> "idle", to |-> Nobody, todo |-> {}, rate |-> Nobody]

HubInit ==
    /\ subscribers = {}
    /\ conn = [c \in Clients |-> "none"]
    /\ pairs = [c \in Clients |-> {}]
    /\ write = [c \in Clients |-> Nobody]
    /\ buf = [c \in Clients |-> <<>>]
    /\ begun = [c \in Clients |-> NoPart]
    /\ commands = 0
    /\ proc = [g \in Goroutines |-> Idle]
    /\ owed = [c \in Clients |-> {}]

At(g, l) == proc[g].at = l

\* Nothing is due any more to a client whose connection is gone.
Lose(c) == /\ buf' = [buf EXCEPT ![c] = <<>>]
           /\ begun' = [begun EXCEPT ![c] = NoPart]
           /\ owed' = [owed EXCEPT ![c] = {}]

Goto(g, l) == proc' = [proc EXCEPT ![g].at = l]

-----------------------------------------------------------------------------
(* sendFrame, called by fanout and for a pong. *)

Frame(g) == IF g \in Clients THEN Pong ELSE proc[g].rate

WritePart(g, c, k) ==
    LET part == [frame |-> Frame(g), of |-> g, kind |-> k]
    IN /\ buf' = [buf EXCEPT ![c] = Append(@, part)]
       /\ begun' = [begun EXCEPT ![c] = IF k = "header" THEN part ELSE NoPart]

\* The buffer is large enough again, or was all along.
CanWrite(c) == conn[c] = "open" /\ Len(buf[c]) < BufferSize

Unlock(c) == write' = [write EXCEPT ![c] = Nobody]

\* fanout's loop: the next subscriber in the order of the map, or the end.
FanoutNext(u, todo) ==
    IF todo = {}
      THEN proc' = [proc EXCEPT ![u] = Idle]
      ELSE \E c \in todo :
             proc' = [proc EXCEPT ![u].at = "want", ![u].to = c, ![u].todo = todo \ {c}]

\* Back to the read loop, or to the loop of fanout.
SendReturns(g) == IF g \in Clients THEN Goto(g, "read") ELSE FanoutNext(g, proc[g].todo)

SendLock(g) ==
    /\ At(g, "lock")
    /\ write[proc[g].to] = Nobody
    /\ write' = [write EXCEPT ![proc[g].to] = g]
    /\ Goto(g, "header")
    /\ UNCHANGED <<subscribers, conn, pairs, buf, begun, commands, owed>>

\* Mutant of SendHeader: the mutex covers one Write only.
SendHeaderUnlocks(g) ==
    /\ At(g, "header")
    /\ CanWrite(proc[g].to)
    /\ WritePart(g, proc[g].to, "header")
    /\ Unlock(proc[g].to)
    /\ Goto(g, "payload")
    /\ UNCHANGED <<subscribers, conn, pairs, commands, owed>>

SendHeader(g) ==
    /\ At(g, "header")
    /\ CanWrite(proc[g].to)
    /\ WritePart(g, proc[g].to, "header")
    /\ Goto(g, "payload")
    /\ UNCHANGED <<subscribers, conn, pairs, write, commands, owed>>

SendPayload(g) ==
    /\ At(g, "payload")
    /\ CanWrite(proc[g].to)
    /\ WritePart(g, proc[g].to, "payload")
    /\ Unlock(proc[g].to)
    /\ owed' = [owed EXCEPT ![proc[g].to] = @ \ {Frame(g)}]
    /\ SendReturns(g)
    /\ UNCHANGED <<subscribers, conn, pairs, commands>>

\* Mutant of SendFails: fanout gives up at the first client that cannot be reached.
SendFailsEndsFanout(g) ==
    /\ At(g, "header") \/ At(g, "payload")
    /\ conn[proc[g].to] # "open"
    /\ Unlock(proc[g].to)
    /\ IF g \in Clients THEN Goto(g, "read") ELSE FanoutNext(g, {})
    /\ UNCHANGED <<subscribers, conn, pairs, buf, begun, commands, owed>>

\* Write returns an error, also one that was blocked when the connection went.
\* fanout and the read loop ignore it.
SendFails(g) ==
    /\ At(g, "header") \/ At(g, "payload")
    /\ conn[proc[g].to] # "open"
    /\ Unlock(proc[g].to)
    /\ SendReturns(g)
    /\ UNCHANGED <<subscribers, conn, pairs, buf, begun, commands, owed>>

SendFrame(g) == SendLock(g) \/ SendHeader(g) \/ SendPayload(g) \/ SendFails(g)

-----------------------------------------------------------------------------
(* Update's callback: fanout *)

\* The rate is in the cache (SpotService), onUpdate is called, and fanout takes
\* its snapshot under the read lock.
Fanout(u, r) ==
    /\ At(u, "idle")
    /\ IF subscribers = {}
         THEN UNCHANGED proc
         ELSE \E c \in subscribers :
                proc' = [proc EXCEPT ![u] = [at |-> "want", to |-> c,
                                             todo |-> subscribers \ {c}, rate |-> r]]
    /\ owed' = [c \in Clients |-> IF c \in subscribers /\ conn[c] = "open"
                                       /\ PairOf[r] \in pairs[c]
                                    THEN owed[c] \cup {r} ELSE owed[c]]
    /\ UNCHANGED <<subscribers, conn, pairs, write, buf, begun, commands>>

\* The pair set is read under the subscriber's write mutex.
FanoutWant(u) ==
    /\ At(u, "want")
    /\ write[proc[u].to] = Nobody
    /\ IF PairOf[proc[u].rate] \in pairs[proc[u].to]
         THEN Goto(u, "lock") ELSE FanoutNext(u, proc[u].todo)
    /\ UNCHANGED <<subscribers, conn, pairs, write, buf, begun, commands, owed>>

FanoutStep(u) == FanoutWant(u) \/ SendFrame(u)

-----------------------------------------------------------------------------
(* ratesSubscribeHandler: one goroutine per connection. *)

\* hijackAndUpgrade succeeded and the subscriber is added.
Connect(c) ==
    /\ At(c, "idle")
    /\ conn' = [conn EXCEPT ![c] = "open"]
    /\ subscribers' = subscribers \cup {c}
    /\ proc' = [proc EXCEPT ![c].at = "read", ![c].to = c]
    /\ UNCHANGED <<pairs, write, buf, begun, commands, owed>>

\* readWSFrame yields a command.
ReadCommand(c) ==
    /\ At(c, "read")
    /\ conn[c] = "open"
    /\ commands < MaxCommands
    /\ commands' = commands + 1
    /\ Goto(c, "command")
    /\ UNCHANGED <<subscribers, conn, pairs, write, buf, begun, owed>>

\* A frame without a command: ping, pong, an empty or an unparseable payload.  The
\* loop starts over without touching the write mutex.
SkipFrame(c) ==
    /\ At(c, "read")
    /\ conn[c] = "open"
    /\ Goto(c, "loop")
    /\ UNCHANGED <<subscribers, conn, pairs, write, buf, begun, commands, owed>>

\* The next read gets a deadline of its own, 60 s from now.
NextRead(c) ==
    /\ At(c, "loop")
    /\ Goto(c, "read")
    /\ UNCHANGED <<subscribers, conn, pairs, write, buf, begun, commands, owed>>

\* The deferred wsHub.remove, which closes the connection.
Remove(c) ==
    /\ subscribers' = subscribers \ {c}
    /\ conn' = [conn EXCEPT ![c] = "closed"]
    /\ Lose(c)
    /\ Goto(c, "gone")
    /\ UNCHANGED <<pairs, write, commands>>

\* Mutant of ReadFails: no read deadline is set.
ReadFailsWithoutDeadline(c) == At(c, "read") /\ conn[c] # "open" /\ Remove(c)

\* No frame comes before the deadline of this read, a close frame comes, or the
\* connection is broken.
ReadFails(c) == At(c, "read") /\ Remove(c)

\* The command is carried out under the write mutex: subscribe, unsubscribe, a
\* ping, which releases it again before sendFrame takes it, or an unknown or
\* missing action, which does nothing.
HandleCommand(c) ==
    /\ At(c, "command")
    /\ write[c] = Nobody
    /\ \/ \E p \in Pairs :
            /\ pairs' = [pairs EXCEPT ![c] = @ \cup {p}]
            /\ UNCHANGED owed
            /\ Goto(c, "read")
       \/ \E p \in Pairs :
            /\ pairs' = [pairs EXCEPT ![c] = @ \ {p}]
            /\ owed' = [owed EXCEPT ![c] = {r \in @ : PairOf[r] # p}]
            /\ Goto(c, "read")
       \/ Goto(c, "lock") /\ UNCHANGED <<pairs, owed>>
       \/ Goto(c, "read") /\ UNCHANGED <<pairs, owed>>
    /\ UNCHANGED <<subscribers, conn, write, buf, begun, commands>>

ServeClient(c) == HandleCommand(c) \/ NextRead(c) \/ ReadFails(c) \/ SendFrame(c)

-----------------------------------------------------------------------------
(* The client. *)

ClientReads(c) ==
    /\ buf[c] # <<>>
    /\ buf' = [buf EXCEPT ![c] = Tail(@)]
    /\ UNCHANGED <<subscribers, conn, pairs, write, begun, commands, proc, owed>>

ClientBreaks(c) ==
    /\ conn[c] = "open"
    /\ conn' = [conn EXCEPT ![c] = "broken"]
    /\ Lose(c)
    /\ UNCHANGED <<subscribers, pairs, write, commands, proc>>
=============================================================================
