--------------------------- MODULE RateStreamProofs ---------------------------
(***************************************************************************)
(* Proofs about the live rates, for any clients, updaters, pairs, rates    *)
(* and buffer sizes: frames on a connection are never torn, an Update      *)
(* leaves no subscriber out, and the feed never sends on a closed channel. *)
(***************************************************************************)
EXTENDS RateStream, TLAPS

ProcState == [at : {"idle", "want", "lock", "header", "payload", "read", "loop", "command", "gone"},
              to : Clients \cup {Nobody}, todo : SUBSET Clients, rate : Rates \cup {Nobody}]

\* Where a goroutine is tells which of its locals mean something.
Shaped ==
    /\ \A c \in Clients : /\ proc[c].at # "want"
                          /\ proc[c].at # "idle" => proc[c].to = c
    /\ \A u \in Updaters : /\ proc[u].at \in {"idle", "want", "lock", "header", "payload"}
                           /\ proc[u].at = "idle" => proc[u] = Idle
                           /\ proc[u].at # "idle" => proc[u].to \in Clients /\ proc[u].rate \in Rates

\* A frame is written by the goroutine that holds the mutex, and nobody else
\* holds it.
Mutex ==
    /\ \A g \in Goroutines : proc[g].at \in {"header", "payload"} => write[proc[g].to] = g
    /\ \A c \in Clients : write[c] # Nobody => /\ proc[write[c]].at \in {"header", "payload"}
                                              /\ proc[write[c]].to = c

\* The header that the holder of the mutex of c has written the payload of not yet.
HeaderOut(c) ==
    IF write[c] # Nobody /\ proc[write[c]].at = "payload"
      THEN [frame |-> Frame(write[c]), of |-> write[c], kind |-> "header"]
      ELSE NoPart

\* On a connection that may still be written to, a header is without its payload
\* only while the goroutine that wrote it holds the mutex.
Begun ==
    /\ \A c \in Clients : conn[c] \in {"none", "open"} => begun[c] = HeaderOut(c)
    /\ \A g \in Goroutines : proc[g].at = "payload" => conn[proc[g].to] # "none"

\* A connection is opened once.
Fresh == \A c \in Clients : proc[c].at = "idle" => conn[c] = "none"

\* What is owed to a client is in the hands of an Update that has yet to come to
\* this client.
Owing ==
    \A c \in Clients : \A r \in owed[c] :
        /\ conn[c] = "open" /\ PairOf[r] \in pairs[c]
        /\ \E u \in Updaters : proc[u].rate = r /\ c \in proc[u].todo \cup {proc[u].to}

HubInv == /\ HubTypeOK /\ buf \in [Clients -> Seq(Part)]
          /\ Shaped /\ Fresh /\ Mutex /\ Begun /\ Owing

\* Close empties the list of channels, and nothing is added to it afterwards.
FeedInv == FeedTypeOK /\ (feedClosed => ~inSubs) /\ (chanClosed => feedClosed)

\* The inductive invariant.
StreamInv == FeedInv /\ HubInv /\ polled \subseteq Pollers

-----------------------------------------------------------------------------
(* How a step of one goroutine changes where it is. *)

LEMMA GoroutineKinds ==
    /\ Goroutines = Clients \cup Updaters /\ Clients \cap Updaters = {}
    /\ Nobody \notin Goroutines /\ Nobody \notin Rates /\ Pong \notin Rates
BY HubAssumption DEF Goroutines

LEMMA ProcTyped == HubInv => proc \in [Goroutines -> ProcState]
BY DEF HubInv, HubTypeOK, ProcState

\* Only g has moved.
Moved(g) == /\ proc' \in [Goroutines -> ProcState]
            /\ \A h \in Goroutines \ {g} : proc'[h] = proc[h]

LEMMA GotoMoves ==
    ASSUME HubInv, NEW g \in Goroutines,
           NEW l \in {"idle", "want", "lock", "header", "payload", "read", "loop", "command", "gone"},
           Goto(g, l)
    PROVE  /\ Moved(g) /\ proc'[g].at = l
           /\ proc'[g].to = proc[g].to /\ proc'[g].todo = proc[g].todo
           /\ proc'[g].rate = proc[g].rate
BY ProcTyped DEF Goto, Moved, ProcState

LEMMA FanoutNextMoves ==
    ASSUME HubInv, NEW u \in Updaters, FanoutNext(u, proc[u].todo)
    PROVE  /\ Moved(u)
           /\ \/ proc[u].todo = {} /\ proc'[u] = Idle
              \/ /\ proc'[u].at = "want" /\ proc'[u].to \in proc[u].todo
                 /\ proc'[u].todo = proc[u].todo \ {proc'[u].to}
                 /\ proc'[u].rate = proc[u].rate
<1>1. u \in Goroutines /\ proc[u] \in ProcState /\ proc \in [Goroutines -> ProcState]
  BY ProcTyped DEF Goroutines
<1>2. CASE proc[u].todo = {}
  <2>1. proc' = [proc EXCEPT ![u] = Idle]
    BY <1>2 DEF FanoutNext
  <2>2. Idle \in ProcState
    BY DEF Idle, ProcState
  <2> QED BY <1>1, <1>2, <2>1, <2>2 DEF Moved
<1>3. CASE proc[u].todo # {}
  <2>1. PICK c \in proc[u].todo :
           proc' = [proc EXCEPT ![u].at = "want", ![u].to = c, ![u].todo = proc[u].todo \ {c}]
    BY <1>3 DEF FanoutNext
  <2>2. c \in Clients /\ proc[u].todo \ {c} \in SUBSET Clients
    BY <1>1 DEF ProcState
  <2> QED BY <1>1, <2>1, <2>2 DEF Moved, ProcState
<1> QED BY <1>2, <1>3

\* Both ways out of sendFrame and the step past a client that does not want the
\* pair: g holds no mutex afterwards, and fanout still has its other clients.
LEMMA ReturnMoves ==
    ASSUME HubInv, NEW g \in Goroutines, proc[g].at # "idle",
           SendReturns(g) \/ (g \in Updaters /\ FanoutNext(g, proc[g].todo))
    PROVE  /\ Moved(g) /\ Shaped' /\ proc'[g].at \in {"idle", "want", "read"}
           /\ g \in Clients => proc'[g].at = "read"
           /\ g \in Updaters => \A c \in proc[g].todo : /\ proc'[g].rate = proc[g].rate
                                                      /\ c \in proc'[g].todo \cup {proc'[g].to}
<1>1. CASE g \in Clients
  <2>1. Goto(g, "read") /\ g \notin Updaters
    BY <1>1, GoroutineKinds DEF SendReturns
  <2>2. /\ Moved(g) /\ proc'[g].at = "read"
        /\ proc'[g].to = proc[g].to /\ proc'[g].todo = proc[g].todo /\ proc'[g].rate = proc[g].rate
    BY <2>1, GotoMoves
  <2>3. Shaped'
    BY <1>1, <2>1, <2>2, GoroutineKinds DEF HubInv, Shaped, Moved
  <2> QED BY <2>1, <2>2, <2>3
<1>2. CASE g \in Updaters
  <2>1. FanoutNext(g, proc[g].todo)
    BY <1>2, GoroutineKinds DEF SendReturns
  <2>2. /\ Moved(g)
        /\ \/ proc[g].todo = {} /\ proc'[g] = Idle
           \/ /\ proc'[g].at = "want" /\ proc'[g].to \in proc[g].todo
              /\ proc'[g].todo = proc[g].todo \ {proc'[g].to}
              /\ proc'[g].rate = proc[g].rate
    BY <1>2, <2>1, FanoutNextMoves
  <2>3. proc'[g].at \in {"idle", "want"}
    BY <2>2 DEF Idle
  <2>4. proc[g].todo \subseteq Clients /\ proc[g].rate \in Rates
    BY <1>2, ProcTyped DEF ProcState, HubInv, Shaped
  <2>5. Shaped'
    <3>1. proc'[g].at = "idle" => proc'[g] = Idle
      BY <2>2
    <3>2. proc'[g].at # "idle" => proc'[g].to \in Clients /\ proc'[g].rate \in Rates
      BY <2>2, <2>4 DEF Idle
    <3>3. \A h \in Goroutines : h # g => proc'[h] = proc[h]
      BY <2>2 DEF Moved
    <3>4. \A c \in Clients : c # g /\ c \in Goroutines
      BY <1>2, GoroutineKinds
    <3> QED BY <2>3, <3>1, <3>2, <3>3, <3>4, GoroutineKinds DEF HubInv, Shaped
  <2> QED BY <1>2, <2>2, <2>3, <2>5, GoroutineKinds
<1> QED BY <1>1, <1>2, GoroutineKinds

-----------------------------------------------------------------------------
(* How the parts of the invariant carry over. *)

\* Nothing new is owed, and g keeps the clients it has yet to come to.
LEMMA OwingKept ==
    ASSUME HubInv, NEW g \in Goroutines, Moved(g), UNCHANGED <<conn, pairs>>,
           \A c \in Clients : owed'[c] \subseteq owed[c],
           g \in Updaters => \A c \in Clients : \A r \in owed'[c] :
               proc[g].rate = r /\ c \in proc[g].todo \cup {proc[g].to} =>
               proc'[g].rate = r /\ c \in proc'[g].todo \cup {proc'[g].to}
    PROVE  Owing'
<1> SUFFICES ASSUME NEW c \in Clients, NEW r \in owed'[c]
             PROVE  /\ conn'[c] = "open" /\ PairOf[r] \in pairs'[c]
                    /\ \E u \in Updaters : proc'[u].rate = r /\ c \in proc'[u].todo \cup {proc'[u].to}
  BY DEF Owing
<1>1. PICK u \in Updaters : proc[u].rate = r /\ c \in proc[u].todo \cup {proc[u].to}
  BY DEF HubInv, Owing
<1>2. conn[c] = "open" /\ PairOf[r] \in pairs[c]
  BY DEF HubInv, Owing
<1>3. proc'[u].rate = r /\ c \in proc'[u].todo \cup {proc'[u].to}
  BY <1>1, GoroutineKinds DEF Moved
<1> QED BY <1>2, <1>3

LEMMA FreshKept ==
    ASSUME HubInv, NEW g \in Goroutines, Moved(g), conn' = conn,
           g \in Clients => proc'[g].at # "idle"
    PROVE  Fresh'
BY GoroutineKinds DEF HubInv, Fresh, Moved

\* g neither had nor gets the mutex of a client.
LEMMA MutexKept ==
    ASSUME HubInv, NEW g \in Goroutines, Moved(g), write' = write,
           proc[g].at \notin {"header", "payload"}, proc'[g].at \notin {"header", "payload"}
    PROVE  Mutex'
<1>1. \A c \in Clients : write[c] # Nobody => write[c] \in Goroutines /\ write[c] # g
  BY DEF HubInv, HubTypeOK, Mutex
<1>2. \A h \in Goroutines : proc'[h].at \in {"header", "payload"} => write'[proc'[h].to] = h
  BY DEF HubInv, Mutex, Moved
<1> QED BY <1>1, <1>2 DEF HubInv, Mutex, Moved

LEMMA HeaderSame ==
    ASSUME NEW c \in Clients, write'[c] = write[c],
           write[c] # Nobody => proc'[write[c]] = proc[write[c]]
    PROVE  HeaderOut(c)' = HeaderOut(c)
<1>1. CASE write[c] = Nobody
  BY <1>1 DEF HeaderOut
<1>2. CASE write[c] # Nobody
  BY <1>2 DEF HeaderOut, Frame
<1> QED BY <1>1, <1>2

LEMMA BegunKept ==
    ASSUME HubInv, NEW g \in Goroutines, Moved(g), UNCHANGED <<write, conn, begun>>,
           proc[g].at \notin {"header", "payload"}, proc'[g].at \notin {"header", "payload"}
    PROVE  Begun'
<1>1. \A c \in Clients : write[c] # Nobody => write[c] \in Goroutines /\ write[c] # g
  BY DEF HubInv, HubTypeOK, Mutex
<1>2. \A c \in Clients : HeaderOut(c)' = HeaderOut(c)
  BY <1>1, HeaderSame DEF Moved
<1> QED BY <1>2 DEF HubInv, Begun, Moved

LEMMA GotoShaped ==
    ASSUME HubInv, NEW g \in Goroutines, proc[g].at # "idle",
           NEW l \in {"lock", "header", "payload", "read", "loop", "command", "gone"}, Goto(g, l),
           g \in Updaters => l \in {"lock", "header", "payload"}
    PROVE  Shaped'
<1>1. /\ Moved(g) /\ proc'[g].at = l /\ proc'[g].to = proc[g].to /\ proc'[g].rate = proc[g].rate
  BY GotoMoves
<1>2. ASSUME NEW c \in Clients
      PROVE  proc'[c].at # "want" /\ (proc'[c].at # "idle" => proc'[c].to = c)
  BY <1>1, GoroutineKinds DEF HubInv, Shaped, Moved
<1>3. ASSUME NEW u \in Updaters
      PROVE  /\ proc'[u].at \in {"idle", "want", "lock", "header", "payload"}
             /\ proc'[u].at = "idle" => proc'[u] = Idle
             /\ proc'[u].at # "idle" => proc'[u].to \in Clients /\ proc'[u].rate \in Rates
  BY <1>1, GoroutineKinds DEF HubInv, Shaped, Moved
<1> QED BY <1>2, <1>3 DEF Shaped

\* The client a goroutine is at, and the frame it writes.
LEMMA TargetTyped ==
    ASSUME HubInv, NEW g \in Goroutines, proc[g].at # "idle"
    PROVE  /\ proc[g].to \in Clients
           /\ Frame(g) \in Rates \cup {Pong}
           /\ g \in Updaters => Frame(g) = proc[g].rate
           /\ g \in Clients => Frame(g) = Pong
BY GoroutineKinds DEF HubInv, Shaped, Frame

\* g, which holds the mutex of its client, gives it up.
LEMMA UnlockKeeps ==
    ASSUME HubInv, NEW g \in Goroutines, proc[g].at \in {"header", "payload"},
           Unlock(proc[g].to), Moved(g), proc'[g].at \notin {"header", "payload"},
           conn' = conn,
           \A c \in Clients \ {proc[g].to} : begun'[c] = begun[c],
           conn[proc[g].to] \in {"none", "open"} => begun'[proc[g].to] = NoPart
    PROVE  write' \in [Clients -> Goroutines \cup {Nobody}] /\ Mutex' /\ Begun'
<1>1. /\ proc[g].to \in Clients /\ write \in [Clients -> Goroutines \cup {Nobody}]
      /\ write[proc[g].to] = g /\ Nobody \notin Goroutines
  BY TargetTyped, GoroutineKinds DEF HubInv, HubTypeOK, Mutex
<1>2. /\ write' \in [Clients -> Goroutines \cup {Nobody}]
      /\ write'[proc[g].to] = Nobody
      /\ \A c \in Clients \ {proc[g].to} : write'[c] = write[c]
  BY <1>1 DEF Unlock
<1>3. \A c \in Clients : write'[c] # Nobody => /\ c # proc[g].to /\ write'[c] = write[c]
                                              /\ write[c] \in Goroutines \ {g}
  BY <1>1, <1>2 DEF HubInv, Mutex
<1>4. Mutex'
  <2>1. ASSUME NEW h \in Goroutines, proc'[h].at \in {"header", "payload"}
        PROVE  write'[proc'[h].to] = h
    <3>1. h # g /\ proc'[h] = proc[h] /\ write[proc[h].to] = h /\ proc[h].to \in Clients
      BY <2>1, TargetTyped DEF Moved, HubInv, Mutex
    <3> QED BY <1>1, <1>2, <3>1
  <2> QED BY <1>3, <2>1 DEF HubInv, Mutex, Moved
<1>5. Begun'
  <2>1. \A h \in Goroutines : h # g => proc'[h] = proc[h]
    BY DEF Moved
  <2>2. ASSUME NEW c \in Clients, conn'[c] \in {"none", "open"} PROVE begun'[c] = HeaderOut(c)'
    <3>1. CASE c = proc[g].to
      BY <1>2, <2>2, <3>1 DEF HeaderOut
    <3>2. CASE c # proc[g].to
      BY <1>2, <1>3, <2>1, <2>2, <3>2, HeaderSame DEF HubInv, Begun
    <3> QED BY <3>1, <3>2
  <2>3. \A h \in Goroutines : proc'[h].at = "payload" => conn'[proc'[h].to] # "none"
    BY <2>1 DEF HubInv, Begun
  <2> QED BY <2>2, <2>3 DEF Begun
<1> QED BY <1>2, <1>4, <1>5

-----------------------------------------------------------------------------
(* sendFrame *)

LEMMA SendLockKeeps ==
    ASSUME HubInv, NEW g \in Goroutines, SendLock(g)
    PROVE  HubInv'
<1> DEFINE c == proc[g].to
<1>1. /\ proc[g].at = "lock" /\ c \in Clients /\ write[c] = Nobody
      /\ write' = [write EXCEPT ![c] = g] /\ Goto(g, "header")
      /\ UNCHANGED <<subscribers, conn, pairs, buf, begun, commands, owed>>
  BY TargetTyped DEF SendLock, At
<1>2. /\ Moved(g) /\ proc'[g].at = "header" /\ proc'[g].to = c /\ proc'[g].todo = proc[g].todo
      /\ proc'[g].rate = proc[g].rate
  BY <1>1, GotoMoves
<1>3. Shaped'
  BY <1>1, GotoShaped
<1>4. Owing' /\ Fresh'
  BY <1>1, <1>2, OwingKept, FreshKept
<1>5. /\ write \in [Clients -> Goroutines \cup {Nobody}]
      /\ write' \in [Clients -> Goroutines \cup {Nobody}] /\ write'[c] = g
      /\ \A d \in Clients \ {c} : write'[d] = write[d] /\ write'[d] # g
      /\ Nobody \notin Goroutines
  BY <1>1, GoroutineKinds DEF HubInv, HubTypeOK, Mutex
<1>6. HubTypeOK' /\ buf' \in [Clients -> Seq(Part)]
  BY <1>1, <1>2, <1>5 DEF HubInv, HubTypeOK, Moved, ProcState
<1>7. \A h \in Goroutines : h # g => proc'[h] = proc[h]
  BY <1>2 DEF Moved
<1>8. Mutex'
  <2>1. ASSUME NEW h \in Goroutines, proc'[h].at \in {"header", "payload"}
        PROVE  write'[proc'[h].to] = h
    <3>1. CASE h # g
      <4>1. proc'[h] = proc[h] /\ write[proc[h].to] = h /\ proc[h].to \in Clients
        BY <1>7, <2>1, <3>1, TargetTyped DEF HubInv, Mutex
      <4> QED BY <1>1, <1>5, <4>1
    <3> QED BY <1>2, <1>5, <3>1
  <2>2. ASSUME NEW d \in Clients, write'[d] # Nobody
        PROVE  proc'[write'[d]].at \in {"header", "payload"} /\ proc'[write'[d]].to = d
    BY <1>2, <1>5, <1>7, <2>2 DEF HubInv, Mutex
  <2> QED BY <2>1, <2>2 DEF Mutex
<1>9. Begun'
  <2>1. ASSUME NEW d \in Clients, conn'[d] \in {"none", "open"} PROVE begun'[d] = HeaderOut(d)'
    <3>1. CASE d = c
      BY <1>1, <1>2, <1>5, <2>1, <3>1 DEF HubInv, Begun, HeaderOut
    <3>2. CASE d # c
      BY <1>1, <1>5, <1>7, <2>1, <3>2, HeaderSame DEF HubInv, Begun
    <3> QED BY <3>1, <3>2
  <2>2. \A h \in Goroutines : proc'[h].at = "payload" => conn'[proc'[h].to] # "none"
    BY <1>1, <1>2, <1>7 DEF HubInv, Begun
  <2> QED BY <2>1, <2>2 DEF Begun
<1> QED BY <1>3, <1>4, <1>6, <1>8, <1>9 DEF HubInv

LEMMA WritePartTyped ==
    ASSUME HubInv, NEW g \in Goroutines, NEW c \in Clients, NEW k \in {"header", "payload"},
           proc[g].at # "idle", CanWrite(c), WritePart(g, c, k)
    PROVE  /\ buf' \in [Clients -> Seq(Part)]
           /\ \A d \in Clients : Len(buf'[d]) <= BufferSize
           /\ begun' \in [Clients -> Part \cup {NoPart}]
           /\ begun'[c] = IF k = "header" THEN [frame |-> Frame(g), of |-> g, kind |-> "header"] ELSE NoPart
           /\ \A d \in Clients \ {c} : begun'[d] = begun[d] /\ buf'[d] = buf[d]
           /\ buf'[c] = Append(buf[c], [frame |-> Frame(g), of |-> g, kind |-> k])
<1> DEFINE part == [frame |-> Frame(g), of |-> g, kind |-> k]
<1>1. part \in Part
  BY TargetTyped DEF Part
<1>2. /\ buf \in [Clients -> Seq(Part)] /\ begun \in [Clients -> Part \cup {NoPart}]
      /\ \A d \in Clients : Len(buf[d]) <= BufferSize
  BY DEF HubInv, HubTypeOK
<1>3. /\ buf' = [buf EXCEPT ![c] = Append(buf[c], part)]
      /\ begun' = [begun EXCEPT ![c] = IF k = "header" THEN part ELSE NoPart]
  BY <1>2 DEF WritePart
<1> HIDE DEF part
<1>4. Append(buf[c], part) \in Seq(Part) /\ Len(Append(buf[c], part)) = Len(buf[c]) + 1
      /\ Len(buf[c]) \in Nat /\ Len(buf[c]) < BufferSize /\ BufferSize \in Nat
  BY <1>1, <1>2, HubAssumption DEF CanWrite
<1>5. buf' \in [Clients -> Seq(Part)] /\ \A d \in Clients : Len(buf'[d]) <= BufferSize
  BY <1>2, <1>3, <1>4
<1>6. begun' \in [Clients -> Part \cup {NoPart}]
  BY <1>1, <1>2, <1>3
<1> QED BY <1>2, <1>3, <1>5, <1>6 DEF part

LEMMA SendHeaderKeeps ==
    ASSUME HubInv, NEW g \in Goroutines, SendHeader(g)
    PROVE  HubInv'
<1> DEFINE c == proc[g].to
<1>1. /\ proc[g].at = "header" /\ c \in Clients /\ write[c] = g /\ CanWrite(c)
      /\ WritePart(g, c, "header") /\ Goto(g, "payload")
      /\ UNCHANGED <<subscribers, conn, pairs, write, commands, owed>>
  BY TargetTyped DEF SendHeader, At, HubInv, Mutex
<1>2. /\ Moved(g) /\ proc'[g].at = "payload" /\ proc'[g].to = c /\ proc'[g].todo = proc[g].todo
      /\ proc'[g].rate = proc[g].rate
  BY <1>1, GotoMoves
<1>3. Shaped'
  BY <1>1, GotoShaped
<1>4. Owing' /\ Fresh'
  BY <1>1, <1>2, OwingKept, FreshKept
<1>5. /\ buf' \in [Clients -> Seq(Part)]
      /\ \A d \in Clients : Len(buf'[d]) <= BufferSize
      /\ begun' \in [Clients -> Part \cup {NoPart}]
      /\ begun'[c] = [frame |-> Frame(g), of |-> g, kind |-> "header"]
      /\ \A d \in Clients \ {c} : begun'[d] = begun[d]
  BY <1>1, WritePartTyped
<1>6. HubTypeOK'
  BY <1>1, <1>2, <1>5 DEF HubInv, HubTypeOK, Moved, ProcState
<1>7. \A h \in Goroutines : h # g => proc'[h] = proc[h]
  BY <1>2 DEF Moved
<1>8. \A d \in Clients : write[d] # Nobody => write[d] \in Goroutines /\ (write[d] = g => d = c)
  BY DEF HubInv, HubTypeOK, Mutex
<1>9. Mutex'
  BY <1>1, <1>2, <1>7, <1>8 DEF HubInv, Mutex
<1>10. Begun'
  <2>1. ASSUME NEW d \in Clients, conn'[d] \in {"none", "open"} PROVE begun'[d] = HeaderOut(d)'
    <3>1. CASE d = c
      BY <1>1, <1>2, <1>5, <3>1, GoroutineKinds DEF HeaderOut, Frame
    <3>2. CASE d # c
      BY <1>1, <1>5, <1>7, <1>8, <2>1, <3>2, HeaderSame DEF HubInv, Begun
    <3> QED BY <3>1, <3>2
  <2>2. \A h \in Goroutines : proc'[h].at = "payload" => conn'[proc'[h].to] # "none"
    BY <1>1, <1>2, <1>7 DEF HubInv, Begun, CanWrite
  <2> QED BY <2>1, <2>2 DEF Begun
<1> QED BY <1>3, <1>4, <1>5, <1>6, <1>9, <1>10 DEF HubInv

LEMMA SendPayloadKeeps ==
    ASSUME HubInv, NEW g \in Goroutines, SendPayload(g)
    PROVE  HubInv'
<1> DEFINE c == proc[g].to
<1>1. /\ proc[g].at = "payload" /\ c \in Clients /\ CanWrite(c) /\ WritePart(g, c, "payload")
      /\ Unlock(c) /\ owed' = [owed EXCEPT ![c] = @ \ {Frame(g)}] /\ SendReturns(g)
      /\ UNCHANGED <<subscribers, conn, pairs, commands>>
  BY TargetTyped DEF SendPayload, At
<1>2. /\ Moved(g) /\ Shaped' /\ proc'[g].at \in {"idle", "want", "read"}
      /\ g \in Clients => proc'[g].at = "read"
      /\ g \in Updaters => \A d \in proc[g].todo : /\ proc'[g].rate = proc[g].rate
                                                 /\ d \in proc'[g].todo \cup {proc'[g].to}
  BY <1>1, ReturnMoves
<1>3. /\ buf' \in [Clients -> Seq(Part)]
      /\ \A d \in Clients : Len(buf'[d]) <= BufferSize
      /\ begun' \in [Clients -> Part \cup {NoPart}] /\ begun'[c] = NoPart
      /\ \A d \in Clients \ {c} : begun'[d] = begun[d]
  BY <1>1, WritePartTyped
<1>4. write' \in [Clients -> Goroutines \cup {Nobody}] /\ Mutex' /\ Begun'
  BY <1>1, <1>2, <1>3, UnlockKeeps
<1>5. /\ owed' \in [Clients -> SUBSET Rates] /\ \A d \in Clients : owed'[d] \subseteq owed[d]
      /\ Frame(g) \notin owed'[c]
  BY <1>1 DEF HubInv, HubTypeOK
<1>6. HubTypeOK'
  BY <1>1, <1>2, <1>3, <1>4, <1>5 DEF HubInv, HubTypeOK, Moved, ProcState
<1>7. g \in Updaters => \A d \in Clients : \A r \in owed'[d] :
               proc[g].rate = r /\ d \in proc[g].todo \cup {proc[g].to} =>
               proc'[g].rate = r /\ d \in proc'[g].todo \cup {proc'[g].to}
  BY <1>1, <1>2, <1>5, TargetTyped
<1>8. Owing' /\ Fresh'
  BY <1>1, <1>2, <1>5, <1>7, OwingKept, FreshKept
<1> QED BY <1>2, <1>3, <1>4, <1>6, <1>8 DEF HubInv

LEMMA SendFailsKeeps ==
    ASSUME HubInv, NEW g \in Goroutines, SendFails(g)
    PROVE  HubInv'
<1> DEFINE c == proc[g].to
<1>1. /\ proc[g].at \in {"header", "payload"} /\ c \in Clients /\ write[c] = g
      /\ conn[c] # "open" /\ Unlock(c) /\ SendReturns(g)
      /\ UNCHANGED <<subscribers, conn, pairs, buf, begun, commands, owed>>
  BY TargetTyped DEF SendFails, At, HubInv, Mutex
<1>2. /\ Moved(g) /\ Shaped' /\ proc'[g].at \in {"idle", "want", "read"}
      /\ g \in Clients => proc'[g].at = "read"
      /\ g \in Updaters => \A d \in proc[g].todo : /\ proc'[g].rate = proc[g].rate
                                                 /\ d \in proc'[g].todo \cup {proc'[g].to}
  BY <1>1, ReturnMoves
<1>3. conn[c] \in {"none", "open"} => begun'[c] = NoPart
  BY <1>1 DEF HubInv, Begun, HeaderOut
<1>4. write' \in [Clients -> Goroutines \cup {Nobody}] /\ Mutex' /\ Begun'
  BY <1>1, <1>2, <1>3, UnlockKeeps
<1>5. HubTypeOK' /\ buf' \in [Clients -> Seq(Part)]
  BY <1>1, <1>2, <1>4 DEF HubInv, HubTypeOK, Moved, ProcState
<1>6. owed[c] = {}
  BY <1>1 DEF HubInv, Owing
<1>7. Owing' /\ Fresh'
  BY <1>1, <1>2, <1>6, OwingKept, FreshKept
<1> QED BY <1>2, <1>4, <1>5, <1>7 DEF HubInv

-----------------------------------------------------------------------------
(* fanout *)

LEMMA FanoutWantKeeps ==
    ASSUME HubInv, NEW u \in Updaters, FanoutWant(u)
    PROVE  HubInv'
<1> DEFINE c == proc[u].to
<1>1. /\ proc[u].at = "want" /\ u \in Goroutines /\ c \in Clients
      /\ UNCHANGED <<subscribers, conn, pairs, write, buf, begun, commands, owed>>
  BY TargetTyped, GoroutineKinds DEF FanoutWant, At
<1>2. CASE PairOf[proc[u].rate] \in pairs[c]
  <2>1. Goto(u, "lock")
    BY <1>2 DEF FanoutWant
  <2>2. /\ Moved(u) /\ proc'[u].at = "lock" /\ proc'[u].to = c /\ proc'[u].todo = proc[u].todo
        /\ proc'[u].rate = proc[u].rate
    BY <1>1, <2>1, GotoMoves
  <2>3. Shaped'
    BY <1>1, <2>1, GotoShaped
  <2>4. Mutex' /\ Begun'
    BY <1>1, <2>2, MutexKept, BegunKept
  <2>5. Owing' /\ Fresh'
    BY <1>1, <2>2, OwingKept, FreshKept, GoroutineKinds
  <2>6. HubTypeOK' /\ buf' \in [Clients -> Seq(Part)]
    BY <1>1, <2>2 DEF HubInv, HubTypeOK, Moved, ProcState
  <2> QED BY <2>3, <2>4, <2>5, <2>6 DEF HubInv
<1>3. CASE PairOf[proc[u].rate] \notin pairs[c]
  <2>1. FanoutNext(u, proc[u].todo)
    BY <1>3 DEF FanoutWant
  <2>2. /\ Moved(u) /\ Shaped' /\ proc'[u].at \in {"idle", "want", "read"}
        /\ \A d \in proc[u].todo : /\ proc'[u].rate = proc[u].rate
                                   /\ d \in proc'[u].todo \cup {proc'[u].to}
    BY <1>1, <2>1, ReturnMoves
  <2>3. Mutex' /\ Begun'
    BY <1>1, <2>2, MutexKept, BegunKept
  <2>4. proc[u].rate \notin owed[c]
    BY <1>1, <1>3 DEF HubInv, Owing
  <2>5. Owing' /\ Fresh'
    BY <1>1, <2>2, <2>4, OwingKept, FreshKept, GoroutineKinds
  <2>6. HubTypeOK' /\ buf' \in [Clients -> Seq(Part)]
    BY <1>1, <2>2 DEF HubInv, HubTypeOK, Moved, ProcState
  <2> QED BY <2>2, <2>3, <2>5, <2>6 DEF HubInv
<1> QED BY <1>2, <1>3

LEMMA FanoutKeeps ==
    ASSUME HubInv, NEW u \in Updaters, NEW r \in Rates, Fanout(u, r)
    PROVE  HubInv'
<1>1. /\ u \in Goroutines /\ proc[u] = Idle /\ proc[u].at = "idle"
      /\ UNCHANGED <<subscribers, conn, pairs, write, buf, begun, commands>>
  BY GoroutineKinds DEF Fanout, At, HubInv, Shaped
<1>2. /\ owed' \in [Clients -> SUBSET Rates]
      /\ \A c \in Clients :
            owed'[c] = IF c \in subscribers /\ conn[c] = "open" /\ PairOf[r] \in pairs[c]
                         THEN owed[c] \cup {r} ELSE owed[c]
  BY DEF Fanout, HubInv, HubTypeOK
<1>3. /\ Moved(u) /\ proc'[u].at \in {"idle", "want"} /\ Shaped'
      /\ \A c \in subscribers : proc'[u].rate = r /\ c \in proc'[u].todo \cup {proc'[u].to}
  <2>1. CASE subscribers = {}
    <3>1. proc' = proc
      BY <2>1 DEF Fanout
    <3> QED BY <1>1, <2>1, <3>1, ProcTyped DEF Moved, HubInv, Shaped
  <2>2. CASE subscribers # {}
    <3>1. PICK c \in subscribers :
             proc' = [proc EXCEPT ![u] = [at |-> "want", to |-> c,
                                          todo |-> subscribers \ {c}, rate |-> r]]
      BY <2>2 DEF Fanout
    <3>2. c \in Clients /\ subscribers \subseteq Clients
      BY DEF HubInv, HubTypeOK
    <3>3. [at |-> "want", to |-> c, todo |-> subscribers \ {c}, rate |-> r] \in ProcState
      BY <3>2 DEF ProcState
    <3>4. /\ Moved(u) /\ proc'[u].at = "want" /\ proc'[u].to = c /\ proc'[u].rate = r
          /\ proc'[u].todo = subscribers \ {c}
      BY <1>1, <3>1, <3>3, ProcTyped DEF Moved
    <3>5. \A d \in Clients : d # u /\ d \in Goroutines
      BY GoroutineKinds
    <3>6. Shaped'
      <4>1. \A h \in Goroutines : h # u => proc'[h] = proc[h]
        BY <3>4 DEF Moved
      <4> QED BY <3>2, <3>4, <3>5, <4>1, GoroutineKinds DEF HubInv, Shaped
    <3> QED BY <3>4, <3>6
  <2> QED BY <2>1, <2>2
<1>4. Mutex' /\ Begun' /\ Fresh'
  BY <1>1, <1>3, MutexKept, BegunKept, FreshKept, GoroutineKinds
<1>5. HubTypeOK' /\ buf' \in [Clients -> Seq(Part)]
  BY <1>1, <1>2, <1>3 DEF HubInv, HubTypeOK, Moved, ProcState
<1>6. Owing'
  <2> SUFFICES ASSUME NEW c \in Clients, NEW s \in owed'[c]
               PROVE  /\ conn'[c] = "open" /\ PairOf[s] \in pairs'[c]
                      /\ \E v \in Updaters : proc'[v].rate = s /\ c \in proc'[v].todo \cup {proc'[v].to}
    BY DEF Owing
  <2>1. CASE s \in owed[c]
    <3>1. PICK v \in Updaters : proc[v].rate = s /\ c \in proc[v].todo \cup {proc[v].to}
      BY <2>1 DEF HubInv, Owing
    <3>2. s \in Rates
      BY <1>2
    <3>3. v # u
      BY <1>1, <3>1, <3>2, GoroutineKinds DEF Idle
    <3>4. proc'[v] = proc[v]
      BY <1>3, <3>3, GoroutineKinds DEF Moved
    <3> QED BY <1>1, <2>1, <3>1, <3>4 DEF HubInv, Owing
  <2>2. CASE s \notin owed[c]
    BY <1>1, <1>2, <1>3, <2>2
  <2> QED BY <2>1, <2>2
<1> QED BY <1>3, <1>4, <1>5, <1>6 DEF HubInv

-----------------------------------------------------------------------------
(* The goroutine of a connection, and its client *)

\* A client is on its own with its connection: it is no updater.
LEMMA OwingByOthers ==
    ASSUME HubInv, \A u \in Updaters : proc'[u] = proc[u],
           \A c \in Clients : \A r \in owed'[c] :
               r \in owed[c] /\ conn'[c] = "open" /\ PairOf[r] \in pairs'[c]
    PROVE  Owing'
<1> SUFFICES ASSUME NEW c \in Clients, NEW r \in owed'[c]
             PROVE  /\ conn'[c] = "open" /\ PairOf[r] \in pairs'[c]
                    /\ \E u \in Updaters : proc'[u].rate = r /\ c \in proc'[u].todo \cup {proc'[u].to}
  BY DEF Owing
<1>1. PICK u \in Updaters : proc[u].rate = r /\ c \in proc[u].todo \cup {proc[u].to}
  BY DEF HubInv, Owing
<1> QED BY <1>1

LEMMA LoseTyped ==
    ASSUME HubInv, NEW c \in Clients, Lose(c)
    PROVE  /\ buf' \in [Clients -> Seq(Part)]
           /\ \A d \in Clients : Len(buf'[d]) <= BufferSize
           /\ begun' \in [Clients -> Part \cup {NoPart}]
           /\ owed' \in [Clients -> SUBSET Rates]
           /\ owed' = [owed EXCEPT ![c] = {}]
           /\ \A d \in Clients \ {c} : begun'[d] = begun[d]
<1>1. /\ buf \in [Clients -> Seq(Part)] /\ begun \in [Clients -> Part \cup {NoPart}]
      /\ owed \in [Clients -> SUBSET Rates]
      /\ \A d \in Clients : Len(buf[d]) <= BufferSize
  BY DEF HubInv, HubTypeOK
<1>2. <<>> \in Seq(Part) /\ Len(<<>>) <= BufferSize
  BY HubAssumption
<1>3. buf' \in [Clients -> Seq(Part)] /\ \A d \in Clients : Len(buf'[d]) <= BufferSize
  BY <1>1, <1>2 DEF Lose
<1> QED BY <1>1, <1>3 DEF Lose

LEMMA ConnectKeeps ==
    ASSUME HubInv, NEW c \in Clients, Connect(c)
    PROVE  HubInv'
<1>1. /\ proc[c].at = "idle" /\ c \in Goroutines
      /\ conn' = [conn EXCEPT ![c] = "open"] /\ subscribers' = subscribers \cup {c}
      /\ proc' = [proc EXCEPT ![c].at = "read", ![c].to = c]
      /\ UNCHANGED <<pairs, write, buf, begun, commands, owed>>
  BY GoroutineKinds DEF Connect, At
<1>2. Moved(c) /\ proc'[c].at = "read" /\ proc'[c].to = c
  BY <1>1, ProcTyped DEF Moved, ProcState
<1>3. \A u \in Updaters : u # c /\ u \in Goroutines /\ proc'[u] = proc[u]
  BY <1>2, GoroutineKinds DEF Moved
<1>4. Shaped'
  BY <1>2, <1>3, GoroutineKinds DEF HubInv, Shaped, Moved
<1>5. /\ conn' \in [Clients -> {"none", "open", "broken", "closed"}] /\ conn'[c] = "open"
      /\ \A d \in Clients \ {c} : conn'[d] = conn[d]
  BY <1>1 DEF HubInv, HubTypeOK
<1>6. HubTypeOK' /\ buf' \in [Clients -> Seq(Part)]
  BY <1>1, <1>2, <1>5 DEF HubInv, HubTypeOK, Moved, ProcState
<1>7. Mutex'
  BY <1>1, <1>2, MutexKept
<1>8. conn[c] = "none" /\ Fresh'
  BY <1>1, <1>2, <1>5, GoroutineKinds DEF HubInv, Fresh, Moved
<1>9. Begun'
  <2>1. ASSUME NEW d \in Clients PROVE HeaderOut(d)' = HeaderOut(d)
    <3>1. write[d] \in Goroutines \cup {Nobody}
      BY DEF HubInv, HubTypeOK
    <3>2. write[d] # Nobody => write[d] # c
      BY <1>1 DEF HubInv, Mutex
    <3> QED BY <1>1, <1>2, <3>1, <3>2, HeaderSame DEF Moved
  <2>2. \A d \in Clients : conn'[d] \in {"none", "open"} => begun'[d] = HeaderOut(d)'
    BY <1>1, <1>5, <1>8, <2>1 DEF HubInv, Begun
  <2>3. ASSUME NEW h \in Goroutines, proc'[h].at = "payload" PROVE conn'[proc'[h].to] # "none"
    <3>1. h # c /\ proc'[h] = proc[h] /\ proc[h].to \in Clients
      BY <1>2, <2>3, TargetTyped DEF Moved
    <3> QED BY <1>5, <2>3, <3>1 DEF HubInv, Begun
  <2> QED BY <2>2, <2>3 DEF Begun
<1>10. Owing'
  <2>1. \A d \in Clients : \A r \in owed[d] : conn'[d] = "open" /\ PairOf[r] \in pairs[d]
    BY <1>5 DEF HubInv, Owing
  <2> QED BY <1>1, <1>3, <2>1, OwingByOthers
<1> QED BY <1>4, <1>6, <1>7, <1>8, <1>9, <1>10 DEF HubInv

LEMMA ReadCommandKeeps ==
    ASSUME HubInv, NEW c \in Clients, ReadCommand(c)
    PROVE  HubInv'
<1>1. /\ proc[c].at = "read" /\ c \in Goroutines /\ c \notin Updaters
      /\ Goto(c, "command") /\ commands < MaxCommands /\ commands' = commands + 1
      /\ UNCHANGED <<subscribers, conn, pairs, write, buf, begun, owed>>
  BY GoroutineKinds DEF ReadCommand, At
<1>2. Moved(c) /\ proc'[c].at = "command"
  BY <1>1, GotoMoves
<1>3. Shaped'
  BY <1>1, GotoShaped
<1>4. Mutex' /\ Begun' /\ Fresh'
  BY <1>1, <1>2, MutexKept, BegunKept, FreshKept
<1>5. Owing'
  BY <1>1, <1>2, OwingKept
<1>6. HubTypeOK' /\ buf' \in [Clients -> Seq(Part)]
  BY <1>1, <1>2, HubAssumption DEF HubInv, HubTypeOK, Moved, ProcState
<1> QED BY <1>3, <1>4, <1>5, <1>6 DEF HubInv

LEMMA LoopKeeps ==
    ASSUME HubInv, NEW c \in Clients, SkipFrame(c) \/ NextRead(c)
    PROVE  HubInv'
<1>1. PICK l \in {"loop", "read"} :
         /\ proc[c].at \in {"read", "loop"} /\ c \in Goroutines /\ c \notin Updaters
         /\ Goto(c, l)
         /\ UNCHANGED <<subscribers, conn, pairs, write, buf, begun, commands, owed>>
  BY GoroutineKinds DEF SkipFrame, NextRead, At
<1>2. Moved(c) /\ proc'[c].at = l
  BY <1>1, GotoMoves
<1>3. Shaped'
  BY <1>1, GotoShaped
<1>4. Mutex' /\ Begun' /\ Fresh'
  BY <1>1, <1>2, MutexKept, BegunKept, FreshKept
<1>5. Owing'
  BY <1>1, <1>2, OwingKept
<1>6. HubTypeOK' /\ buf' \in [Clients -> Seq(Part)]
  BY <1>1, <1>2 DEF HubInv, HubTypeOK, Moved, ProcState
<1> QED BY <1>3, <1>4, <1>5, <1>6 DEF HubInv

\* What a connection that goes away, here or at the peer, leaves behind.
LEMMA ConnLost ==
    ASSUME HubInv, NEW c \in Clients, Lose(c), NEW l \in {"broken", "closed"},
           conn' = [conn EXCEPT ![c] = l], UNCHANGED <<write, pairs>>,
           proc[c].at # "idle", Moved(c),
           \/ proc' = proc
           \/ proc[c].at \notin {"header", "payload"} /\ proc'[c].at \notin {"idle", "header", "payload"}
    PROVE  Fresh' /\ Mutex' /\ Begun' /\ Owing'
<1>1. /\ c \in Goroutines /\ \A u \in Updaters : u # c /\ u \in Goroutines
      /\ \A d \in Clients : d \in Goroutines
  BY GoroutineKinds
<1>2. /\ conn'[c] = l /\ \A d \in Clients \ {c} : conn'[d] = conn[d]
      /\ \A d \in Clients \ {c} : begun'[d] = begun[d]
      /\ owed'[c] = {} /\ \A d \in Clients \ {c} : owed'[d] = owed[d]
  BY DEF Lose, HubInv, HubTypeOK
<1>3. Fresh'
  BY <1>1, <1>2 DEF HubInv, Fresh, Moved
<1>4. Mutex'
  <2>1. CASE proc' = proc
    BY <2>1 DEF HubInv, Mutex
  <2>2. CASE proc' # proc
    BY <1>1, <2>2, MutexKept
  <2> QED BY <2>1, <2>2
<1>5. Begun'
  <2>1. ASSUME NEW d \in Clients PROVE HeaderOut(d)' = HeaderOut(d)
    <3>1. write[d] \in Goroutines \cup {Nobody}
      BY DEF HubInv, HubTypeOK
    <3>2. write[d] = c => proc' = proc
      BY GoroutineKinds DEF HubInv, Mutex
    <3>3. write[d] # Nobody => proc'[write[d]] = proc[write[d]]
      BY <3>1, <3>2 DEF Moved
    <3> QED BY <3>3, HeaderSame
  <2>2. \A d \in Clients : conn'[d] \in {"none", "open"} => begun'[d] = HeaderOut(d)'
    BY <1>2, <2>1 DEF HubInv, Begun
  <2>3. ASSUME NEW h \in Goroutines, proc'[h].at = "payload" PROVE conn'[proc'[h].to] # "none"
    <3>1. proc'[h] = proc[h] /\ proc[h].at = "payload"
      BY <2>3 DEF Moved
    <3>2. proc[h].to \in Clients /\ conn[proc[h].to] # "none"
      BY <3>1, TargetTyped DEF HubInv, Begun
    <3> QED BY <1>2, <3>1, <3>2
  <2> QED BY <2>2, <2>3 DEF Begun
<1>6. Owing'
  <2>1. \A u \in Updaters : proc'[u] = proc[u]
    BY <1>1 DEF Moved
  <2>2. \A d \in Clients : \A r \in owed'[d] :
           r \in owed[d] /\ conn'[d] = "open" /\ PairOf[r] \in pairs'[d]
    BY <1>2 DEF HubInv, Owing
  <2> QED BY <2>1, <2>2, OwingByOthers
<1> QED BY <1>3, <1>4, <1>5, <1>6

LEMMA ReadFailsKeeps ==
    ASSUME HubInv, NEW c \in Clients, ReadFails(c)
    PROVE  HubInv'
<1>1. /\ proc[c].at = "read" /\ c \in Goroutines /\ c \notin Updaters
      /\ subscribers' = subscribers \ {c} /\ conn' = [conn EXCEPT ![c] = "closed"]
      /\ Lose(c) /\ Goto(c, "gone") /\ UNCHANGED <<pairs, write, commands>>
  BY GoroutineKinds DEF ReadFails, Remove, At
<1>2. Moved(c) /\ proc'[c].at = "gone"
  BY <1>1, GotoMoves
<1>3. Shaped'
  BY <1>1, GotoShaped
<1>4. Fresh' /\ Mutex' /\ Begun' /\ Owing'
  BY <1>1, <1>2, ConnLost
<1>5. /\ conn' \in [Clients -> {"none", "open", "broken", "closed"}]
      /\ \A d \in subscribers' : conn'[d] = conn[d]
  BY <1>1 DEF HubInv, HubTypeOK
<1>6. HubTypeOK' /\ buf' \in [Clients -> Seq(Part)]
  BY <1>1, <1>2, <1>5, LoseTyped DEF HubInv, HubTypeOK, Moved, ProcState
<1> QED BY <1>3, <1>4, <1>6 DEF HubInv

LEMMA ClientBreaksKeeps ==
    ASSUME HubInv, NEW c \in Clients, ClientBreaks(c)
    PROVE  HubInv'
<1>1. /\ conn[c] = "open" /\ conn' = [conn EXCEPT ![c] = "broken"] /\ Lose(c)
      /\ UNCHANGED <<subscribers, pairs, write, commands, proc>>
  BY DEF ClientBreaks
<1>2. Moved(c) /\ proc[c].at # "idle" /\ Shaped'
  BY <1>1, ProcTyped DEF Moved, HubInv, Fresh, Shaped
<1>3. Fresh' /\ Mutex' /\ Begun' /\ Owing'
  BY <1>1, <1>2, ConnLost
<1>4. /\ conn' \in [Clients -> {"none", "open", "broken", "closed"}]
      /\ \A d \in subscribers' : conn'[d] \in {"open", "broken"}
  BY <1>1 DEF HubInv, HubTypeOK
<1>5. HubTypeOK' /\ buf' \in [Clients -> Seq(Part)]
  BY <1>1, <1>4, LoseTyped DEF HubInv, HubTypeOK
<1> QED BY <1>2, <1>3, <1>5 DEF HubInv

LEMMA ClientReadsKeeps ==
    ASSUME HubInv, NEW c \in Clients, ClientReads(c)
    PROVE  HubInv'
<1>1. /\ buf[c] # <<>> /\ buf' = [buf EXCEPT ![c] = Tail(buf[c])]
      /\ UNCHANGED <<subscribers, conn, pairs, write, begun, commands, proc, owed>>
  BY DEF ClientReads
<1>2. /\ buf \in [Clients -> Seq(Part)] /\ \A d \in Clients : Len(buf[d]) <= BufferSize
      /\ BufferSize \in Nat
  BY HubAssumption DEF HubInv, HubTypeOK
<1>3. Tail(buf[c]) \in Seq(Part) /\ Len(Tail(buf[c])) <= BufferSize
  BY <1>1, <1>2
<1>4. buf' \in [Clients -> Seq(Part)] /\ \A d \in Clients : Len(buf'[d]) <= BufferSize
  BY <1>1, <1>2, <1>3
<1>5. HubTypeOK'
  BY <1>1, <1>4 DEF HubInv, HubTypeOK
<1> QED BY <1>1, <1>4, <1>5 DEF HubInv, Shaped, Fresh, Mutex, Begun, HeaderOut, Frame, Owing

LEMMA HandleCommandKeeps ==
    ASSUME HubInv, NEW c \in Clients, HandleCommand(c)
    PROVE  HubInv'
<1>1. /\ proc[c].at = "command" /\ c \in Goroutines /\ c \notin Updaters
      /\ UNCHANGED <<subscribers, conn, write, buf, begun, commands>>
  BY GoroutineKinds DEF HandleCommand, At
<1>2. Goto(c, "read") \/ Goto(c, "lock")
  BY DEF HandleCommand
<1>3. Moved(c) /\ proc'[c].at \in {"read", "lock"}
  BY <1>1, <1>2, GotoMoves
<1>4. Shaped'
  BY <1>1, <1>2, GotoShaped
<1>5. Mutex' /\ Begun' /\ Fresh'
  BY <1>1, <1>3, MutexKept, BegunKept, FreshKept
<1>6. /\ pairs' \in [Clients -> SUBSET Pairs] /\ owed' \in [Clients -> SUBSET Rates]
      /\ \A d \in Clients : \A r \in owed'[d] : r \in owed[d] /\ PairOf[r] \in pairs'[d]
  <2>1. /\ pairs \in [Clients -> SUBSET Pairs] /\ owed \in [Clients -> SUBSET Rates]
        /\ \A d \in Clients : \A r \in owed[d] : PairOf[r] \in pairs[d]
    BY DEF HubInv, HubTypeOK, Owing
  <2>2. CASE \E p \in Pairs : pairs' = [pairs EXCEPT ![c] = @ \cup {p}] /\ owed' = owed
    BY <2>1, <2>2
  <2>3. CASE \E p \in Pairs : /\ pairs' = [pairs EXCEPT ![c] = @ \ {p}]
                              /\ owed' = [owed EXCEPT ![c] = {r \in @ : PairOf[r] # p}]
    BY <2>1, <2>3
  <2>4. CASE pairs' = pairs /\ owed' = owed
    BY <2>1, <2>4
  <2> QED BY <2>2, <2>3, <2>4 DEF HandleCommand
<1>7. HubTypeOK' /\ buf' \in [Clients -> Seq(Part)]
  BY <1>1, <1>3, <1>6 DEF HubInv, HubTypeOK, Moved, ProcState
<1>8. Owing'
  <2>1. \A u \in Updaters : proc'[u] = proc[u]
    BY <1>1, <1>3, GoroutineKinds DEF Moved
  <2>2. \A d \in Clients : \A r \in owed'[d] : conn'[d] = "open"
    BY <1>1, <1>6 DEF HubInv, Owing
  <2> QED BY <1>6, <2>1, <2>2, OwingByOthers
<1> QED BY <1>4, <1>5, <1>7, <1>8 DEF HubInv

\* The steps of the hub, of whatever goroutine.
HubStep ==
    \/ \E u \in Updaters : FanoutStep(u)
    \/ \E c \in Clients : Connect(c) \/ ReadCommand(c) \/ SkipFrame(c) \/ ServeClient(c)
    \/ \E c \in Clients : ClientReads(c) \/ ClientBreaks(c)
    \/ \E u \in Updaters, r \in Rates : Fanout(u, r)

LEMMA HubInvStep == HubInv /\ (HubStep \/ UNCHANGED hubVars) => HubInv'
<1> SUFFICES ASSUME HubInv, HubStep \/ UNCHANGED hubVars PROVE HubInv'
  OBVIOUS
<1>1. ASSUME NEW g \in Goroutines, SendFrame(g) PROVE HubInv'
  BY <1>1, SendLockKeeps, SendHeaderKeeps, SendPayloadKeeps, SendFailsKeeps DEF SendFrame
<1>2. ASSUME NEW u \in Updaters, FanoutStep(u) PROVE HubInv'
  BY <1>1, <1>2, FanoutWantKeeps, GoroutineKinds DEF FanoutStep
<1>3. ASSUME NEW c \in Clients, Connect(c) \/ ReadCommand(c) \/ SkipFrame(c) \/ ServeClient(c) PROVE HubInv'
  BY <1>1, <1>3, ConnectKeeps, ReadCommandKeeps, LoopKeeps, HandleCommandKeeps,
     ReadFailsKeeps, GoroutineKinds
     DEF ServeClient
<1>4. ASSUME NEW c \in Clients, ClientReads(c) \/ ClientBreaks(c) PROVE HubInv'
  BY <1>4, ClientReadsKeeps, ClientBreaksKeeps
<1>5. CASE UNCHANGED hubVars
  BY <1>5 DEF hubVars, HubInv, HubTypeOK, Shaped, Fresh, Mutex, Begun, HeaderOut, Frame, Owing
<1> QED BY <1>2, <1>3, <1>4, <1>5, FanoutKeeps DEF HubStep

LEMMA HubInvInit == HubInit => HubInv
<1> SUFFICES ASSUME HubInit PROVE HubInv
  OBVIOUS
<1>1. /\ proc = [g \in Goroutines |-> Idle] /\ Idle \in ProcState /\ Idle.at = "idle"
      /\ proc \in [Goroutines -> ProcState]
  BY DEF HubInit, Idle, ProcState
<1>2. /\ buf \in [Clients -> Seq(Part)] /\ \A c \in Clients : Len(buf[c]) <= BufferSize
      /\ begun \in [Clients -> Part \cup {NoPart}]
      /\ write \in [Clients -> Goroutines \cup {Nobody}]
  BY HubAssumption DEF HubInit
<1>3. HubTypeOK
  BY <1>1, <1>2, HubAssumption DEF HubInit, HubTypeOK, ProcState
<1>4. Shaped
  BY <1>1, GoroutineKinds DEF Shaped
<1>5. Fresh /\ Mutex /\ Begun /\ Owing
  BY <1>1, GoroutineKinds DEF HubInit, Fresh, Mutex, Begun, HeaderOut, Owing
<1> QED BY <1>2, <1>3, <1>4, <1>5 DEF HubInv

-----------------------------------------------------------------------------
(* The feed, and the whole. *)

Consumers == [at : {"start", "select", "handle", "remove", "returned"}, msg : Msgs \cup {NoMsg}]

LEMMA FeedTyped ==
    FeedTypeOK <=> /\ published \subseteq Msgs
                   /\ chan \in Seq(Msgs) /\ Len(chan) <= ChanSize
                   /\ inSubs \in BOOLEAN /\ chanClosed \in BOOLEAN
                   /\ feedClosed \in BOOLEAN /\ canceled \in BOOLEAN
                   /\ consumer \in Consumers
BY Zenon DEF FeedTypeOK, Consumers

LEMMA FeedInvInit == FeedInit => FeedInv
<1> SUFFICES ASSUME FeedInit PROVE FeedInv
  OBVIOUS
<1>1. chan \in Seq(Msgs) /\ Len(chan) <= ChanSize /\ consumer \in Consumers
  BY FeedAssumption DEF FeedInit, Consumers
<1>2. FeedTypeOK
  BY <1>1, FeedTyped DEF FeedInit
<1> QED BY <1>2 DEF FeedInit, FeedInv

FeedStep ==
    \/ \E m \in Msgs : Publish(m)
    \/ Subscribe \/ Receive \/ Handled \/ SeeEnd \/ RemoveSub \/ Cancel \/ CloseFeed

LEMMA FeedInvStep == FeedInv /\ (FeedStep \/ UNCHANGED feedVars) => FeedInv'
<1> SUFFICES ASSUME FeedInv, FeedStep \/ UNCHANGED feedVars PROVE FeedInv'
  OBVIOUS
<1>0. /\ published \subseteq Msgs /\ chan \in Seq(Msgs) /\ Len(chan) <= ChanSize
      /\ inSubs \in BOOLEAN /\ chanClosed \in BOOLEAN /\ feedClosed \in BOOLEAN
      /\ canceled \in BOOLEAN /\ consumer \in Consumers
      /\ (feedClosed => ~inSubs) /\ (chanClosed => feedClosed)
  BY FeedTyped DEF FeedInv
<1>1. ASSUME NEW m \in Msgs, Publish(m) PROVE FeedInv'
  <2>1. chan' \in Seq(Msgs) /\ Len(chan') <= ChanSize
    BY <1>0, <1>1, FeedAssumption DEF Publish
  <2>2. FeedTypeOK'
    BY <1>0, <1>1, <2>1, Zenon DEF Publish, FeedTypeOK, Consumers
  <2> QED BY <1>0, <1>1, <2>2 DEF Publish, FeedInv
<1>2. CASE Receive
  <2>1. chan' \in Seq(Msgs) /\ Len(chan') <= ChanSize /\ Head(chan) \in Msgs
    BY <1>0, <1>2, FeedAssumption DEF Receive
  <2>2. consumer' \in Consumers
    BY <1>2, <2>1 DEF Receive, ConsumerAt, Consumers
  <2>3. FeedTypeOK'
    BY <1>0, <1>2, <2>1, <2>2, Zenon DEF Receive, FeedTypeOK, Consumers
  <2> QED BY <1>0, <1>2, <2>3 DEF Receive, FeedInv
<1>3. CASE Subscribe \/ Handled \/ SeeEnd \/ RemoveSub
  <2>1. consumer' \in Consumers
    BY <1>3 DEF Subscribe, Handled, SeeEnd, RemoveSub, ConsumerAt, Consumers
  <2>2. /\ inSubs' \in BOOLEAN /\ (inSubs' => inSubs \/ ~feedClosed)
        /\ UNCHANGED <<published, chan, chanClosed, feedClosed, canceled>>
    <3>1. CASE Subscribe
      BY <1>0, <3>1, Zenon DEF Subscribe
    <3>2. CASE RemoveSub
      BY <3>2, Zenon DEF RemoveSub
    <3>3. CASE Handled \/ SeeEnd
      <4>1. UNCHANGED <<published, chan, inSubs, chanClosed, feedClosed, canceled>>
        BY <3>3 DEF Handled, SeeEnd
      <4> QED BY <1>0, <4>1
    <3> QED BY <1>3, <3>1, <3>2, <3>3
  <2>3. FeedTypeOK'
    BY <1>0, <2>1, <2>2, Zenon DEF FeedTypeOK, Consumers
  <2> QED BY <1>0, <2>2, <2>3 DEF FeedInv
<1>4. CASE Cancel \/ CloseFeed \/ UNCHANGED feedVars
  <2>1. /\ UNCHANGED <<published, chan, consumer>>
        /\ inSubs' \in BOOLEAN /\ chanClosed' \in BOOLEAN /\ feedClosed' \in BOOLEAN
        /\ canceled' \in BOOLEAN
        /\ (feedClosed' => ~inSubs') /\ (chanClosed' => feedClosed')
    <3>1. CASE Cancel
      BY <1>0, <3>1, Zenon DEF Cancel
    <3>2. CASE CloseFeed
      <4>1. /\ inSubs' = FALSE /\ feedClosed' = TRUE /\ chanClosed' = (chanClosed \/ inSubs)
            /\ UNCHANGED <<published, chan, canceled, consumer>>
        BY <3>2 DEF CloseFeed
      <4>2. (chanClosed \/ inSubs) \in BOOLEAN
        BY Zenon
      <4> QED BY <1>0, <4>1, <4>2, Zenon
    <3>3. CASE UNCHANGED feedVars
      BY <1>0, <3>3, Zenon DEF feedVars
    <3> QED BY <1>4, <3>1, <3>2, <3>3
  <2>2. FeedTypeOK'
    BY <1>0, <2>1, Zenon DEF FeedTypeOK, Consumers
  <2> QED BY <2>1, <2>2 DEF FeedInv
<1> QED BY <1>1, <1>2, <1>3, <1>4 DEF FeedStep

\* A step of the whole is a step of one side, or of both: the consumer's Receive
\* with the Fanout that its handler starts.
LEMMA StepOfParts ==
    ASSUME StreamInv, [StreamNext]_streamVars
    PROVE  /\ FeedStep \/ UNCHANGED feedVars
           /\ HubStep \/ UNCHANGED hubVars
           /\ polled' \subseteq Pollers
<1>1. CASE \E m \in Msgs : FeedOnly(Publish(m))
  BY <1>1 DEF FeedOnly, FeedStep, StreamInv
<1>2. CASE ConsumerStep
  <2>1. CASE ConsumerReceives
    <3>1. Receive /\ polled' = polled
      BY <2>1 DEF ConsumerReceives
    <3>2. Head(chan) \in Msgs
      BY <3>1 DEF Receive, StreamInv, FeedInv, FeedTypeOK
    <3>3. HubStep \/ UNCHANGED hubVars
      <4>1. CASE Head(chan) \in BadMsgs
        BY <2>1, <4>1 DEF ConsumerReceives
      <4>2. CASE Head(chan) \notin BadMsgs
        <5>1. Consumer \in Updaters /\ Head(chan) \in Rates
          BY <3>2, <4>2, StreamAssumption
        <5> QED BY <2>1, <4>2, <5>1 DEF ConsumerReceives, HubStep
      <4> QED BY <4>1, <4>2
    <3> QED BY <3>1, <3>3 DEF FeedStep, StreamInv
  <2>2. CASE HandlerReturns
    BY <2>2 DEF HandlerReturns, FeedStep, StreamInv
  <2> QED BY <1>2, <2>1, <2>2 DEF ConsumerStep, FeedOnly, FeedStep, StreamInv
<1>3. CASE FeedOnly(Cancel) \/ FeedOnly(CloseFeed)
  BY <1>3 DEF FeedOnly, FeedStep, StreamInv
<1>4. CASE \E g \in Pollers : PollFallback(g)
  <2>1. PICK g \in Pollers : PollFallback(g)
    BY <1>4
  <2>2. g \in Updaters /\ g \in Rates
    BY StreamAssumption
  <2> QED BY <2>1, <2>2 DEF PollFallback, HubStep, StreamInv
<1>5. CASE \/ \E u \in Updaters : HubOnly(FanoutStep(u))
           \/ \E c \in Clients : HubOnly(Connect(c) \/ ReadCommand(c) \/ SkipFrame(c) \/ ServeClient(c))
           \/ \E c \in Clients : HubOnly(ClientReads(c) \/ ClientBreaks(c))
  BY <1>5 DEF HubOnly, HubStep, StreamInv
<1>6. CASE UNCHANGED streamVars
  BY <1>6 DEF streamVars, StreamInv
<1> QED BY <1>1, <1>2, <1>3, <1>4, <1>5, <1>6 DEF StreamNext

LEMMA StreamInvHolds == StreamSpec => []StreamInv
<1>1. StreamInit => StreamInv
  BY FeedInvInit, HubInvInit DEF StreamInit, StreamInv
<1>2. StreamInv /\ [StreamNext]_streamVars => StreamInv'
  BY StepOfParts, FeedInvStep, HubInvStep DEF StreamInv
<1> QED BY <1>1, <1>2, PTL DEF StreamSpec

\* Channel and connection buffers stay within their capacity, and only clients
\* whose connection we have not closed are registered (feed.go:33-97, ws.go:71-125).
THEOREM StreamTypeCorrect == StreamSpec => []StreamTypeOK
<1>1. StreamInv => StreamTypeOK
  BY DEF StreamInv, FeedInv, HubInv, StreamTypeOK
<1> QED BY StreamInvHolds, <1>1, PTL

\* Publish never sends on a closed channel, however Close, Subscribe, the context's
\* end and the deferred removeSub interleave (feed.go:39-97).
THEOREM NeverSendsOnClosed == StreamSpec => []NoSendOnClosed
<1>1. StreamInv => NoSendOnClosed
  BY DEF StreamInv, FeedInv, NoSendOnClosed
<1> QED BY StreamInvHolds, <1>1, PTL

\* An Update that has returned owes no client that was subscribed to its pair, and
\* still is, its rate: neither a slow nor a vanished client makes fanout skip the
\* others of its snapshot (ws.go:100-125).
THEOREM NobodyLeftOut == StreamSpec => []NothingMissed
<1>1. StreamInv => NothingMissed
  BY DEF StreamInv, HubInv, Owing, NothingMissed
<1> QED BY StreamInvHolds, <1>1, PTL

LEMMA FrameStep ==
    StreamInv /\ [StreamNext]_streamVars =>
      [\A c \in Clients : Len(buf'[c]) > Len(buf[c]) =>
         LET part == buf'[c][Len(buf'[c])]
         IN begun[c] = IF part.kind = "header" THEN NoPart
                                               ELSE [part EXCEPT !.kind = "header"]]_streamVars
<1> SUFFICES ASSUME StreamInv, [StreamNext]_streamVars,
                    NEW c \in Clients, Len(buf'[c]) > Len(buf[c])
             PROVE  begun[c] = IF buf'[c][Len(buf'[c])].kind = "header" THEN NoPart
                                 ELSE [buf'[c][Len(buf'[c])] EXCEPT !.kind = "header"]
  OBVIOUS
<1>1. HubInv /\ (HubStep \/ UNCHANGED hubVars)
  BY StepOfParts DEF StreamInv
<1>2. buf \in [Clients -> Seq(Part)] /\ Len(buf[c]) \in Nat
  BY <1>1 DEF HubInv
<1>3. buf' # buf
  OBVIOUS
\* Only sendFrame makes a buffer longer.
<1>4. ~ (\E d \in Clients : ClientReads(d))
  <2> SUFFICES ASSUME NEW d \in Clients, ClientReads(d) PROVE FALSE
    OBVIOUS
  <2>1. buf[d] # <<>> /\ buf' = [buf EXCEPT ![d] = Tail(buf[d])]
    BY DEF ClientReads
  <2>2. CASE d = c
    <3>1. buf'[c] = Tail(buf[c]) /\ buf[c] \in Seq(Part) /\ buf[c] # <<>>
      BY <1>2, <2>1, <2>2
    <3> QED BY <3>1
  <2>3. CASE d # c
    BY <1>2, <2>1, <2>3
  <2> QED BY <2>2, <2>3
<1>5. ~ (\E d \in Clients : Lose(d))
  <2> SUFFICES ASSUME NEW d \in Clients, Lose(d) PROVE FALSE
    OBVIOUS
  <2>1. buf' = [buf EXCEPT ![d] = <<>>]
    BY DEF Lose
  <2>2. buf'[c] = <<>> \/ buf'[c] = buf[c]
    BY <1>2, <2>1
  <2> QED BY <1>2, <2>2
<1>6. PICK g \in Goroutines : SendHeader(g) \/ SendPayload(g)
  <2>1. ~ (\E u \in Updaters, r \in Rates : Fanout(u, r))
    BY <1>3 DEF Fanout
  <2>2. ~ (\E u \in Updaters : FanoutWant(u))
    BY <1>3 DEF FanoutWant
  <2>3. ~ (\E d \in Clients : Connect(d) \/ ReadCommand(d) \/ HandleCommand(d) \/ SkipFrame(d) \/ NextRead(d))
    BY <1>3 DEF Connect, ReadCommand, HandleCommand, SkipFrame, NextRead
  <2>4. ~ (\E d \in Clients : ReadFails(d) \/ ClientBreaks(d))
    BY <1>5 DEF ReadFails, Remove, ClientBreaks
  <2>5. ~ (\E h \in Goroutines : SendLock(h) \/ SendFails(h))
    BY <1>3 DEF SendLock, SendFails
  <2>6. ~ UNCHANGED hubVars
    BY <1>3 DEF hubVars
  <2> QED
    BY <1>1, <1>4, <2>1, <2>2, <2>3, <2>4, <2>5, <2>6, GoroutineKinds
       DEF HubStep, FanoutStep, ServeClient, SendFrame
<1>7. /\ proc[g].at \in {"header", "payload"} /\ proc[g].to \in Clients
      /\ CanWrite(proc[g].to) /\ WritePart(g, proc[g].to, proc[g].at)
      /\ write[proc[g].to] = g /\ g # Nobody
  BY <1>1, <1>6, TargetTyped, GoroutineKinds DEF SendHeader, SendPayload, At, HubInv, Mutex
<1> DEFINE part == [frame |-> Frame(g), of |-> g, kind |-> proc[g].at]
<1>8. c = proc[g].to /\ buf'[c] = Append(buf[c], part)
  <2>1. /\ \A d \in Clients \ {proc[g].to} : buf'[d] = buf[d]
        /\ buf'[proc[g].to] = Append(buf[proc[g].to], part)
    BY <1>1, <1>7, WritePartTyped
  <2>2. c = proc[g].to
    BY <1>2, <2>1
  <2> QED BY <2>1, <2>2
<1>9. buf'[c][Len(buf'[c])] = part
  BY <1>2, <1>8
<1>10. begun[c] = IF proc[g].at = "header" THEN NoPart
                    ELSE [frame |-> Frame(g), of |-> g, kind |-> "header"]
  BY <1>1, <1>7, <1>8 DEF HubInv, Begun, HeaderOut, CanWrite
<1> QED BY <1>7, <1>9, <1>10

\* On every connection each header is followed by its own payload: the mutex is
\* held over both writes, whoever else wants to send (ws.go:44-63).
THEOREM FramesAreWhole == StreamSpec => WholeFrames
BY StreamInvHolds, FrameStep, PTL DEF StreamSpec, WholeFrames
=============================================================================
