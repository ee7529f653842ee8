------------------------------ MODULE AuditLog ------------------------------
(***************************************************************************)
(* The audit event log (quotes.go:20-147): Append records an event locally *)
(* and offers it to a bounded channel without blocking; one dispatcher     *)
(* goroutine sends what it receives to the sink, puts an event back when   *)
(* the sink fails, and drains the channel when the log is closed.          *)
(*                                                                         *)
(* Every event is appended by a request goroutine of its own.  The counter *)
(* of dropped events is a plain int that appenders and the dispatcher      *)
(* increment without synchronisation: a load and a store that interleave.  *)
(***************************************************************************)
EXTENDS Naturals, Sequences, FiniteSets

CONSTANTS Events,       \* audit events, one Append each
          NoEvent,
          QueueSize,    \* capacity of the channel
          MaxFailures,  \* bound: how often the sink returns an error
          MayClose      \* whether Close is called

ASSUME AuditAssumption ==
    /\ NoEvent \notin Events
    /\ QueueSize \in Nat \ {0}
    /\ MaxFailures \in Nat
    /\ MayClose \in BOOLEAN

VARIABLES local,     \* memAuditSink: the events recorded locally
          queue,     \* the channel
          dropped,   \* AuditLog.dropped
          appender,  \* where the Append of each event is
          disp,      \* the dispatcher: position and the event in its hand
          loaded,    \* what each incrementing goroutine has read of dropped
          sent,      \* how often the sink has taken each event in
          attempts,  \* how often Send was called for each event
          failures,  \* errors the sink has returned so far
          hasSink,   \* AuditLog.sink # nil; the server configures none
          closed,    \* the stop channel is closed
          lost,      \* history: events given up because the queue was full
          early      \* history: events whose Append returned before Close

auditVars == <<local, queue, dropped, appender, disp, loaded, sent, attempts, failures,
               hasSink, closed, lost, early>>

\* Goroutines that may increment dropped: an appender per event, the dispatcher.
Incrementers == Events \cup {NoEvent}

AuditTypeOK ==
    /\ local \subseteq Events
    /\ queue \in Seq(Events) /\ Len(queue) <= QueueSize
    /\ dropped \in Nat
    /\ appender \in [Events -> {"new", "enqueue", "load", "store", "returned"}]
    /\ disp \in [at : {"select", "send", "requeue", "load", "store", "drain", "flush", "exit"},
                 event : Incrementers]
    /\ loaded \in [Incrementers -> Nat]
    /\ sent \in [Events -> Nat] /\ attempts \in [Events -> Nat]
    /\ failures \in 0..MaxFailures
    /\ hasSink \in BOOLEAN /\ closed \in BOOLEAN
    /\ lost \subseteq Events /\ early \subseteq Events

AuditInit ==
    /\ local = {}
    /\ queue = <<>>
    /\ dropped = 0
    /\ appender = [e \in Events |-> "new"]
    /\ disp = [at |-> "select", event |-> NoEvent]
    /\ loaded = [g \in Incrementers |-> 0]
    /\ sent = [e \in Events |-> 0]
    /\ attempts = [e \in Events |-> 0]
    /\ failures = 0
    /\ hasSink \in BOOLEAN
    /\ closed = FALSE
    /\ lost = {}
    /\ early = {}

-----------------------------------------------------------------------------
(* dropped++ of goroutine g *)

Load(g) == loaded' = [loaded EXCEPT ![g] = dropped] /\ UNCHANGED dropped

Store(g) == /\ dropped' = loaded[g] + 1
            /\ loaded' = [loaded EXCEPT ![g] = 0]

Room == Len(queue) < QueueSize

-----------------------------------------------------------------------------
(* Append *)

Appended(e, at) == appender' = [appender EXCEPT ![e] = at]

\* Append returns to its caller.
Return(e) == /\ Appended(e, "returned")
             /\ early' = IF closed THEN early ELSE early \cup {e}

AppendLocal(e) ==
    /\ appender[e] = "new"
    /\ local' = local \cup {e}
    /\ Appended(e, "enqueue")
    /\ UNCHANGED <<queue, dropped, disp, loaded, sent, attempts, failures, hasSink, closed, lost, early>>

\* Mutant of AppendEnqueue: the queue grows past its capacity.
AppendEnqueueUnbounded(e) ==
    /\ appender[e] = "enqueue"
    /\ queue' = Append(queue, e)
    /\ Return(e)
    /\ UNCHANGED <<local, dropped, disp, loaded, sent, attempts, failures, hasSink, closed, lost>>

\* Mutant of AppendEnqueue: an event that was queued is counted as dropped too.
AppendEnqueueFallsThrough(e) ==
    /\ appender[e] = "enqueue"
    /\ IF Room THEN queue' = Append(queue, e) /\ UNCHANGED lost
               ELSE lost' = lost \cup {e} /\ UNCHANGED queue
    /\ Appended(e, "load")
    /\ UNCHANGED <<local, dropped, disp, loaded, sent, attempts, failures, hasSink, closed, early>>

AppendEnqueue(e) ==
    /\ appender[e] = "enqueue"
    /\ IF Room THEN queue' = Append(queue, e) /\ Return(e) /\ UNCHANGED lost
               ELSE lost' = lost \cup {e} /\ Appended(e, "load") /\ UNCHANGED <<queue, early>>
    /\ UNCHANGED <<local, dropped, disp, loaded, sent, attempts, failures, hasSink, closed>>

AppendDrop(e) ==
    /\ \/ appender[e] = "load" /\ Load(e) /\ Appended(e, "store") /\ UNCHANGED early
       \/ appender[e] = "store" /\ Store(e) /\ Return(e)
    /\ UNCHANGED <<local, queue, disp, sent, attempts, failures, hasSink, closed, lost>>

-----------------------------------------------------------------------------
(* dispatch *)

At(l, e) == disp' = [at |-> l, event |-> e]

\* The dispatcher takes the oldest event off the channel, in its main loop and
\* while it drains.  Without a sink it takes the next one right away.
Receive ==
    /\ disp.at \in {"select", "drain"}
    /\ queue # <<>>
    /\ queue' = Tail(queue)
    /\ IF hasSink THEN At(IF disp.at = "select" THEN "send" ELSE "flush", Head(queue))
                  ELSE UNCHANGED disp
    /\ UNCHANGED <<local, dropped, appender, loaded, sent, attempts, failures, hasSink, closed, lost, early>>

\* sink.Send: it succeeds, or returns an error with or without having taken the
\* event in.  The main loop reacts to the error, the drain loop ignores it.
Send ==
    /\ disp.at \in {"send", "flush"}
    /\ attempts' = [attempts EXCEPT ![disp.event] = @ + 1]
    /\ \/ /\ sent' = [sent EXCEPT ![disp.event] = @ + 1]
          /\ At(IF disp.at = "send" THEN "select" ELSE "drain", NoEvent)
          /\ UNCHANGED failures
       \/ /\ failures < MaxFailures
          /\ failures' = failures + 1
          /\ sent' \in {sent, [sent EXCEPT ![disp.event] = @ + 1]}
          /\ IF disp.at = "send" THEN At("requeue", disp.event) ELSE At("drain", NoEvent)
    /\ UNCHANGED <<local, queue, dropped, appender, loaded, hasSink, closed, lost, early>>

\* Mutant of Requeue: the dispatcher blocks on its own channel.
RequeueBlocks ==
    /\ disp.at = "requeue"
    /\ Room
    /\ queue' = Append(queue, disp.event)
    /\ At("select", NoEvent)
    /\ UNCHANGED <<local, dropped, appender, loaded, sent, attempts, failures, hasSink, closed, lost, early>>

Requeue ==
    /\ disp.at = "requeue"
    /\ IF Room THEN queue' = Append(queue, disp.event) /\ At("select", NoEvent) /\ UNCHANGED lost
               ELSE lost' = lost \cup {disp.event} /\ At("load", NoEvent) /\ UNCHANGED queue
    /\ UNCHANGED <<local, dropped, appender, loaded, sent, attempts, failures, hasSink, closed, early>>

RequeueDrop ==
    /\ \/ disp.at = "load" /\ Load(NoEvent) /\ At("store", NoEvent)
       \/ disp.at = "store" /\ Store(NoEvent) /\ At("select", NoEvent)
    /\ UNCHANGED <<local, queue, appender, sent, attempts, failures, hasSink, closed, lost, early>>

\* Mutant of SeeStop: the dispatcher returns without draining.
SeeStopReturns ==
    /\ disp.at = "select"
    /\ closed
    /\ At("exit", NoEvent)
    /\ UNCHANGED <<local, queue, dropped, appender, loaded, sent, attempts, failures, hasSink,
                   closed, lost, early>>

\* With events waiting and the log closed, select picks either.
SeeStop ==
    /\ disp.at = "select"
    /\ closed
    /\ At("drain", NoEvent)
    /\ UNCHANGED <<local, queue, dropped, appender, loaded, sent, attempts, failures, hasSink,
                   closed, lost, early>>

Exit ==
    /\ disp.at = "drain"
    /\ queue = <<>>
    /\ At("exit", NoEvent)
    /\ UNCHANGED <<local, queue, dropped, appender, loaded, sent, attempts, failures, hasSink,
                   closed, lost, early>>

\* close(a.stop); the wait for the dispatcher is disp.at = "exit".
Close ==
    /\ MayClose /\ ~closed
    /\ closed' = TRUE
    /\ UNCHANGED <<local, queue, dropped, appender, disp, loaded, sent, attempts, failures, hasSink,
                   lost, early>>

-----------------------------------------------------------------------------

Dispatch == Receive \/ Send \/ Requeue \/ RequeueDrop \/ SeeStop \/ Exit

AuditNext ==
    \/ \E e \in Events : AppendLocal(e) \/ AppendEnqueue(e) \/ AppendDrop(e)
    \/ Dispatch
    \/ Close

AuditSpec == AuditInit /\ [][AuditNext]_auditVars

\* The dispatcher goroutine is scheduled; the sink's Send returns.
FairAuditSpec == AuditSpec /\ WF_auditVars(Dispatch)

-----------------------------------------------------------------------------
(* Properties. *)

Settled(e) == sent[e] > 0 \/ e \in lost

\* quotes.go:138 "Close drains the queue and stops the dispatch goroutine": by
\* the time Close returns, every event whose Append returned before Close was
\* called has been offered to the sink, or was dropped for lack of room, although
\* the select may see stop before it sees the event (quotes.go:104-115).
CloseFlushes ==
    disp.at = "exit" /\ hasSink => \A e \in early : attempts[e] > 0 \/ e \in lost

\* quotes.go:51 "at-least-once": while the log is open and the sink recovers, an
\* event in the queue reaches the sink or is dropped for lack of room when it is
\* put back; the dispatcher never blocks on its own full channel (quotes.go:97-101).
QueuedIsSettled ==
    \A e \in Events : (hasSink /\ \E i \in 1..Len(queue) : queue[i] = e) ~> (Settled(e) \/ closed)

\* The counter never claims more drops than there were, whatever increments are
\* lost to each other (quotes.go:100, 129, 145).
DroppedNotOverstated == dropped <= Cardinality(lost)
=============================================================================
