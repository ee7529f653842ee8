----------------------------- MODULE RateStream -----------------------------
(***************************************************************************)
(* Live rates from the feed to the clients: the handler of the feed's      *)
(* consumer (feed.go:115-139) calls SpotService.Update, whose callback     *)
(* (server.go:91-93) is the fanout of RateHub.  The consumer receives no   *)
(* further message before fanout has returned.  pollFallback               *)
(* (feed.go:153-165) calls Update from the goroutine of a quote request.   *)
(***************************************************************************)
EXTENDS RateFeed, RateHub

CONSTANTS Consumer,   \* the goroutine of startFeedConsumer
          Pollers,    \* goroutines in pollFallback; each polls a rate of its own
          BadMsgs     \* messages whose pair has no "-" in it

ASSUME StreamAssumption ==
    /\ Updaters = {Consumer} \cup Pollers /\ Consumer \notin Pollers
    /\ Rates = (Msgs \ BadMsgs) \cup Pollers

VARIABLE polled   \* the pollers that have returned

streamVars == <<feedVars, hubVars, polled>>

StreamTypeOK == FeedTypeOK /\ HubTypeOK /\ polled \subseteq Pollers

StreamInit == FeedInit /\ HubInit /\ polled = {}

-----------------------------------------------------------------------------

\* The handler is called; it drops a message whose pair it cannot split.
ConsumerReceives ==
    /\ Receive
    /\ IF Head(chan) \in BadMsgs THEN UNCHANGED hubVars ELSE Fanout(Consumer, Head(chan))
    /\ UNCHANGED polled

\* The handler returns once Update has, and Update once fanout has.
HandlerReturns == Handled /\ At(Consumer, "idle") /\ UNCHANGED <<hubVars, polled>>

FeedOnly(A) == A /\ UNCHANGED <<hubVars, polled>>

HubOnly(A) == A /\ UNCHANGED <<feedVars, polled>>

\* The poll fails, or succeeds and Update is called.
PollFallback(g) ==
    /\ g \notin polled /\ At(g, "idle")
    /\ polled' = polled \cup {g}
    /\ Fanout(g, g) \/ UNCHANGED hubVars
    /\ UNCHANGED feedVars

ConsumerStep == ConsumerReceives \/ HandlerReturns \/ FeedOnly(Subscribe) \/ FeedOnly(SeeEnd)
                \/ FeedOnly(RemoveSub)

StreamNext ==
    \/ \E m \in Msgs : FeedOnly(Publish(m))
    \/ ConsumerStep
    \/ FeedOnly(Cancel) \/ FeedOnly(CloseFeed)
    \/ \E g \in Pollers : PollFallback(g)
    \/ \E u \in Updaters : HubOnly(FanoutStep(u))
    \/ \E c \in Clients : HubOnly(Connect(c) \/ ReadCommand(c) \/ SkipFrame(c) \/ ServeClient(c))
    \/ \E c \in Clients : HubOnly(ClientReads(c) \/ ClientBreaks(c))

StreamSpec == StreamInit /\ [][StreamNext]_streamVars

\* Goroutines that can run are scheduled, a free mutex is taken by a waiter, and a
\* read that no frame ends is ended by its deadline.  Every frame starts a read
\* with a new deadline (SkipFrame, NextRead), so a client that keeps sending is
\* never timed out.  Clients need not read, send, stop sending or hang up.
StreamFairness ==
    /\ WF_streamVars(ConsumerStep)
    /\ \A u \in Updaters : WF_streamVars(HubOnly(FanoutStep(u)))
    /\ \A c \in Clients : WF_streamVars(HubOnly(ServeClient(c)))

FairStreamSpec == StreamSpec /\ StreamFairness

-----------------------------------------------------------------------------
(* Properties. *)

\* Publish must never find a closed channel in the list, since sending to it
\* would panic the publisher (feed.go:45-47): Close empties the list under the
\* same mutex, and a Subscribe that comes later is turned away (feed.go:57).
NoSendOnClosed == inSubs => ~chanClosed

\* A frame is a header and a payload in two writes (ws.go:44-63).  On every
\* connection a header is followed by its own payload, although several Updates
\* and the answers to pings write to it at the same time.
WholeFrames ==
    [][\A c \in Clients : Len(buf'[c]) > Len(buf[c]) =>
         LET part == buf'[c][Len(buf'[c])]
         IN begun[c] = IF part.kind = "header" THEN NoPart
                                               ELSE [part EXCEPT !.kind = "header"]]_streamVars

\* README.md:55 "server pushes on every rate update for the subscribed pairs".
\* When an Update is over, every client that was subscribed to its pair when it
\* began, and still is, has been sent the rate, whatever became of the other
\* clients (ws.go:114-122).
NothingMissed ==
    \A c \in Clients : \A r \in owed[c] : \E u \in Updaters : proc[u].rate = r

\* A client that has stopped reading for good and is not timed out: either its
\* goroutine has left the read for a command, and waits for or holds the write
\* mutex, or the client keeps sending frames that need no answer.
HoldsOn(c) ==
    /\ <>[](conn[c] = "open" /\ Len(buf[c]) = BufferSize)
    /\ []<>~At(c, "read")

\* An Update returns, however many of its clients stop reading, go away or send
\* commands meanwhile: the read deadline closes the connection of a client that
\* blocks fanout (ws.go:247).  It fails to do so only for a client that never reads
\* again and yet sends: what it sends either resets the deadline (ws.go:252) or
\* makes the goroutine that reads wait for the write mutex (ws.go:262).
FanoutEnds ==
    \/ \A u \in Updaters : []<>At(u, "idle")
    \/ \E c \in Clients : HoldsOn(c)

\* feed.go:88 "Close shuts down the feed, unblocking all subscribers": Subscribe
\* returns in the end, with messages still in its channel and its handler in the
\* middle of a fanout, unless that fanout is held up for ever.
CloseUnblocks ==
    \/ (feedClosed \/ canceled) ~> consumer.at = "returned"
    \/ \E c \in Clients : HoldsOn(c)
=============================================================================
