------------------------------ MODULE RateFeed ------------------------------
(***************************************************************************)
(* The in-process rate feed of feed.go:33-97 and the goroutine that        *)
(* startFeedConsumer starts: one channel between Publish, which never      *)
(* blocks, and Subscribe, which calls its handler for one message after    *)
(* the other until the feed is closed or its context is canceled.          *)
(*                                                                         *)
(* The feed's mutex is held for one action each: Publish sends to the one  *)
(* channel there is, without blocking.                                     *)
(***************************************************************************)
EXTENDS Naturals, Sequences

CONSTANTS Msgs,      \* messages, each published once at most
          NoMsg,
          ChanSize   \* capacity of a subscriber's channel

ASSUME FeedAssumption ==
    /\ NoMsg \notin Msgs
    /\ ChanSize \in Nat \ {0}

VARIABLES published,   \* the messages handed to Publish so far
          chan,        \* the consumer's channel
          inSubs,      \* the channel is in inProcFeed.subs
          chanClosed,  \* close(ch) was called
          feedClosed,  \* inProcFeed.closed
          canceled,    \* the stop function of startFeedConsumer was called
          consumer     \* where Subscribe is, and the message its handler has

feedVars == <<published, chan, inSubs, chanClosed, feedClosed, canceled, consumer>>

FeedTypeOK ==
    /\ published \subseteq Msgs
    /\ chan \in Seq(Msgs) /\ Len(chan) <= ChanSize
    /\ {inSubs, chanClosed, feedClosed, canceled} \subseteq BOOLEAN
    /\ consumer \in [at : {"start", "select", "handle", "remove", "returned"},
                     msg : Msgs \cup {NoMsg}]

FeedInit ==
    /\ published = {}
    /\ chan = <<>>
    /\ inSubs = FALSE /\ chanClosed = FALSE
    /\ feedClosed = FALSE /\ canceled = FALSE
    /\ consumer = [at |-> "start", msg |-> NoMsg]

ConsumerAt(l, m) == consumer' = [at |-> l, msg |-> m]

-----------------------------------------------------------------------------

\* Mutant of Publish: the channel takes any number of messages.
PublishUnbounded(m) ==
    /\ m \notin published
    /\ published' = published \cup {m}
    /\ chan' = IF inSubs THEN Append(chan, m) ELSE chan
    /\ UNCHANGED <<inSubs, chanClosed, feedClosed, canceled, consumer>>

\* A message that finds no subscriber, or a full channel, is dropped.
Publish(m) ==
    /\ m \notin published
    /\ published' = published \cup {m}
    /\ chan' = IF inSubs /\ Len(chan) < ChanSize THEN Append(chan, m) ELSE chan
    /\ UNCHANGED <<inSubs, chanClosed, feedClosed, canceled, consumer>>

Subscribe ==
    /\ consumer.at = "start"
    /\ IF feedClosed THEN ConsumerAt("returned", NoMsg) /\ UNCHANGED inSubs
                     ELSE ConsumerAt("select", NoMsg) /\ inSubs' = TRUE
    /\ UNCHANGED <<published, chan, chanClosed, feedClosed, canceled>>

\* What is buffered is received after close(ch) too, and also when the context
\* is done already: select picks either.
Receive ==
    /\ consumer.at = "select"
    /\ chan # <<>>
    /\ chan' = Tail(chan)
    /\ ConsumerAt("handle", Head(chan))
    /\ UNCHANGED <<published, inSubs, chanClosed, feedClosed, canceled>>

Handled ==
    /\ consumer.at = "handle"
    /\ ConsumerAt("select", NoMsg)
    /\ UNCHANGED <<published, chan, inSubs, chanClosed, feedClosed, canceled>>

\* ctx.Done(), or a closed channel with nothing left in it.
SeeEnd ==
    /\ consumer.at = "select"
    /\ canceled \/ (chanClosed /\ chan = <<>>)
    /\ ConsumerAt("remove", NoMsg)
    /\ UNCHANGED <<published, chan, inSubs, chanClosed, feedClosed, canceled>>

\* The deferred removeSub; after Close the channel is not in the list any more.
RemoveSub ==
    /\ consumer.at = "remove"
    /\ inSubs' = FALSE
    /\ ConsumerAt("returned", NoMsg)
    /\ UNCHANGED <<published, chan, chanClosed, feedClosed, canceled>>

Cancel ==
    /\ ~canceled
    /\ canceled' = TRUE
    /\ UNCHANGED <<published, chan, inSubs, chanClosed, feedClosed, consumer>>

\* Mutant of CloseFeed: the closed channels stay in the list.
CloseFeedKeepsSubs ==
    /\ ~feedClosed
    /\ feedClosed' = TRUE
    /\ chanClosed' = (chanClosed \/ inSubs)
    /\ UNCHANGED <<published, chan, inSubs, canceled, consumer>>

\* Mutant of CloseFeed: the channels are forgotten, not closed.
CloseFeedForgets ==
    /\ ~feedClosed
    /\ feedClosed' = TRUE
    /\ inSubs' = FALSE
    /\ UNCHANGED <<published, chan, chanClosed, canceled, consumer>>

\* Close; a second call finds no channels and changes nothing.
CloseFeed ==
    /\ ~feedClosed
    /\ feedClosed' = TRUE
    /\ chanClosed' = (chanClosed \/ inSubs)
    /\ inSubs' = FALSE
    /\ UNCHANGED <<published, chan, canceled, consumer>>
=============================================================================
