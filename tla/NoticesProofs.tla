--------------------------- MODULE NoticesProofs ----------------------------
(***************************************************************************)
(* What is announced, and how often, for any symbols, prices, processes,   *)
(* restarts, windows and numbers of runs.                                  *)
(***************************************************************************)
EXTENDS MCNotices, SumLemmas, TLAPS

-----------------------------------------------------------------------------
(* The price pipeline, for any number of symbols, publishers, sessions and *)
(* any channel capacity.                                                   *)

\* What the types leave open: a publisher or consumer that carries an event
\* carries a real symbol, and a session that is starting may still start.
CarriesSymbol ==
    /\ \A c \in Crawlers : crawler[c] # "idle" => quote[c].symbol \in Symbols
    /\ \A g \in Generations : consumer[g] \in {"read", "clear"} => evaluating[g] \in Symbols
    /\ phase = "loaded" => generation < MaxStarts

TypeInv == TypeOK /\ CarriesSymbol

LEMMA NoQuoteType == NoQuote \in Quotes
BY DEF NoQuote, Quotes, CachePrices

LEMMA EventTypesStart == Init => TypeInv
<1> SUFFICES ASSUME Init PROVE TypeInv
  OBVIOUS
<1>1. quote \in [Crawlers -> Quotes]
  BY NoQuoteType DEF Init
<1>2. queue \in [Generations -> Seq(Symbols)]
  BY DEF Init
<1>3. CarriesSymbol
  BY DEF Init, CarriesSymbol
<1>4. consumer \in [Generations -> ConsumerPcs] /\ crawler \in [Crawlers -> CrawlerPcs]
  BY DEF Init, ConsumerPcs, CrawlerPcs
<1>5. /\ snapshot \in [Symbols -> CachePrices]
      /\ seen \in [Symbols -> CachePrices]
      /\ evaluating \in [Generations -> Symbols \cup {NoSymbol}]
      /\ sender \in [Crawlers -> {0} \cup Generations]
  BY DEF Init, CachePrices
<1> QED
  BY <1>1, <1>2, <1>3, <1>4, <1>5 DEF Init, TypeInv, TypeOK

LEMMA EventTypesKeep == TypeInv /\ [Next]_vars => TypeInv'
<1> SUFFICES ASSUME TypeInv, [Next]_vars PROVE TypeInv'
  OBVIOUS
<1> USE SentinelAssumption, BoundAssumption
    DEF TypeInv, TypeOK, CarriesSymbol, CachePrices, CrawlerPcs, ConsumerPcs,
        Generations, session, consumers, publishers, reconciliation
<1>1. ASSUME NEW c \in Crawlers, NEW s \in Symbols, NEW p \in Prices, Fetch(c, s, p)
      PROVE TypeInv'
  BY <1>1 DEF Fetch, Quotes
<1>2. ASSUME NEW c \in Crawlers, WriteSnapshot(c) PROVE TypeInv'
  <2>1. snapshot' \in [Symbols -> CachePrices]
    BY <1>2 DEF WriteSnapshot, Quotes
  <2>2. quote' \in [Crawlers -> Quotes] /\ crawler' \in [Crawlers -> CrawlerPcs]
    BY <1>2, NoQuoteType DEF WriteSnapshot, PublisherDone
  <2>3. \A d \in Crawlers : crawler'[d] # "idle" => quote'[d].symbol \in Symbols
    BY <1>2 DEF WriteSnapshot, PublisherDone
  <2> QED
    BY <1>2, <2>1, <2>2, <2>3 DEF WriteSnapshot
<1>3. ASSUME NEW c \in Crawlers, InsertPending(c) PROVE TypeInv'
  <2>1. quote' \in [Crawlers -> Quotes] /\ crawler' \in [Crawlers -> CrawlerPcs]
    BY <1>3, NoQuoteType DEF InsertPending, PublisherDone
  <2>2. pending' \subseteq Symbols
    BY <1>3 DEF InsertPending
  <2>3. \A d \in Crawlers : crawler'[d] # "idle" => quote'[d].symbol \in Symbols
    BY <1>3 DEF InsertPending, PublisherDone
  <2> QED
    BY <1>3, <2>1, <2>2, <2>3 DEF InsertPending
<1>4. ASSUME NEW c \in Crawlers, CloneSender(c) PROVE TypeInv'
  BY <1>4 DEF CloneSender
<1>5. ASSUME NEW c \in Crawlers, TrySend(c) PROVE TypeInv'
  <2>1. quote' \in [Crawlers -> Quotes] /\ crawler' \in [Crawlers -> CrawlerPcs]
    BY <1>5, NoQuoteType DEF TrySend, PublisherDone
  <2>2. queue' \in [Generations -> Seq(Symbols)]
    <3> DEFINE g == sender[c]
    <3>1. CASE UNCHANGED queue
      BY <3>1
    <3>2. CASE g # 0 /\ queue' = [queue EXCEPT ![g] = Append(@, quote[c].symbol)]
      <4>1. g \in Generations /\ Append(queue[g], quote[c].symbol) \in Seq(Symbols)
        BY <1>5, <3>2 DEF TrySend
      <4> QED
        BY <3>2, <4>1
    <3> QED
      BY <1>5, <3>1, <3>2 DEF TrySend
  <2>3. \A d \in Crawlers : crawler'[d] # "idle" => quote'[d].symbol \in Symbols
    BY <1>5 DEF TrySend, PublisherDone
  <2> QED
    BY <1>5, <2>1, <2>2, <2>3 DEF TrySend
<1>6. ASSUME NEW c \in Crawlers, DropEvent(c) PROVE TypeInv'
  BY <1>6, NoQuoteType DEF DropEvent, PublisherDone
<1>7. ASSUME NEW s \in Symbols, DropSnapshot(s) PROVE TypeInv'
  BY <1>7 DEF DropSnapshot
<1>8. ASSUME NEW g \in Generations, Receive(g) PROVE TypeInv'
  BY <1>8 DEF Receive
<1>9. ASSUME NEW g \in Generations, EvaluatePriceUpdate(g) PROVE TypeInv'
  BY <1>9 DEF EvaluatePriceUpdate, Evaluated
<1>10. ASSUME NEW g \in Generations, ClearPending(g) PROVE TypeInv'
  BY <1>10 DEF ClearPending
<1>11. ASSUME NEW g \in Generations, ConsumerExit(g) PROVE TypeInv'
  BY <1>11 DEF ConsumerExit
<1>12. CASE ReconcileTick
  BY <1>12 DEF ReconcileTick
<1>13. ASSUME NEW s \in Symbols, ReconcileSymbol(s) PROVE TypeInv'
  BY <1>13 DEF ReconcileSymbol, Evaluated
<1>14. CASE RefreshTargets
  BY <1>14 DEF RefreshTargets, LoadTargets
<1>15. CASE StartLoadTargets
  BY <1>15 DEF StartLoadTargets, LoadTargets
<1>16. CASE StartConsumer
  BY <1>16 DEF StartConsumer
<1>17. CASE StopTakeSender
  BY <1>17 DEF StopTakeSender
<1>18. CASE StopClearPending
  BY <1>18 DEF StopClearPending
<1>19. CASE StopClearCaches
  BY <1>19 DEF StopClearCaches
<1>20. CASE MarketClosed
  BY <1>20 DEF MarketClosed
<1>21. CASE UNCHANGED vars
  BY <1>21 DEF vars
<1> QED
  BY <1>1, <1>2, <1>3, <1>4, <1>5, <1>6, <1>7, <1>8, <1>9, <1>10, <1>11, <1>12, <1>13,
     <1>14, <1>15, <1>16, <1>17, <1>18, <1>19, <1>20, <1>21
     DEF Next, Publish, Consume

\* Every variable of the pipeline keeps its type, for all constants.
THEOREM TypeCorrect == Spec => []TypeOK
<1>1. TypeInv => TypeOK
  BY DEF TypeInv
<1> QED
  BY <1>1, EventTypesStart, EventTypesKeep, PTL DEF Spec
-----------------------------------------------------------------------------
(* No event is sent into the void.                                         *)

\* SenderHasConsumer without sets of senders.
ChannelServed ==
    \A g \in Generations :
        \/ tx = g
        \/ \E c \in Crawlers : crawler[c] = "send" /\ sender[c] = g
        \/ queue[g] # <<>>
        => consumer[g] \in {"recv", "read", "clear"}

LEMMA ChannelServedIsSenderHasConsumer == ChannelServed <=> SenderHasConsumer
BY DEF ChannelServed, SenderHasConsumer, SendersOf

LEMMA ChannelServedStep == TypeInv /\ ChannelServed /\ [Next]_vars => ChannelServed'
<1> SUFFICES ASSUME TypeInv, ChannelServed, [Next]_vars PROVE ChannelServed'
  OBVIOUS
<1> USE SentinelAssumption, BoundAssumption
    DEF TypeInv, TypeOK, CarriesSymbol, ChannelServed, CrawlerPcs, ConsumerPcs, Generations,
        session, consumers, publishers, reconciliation
<1>1. ASSUME NEW c \in Crawlers, NEW s \in Symbols, NEW p \in Prices, Fetch(c, s, p) PROVE ChannelServed'
  BY <1>1 DEF Fetch
<1>2. ASSUME NEW c \in Crawlers, WriteSnapshot(c) PROVE ChannelServed'
  BY <1>2 DEF WriteSnapshot, PublisherDone
<1>3. ASSUME NEW c \in Crawlers, InsertPending(c) PROVE ChannelServed'
  BY <1>3 DEF InsertPending, PublisherDone
<1>4. ASSUME NEW c \in Crawlers, CloneSender(c) PROVE ChannelServed'
  BY <1>4 DEF CloneSender
<1>5. ASSUME NEW c \in Crawlers, TrySend(c) PROVE ChannelServed'
  BY <1>5 DEF TrySend, PublisherDone
<1>6. ASSUME NEW c \in Crawlers, DropEvent(c) PROVE ChannelServed'
  BY <1>6 DEF DropEvent, PublisherDone
<1>7. ASSUME NEW s \in Symbols, DropSnapshot(s) PROVE ChannelServed'
  BY <1>7 DEF DropSnapshot
<1>8. ASSUME NEW g \in Generations, Receive(g) PROVE ChannelServed'
  BY <1>8 DEF Receive
<1>9. ASSUME NEW g \in Generations, EvaluatePriceUpdate(g) PROVE ChannelServed'
  BY <1>9 DEF EvaluatePriceUpdate
<1>10. ASSUME NEW g \in Generations, ClearPending(g) PROVE ChannelServed'
  BY <1>10 DEF ClearPending
<1>11. ASSUME NEW g \in Generations, ConsumerExit(g) PROVE ChannelServed'
  BY <1>11 DEF ConsumerExit, ChannelClosed, SendersOf
<1>12. CASE ReconcileTick
  BY <1>12 DEF ReconcileTick
<1>13. ASSUME NEW s \in Symbols, ReconcileSymbol(s) PROVE ChannelServed'
  BY <1>13 DEF ReconcileSymbol
<1>14. CASE RefreshTargets
  BY <1>14 DEF RefreshTargets
<1>15. CASE StartLoadTargets
  BY <1>15 DEF StartLoadTargets
<1>16. CASE StartConsumer
  BY <1>16 DEF StartConsumer
<1>17. CASE StopTakeSender
  BY <1>17 DEF StopTakeSender
<1>18. CASE StopClearPending
  BY <1>18 DEF StopClearPending
<1>19. CASE StopClearCaches
  BY <1>19 DEF StopClearCaches
<1>20. CASE MarketClosed
  BY <1>20 DEF MarketClosed
<1>21. CASE UNCHANGED vars
  BY <1>21 DEF vars
<1> QED
  BY <1>1, <1>2, <1>3, <1>4, <1>5, <1>6, <1>7, <1>8, <1>9, <1>10, <1>11, <1>12, <1>13,
     <1>14, <1>15, <1>16, <1>17, <1>18, <1>19, <1>20, <1>21
     DEF Next, Publish, Consume

\* Whoever holds a sender, and every queued event, has a running consumer, for
\* any number of sessions and publishers.
THEOREM SendersHaveConsumers == Spec => []SenderHasConsumer
<1>1. Init => ChannelServed
  BY BoundAssumption DEF Init, ChannelServed, Generations
<1> QED
  BY <1>1, EventTypesStart, EventTypesKeep, ChannelServedStep, ChannelServedIsSenderHasConsumer, PTL
     DEF Spec

-----------------------------------------------------------------------------
(* A pending mark always has an event that will remove it.                 *)

\* The three carriers of an event, one by one.
Publishes(c, s) == crawler[c] \in {"clone", "send", "unpend"} /\ quote[c].symbol = s
Holds(g, s) == \E i \in 1..Len(queue[g]) : queue[g][i] = s
Works(g, s) == consumer[g] \in {"read", "clear"} /\ evaluating[g] = s
Carried(s) ==
    \/ \E c \in Crawlers : Publishes(c, s)
    \/ \E g \in Generations : Holds(g, s) \/ Works(g, s)

MarksCarried == \A s \in pending : Carried(s)

LEMMA MarksCarriedIsPendingHasEvent == MarksCarried <=> PendingHasEvent
BY DEF MarksCarried, Carried, Publishes, Holds, Works, PendingHasEvent, Publishing, Queued,
       Consuming

\* A step that leaves the channels and the marks of others alone moves at most
\* the publisher that takes it.
LEMMA PublisherStep ==
    ASSUME TypeInv, MarksCarried, NEW c \in Crawlers,
           UNCHANGED <<queue, consumer, evaluating>>,
           crawler' \in [Crawlers -> CrawlerPcs], quote' \in [Crawlers -> Quotes],
           \A d \in Crawlers \ {c} : crawler'[d] = crawler[d] /\ quote'[d] = quote[d],
           \A s \in pending' : s \in pending \/ Publishes(c, s)',
           \A s \in pending' : Publishes(c, s) => Publishes(c, s)'
    PROVE  MarksCarried'
<1> SUFFICES ASSUME NEW s \in pending' PROVE Carried(s)'
  BY DEF MarksCarried
<1>1. CASE Publishes(c, s)'
  BY <1>1 DEF Carried
<1>2. CASE \E d \in Crawlers \ {c} : Publishes(d, s)
  BY <1>2 DEF Carried, Publishes
<1>3. CASE \E g \in Generations : Holds(g, s) \/ Works(g, s)
  BY <1>3 DEF Carried, Holds, Works
<1> QED
  BY <1>1, <1>2, <1>3 DEF MarksCarried, Carried

LEMMA MarksCarriedStep == TypeInv /\ MarksCarried /\ [Next]_vars => MarksCarried'
<1> SUFFICES ASSUME TypeInv, MarksCarried, [Next]_vars PROVE MarksCarried'
  OBVIOUS
<1>0. TypeInv'
  BY EventTypesKeep
<1>00. /\ crawler' \in [Crawlers -> CrawlerPcs] /\ quote' \in [Crawlers -> Quotes]
       /\ crawler \in [Crawlers -> CrawlerPcs] /\ quote \in [Crawlers -> Quotes]
  BY <1>0 DEF TypeInv, TypeOK
<1> USE DEF session, consumers, publishers, reconciliation
<1>1. ASSUME NEW c \in Crawlers, NEW s \in Symbols, NEW p \in Prices, Fetch(c, s, p)
      PROVE MarksCarried'
  BY <1>1, <1>00, PublisherStep DEF Fetch, Publishes
<1>2. ASSUME NEW c \in Crawlers, WriteSnapshot(c) PROVE MarksCarried'
  BY <1>2, <1>00, PublisherStep DEF WriteSnapshot, PublisherDone, Publishes
<1>3. ASSUME NEW c \in Crawlers, InsertPending(c) PROVE MarksCarried'
  BY <1>3, <1>00, PublisherStep DEF InsertPending, PublisherDone, Publishes
<1>4. ASSUME NEW c \in Crawlers, CloneSender(c) PROVE MarksCarried'
  BY <1>4, <1>00, PublisherStep DEF CloneSender, Publishes
<1>5. ASSUME NEW c \in Crawlers, TrySend(c) PROVE MarksCarried'
  <2>0. PICK g, s : g = sender[c] /\ s = quote[c].symbol
    OBVIOUS
  <2>1. CASE crawler' = [crawler EXCEPT ![c] = "unpend"] /\ UNCHANGED <<queue, quote>>
    BY <1>5, <2>1, <1>00, PublisherStep DEF TrySend, Publishes
  <2>2. CASE /\ g # 0
             /\ queue' = [queue EXCEPT ![g] = Append(@, s)]
             /\ PublisherDone(c)
    <3>1. g \in Generations /\ s \in Symbols /\ queue \in [Generations -> Seq(Symbols)]
      BY <1>5, <2>0, <2>2 DEF TrySend, TypeInv, TypeOK, CarriesSymbol
    <3>2. queue'[g] = Append(queue[g], s)
      BY <2>2, <3>1
    <3>3. Holds(g, s)'
      BY <3>1, <3>2 DEF Holds
    <3>4. \A h \in Generations, x \in Symbols : Holds(h, x) => Holds(h, x)'
      BY <2>2, <3>1, <3>2 DEF Holds
    <3>5. \A d \in Crawlers, x \in Symbols : Publishes(d, x) => Publishes(d, x)' \/ x = s
      BY <2>0, <2>2, <1>00 DEF Publishes, PublisherDone
    <3>6. \A x \in pending : x \in Symbols
      BY DEF TypeInv, TypeOK
    <3>7. UNCHANGED <<pending, consumer, evaluating>>
      BY <1>5 DEF TrySend
    <3>8. \A h \in Generations, x \in Symbols : Works(h, x) => Works(h, x)'
      BY <3>7 DEF Works
    <3> SUFFICES ASSUME NEW x \in pending' PROVE Carried(x)'
      BY DEF MarksCarried
    <3>9. x \in Symbols /\ Carried(x)
      BY <3>6, <3>7 DEF MarksCarried
    <3>10. CASE x = s
      BY <3>1, <3>3, <3>10 DEF Carried
    <3>11. CASE x # s
      BY <3>4, <3>5, <3>8, <3>9, <3>11 DEF Carried
    <3> QED
      BY <3>10, <3>11
  <2> QED
    BY <1>5, <2>0, <2>1, <2>2 DEF TrySend
<1>6. ASSUME NEW c \in Crawlers, DropEvent(c) PROVE MarksCarried'
  BY <1>6, <1>00, PublisherStep DEF DropEvent, PublisherDone, Publishes
<1>8. ASSUME NEW g \in Generations, Receive(g) PROVE MarksCarried'
  <2>0. PICK h : h = Head(queue[g])
    OBVIOUS
  <2>1. /\ queue \in [Generations -> Seq(Symbols)] /\ queue[g] # <<>>
        /\ consumer \in [Generations -> ConsumerPcs]
        /\ evaluating \in [Generations -> Symbols \cup {NoSymbol}]
    BY <1>8 DEF Receive, TypeInv, TypeOK
  <2>2. queue'[g] = Tail(queue[g])
    BY <1>8, <2>1 DEF Receive
  <2>3. Works(g, h)'
    BY <1>8, <2>0, <2>1 DEF Receive, Works
  <2>4. \A x : Holds(g, x) => x = h \/ Holds(g, x)'
    <3> SUFFICES ASSUME NEW x, NEW i \in 1..Len(queue[g]), queue[g][i] = x, x # h
                 PROVE  Holds(g, x)'
      BY DEF Holds
    <3>1. i # 1 /\ i - 1 \in 1..Len(Tail(queue[g])) /\ Tail(queue[g])[i - 1] = x
      BY <2>0, <2>1
    <3> QED
      BY <2>2, <3>1 DEF Holds
  <2>5. \A e \in Generations : \A x : e # g /\ Holds(e, x) => Holds(e, x)'
    BY <1>8, <2>1 DEF Receive, Holds
  <2>6. \A e \in Generations : \A x : Works(e, x) => Works(e, x)'
    BY <1>8, <2>1 DEF Receive, Works
  <2>7. UNCHANGED <<pending, crawler, quote>>
    BY <1>8 DEF Receive
  <2>8. \A d \in Crawlers : \A x : Publishes(d, x) => Publishes(d, x)'
    BY <2>7 DEF Publishes
  <2> SUFFICES ASSUME NEW x \in pending' PROVE Carried(x)'
    BY DEF MarksCarried
  <2>9. Carried(x)
    BY <2>7 DEF MarksCarried
  <2> QED
    BY <2>3, <2>4, <2>5, <2>6, <2>8, <2>9 DEF Carried
<1>9. ASSUME NEW g \in Generations, EvaluatePriceUpdate(g) PROVE MarksCarried'
  <2>1. consumer \in [Generations -> ConsumerPcs]
    BY DEF TypeInv, TypeOK
  <2>2. \A e \in Generations : \A x : Works(e, x) => Works(e, x)'
    BY <1>9, <2>1 DEF EvaluatePriceUpdate, Works
  <2> QED
    BY <1>9, <2>2 DEF EvaluatePriceUpdate, MarksCarried, Carried, Publishes, Holds
<1>10. ASSUME NEW g \in Generations, ClearPending(g) PROVE MarksCarried'
  <2>1. /\ consumer \in [Generations -> ConsumerPcs]
        /\ evaluating \in [Generations -> Symbols \cup {NoSymbol}]
    BY DEF TypeInv, TypeOK
  <2>2. \A e \in Generations : \A x : Works(e, x) => Works(e, x)' \/ x = evaluating[g]
    BY <1>10, <2>1 DEF ClearPending, Works
  <2> QED
    BY <1>10, <2>2 DEF ClearPending, MarksCarried, Carried, Publishes, Holds
<1>11. CASE pending' = {}
  BY <1>11 DEF MarksCarried
<1>12. CASE UNCHANGED <<pending, consumers, publishers>>
  BY <1>12 DEF MarksCarried, Carried, Publishes, Holds, Works
<1>13. \/ \E c \in Crawlers : Publish(c) \/ \E s \in Symbols, p \in Prices : Fetch(c, s, p)
       \/ \E g \in Generations :
             Receive(g) \/ EvaluatePriceUpdate(g) \/ ClearPending(g)
       \/ pending' = {}
       \/ UNCHANGED <<pending, consumers, publishers>>
  BY DEF Next, Consume, ConsumerExit, DropSnapshot, ReconcileTick, ReconcileSymbol,
         RefreshTargets, StartLoadTargets, StartConsumer, StopTakeSender,
         StopClearPending, StopClearCaches, MarketClosed, vars
<1> QED
  BY <1>1, <1>2, <1>3, <1>4, <1>5, <1>6, <1>8, <1>9, <1>10, <1>11, <1>12, <1>13 DEF Publish

\* publish_price_update can never be blocked for good by a mark nobody removes,
\* for any number of symbols, publishers and sessions and any channel capacity.
THEOREM PendingMarksHaveEvents == Spec => []PendingHasEvent
<1>1. Init => MarksCarried
  BY DEF Init, MarksCarried
<1> QED
  BY <1>1, EventTypesStart, EventTypesKeep, MarksCarriedStep, MarksCarriedIsPendingHasEvent, PTL
     DEF Spec
-----------------------------------------------------------------------------
(* At most two events of a symbol are under way in a first session.        *)

\* The places of a symbol in a channel, and the publishers with its sender in hand.
PlacesOf(s, q) == {i \in 1 .. Len(q) : q[i] = s}
Sending(s) == {c \in Publishing(s) : sender[c] = 1}
Held(s) == IF 1 \in Consuming(s) THEN 1 ELSE 0
Marked(s) == IF s \in pending THEN 1 ELSE 0

\* Before the first start who publishes holds the mark.  Then one publisher more than the
\* mark allows is left, and nobody joins once the sender is gone.
CountsFit(s) ==
    /\ IsFiniteSet(Publishing(s))
    /\ generation = 0 => Cardinality(Publishing(s)) <= Marked(s)
    /\ generation = 1 =>
        /\ Cardinality(PlacesOf(s, queue[1])) + Cardinality(Sending(s)) + Held(s) <= 2
        /\ tx = 1 => Cardinality(Publishing(s)) + Cardinality(PlacesOf(s, queue[1])) + Held(s)
                        <= 1 + Marked(s)

\* Nothing of a session is there before it starts.
NothingEarly ==
    /\ tx <= generation /\ \A c \in Crawlers : sender[c] <= generation
    /\ \A c \in Crawlers : crawler[c] # "send" => sender[c] = 0
    /\ \A g \in Generations : g > generation => consumer[g] = "none" /\ queue[g] = <<>>
    /\ tx # 0 <=> phase = "on"
    /\ generation = 0 => phase \in {"off", "loaded"}

FewEvents == NothingEarly /\ \A s \in Symbols : CountsFit(s)

LEMMA NothingComesEarly ==
  ASSUME TypeInv, NothingEarly, [Next]_vars
  PROVE  NothingEarly'
<1> USE SentinelAssumption, BoundAssumption
    DEF TypeInv, TypeOK, CarriesSymbol, NothingEarly, CrawlerPcs, ConsumerPcs, Generations,
        session, consumers, publishers, reconciliation
<1>1. ASSUME NEW c \in Crawlers, NEW s \in Symbols, NEW p \in Prices, Fetch(c, s, p) PROVE NothingEarly'
  BY <1>1 DEF Fetch
<1>2. ASSUME NEW c \in Crawlers, WriteSnapshot(c) PROVE NothingEarly'
  BY <1>2 DEF WriteSnapshot, PublisherDone
<1>3. ASSUME NEW c \in Crawlers, InsertPending(c) PROVE NothingEarly'
  BY <1>3 DEF InsertPending, PublisherDone
<1>4. ASSUME NEW c \in Crawlers, CloneSender(c) PROVE NothingEarly'
  BY <1>4 DEF CloneSender
<1>5. ASSUME NEW c \in Crawlers, TrySend(c) PROVE NothingEarly'
  <2>1. sender[c] <= generation /\ UNCHANGED <<tx, generation, consumer, phase>>
    BY <1>5 DEF TrySend
  <2>2. \A d \in Crawlers : sender'[d] <= generation
    BY <1>5 DEF TrySend
  <2>4. \A d \in Crawlers : crawler'[d] # "send" => sender'[d] = 0
    BY <1>5 DEF TrySend, PublisherDone
  <2>3. \A g \in Generations : g > generation => queue'[g] = queue[g]
    <3>1. PICK h : h = sender[c] /\ h <= generation
      BY <2>1
    <3>2. queue' = queue \/ queue' = [queue EXCEPT ![h] = Append(@, quote[c].symbol)]
      BY <1>5, <3>1 DEF TrySend
    <3>3. \A g \in Generations : g > generation => g # h
      BY <3>1
    <3> QED
      BY <3>2, <3>3
  <2> QED
    BY <2>1, <2>2, <2>3, <2>4
<1>6. ASSUME NEW c \in Crawlers, DropEvent(c) PROVE NothingEarly'
  BY <1>6 DEF DropEvent, PublisherDone
<1>7. ASSUME NEW s \in Symbols, DropSnapshot(s) PROVE NothingEarly'
  BY <1>7 DEF DropSnapshot
<1>8. ASSUME NEW g \in Generations, Receive(g) PROVE NothingEarly'
  BY <1>8 DEF Receive
<1>9. ASSUME NEW g \in Generations, EvaluatePriceUpdate(g) PROVE NothingEarly'
  BY <1>9 DEF EvaluatePriceUpdate
<1>10. ASSUME NEW g \in Generations, ClearPending(g) PROVE NothingEarly'
  BY <1>10 DEF ClearPending
<1>11. ASSUME NEW g \in Generations, ConsumerExit(g) PROVE NothingEarly'
  BY <1>11 DEF ConsumerExit
<1>12. CASE ReconcileTick
  BY <1>12 DEF ReconcileTick
<1>13. ASSUME NEW s \in Symbols, ReconcileSymbol(s) PROVE NothingEarly'
  BY <1>13 DEF ReconcileSymbol
<1>14. CASE RefreshTargets
  BY <1>14 DEF RefreshTargets
<1>15. CASE StartLoadTargets
  BY <1>15 DEF StartLoadTargets
<1>16. CASE StartConsumer
  <2>1. /\ generation' = generation + 1 /\ tx' = generation + 1 /\ phase' = "on"
        /\ consumer' = [consumer EXCEPT ![generation + 1] = "recv"]
        /\ UNCHANGED <<queue, sender, crawler>>
    BY <1>16 DEF StartConsumer
  <2>2. generation \in Nat
    OBVIOUS
  <2>3. \A c \in Crawlers : sender[c] \in Nat /\ sender[c] <= generation
    OBVIOUS
  <2>4. \A c \in Crawlers : sender'[c] <= generation'
    BY <2>1, <2>2, <2>3
  <2>5. \A g \in Generations : g > generation' => consumer'[g] = consumer[g] /\ g > generation
    BY <2>1, <2>2
  <2>6. \A g \in Generations : g > generation' => consumer'[g] = "none" /\ queue'[g] = <<>>
    BY <2>1, <2>5
  <2> QED
    BY <2>1, <2>2, <2>4, <2>6
<1>17. CASE StopTakeSender
  BY <1>17 DEF StopTakeSender
<1>18. CASE StopClearPending
  BY <1>18 DEF StopClearPending
<1>19. CASE StopClearCaches
  BY <1>19 DEF StopClearCaches
<1>20. CASE MarketClosed
  BY <1>20 DEF MarketClosed
<1>21. CASE UNCHANGED vars
  BY <1>21 DEF vars
<1> QED
  BY <1>1, <1>2, <1>3, <1>4, <1>5, <1>6, <1>7, <1>8, <1>9, <1>10, <1>11, <1>12, <1>13,
     <1>14, <1>15, <1>16, <1>17, <1>18, <1>19, <1>20, <1>21
     DEF Next, Publish, Consume

LEMMA PlacesAreFinite ==
  ASSUME NEW q \in Seq(Symbols), NEW s
  PROVE  /\ IsFiniteSet(PlacesOf(s, q)) /\ Cardinality(PlacesOf(s, q)) \in Nat
         /\ PlacesOf(s, q) \subseteq 1 .. Len(q)
<1>1. Len(q) \in Nat /\ PlacesOf(s, q) \subseteq 1 .. Len(q)
  BY DEF PlacesOf
<1>2. IsFiniteSet(1 .. Len(q))
  BY <1>1, FS_Interval
<1> QED
  BY <1>1, <1>2, FS_Subset, FS_CardinalityType

LEMMA PlaceIsAdded ==
  ASSUME NEW q \in Seq(Symbols), NEW s, NEW x \in Symbols
  PROVE  Cardinality(PlacesOf(s, Append(q, x)))
            = Cardinality(PlacesOf(s, q)) + (IF x = s THEN 1 ELSE 0)
<1>1. Len(q) \in Nat /\ Len(Append(q, x)) = Len(q) + 1
  OBVIOUS
<1>2. \A i \in 1 .. Len(q) + 1 : Append(q, x)[i] = IF i = Len(q) + 1 THEN x ELSE q[i]
  OBVIOUS
<1>3. CASE x = s
  <2>1. PlacesOf(s, Append(q, x)) = PlacesOf(s, q) \cup {Len(q) + 1}
    BY <1>1, <1>2, <1>3 DEF PlacesOf
  <2>2. Len(q) + 1 \notin PlacesOf(s, q)
    BY <1>1, PlacesAreFinite
  <2> QED
    BY <1>3, <2>1, <2>2, PlacesAreFinite, FS_AddElement
<1>4. CASE x # s
  <2>1. PlacesOf(s, Append(q, x)) = PlacesOf(s, q)
    BY <1>1, <1>2, <1>4 DEF PlacesOf
  <2> QED
    BY <1>4, <2>1, PlacesAreFinite
<1> QED
  BY <1>3, <1>4

LEMMA PlaceIsTaken ==
  ASSUME NEW q \in Seq(Symbols), NEW s, q # <<>>
  PROVE  Cardinality(PlacesOf(s, Tail(q))) + (IF Head(q) = s THEN 1 ELSE 0)
            <= Cardinality(PlacesOf(s, q))
<1> DEFINE Rest == PlacesOf(s, q) \ {1}
           Shift == [i \in Rest |-> i - 1]
<1>1. /\ Len(q) \in Nat /\ Len(q) >= 1 /\ Tail(q) \in Seq(Symbols) /\ Len(Tail(q)) = Len(q) - 1
      /\ \A i \in 1 .. Len(q) - 1 : Tail(q)[i] = q[i + 1]
  OBVIOUS
<1>2. /\ IsFiniteSet(PlacesOf(s, q)) /\ PlacesOf(s, q) \subseteq 1 .. Len(q)
      /\ Cardinality(PlacesOf(s, q)) \in Nat
  BY PlacesAreFinite
<1>3. Shift \in Surjection(Rest, PlacesOf(s, Tail(q)))
  <2>1. \A i \in Rest : i - 1 \in PlacesOf(s, Tail(q))
    <3> SUFFICES ASSUME NEW i \in Rest PROVE i - 1 \in PlacesOf(s, Tail(q))
      OBVIOUS
    <3>1. i \in 1 .. Len(q) /\ i # 1 /\ q[i] = s
      BY DEF PlacesOf
    <3>2. i - 1 \in 1 .. Len(q) - 1
      BY <1>1, <3>1
    <3>3. Tail(q)[i - 1] = q[i]
      BY <1>1, <3>1, <3>2
    <3> QED
      BY <1>1, <3>1, <3>2, <3>3 DEF PlacesOf
  <2>2. \A j \in PlacesOf(s, Tail(q)) : \E i \in Rest : Shift[i] = j
    <3> SUFFICES ASSUME NEW j \in PlacesOf(s, Tail(q)) PROVE \E i \in Rest : Shift[i] = j
      OBVIOUS
    <3>1. j \in 1 .. Len(q) - 1 /\ Tail(q)[j] = s
      BY <1>1 DEF PlacesOf
    <3>2. j + 1 \in 1 .. Len(q) /\ j + 1 # 1 /\ q[j + 1] = s
      BY <1>1, <3>1
    <3>3. j + 1 \in Rest
      BY <3>2 DEF PlacesOf
    <3> QED
      BY <3>1, <3>3
  <2> QED
    BY <2>1, <2>2 DEF Surjection
<1>4. /\ IsFiniteSet(Rest)
      /\ Cardinality(Rest) = IF 1 \in PlacesOf(s, q) THEN Cardinality(PlacesOf(s, q)) - 1
                             ELSE Cardinality(PlacesOf(s, q))
  BY <1>2, FS_RemoveElement
<1>5. Cardinality(PlacesOf(s, Tail(q))) <= Cardinality(Rest)
  <2> HIDE DEF Rest, Shift
  <2> QED
    BY <1>3, <1>4, FS_Surjection
<1>6. Head(q) = s <=> 1 \in PlacesOf(s, q)
  BY <1>1 DEF PlacesOf
<1>7. Cardinality(PlacesOf(s, Tail(q))) \in Nat
  BY <1>1, PlacesAreFinite
<1> HIDE DEF Rest, Shift
<1> QED
  BY <1>2, <1>4, <1>5, <1>6, <1>7

LEMMA CountsAreNumbers ==
  ASSUME TypeInv, NEW s \in Symbols, IsFiniteSet(Publishing(s))
  PROVE  /\ Cardinality(Publishing(s)) \in Nat /\ Cardinality(Sending(s)) \in Nat
         /\ IsFiniteSet(Sending(s)) /\ Cardinality(Sending(s)) <= Cardinality(Publishing(s))
         /\ Held(s) \in {0, 1} /\ Marked(s) \in {0, 1}
         /\ generation = 1 => /\ 1 \in Generations /\ queue[1] \in Seq(Symbols)
                              /\ Cardinality(PlacesOf(s, queue[1])) \in Nat
<1>1. Sending(s) \subseteq Publishing(s)
  BY DEF Sending
<1>2. IsFiniteSet(Sending(s)) /\ Cardinality(Sending(s)) <= Cardinality(Publishing(s))
  BY <1>1, FS_Subset
<1>3. generation = 1 => 1 \in Generations /\ queue[1] \in Seq(Symbols)
  BY DEF TypeInv, TypeOK
<1> QED
  BY <1>2, <1>3, PlacesAreFinite, FS_CardinalityType DEF Held, Marked

\* A step that moves no event of the symbol.
LEMMA CountsStay ==
  ASSUME NEW s \in Symbols, CountsFit(s), UNCHANGED <<queue, tx, generation>>,
         Publishing(s)' = Publishing(s), Sending(s)' = Sending(s), Held(s)' = Held(s),
         Marked(s)' = Marked(s)
  PROVE  CountsFit(s)'
BY DEF CountsFit

LEMMA QuietSteps ==
  ASSUME NEW s \in Symbols, CountsFit(s),
         UNCHANGED <<crawler, quote, sender, consumer, evaluating, queue, pending, tx, generation>>
  PROVE  CountsFit(s)'
<1>1. Publishing(s)' = Publishing(s)
  BY DEF Publishing
<1>2. Sending(s)' = Sending(s)
  BY <1>1 DEF Sending
<1>3. Held(s)' = Held(s) /\ Marked(s)' = Marked(s)
  BY DEF Held, Consuming, Marked
<1> QED
  BY <1>1, <1>2, <1>3, CountsStay

\* What a publisher does before it may hold a mark.
LEMMA QuotesMoveNothing ==
  ASSUME TypeInv, NEW s \in Symbols, CountsFit(s), NEW c \in Crawlers,
         WriteSnapshot(c) \/ \E t \in Symbols, p \in Prices : Fetch(c, t, p)
  PROVE  CountsFit(s)'
<1>1. /\ UNCHANGED <<sender, consumer, evaluating, queue, pending, tx, generation>>
      /\ crawler[c] \in {"idle", "write"} /\ crawler'[c] \in {"idle", "write", "insert"}
      /\ \A d \in Crawlers \ {c} : crawler'[d] = crawler[d] /\ quote'[d] = quote[d]
  BY DEF WriteSnapshot, Fetch, PublisherDone, TypeInv, TypeOK, session, consumers
<1>2. Publishing(s)' = Publishing(s)
  <2>1. \A d \in Crawlers : d \in Publishing(s)' <=> d \in Publishing(s)
    <3> SUFFICES ASSUME NEW d \in Crawlers PROVE d \in Publishing(s)' <=> d \in Publishing(s)
      OBVIOUS
    <3>1. CASE d = c
      BY <1>1, <3>1 DEF Publishing
    <3>2. CASE d # c
      BY <1>1, <3>2 DEF Publishing
    <3> QED
      BY <3>1, <3>2
  <2> QED
    BY <2>1 DEF Publishing
<1>3. Sending(s)' = Sending(s)
  BY <1>1, <1>2 DEF Sending
<1>4. Held(s)' = Held(s) /\ Marked(s)' = Marked(s)
  BY <1>1 DEF Held, Consuming, Marked
<1> QED
  BY <1>1, <1>2, <1>3, <1>4, CountsStay

LEMMA MarkIsCounted ==
  ASSUME TypeInv, NothingEarly, NEW s \in Symbols, CountsFit(s), NEW c \in Crawlers, InsertPending(c)
  PROVE  CountsFit(s)'
<1>1. /\ UNCHANGED <<sender, consumer, evaluating, queue, tx, generation>>
      /\ crawler[c] = "insert" /\ sender[c] = 0 /\ quote[c].symbol \in Symbols
      /\ \A d \in Crawlers \ {c} : crawler'[d] = crawler[d] /\ quote'[d] = quote[d]
  BY DEF InsertPending, PublisherDone, TypeInv, TypeOK, CarriesSymbol, session, consumers, NothingEarly
<1>2. Held(s)' = Held(s)
  BY <1>1 DEF Held, Consuming
<1>3. CASE quote[c].symbol = s /\ MayPublish(s)
  <2>1. crawler'[c] = "clone" /\ quote' = quote /\ s \in pending' /\ s \notin pending
    BY <1>3 DEF InsertPending, MayPublish, TypeInv, TypeOK
  <2>2. c \notin Publishing(s) /\ Publishing(s)' = Publishing(s) \cup {c}
    <3>1. c \notin Publishing(s)
      BY <1>1 DEF Publishing
    <3>2. \A d \in Crawlers : d \in Publishing(s)' <=> d = c \/ d \in Publishing(s)
      BY <1>1, <1>3, <2>1 DEF Publishing
    <3> QED
      BY <3>1, <3>2 DEF Publishing
  <2>3. Sending(s)' = Sending(s)
    BY <1>1, <2>2 DEF Sending
  <2>4. Marked(s) = 0 /\ Marked(s)' = 1
    BY <2>1 DEF Marked
  <2>5. /\ IsFiniteSet(Publishing(s)')
        /\ Cardinality(Publishing(s)') = Cardinality(Publishing(s)) + 1
    BY <2>2, FS_AddElement DEF CountsFit
  <2> QED
    BY <1>1, <1>2, <2>3, <2>4, <2>5, CountsAreNumbers DEF CountsFit
<1>4. CASE ~(quote[c].symbol = s /\ MayPublish(s))
  <2>1. Marked(s)' = Marked(s)
    BY <1>4 DEF InsertPending, Marked
  <2>2. Publishing(s)' = Publishing(s)
    <3>1. c \notin Publishing(s)
      BY <1>1 DEF Publishing
    <3>2. c \notin Publishing(s)'
      BY <1>4 DEF InsertPending, PublisherDone, Publishing, TypeInv, TypeOK
    <3>3. \A d \in Crawlers \ {c} : d \in Publishing(s)' <=> d \in Publishing(s)
      BY <1>1 DEF Publishing
    <3> QED
      BY <3>1, <3>2, <3>3 DEF Publishing
  <2>3. Sending(s)' = Sending(s)
    BY <1>1, <2>2 DEF Sending
  <2> QED
    BY <1>1, <1>2, <2>1, <2>2, <2>3, CountsStay
<1> QED
  BY <1>3, <1>4

LEMMA CloneIsCounted ==
  ASSUME TypeInv, NothingEarly, NEW s \in Symbols, CountsFit(s), NEW c \in Crawlers, CloneSender(c)
  PROVE  CountsFit(s)'
<1>1. /\ UNCHANGED <<quote, pending, consumer, evaluating, queue, tx, generation>>
      /\ crawler[c] = "clone" /\ crawler'[c] = "send" /\ sender'[c] = tx
      /\ \A d \in Crawlers \ {c} : crawler'[d] = crawler[d] /\ sender'[d] = sender[d]
  BY DEF CloneSender, TypeInv, TypeOK, session, consumers
<1>2. Held(s)' = Held(s) /\ Marked(s)' = Marked(s)
  BY <1>1 DEF Held, Consuming, Marked
<1>3. Publishing(s)' = Publishing(s)
  <2>1. c \in Publishing(s)' <=> c \in Publishing(s)
    BY <1>1 DEF Publishing
  <2>2. \A d \in Crawlers \ {c} : d \in Publishing(s)' <=> d \in Publishing(s)
    BY <1>1 DEF Publishing
  <2> QED
    BY <2>1, <2>2 DEF Publishing
<1>4. CASE tx = 1
  <2>1. Sending(s)' \subseteq Publishing(s)
    BY <1>3 DEF Sending
  <2>2. IsFiniteSet(Sending(s)') /\ Cardinality(Sending(s)') <= Cardinality(Publishing(s))
    BY <2>1, FS_Subset DEF CountsFit
  <2>3. Cardinality(Sending(s)') \in Nat
    BY <2>2, FS_CardinalityType
  <2> QED
    BY <1>1, <1>2, <1>3, <1>4, <2>2, <2>3, CountsAreNumbers DEF CountsFit
<1>5. CASE tx # 1
  <2>1. Sending(s)' \subseteq Sending(s)
    <3> SUFFICES ASSUME NEW d \in Sending(s)' PROVE d \in Sending(s)
      OBVIOUS
    <3>1. d \in Publishing(s) /\ sender'[d] = 1 /\ d \in Crawlers
      BY <1>3 DEF Sending, Publishing
    <3>2. d # c
      BY <1>1, <1>5, <3>1
    <3> QED
      BY <1>1, <3>1, <3>2 DEF Sending
  <2>2. IsFiniteSet(Sending(s)') /\ Cardinality(Sending(s)') <= Cardinality(Sending(s))
    BY <2>1, FS_Subset, CountsAreNumbers DEF CountsFit
  <2>3. Cardinality(Sending(s)') \in Nat
    BY <2>2, FS_CardinalityType
  <2> QED
    BY <1>1, <1>2, <1>3, <1>5, <2>2, <2>3, CountsAreNumbers DEF CountsFit
<1> QED
  BY <1>4, <1>5

LEMMA SendIsCounted ==
  ASSUME TypeInv, NothingEarly, NEW s \in Symbols, CountsFit(s), NEW c \in Crawlers, TrySend(c)
  PROVE  CountsFit(s)'
<1> DEFINE t == quote[c].symbol
<1>1. /\ UNCHANGED <<pending, consumer, evaluating, tx, generation>>
      /\ crawler[c] = "send" /\ sender'[c] = 0 /\ t \in Symbols
      /\ \A d \in Crawlers \ {c} :
            crawler'[d] = crawler[d] /\ sender'[d] = sender[d] /\ quote'[d] = quote[d]
  BY DEF TrySend, PublisherDone, TypeInv, TypeOK, CarriesSymbol, session
<1>2. Held(s)' = Held(s) /\ Marked(s)' = Marked(s)
  BY <1>1 DEF Held, Consuming, Marked
<1>3. IsFiniteSet(Publishing(s)) /\ IsFiniteSet(Sending(s))
  BY CountsAreNumbers DEF CountsFit
<1>4. Sending(s)' = Sending(s) \ {c}
  <2>1. \A d \in Crawlers \ {c} : d \in Sending(s)' <=> d \in Sending(s)
    BY <1>1 DEF Sending, Publishing
  <2>2. c \notin Sending(s)'
    BY <1>1 DEF Sending
  <2> QED
    BY <2>1, <2>2 DEF Sending, Publishing
<1>5. /\ IsFiniteSet(Sending(s)')
      /\ Cardinality(Sending(s)') = IF c \in Sending(s) THEN Cardinality(Sending(s)) - 1
                                    ELSE Cardinality(Sending(s))
  <2>1. PICK S : S = Sending(s)
    OBVIOUS
  <2>2. /\ IsFiniteSet(S \ {c})
        /\ Cardinality(S \ {c}) = IF c \in S THEN Cardinality(S) - 1 ELSE Cardinality(S)
    BY <1>3, <2>1, FS_RemoveElement
  <2> QED
    BY <1>4, <2>1, <2>2
<1>6. CASE crawler'[c] = "unpend"
  <2>1. UNCHANGED <<queue, quote>>
    BY <1>6 DEF TrySend, PublisherDone, TypeInv, TypeOK
  <2>2. Publishing(s)' = Publishing(s)
    <3>1. c \in Publishing(s)' <=> c \in Publishing(s)
      BY <1>1, <1>6, <2>1 DEF Publishing
    <3>2. \A d \in Crawlers \ {c} : d \in Publishing(s)' <=> d \in Publishing(s)
      BY <1>1 DEF Publishing
    <3> QED
      BY <3>1, <3>2 DEF Publishing
  <2>3. Cardinality(Sending(s)') <= Cardinality(Sending(s)) /\ Cardinality(Sending(s)') \in Nat
    BY <1>3, <1>5, CountsAreNumbers, FS_CardinalityType
  <2>4. generation = 1 =>
          Cardinality(PlacesOf(s, queue[1])) + Cardinality(Sending(s)') + Held(s) <= 2
    BY <1>3, <2>3, CountsAreNumbers DEF CountsFit
  <2> QED
    BY <1>1, <1>2, <1>3, <2>1, <2>2, <2>4 DEF CountsFit
<1>7. CASE crawler'[c] # "unpend"
  <2>1. PICK g : g = sender[c]
    OBVIOUS
  <2>2. /\ g # 0 /\ g \in Generations /\ g <= generation /\ crawler'[c] = "idle"
        /\ queue' = [queue EXCEPT ![g] = Append(@, t)]
    BY <1>7, <2>1 DEF TrySend, PublisherDone, TypeInv, TypeOK, NothingEarly
  <2>3. Publishing(s)' = Publishing(s) \ {c}
    <3>1. \A d \in Crawlers \ {c} : d \in Publishing(s)' <=> d \in Publishing(s)
      BY <1>1 DEF Publishing
    <3>2. c \notin Publishing(s)'
      BY <2>2 DEF Publishing
    <3> QED
      BY <3>1, <3>2 DEF Publishing
  <2>4. /\ IsFiniteSet(Publishing(s)')
        /\ Cardinality(Publishing(s)') = IF c \in Publishing(s) THEN Cardinality(Publishing(s)) - 1
                                         ELSE Cardinality(Publishing(s))
    BY <1>3, <2>3, FS_RemoveElement
  <2>5. generation # 0
    BY <2>2 DEF Generations, TypeInv, TypeOK
  <2>6. CASE generation = 1
    <3>1. g = 1 /\ queue[1] \in Seq(Symbols) /\ queue'[1] = Append(queue[1], t)
      BY <2>2, <2>6 DEF Generations, TypeInv, TypeOK
    <3>2. Cardinality(PlacesOf(s, queue'[1]))
            = Cardinality(PlacesOf(s, queue[1])) + (IF t = s THEN 1 ELSE 0)
      BY <1>1, <3>1, PlaceIsAdded
    <3>3. c \in Publishing(s) <=> t = s
      BY <1>1 DEF Publishing
    <3>4. c \in Sending(s) <=> t = s
      BY <2>1, <3>1, <3>3 DEF Sending
    <3>5. Cardinality(PlacesOf(s, queue'[1])) + Cardinality(Sending(s)')
            = Cardinality(PlacesOf(s, queue[1])) + Cardinality(Sending(s))
      BY <1>3, <1>5, <2>6, <3>2, <3>4, CountsAreNumbers
    <3>6. Cardinality(Publishing(s)') + Cardinality(PlacesOf(s, queue'[1]))
            = Cardinality(Publishing(s)) + Cardinality(PlacesOf(s, queue[1]))
      BY <1>3, <2>4, <2>6, <3>2, <3>3, CountsAreNumbers
    <3> HIDE DEF t
    <3> QED
      BY <1>1, <1>2, <2>4, <2>6, <3>5, <3>6 DEF CountsFit
  <2>7. CASE generation # 1
    BY <1>1, <2>4, <2>5, <2>7 DEF CountsFit
  <2> QED
    BY <2>6, <2>7
<1> QED
  BY <1>6, <1>7

LEMMA DropIsCounted ==
  ASSUME TypeInv, NothingEarly, NEW s \in Symbols, CountsFit(s), NEW c \in Crawlers, DropEvent(c)
  PROVE  CountsFit(s)'
<1> DEFINE t == quote[c].symbol
<1>1. /\ UNCHANGED <<sender, consumer, evaluating, queue, tx, generation>>
      /\ crawler[c] = "unpend" /\ crawler'[c] = "idle" /\ sender[c] = 0
      /\ pending' = pending \ {t}
      /\ \A d \in Crawlers \ {c} : crawler'[d] = crawler[d] /\ quote'[d] = quote[d]
  BY DEF DropEvent, PublisherDone, TypeInv, TypeOK, session, consumers, NothingEarly
<1>2. Held(s)' = Held(s)
  BY <1>1 DEF Held, Consuming
<1>3. IsFiniteSet(Publishing(s)) /\ IsFiniteSet(Sending(s))
  BY CountsAreNumbers DEF CountsFit
<1>4. Publishing(s)' = Publishing(s) \ {c}
  <2>1. \A d \in Crawlers \ {c} : d \in Publishing(s)' <=> d \in Publishing(s)
    BY <1>1 DEF Publishing
  <2>2. c \notin Publishing(s)'
    BY <1>1 DEF Publishing
  <2> QED
    BY <2>1, <2>2 DEF Publishing
<1>5. Sending(s)' = Sending(s)
  BY <1>1, <1>4 DEF Sending
<1>6. /\ IsFiniteSet(Publishing(s)')
      /\ Cardinality(Publishing(s)') = IF c \in Publishing(s) THEN Cardinality(Publishing(s)) - 1
                                       ELSE Cardinality(Publishing(s))
  BY <1>3, <1>4, FS_RemoveElement
<1>7. CASE t = s
  <2>1. c \in Publishing(s) /\ Marked(s)' = 0
    BY <1>1, <1>7 DEF Publishing, Marked
  <2> HIDE DEF t
  <2> QED
    BY <1>1, <1>2, <1>3, <1>5, <1>6, <2>1, CountsAreNumbers DEF CountsFit
<1>8. CASE t # s
  <2>1. c \notin Publishing(s) /\ Marked(s)' = Marked(s)
    BY <1>1, <1>8 DEF Publishing, Marked
  <2> HIDE DEF t
  <2> QED
    BY <1>1, <1>2, <1>4, <1>5, <2>1, CountsStay
<1> QED
  BY <1>7, <1>8

\* The steps of a consumer, of which only the first can have one in a first session.
LEMMA OneConsumer ==
  ASSUME TypeInv, NothingEarly, NEW g \in Generations, consumer[g] # "none", generation <= 1
  PROVE  generation = 1 /\ g = 1
BY BoundAssumption DEF TypeInv, TypeOK, NothingEarly, Generations

LEMMA ReceiveIsCounted ==
  ASSUME TypeInv, NothingEarly, NEW s \in Symbols, CountsFit(s), NEW g \in Generations, Receive(g)
  PROVE  CountsFit(s)'
<1>1. /\ UNCHANGED <<crawler, quote, sender, pending, tx, generation>>
      /\ consumer[g] = "recv" /\ consumer' = [consumer EXCEPT ![g] = "read"]
      /\ evaluating' = [evaluating EXCEPT ![g] = Head(queue[g])]
      /\ queue[g] # <<>> /\ queue' = [queue EXCEPT ![g] = Tail(@)]
  BY DEF Receive, session, publishers
<1>2. Publishing(s)' = Publishing(s) /\ Sending(s)' = Sending(s) /\ Marked(s)' = Marked(s)
  <2>1. Publishing(s)' = Publishing(s)
    BY <1>1 DEF Publishing
  <2> QED
    BY <1>1, <2>1 DEF Sending, Marked
<1>3. IsFiniteSet(Publishing(s))
  BY DEF CountsFit
<1>4. CASE generation = 1
  <2>1. g = 1
    BY <1>1, <1>4, OneConsumer
  <2>2. /\ queue[1] \in Seq(Symbols) /\ queue[1] # <<>> /\ queue'[1] = Tail(queue[1])
        /\ consumer[1] = "recv" /\ consumer'[1] = "read" /\ evaluating'[1] = Head(queue[1])
    BY <1>1, <2>1 DEF TypeInv, TypeOK
  <2>3. Held(s) = 0 /\ Held(s)' = IF Head(queue[1]) = s THEN 1 ELSE 0
    BY <2>1, <2>2 DEF Held, Consuming
  <2>4. Cardinality(PlacesOf(s, queue'[1])) + (IF Head(queue[1]) = s THEN 1 ELSE 0)
            <= Cardinality(PlacesOf(s, queue[1]))
    BY <2>2, PlaceIsTaken
  <2>5. Cardinality(PlacesOf(s, queue'[1])) \in Nat
    <3>1. queue'[1] \in Seq(Symbols)
      BY <2>2
    <3> QED
      BY <3>1, PlacesAreFinite
  <2>6. Cardinality(PlacesOf(s, queue'[1])) + Held(s)' <= Cardinality(PlacesOf(s, queue[1])) + Held(s)
    BY <1>3, <1>4, <2>3, <2>4, <2>5, CountsAreNumbers
  <2>7. Held(s)' \in {0, 1}
    BY <2>3
  <2>8. /\ Cardinality(PlacesOf(s, queue'[1])) + Cardinality(Sending(s)) + Held(s)' <= 2
        /\ tx = 1 => Cardinality(Publishing(s)) + Cardinality(PlacesOf(s, queue'[1])) + Held(s)'
                        <= 1 + Marked(s)
    <3> DEFINE P == Cardinality(PlacesOf(s, queue[1]))  Q == Cardinality(PlacesOf(s, queue'[1]))
               B == Cardinality(Publishing(s))  S == Cardinality(Sending(s))
               h == Held(s)  H == Held(s)'  m == Marked(s)
    <3>1. P \in Nat /\ Q \in Nat /\ B \in Nat /\ S \in Nat /\ h \in {0, 1} /\ m \in {0, 1}
      BY <1>3, <1>4, <2>5, CountsAreNumbers
    <3>2. P + S + h <= 2 /\ (tx = 1 => B + P + h <= 1 + m)
      BY <1>4 DEF CountsFit
    <3>3. Q + H <= P + h /\ H \in {0, 1}
      BY <2>6, <2>7
    <3> HIDE DEF P, Q, B, S, h, H, m
    <3>4. Q + S + H <= 2 /\ (tx = 1 => B + Q + H <= 1 + m)
      BY <3>1, <3>2, <3>3
    <3> QED
      BY <3>4 DEF P, Q, B, S, h, H, m
  <2> QED
    BY <1>1, <1>2, <1>3, <1>4, <2>8 DEF CountsFit
<1>5. CASE generation # 1
  BY <1>1, <1>2, <1>5 DEF CountsFit
<1> QED
  BY <1>4, <1>5

LEMMA ReadingMovesNothing ==
  ASSUME TypeInv, NEW s \in Symbols, CountsFit(s), NEW g \in Generations, EvaluatePriceUpdate(g)
  PROVE  CountsFit(s)'
<1>1. /\ UNCHANGED <<crawler, quote, sender, evaluating, queue, pending, tx, generation>>
      /\ consumer[g] = "read" /\ consumer' = [consumer EXCEPT ![g] = "clear"]
  BY DEF EvaluatePriceUpdate, session, publishers
<1>2. Publishing(s)' = Publishing(s)
  BY <1>1 DEF Publishing
<1>3. Sending(s)' = Sending(s) /\ Marked(s)' = Marked(s)
  BY <1>1, <1>2 DEF Sending, Marked
<1>4. consumer[1] \in {"read", "clear"} <=> consumer'[1] \in {"read", "clear"}
  BY <1>1 DEF TypeInv, TypeOK
<1>5. Held(s)' = Held(s)
  BY <1>1, <1>4 DEF Held, Consuming
<1> QED
  BY <1>1, <1>2, <1>3, <1>5, CountsStay

LEMMA ClearIsCounted ==
  ASSUME TypeInv, NothingEarly, NEW s \in Symbols, CountsFit(s), NEW g \in Generations,
         ClearPending(g)
  PROVE  CountsFit(s)'
<1>1. /\ UNCHANGED <<crawler, quote, sender, queue, tx, generation>>
      /\ consumer[g] = "clear" /\ consumer' = [consumer EXCEPT ![g] = "recv"]
      /\ pending' = pending \ {evaluating[g]}
      /\ evaluating' = [evaluating EXCEPT ![g] = NoSymbol]
  BY DEF ClearPending, session, publishers
<1>2. Publishing(s)' = Publishing(s)
  BY <1>1 DEF Publishing
<1>3. Sending(s)' = Sending(s)
  BY <1>1, <1>2 DEF Sending
<1>4. IsFiniteSet(Publishing(s))
  BY DEF CountsFit
<1>5. CASE generation = 1
  <2>1. g = 1
    BY <1>1, <1>5, OneConsumer
  <2>2. Held(s)' = 0
    BY <1>1, <2>1 DEF Held, Consuming, TypeInv, TypeOK
  <2>3. Held(s) = (IF evaluating[1] = s THEN 1 ELSE 0)
    BY <1>1, <2>1 DEF Held, Consuming
  <2>4. Marked(s)' = IF evaluating[1] = s THEN 0 ELSE Marked(s)
    BY <1>1, <2>1 DEF Marked
  <2>5. Held(s) + Marked(s)' >= Marked(s) /\ Marked(s)' \in {0, 1}
    BY <1>4, <2>3, <2>4, CountsAreNumbers
  <2>6. /\ Cardinality(PlacesOf(s, queue[1])) + Cardinality(Sending(s)) + Held(s)' <= 2
        /\ tx = 1 => Cardinality(Publishing(s)) + Cardinality(PlacesOf(s, queue[1])) + Held(s)'
                        <= 1 + Marked(s)'
    BY <1>4, <1>5, <2>2, <2>5, CountsAreNumbers DEF CountsFit
  <2> QED
    BY <1>1, <1>2, <1>3, <1>4, <1>5, <2>6 DEF CountsFit
<1>6. CASE generation # 1
  <2>1. generation # 0
    BY <1>1, OneConsumer
  <2> QED
    BY <1>1, <1>2, <1>6, <2>1 DEF CountsFit
<1> QED
  BY <1>5, <1>6

LEMMA ExitIsCounted ==
  ASSUME TypeInv, NothingEarly, NEW s \in Symbols, CountsFit(s), NEW g \in Generations,
         ConsumerExit(g)
  PROVE  CountsFit(s)'
<1>1. /\ UNCHANGED <<crawler, quote, sender, evaluating, queue, tx, generation>>
      /\ consumer[g] = "recv" /\ consumer' = [consumer EXCEPT ![g] = "done"] /\ tx # g
  BY DEF ConsumerExit, ChannelClosed, session, publishers
<1>2. Publishing(s)' = Publishing(s)
  BY <1>1 DEF Publishing
<1>3. Sending(s)' = Sending(s)
  BY <1>1, <1>2 DEF Sending
<1>4. CASE generation = 1
  <2>1. g = 1 /\ tx # 1
    BY <1>1, <1>4, OneConsumer
  <2>2. Held(s)' = Held(s)
    BY <1>1, <2>1 DEF Held, Consuming, TypeInv, TypeOK
  <2> QED
    BY <1>1, <1>2, <1>3, <1>4, <2>1, <2>2 DEF CountsFit
<1>5. CASE generation # 1
  <2>1. generation # 0
    BY <1>1, OneConsumer
  <2> QED
    BY <1>1, <1>2, <1>5, <2>1 DEF CountsFit
<1> QED
  BY <1>4, <1>5

LEMMA StartIsCounted ==
  ASSUME TypeInv, NothingEarly, NEW s \in Symbols, CountsFit(s), StartConsumer
  PROVE  CountsFit(s)'
<1>1. /\ UNCHANGED <<crawler, quote, sender, queue>>
      /\ generation' = generation + 1 /\ generation \in Nat /\ pending' = {}
      /\ consumer' = [consumer EXCEPT ![generation + 1] = "recv"]
      /\ phase = "loaded" /\ generation < MaxStarts
  BY BoundAssumption
     DEF StartConsumer, publishers, TypeInv, TypeOK, Generations, CarriesSymbol
<1>2. Publishing(s)' = Publishing(s) /\ IsFiniteSet(Publishing(s))
  BY <1>1 DEF Publishing, CountsFit
<1>3. CASE generation = 0
  <2>1. 1 \in Generations
    BY <1>1, <1>3, BoundAssumption DEF Generations
  <2>2. queue'[1] = <<>> /\ consumer'[1] = "recv"
    BY <1>1, <1>3, <2>1 DEF NothingEarly, TypeInv, TypeOK
  <2>3. Cardinality(PlacesOf(s, queue'[1])) = 0
    <3>1. PlacesOf(s, <<>>) = {}
      BY DEF PlacesOf
    <3> QED
      BY <2>2, <3>1, FS_EmptySet
  <2>4. Cardinality(Sending(s)') = 0
    <3>1. \A c \in Crawlers : sender'[c] # 1
      BY <1>1, <1>3 DEF NothingEarly, TypeInv, TypeOK, Generations
    <3>2. Sending(s)' = {}
      BY <3>1 DEF Sending, Publishing
    <3> QED
      BY <3>2, FS_EmptySet
  <2>5. Held(s)' = 0 /\ Marked(s)' = 0
    BY <1>1, <2>2 DEF Held, Consuming, Marked
  <2>6. Cardinality(Publishing(s)) <= 1
    BY <1>2, <1>3, CountsAreNumbers DEF CountsFit
  <2>7. Cardinality(Publishing(s)) \in Nat
    BY <1>2, FS_CardinalityType
  <2> QED
    BY <1>1, <1>2, <1>3, <2>3, <2>4, <2>5, <2>6, <2>7 DEF CountsFit
<1>4. CASE generation # 0
  BY <1>1, <1>2, <1>4 DEF CountsFit
<1> QED
  BY <1>3, <1>4

LEMMA StopIsCounted ==
  ASSUME TypeInv, NothingEarly, NEW s \in Symbols, CountsFit(s),
         StopTakeSender \/ StopClearPending
  PROVE  CountsFit(s)'
<1>1. /\ UNCHANGED <<crawler, quote, sender, consumer, evaluating, queue, generation>>
      /\ generation # 0 /\ tx' = 0
  BY DEF StopTakeSender, StopClearPending, consumers, publishers, NothingEarly
<1>2. Publishing(s)' = Publishing(s) /\ Held(s)' = Held(s)
  BY <1>1 DEF Publishing, Held, Consuming
<1>3. Sending(s)' = Sending(s)
  BY <1>1, <1>2 DEF Sending
<1> QED
  BY <1>1, <1>2, <1>3 DEF CountsFit

LEMMA CountsKeepFitting ==
  ASSUME TypeInv, NothingEarly, NEW s \in Symbols, CountsFit(s), [Next]_vars
  PROVE  CountsFit(s)'
<1> USE DEF session, consumers, publishers, reconciliation
<1>1. ASSUME NEW c \in Crawlers, NEW t \in Symbols, NEW p \in Prices, Fetch(c, t, p)
      PROVE  CountsFit(s)'
  BY <1>1, QuotesMoveNothing
<1>2. ASSUME NEW c \in Crawlers, Publish(c) PROVE CountsFit(s)'
  BY <1>2, QuotesMoveNothing, MarkIsCounted, CloneIsCounted, SendIsCounted, DropIsCounted DEF Publish
<1>3. ASSUME NEW g \in Generations, Consume(g) PROVE CountsFit(s)'
  BY <1>3, ReceiveIsCounted, ReadingMovesNothing, ClearIsCounted, ExitIsCounted DEF Consume
<1>4. ASSUME NEW t \in Symbols, DropSnapshot(t) \/ ReconcileSymbol(t) PROVE CountsFit(s)'
  BY <1>4, QuietSteps DEF DropSnapshot, ReconcileSymbol
<1>5. CASE ReconcileTick \/ RefreshTargets \/ MarketClosed
  BY <1>5, QuietSteps DEF ReconcileTick, RefreshTargets, MarketClosed
<1>6. CASE StartLoadTargets \/ StopClearCaches
  BY <1>6, QuietSteps DEF StartLoadTargets, StopClearCaches
<1>7. CASE StartConsumer
  BY <1>7, StartIsCounted
<1>8. CASE StopTakeSender \/ StopClearPending
  BY <1>8, StopIsCounted
<1>9. CASE UNCHANGED vars
  BY <1>9, QuietSteps DEF vars
<1> QED
  BY <1>1, <1>2, <1>3, <1>4, <1>5, <1>6, <1>7, <1>8, <1>9 DEF Next

LEMMA CountsFitAtFirst == Init => FewEvents
<1> SUFFICES ASSUME Init PROVE FewEvents
  OBVIOUS
<1>1. NothingEarly
  BY BoundAssumption DEF Init, NothingEarly, Generations
<1>2. ASSUME NEW s \in Symbols PROVE CountsFit(s)
  <2>1. Publishing(s) = {}
    BY DEF Init, Publishing
  <2>2. IsFiniteSet(Publishing(s)) /\ Cardinality(Publishing(s)) = 0 /\ Marked(s) = 0
    BY <2>1, FS_EmptySet DEF Init, Marked
  <2> QED
    BY <2>2 DEF CountsFit, Init
<1> QED
  BY <1>1, <1>2 DEF FewEvents

\* In a first session a symbol has at most one event under way and one more that was marked
\* before the channel opened, for any publishers, symbols and capacity
\* (publish_price_update, start_price_update_consumer_task).
THEOREM EventsAreFew == Spec => []AtMostTwoEvents
<1>1. TypeInv /\ FewEvents /\ [Next]_vars => FewEvents'
  BY NothingComesEarly, CountsKeepFitting DEF FewEvents
<1>2. FewEvents => AtMostTwoEvents
  <2> SUFFICES ASSUME FewEvents, generation = 1, NEW s \in Symbols PROVE EventsOf(s, 1) <= 2
    BY DEF AtMostTwoEvents
  <2>1. EventsOf(s, 1) = Cardinality(PlacesOf(s, queue[1])) + Cardinality(Sending(s)) + Held(s)
    BY DEF EventsOf, PlacesOf, Sending, Held
  <2> QED
    BY <2>1 DEF FewEvents, CountsFit
<1> QED
  BY <1>1, <1>2, CountsFitAtFirst, EventTypesStart, EventTypesKeep, PTL DEF Spec

-----------------------------------------------------------------------------
(* The pipeline implements PriceWatch, as far as safety goes.              *)

\* Reconciliation runs only between the opening and the taking of a sender, so
\* the targets are cleared while nothing is watched.
OnlyOnReconciles == phase # "on" => ~reconciling

LEMMA OnlyOnReconcilesStep == OnlyOnReconciles /\ [Next]_vars => OnlyOnReconciles'
<1> SUFFICES ASSUME OnlyOnReconciles, [Next]_vars PROVE OnlyOnReconciles'
  OBVIOUS
<1> USE DEF OnlyOnReconciles, session, reconciliation
<1>1. CASE UNCHANGED <<session, reconciliation>>
  BY <1>1
<1>2. CASE UNCHANGED <<session, reconciling>>
  BY <1>2
<1>3. CASE StartLoadTargets \/ StartConsumer \/ StopTakeSender \/ StopClearPending
           \/ StopClearCaches \/ MarketClosed
  BY <1>3 DEF StartLoadTargets, StartConsumer, StopTakeSender, StopClearPending,
              StopClearCaches, MarketClosed
<1> QED
  BY <1>1, <1>2, <1>3
     DEF Next, vars, Publish, Fetch, WriteSnapshot, InsertPending, CloneSender, TrySend,
         DropEvent, DropSnapshot, Consume, Receive, EvaluatePriceUpdate, ClearPending,
         ConsumerExit, ReconcileTick, ReconcileSymbol, RefreshTargets

\* Reading the cache is an evaluation at the price it holds, or nothing at all
\* where the symbol is not cached.
LEMMA EvaluatedIsEvaluate ==
    ASSUME NEW s \in Symbols, seen' = Evaluated(s),
           UNCHANGED <<snapshot, targets, reconciling>>
    PROVE  Watch!Evaluate(s) \/ UNCHANGED Watch!vars
BY DEF Evaluated, Watch!Evaluate, Watch!vars

\* Loading the targets only replaces what is watched and forgets symbols.
LEMMA LoadTargetsIsRewatch ==
    ASSUME NEW T \in SUBSET Symbols, LoadTargets(T), UNCHANGED <<snapshot, reconciling>>
    PROVE  Watch!Rewatch
<1>1. (IF reconciling' THEN targets' ELSE {}) \in SUBSET Symbols
  BY DEF LoadTargets
<1>2. /\ T \ targets \in SUBSET Symbols
      /\ seen' = [s \in Symbols |-> IF s \in T \ targets THEN NoPrice ELSE seen[s]]
  BY DEF LoadTargets
<1> QED
  BY <1>1, <1>2 DEF Watch!Rewatch

\* Starting and stopping reconciliation replaces what is watched, and forgets
\* nothing.
LEMMA FlagIsRewatch ==
    ASSUME TypeInv, UNCHANGED <<snapshot, targets, seen>>
    PROVE  Watch!Rewatch
<1>1. targets \in SUBSET Symbols /\ seen \in [Symbols -> CachePrices]
  BY DEF TypeInv, TypeOK
<1>2. (IF reconciling' THEN targets' ELSE {}) \in SUBSET Symbols
  BY <1>1
<1>3. /\ {} \in SUBSET Symbols
      /\ seen' = [s \in Symbols |-> IF s \in {} THEN NoPrice ELSE seen[s]]
  BY <1>1
<1> QED
  BY <1>2, <1>3 DEF Watch!Rewatch

LEMMA WatchStep ==
    TypeInv /\ TypeInv' /\ OnlyOnReconciles /\ [Next]_vars => [Watch!Next]_(Watch!vars)
<1> SUFFICES ASSUME TypeInv, TypeInv', OnlyOnReconciles, [Next]_vars
             PROVE  Watch!Next \/ UNCHANGED Watch!vars
  OBVIOUS
<1> USE DEF reconciliation
<1>1. CASE UNCHANGED <<snapshot, targets, reconciling, seen>>
  BY <1>1 DEF Watch!vars
<1>2. CASE UNCHANGED <<targets, reconciling, seen>>
  <2>1. snapshot' \in [Symbols -> Prices \cup {NoPrice}]
    BY DEF TypeInv, TypeOK, CachePrices
  <2> QED
    BY <1>2, <2>1 DEF Watch!Next, Watch!Change
<1>3. ASSUME NEW g \in Generations, EvaluatePriceUpdate(g)
      PROVE  Watch!Next \/ UNCHANGED Watch!vars
  <2>1. evaluating[g] \in Symbols
    BY <1>3 DEF TypeInv, CarriesSymbol, EvaluatePriceUpdate
  <2>2. UNCHANGED <<snapshot, targets, reconciling>>
    BY <1>3 DEF EvaluatePriceUpdate
  <2>3. seen' = Evaluated(evaluating[g]) \/ seen' = seen
    BY <1>3 DEF EvaluatePriceUpdate
  <2> QED
    BY <1>1, <2>1, <2>2, <2>3, EvaluatedIsEvaluate DEF Watch!Next
<1>4. ASSUME NEW s \in Symbols, ReconcileSymbol(s)
      PROVE  Watch!Next \/ UNCHANGED Watch!vars
  BY <1>4, EvaluatedIsEvaluate DEF ReconcileSymbol, Watch!Next
<1>5. CASE RefreshTargets \/ StartLoadTargets
  BY <1>5, LoadTargetsIsRewatch DEF RefreshTargets, StartLoadTargets, Watch!Next
<1>6. CASE UNCHANGED <<snapshot, targets, seen>>
  BY <1>6, FlagIsRewatch DEF Watch!Next
<1>7. CASE StopClearCaches
  <2>1. ~reconciling /\ reconciling' = reconciling /\ seen' = seen
    BY <1>7 DEF StopClearCaches, OnlyOnReconciles
  <2>2. snapshot' \in [Symbols -> Prices \cup {NoPrice}]
    BY DEF TypeInv, TypeOK, CachePrices
  <2> QED
    BY <2>1, <2>2 DEF Watch!Next, Watch!Change
<1> QED
  BY <1>1, <1>2, <1>3, <1>4, <1>5, <1>6, <1>7
     DEF Next, vars, Publish, Fetch, WriteSnapshot, InsertPending, CloneSender, TrySend,
         DropEvent, DropSnapshot, Consume, Receive, ClearPending, ConsumerExit,
         ReconcileTick, StartConsumer, StopTakeSender, StopClearPending, MarketClosed

\* Events, pending marks, channels and restarts change prices, the watched
\* symbols and what was evaluated only in the ways PriceWatch allows; above all,
\* a boundary is only ever evaluated at the price the cache holds at that moment.
THEOREM PipelineImplementsWatch == Spec => Watch!Spec
<1>1. Init => Watch!Init
  BY DEF Init, Watch!Init
<1>2. Init => OnlyOnReconciles
  BY DEF Init, OnlyOnReconciles
<1> QED
  BY <1>1, <1>2, EventTypesStart, EventTypesKeep, OnlyOnReconcilesStep, WatchStep, PTL
     DEF Spec, Watch!Spec

-----------------------------------------------------------------------------
(* The index of the market, for any days, revisions and restarts.          *)

Updates == [at : {"idle", "items", "save", "tell", "cache"}, data : [IndexDays -> 0 .. 2],
            left : SUBSET IndexDays]

IndexTyped ==
    /\ figures \in [IndexDays -> 0 .. 2] /\ indexRows \in [IndexDays -> 0 .. 2]
    /\ indices \in [IndexDays -> 0 .. 2]
    /\ update \in Updates
    /\ fill \in [at : {"idle", "save", "cache"}, day : IndexDays \cup {0}, figure : 0 .. 2]
    /\ news \in [IndexDays -> Nat] /\ excused \subseteq IndexDays
    /\ starts \in 0 .. MaxRestarts /\ degraded \in 0 .. starts

\* No figure is newer than the published one, and what the cache has, the table has.
FiguresFit ==
    \A d \in IndexDays :
        /\ indexRows[d] <= figures[d] /\ indices[d] <= figures[d]
        /\ update.data[d] <= figures[d]
        /\ indices[d] # 0 => indexRows[d] # 0

\* The run of the closing event is at a day it has a figure of, and announces it only if
\* that is the first time since the indices were last loaded.
UpdateFits ==
    /\ \A d \in update.left : update.data[d] # 0
    /\ update.at \in {"save", "tell", "cache"} => update.left # {}
    /\ update.at \in {"tell", "cache"} => indexRows[Current] # 0
    /\ update.at \in {"save", "tell"} => news[Current] <= degraded

FillFits ==
    fill.at # "idle" =>
        /\ fill.day \in IndexDays /\ fill.figure # 0 /\ fill.figure <= figures[fill.day]
        /\ fill.at = "cache" => indexRows[fill.day] # 0

NewsFit ==
    \A d \in IndexDays :
        /\ indexRows[d] = 0 => news[d] = 0
        /\ indices[d] = 0 /\ ~(update.at = "cache" /\ Current = d) => news[d] <= degraded
        /\ news[d] <= 1 + degraded
        /\ indexRows[d] # 0 /\ news[d] = 0 =>
            d \in excused \/ (update.at = "tell" /\ Current = d)

IndexInvariant == IndexTyped /\ FiguresFit /\ UpdateFits /\ FillFits /\ NewsFit

LEMMA CurrentIsLeft ==
  ASSUME IndexTyped, update.left # {}
  PROVE  Current \in update.left /\ Current \in IndexDays
<1>1. IsFiniteSet(update.left) /\ \A d \in update.left : d \in Int
  BY IndexAssumption, FS_Subset DEF IndexTyped, Updates
<1> QED
  BY <1>1, MinIsLeast DEF Current, IndexTyped, Updates

LEMMA IndexStarts == MIInit => IndexInvariant
BY IndexAssumption DEF MIInit, IndexInvariant, IndexTyped, FiguresFit, UpdateFits, FillFits,
   NewsFit, Updates, NoDays, Resting, NoFill

\* The run goes on to another stage or to another day.
LEMMA UpdateMoves ==
  ASSUME IndexInvariant,
         \/ FetchMonth \/ SkipCached \/ BeginIndex \/ EndUpdate
         \/ SaveIndexFails /\ UNCHANGED <<indexRows, excused>>
  PROVE  IndexInvariant'
<1> USE DEF IndexInvariant, Updates
<1>1. UNCHANGED <<figures, indexRows, indices, fill, news, excused, starts, degraded>>
  BY DEF FetchMonth, SkipCached, BeginIndex, SaveIndexFails, EndUpdate, miHistory
<1>2. /\ update' \in Updates
      /\ \A d \in IndexDays : update'.data[d] <= figures[d]
      /\ \A d \in update'.left : update'.data[d] # 0
  <2>1. CASE FetchMonth
    BY <2>1 DEF FetchMonth, IndexTyped
  <2>2. CASE SkipCached \/ BeginIndex \/ SaveIndexFails
    BY <2>2 DEF SkipCached, BeginIndex, SaveIndexFails, IndexTyped, FiguresFit, UpdateFits
  <2>3. CASE EndUpdate
    BY <2>3 DEF EndUpdate, Resting, NoDays, IndexTyped
  <2> QED
    BY <2>1, <2>2, <2>3
<1>3. /\ update.at \in {"idle", "items", "save"}
      /\ update'.at \in {"idle", "items", "save"}
      /\ update'.at = "save" => /\ update'.left = update.left /\ update.left # {}
                                /\ update.at = "items" /\ indices[Current] = 0
  <2>0. update \in Updates
    BY DEF IndexTyped
  <2>1. CASE FetchMonth \/ EndUpdate
    BY <2>1 DEF FetchMonth, EndUpdate, Resting
  <2>2. CASE SkipCached
    BY <2>0, <2>2 DEF SkipCached
  <2>3. CASE BeginIndex
    BY <2>0, <2>3 DEF BeginIndex
  <2>4. CASE SaveIndexFails
    BY <2>0, <2>4 DEF SaveIndexFails
  <2> QED
    BY <2>1, <2>2, <2>3, <2>4
<1>4. update'.at = "save" => news[Current'] <= degraded
  BY <1>3, CurrentIsLeft DEF NewsFit, Current
<1>5. IndexTyped' /\ FiguresFit' /\ FillFits'
  BY <1>1, <1>2 DEF IndexTyped, FiguresFit, FillFits
<1>6. UpdateFits'
  BY <1>1, <1>2, <1>3, <1>4 DEF UpdateFits
<1>7. NewsFit'
  BY <1>1, <1>3 DEF NewsFit
<1> QED
  BY <1>5, <1>6, <1>7

\* The row of its current day is written, but the answer is lost.
LEMMA LostAnswerKeeps ==
  ASSUME IndexInvariant, SaveIndexFails, ~UNCHANGED <<indexRows, excused>>
  PROVE  IndexInvariant'
<1> PICK thisDay \in IndexDays : thisDay = Current /\ thisDay \in update.left
  BY CurrentIsLeft DEF IndexInvariant, UpdateFits, SaveIndexFails
<1>1. /\ update.at = "save"
      /\ update' = [update EXCEPT !.at = "items", !.left = @ \ {thisDay}]
      /\ indexRows' = [indexRows EXCEPT ![thisDay] = IF indexRows[thisDay] = 0 THEN update.data[thisDay]
                                                 ELSE indexRows[thisDay]]
      /\ excused' = excused \cup {thisDay}
      /\ UNCHANGED <<figures, indices, fill, news, starts, degraded>>
  BY DEF SaveIndexFails, SavedIndex
<1>2. /\ update' \in Updates /\ update'.at = "items" /\ update'.left = update.left \ {thisDay}
      /\ update'.data = update.data
  BY <1>1 DEF IndexInvariant, IndexTyped, Updates
<1>3. /\ update.data[thisDay] # 0 /\ update.data[thisDay] <= figures[thisDay] /\ update.data[thisDay] \in 0 .. 2
      /\ indexRows \in [IndexDays -> 0 .. 2]
  BY DEF IndexInvariant, UpdateFits, FiguresFit, IndexTyped, Updates
<1>4. /\ indexRows'[thisDay] # 0
      /\ \A d \in IndexDays : /\ indexRows'[d] \in {indexRows[d], update.data[thisDay]}
                              /\ indexRows[d] # 0 => indexRows'[d] = indexRows[d]
                              /\ d # thisDay => indexRows'[d] = indexRows[d]
  BY <1>1, <1>3
<1>5. IndexTyped'
  BY <1>1, <1>2, <1>3 DEF IndexInvariant, IndexTyped
<1>6. FiguresFit'
  BY <1>1, <1>2, <1>3 DEF IndexInvariant, FiguresFit
<1>7. UpdateFits'
  BY <1>1, <1>2 DEF IndexInvariant, UpdateFits
<1>8. FillFits'
  BY <1>1, <1>4 DEF IndexInvariant, FillFits
<1>9. NewsFit'
  BY <1>1, <1>2, <1>4 DEF IndexInvariant, NewsFit
<1> QED
  BY <1>5, <1>6, <1>7, <1>8, <1>9 DEF IndexInvariant

\* Its current day is saved, announced, and put into the cache.
LEMMA SaveIndexKeeps == ASSUME IndexInvariant, SaveIndex PROVE IndexInvariant'
<1> PICK thisDay \in IndexDays : thisDay = Current /\ thisDay \in update.left
  BY CurrentIsLeft DEF IndexInvariant, UpdateFits, SaveIndex
<1>1. /\ update.at = "save" /\ update' = [update EXCEPT !.at = "tell"]
      /\ indexRows' = [indexRows EXCEPT ![thisDay] = IF indexRows[thisDay] = 0 THEN update.data[thisDay]
                                                 ELSE indexRows[thisDay]]
      /\ UNCHANGED <<figures, indices, fill, news, excused, starts, degraded>>
  BY DEF SaveIndex, SavedIndex, miHistory
<1>2. /\ update' \in Updates /\ update'.at = "tell" /\ update'.left = update.left
      /\ update'.data = update.data
  BY <1>1 DEF IndexInvariant, IndexTyped, Updates
<1>3. Current' = thisDay
  BY <1>2 DEF Current
<1>4. /\ update.data[thisDay] # 0 /\ update.data[thisDay] <= figures[thisDay] /\ update.data[thisDay] \in 0 .. 2
      /\ indexRows \in [IndexDays -> 0 .. 2]
  BY DEF IndexInvariant, UpdateFits, FiguresFit, IndexTyped, Updates
<1>5. IndexTyped'
  BY <1>1, <1>2, <1>4 DEF IndexInvariant, IndexTyped
<1>6. FiguresFit'
  BY <1>1, <1>2, <1>4 DEF IndexInvariant, FiguresFit
<1>7. UpdateFits'
  BY <1>1, <1>2, <1>3, <1>4 DEF IndexInvariant, UpdateFits
<1>8. FillFits'
  BY <1>1, <1>4 DEF IndexInvariant, FillFits
<1>9. NewsFit'
  BY <1>1, <1>2, <1>3, <1>4 DEF IndexInvariant, NewsFit
<1> QED
  BY <1>5, <1>6, <1>7, <1>8, <1>9 DEF IndexInvariant

LEMMA AnnounceKeeps == ASSUME IndexInvariant, AnnounceIndex PROVE IndexInvariant'
<1> PICK thisDay \in IndexDays : thisDay = Current /\ thisDay \in update.left
  BY CurrentIsLeft DEF IndexInvariant, UpdateFits, AnnounceIndex
<1>1. /\ update.at = "tell" /\ update' = [update EXCEPT !.at = "cache"]
      /\ news' = [news EXCEPT ![thisDay] = @ + 1]
      /\ UNCHANGED <<figures, indexRows, indices, fill, excused, starts, degraded>>
  BY DEF AnnounceIndex
<1>2. /\ update' \in Updates /\ update'.at = "cache" /\ update'.left = update.left
      /\ update'.data = update.data
  BY <1>1 DEF IndexInvariant, IndexTyped, Updates
<1>3. Current' = thisDay
  BY <1>2 DEF Current
<1>4. news \in [IndexDays -> Nat] /\ indexRows[thisDay] # 0 /\ news[thisDay] <= degraded
      /\ degraded \in Nat
  BY <1>1, IndexAssumption DEF IndexInvariant, UpdateFits, IndexTyped
<1>5. IndexTyped'
  BY <1>1, <1>2, <1>4 DEF IndexInvariant, IndexTyped
<1>6. FiguresFit' /\ FillFits'
  BY <1>1, <1>2 DEF IndexInvariant, FiguresFit, FillFits
<1>7. UpdateFits'
  BY <1>1, <1>2, <1>3, <1>4 DEF IndexInvariant, UpdateFits
<1>8. NewsFit'
  BY <1>1, <1>2, <1>3, <1>4 DEF IndexInvariant, NewsFit
<1> QED
  BY <1>5, <1>6, <1>7, <1>8 DEF IndexInvariant

LEMMA CacheIndexKeeps == ASSUME IndexInvariant, CacheIndex PROVE IndexInvariant'
<1> PICK thisDay \in IndexDays : thisDay = Current /\ thisDay \in update.left
  BY CurrentIsLeft DEF IndexInvariant, UpdateFits, CacheIndex
<1>1. /\ update.at = "cache" /\ update' = [update EXCEPT !.at = "items", !.left = @ \ {thisDay}]
      /\ indices' = [indices EXCEPT ![thisDay] = update.data[thisDay]]
      /\ UNCHANGED <<figures, indexRows, fill, news, excused, starts, degraded>>
  BY DEF CacheIndex, miHistory
<1>2. /\ update' \in Updates /\ update'.at = "items" /\ update'.left = update.left \ {thisDay}
      /\ update'.data = update.data
  BY <1>1 DEF IndexInvariant, IndexTyped, Updates
<1>3. /\ update.data[thisDay] # 0 /\ update.data[thisDay] <= figures[thisDay] /\ update.data[thisDay] \in 0 .. 2
      /\ indices \in [IndexDays -> 0 .. 2] /\ indexRows[thisDay] # 0
  BY <1>1 DEF IndexInvariant, UpdateFits, FiguresFit, IndexTyped, Updates
<1>4. IndexTyped'
  BY <1>1, <1>2, <1>3 DEF IndexInvariant, IndexTyped
<1>5. FiguresFit' /\ FillFits' /\ UpdateFits'
  BY <1>1, <1>2, <1>3 DEF IndexInvariant, FiguresFit, FillFits, UpdateFits
<1>6. NewsFit'
  BY <1>1, <1>2, <1>3 DEF IndexInvariant, NewsFit
<1> QED
  BY <1>4, <1>5, <1>6 DEF IndexInvariant

LEMMA FillKeeps ==
  ASSUME IndexInvariant, FetchDate \/ SaveDate \/ CacheDate
  PROVE  IndexInvariant'
<1>1. /\ update' = update /\ Current' = Current /\ UNCHANGED <<figures, news, starts, degraded>>
  BY DEF FetchDate, SaveDate, CacheDate, miHistory, Current
<1>2. CASE FetchDate
  BY <1>1, <1>2 DEF FetchDate, miHistory, IndexInvariant, IndexTyped, FiguresFit, UpdateFits,
                    FillFits, NewsFit
<1>3. CASE SaveDate
  <2>1. CASE fill' = NoFill /\ UNCHANGED <<indexRows, indices, excused>>
    BY <1>1, <2>1 DEF NoFill, IndexInvariant, IndexTyped, FiguresFit, UpdateFits, FillFits,
                      NewsFit
  <2>2. CASE ~(fill' = NoFill /\ UNCHANGED <<indexRows, indices, excused>>)
    <3>1. /\ fill.at = "save" /\ fill' \in {[fill EXCEPT !.at = "cache"], NoFill}
          /\ indexRows' = [indexRows EXCEPT ![fill.day] = IF indexRows[fill.day] = 0
                                                          THEN fill.figure ELSE indexRows[fill.day]]
          /\ excused' = excused \cup {fill.day} /\ UNCHANGED indices
      BY <1>3, <2>2 DEF SaveDate, SavedIndex
    <3>2. /\ fill.day \in IndexDays /\ fill.figure # 0 /\ fill.figure <= figures[fill.day]
          /\ fill.figure \in 0 .. 2 /\ indexRows \in [IndexDays -> 0 .. 2]
      BY <3>1 DEF IndexInvariant, IndexTyped, FillFits
    <3>3. /\ IndexTyped'
          /\ fill'.at # "idle" => /\ fill'.at = "cache" /\ fill'.day = fill.day
                                  /\ fill'.figure = fill.figure
      BY <1>1, <3>1, <3>2 DEF IndexInvariant, IndexTyped, NoFill
    <3>4. /\ indexRows'[fill.day] # 0
          /\ \A d \in IndexDays : /\ indexRows'[d] \in {indexRows[d], fill.figure}
                                  /\ indexRows[d] # 0 => indexRows'[d] = indexRows[d]
                                  /\ d # fill.day => indexRows'[d] = indexRows[d]
      BY <3>1, <3>2
    <3>5. FiguresFit' /\ FillFits'
      BY <1>1, <3>1, <3>2, <3>3, <3>4 DEF IndexInvariant, FiguresFit, FillFits
    <3>6. UpdateFits'
      BY <1>1, <3>4, CurrentIsLeft DEF IndexInvariant, UpdateFits
    <3>7. NewsFit'
      BY <1>1, <3>1, <3>4 DEF IndexInvariant, NewsFit
    <3> QED
      BY <3>3, <3>5, <3>6, <3>7 DEF IndexInvariant
  <2> QED
    BY <2>1, <2>2
<1>4. CASE CacheDate
  BY <1>1, <1>4 DEF CacheDate, miHistory, NoFill, IndexInvariant, IndexTyped, FiguresFit,
                    UpdateFits, FillFits, NewsFit
<1> QED
  BY <1>2, <1>3, <1>4

LEMMA ExchangeKeeps ==
  ASSUME IndexInvariant, PublishDay \/ ReviseDay
  PROVE  IndexInvariant'
<1>1. /\ update' = update /\ Current' = Current
      /\ UNCHANGED <<indexRows, indices, fill, news, excused, starts, degraded>>
  BY DEF PublishDay, ReviseDay, miHistory, Current
<1>2. figures' \in [IndexDays -> 0 .. 2] /\ \A d \in IndexDays : figures[d] <= figures'[d]
  BY DEF PublishDay, ReviseDay, IndexInvariant, IndexTyped
<1>3. \A d \in IndexDays : /\ figures[d] \in Int /\ figures'[d] \in Int /\ indexRows[d] \in Int
                           /\ indices[d] \in Int /\ update.data[d] \in Int /\ fill.figure \in Int
  BY <1>2 DEF IndexInvariant, IndexTyped, Updates
<1>4. IndexTyped' /\ UpdateFits' /\ NewsFit'
  BY <1>1, <1>2 DEF IndexInvariant, IndexTyped, UpdateFits, NewsFit
<1>5. FiguresFit' /\ FillFits'
  BY <1>1, <1>2, <1>3 DEF IndexInvariant, FiguresFit, FillFits
<1> QED
  BY <1>4, <1>5 DEF IndexInvariant

LEMMA RestartIndexKeeps == ASSUME IndexInvariant, RestartIndices PROVE IndexInvariant'
<1>1. /\ starts' = starts + 1 /\ starts < MaxRestarts /\ update' = Resting /\ fill' = NoFill
      /\ UNCHANGED <<figures, indexRows, news>>
      /\ excused' = excused \cup (IF update.at = "tell" THEN {Current} ELSE {})
      /\ \/ indices' = indexRows /\ degraded' = degraded
         \/ indices' = NoDays /\ degraded' = degraded + 1
  BY DEF RestartIndices
<1>2. update.at = "tell" => Current \in IndexDays
  BY CurrentIsLeft DEF IndexInvariant, UpdateFits
<1>3. starts \in Nat /\ degraded \in 0 .. starts /\ MaxRestarts \in Nat /\ starts <= MaxRestarts
  BY IndexAssumption DEF IndexInvariant, IndexTyped
<1>4. IndexTyped'
  BY <1>1, <1>2, <1>3 DEF IndexInvariant, IndexTyped, Updates, Resting, NoFill, NoDays
<1>5. FiguresFit' /\ UpdateFits' /\ FillFits'
  BY <1>1 DEF IndexInvariant, IndexTyped, FiguresFit, UpdateFits, FillFits, Resting, NoFill, NoDays
<1>6. NewsFit'
  BY <1>1, <1>3 DEF IndexInvariant, IndexTyped, NewsFit, Resting, NoDays
<1> QED
  BY <1>4, <1>5, <1>6 DEF IndexInvariant

LEMMA IndexKeeps == IndexInvariant /\ [MINext]_miVars => IndexInvariant'
<1> SUFFICES ASSUME IndexInvariant, [MINext]_miVars PROVE IndexInvariant'
  OBVIOUS
<1>1. CASE UNCHANGED miVars
  BY <1>1 DEF miVars, miHistory, IndexInvariant, IndexTyped, FiguresFit, UpdateFits, FillFits,
              NewsFit, Current
<1>2. CASE MINext
  BY <1>2, UpdateMoves, LostAnswerKeeps, SaveIndexKeeps, AnnounceKeeps, CacheIndexKeeps, FillKeeps, ExchangeKeeps,
     RestartIndexKeeps DEF MINext
<1> QED
  BY <1>1, <1>2

LEMMA IndexFits == IndexInvariant => IndexIsToldOnce /\ MITypeOK
<1> SUFFICES ASSUME IndexInvariant PROVE IndexIsToldOnce /\ MITypeOK
  OBVIOUS
<1>1. MITypeOK
  BY DEF MITypeOK, IndexInvariant, IndexTyped, Updates
<1>2. ASSUME NEW d \in IndexDays, indices[d] # 0, indices[d] # indexRows[d]
      PROVE  figures[d] = 2
  BY <1>2 DEF IndexInvariant, IndexTyped, FiguresFit
<1>3. IndexIsToldOnce
  BY <1>2 DEF IndexInvariant, FiguresFit, NewsFit, IndexIsToldOnce
<1> QED
  BY <1>1, <1>3

\* MITypeOK, for any days, revisions and restarts.
THEOREM IndexTypeCorrect == MISpec => []MITypeOK
BY IndexStarts, IndexKeeps, IndexFits, PTL DEF MISpec

\* IndexIsToldOnce, for any days, revisions and restarts: the index of a day is announced
\* again only after a start without the cache, and not left out unless the backfill or a
\* stop came in between.
THEOREM IndexToldOnce == MISpec => []IndexIsToldOnce
BY IndexStarts, IndexKeeps, IndexFits, PTL DEF MISpec

-----------------------------------------------------------------------------
(* The reminder of public offerings, for any offerings, runs and failures. *)

LastDayOf(o) == period[o][2]

\* A flag is set for the last day of an offering, or for the day after.
OfferingsTyped ==
    /\ POTypeOK
    /\ runDay \in Nat \ {0}
    /\ \A o \in Offerings :
        /\ period[o][1] \in Runs /\ LastDayOf(o) \in Runs
        /\ flag[o] \in {0, LastDayOf(o), LastDayOf(o) + 1}
        /\ \A r \in toldOn[o] : r <= runDay

\* An offering was told, is in the message, or was lost with it.
Noticed(o) == toldOn[o] # {} \/ o \in lost \/ (o \in message /\ listing = "items")

\* Whatever carries a flag was noticed, and so was what the run has looked at.
FlagsFit ==
    \A o \in Offerings :
        /\ flag[o] # 0 => Noticed(o)
        /\ o \in message \/ toldOn[o] # {} => flag[o] # 0 \/ o \in forgotten
        /\ listing \in {"items", "sent"} /\ o \in offered \ items /\ Open(o) => Noticed(o)
        /\ listing = "sent" => items = {}

\* An offering that was told before is told again on its last day only, while its flag lasts.
ToldTwice ==
    \A o \in Offerings \ forgotten :
        /\ o \in message /\ (\E e \in toldOn[o] : e < runDay) => runDay = LastDayOf(o)
        /\ \A r \in toldOn[o] : (\E e \in toldOn[o] : e < r) => r = LastDayOf(o)

OfferingsInvariant == OfferingsTyped /\ FlagsFit /\ ToldTwice

LEMMA DaysAreNumbers ==
  ASSUME OfferingsTyped
  PROVE  /\ \A d \in Runs : d \in Nat /\ d >= 1
         /\ \A o \in Offerings : /\ period[o][1] \in Nat /\ LastDayOf(o) \in Nat
                                 /\ LastDayOf(o) >= 1 /\ flag[o] \in Nat
                                 /\ \A r \in toldOn[o] : r \in Nat
         /\ flag \in [Offerings -> 0 .. LastRun + 1]
         /\ toldOn \in [Offerings -> SUBSET Runs]
BY OfferingsAssumption DEF OfferingsTyped, POTypeOK, Runs

LEMMA OfferingsStart == POInit => OfferingsInvariant
<1> SUFFICES ASSUME POInit PROVE OfferingsInvariant
  OBVIOUS
<1>1. \A o \in Offerings : period[o] \in Runs \X Runs
  BY DEF POInit
<1>2. OfferingsTyped
  BY <1>1, OfferingsAssumption DEF POInit, OfferingsTyped, POTypeOK, Runs, LastDayOf
<1> QED
  BY <1>2 DEF POInit, OfferingsInvariant, FlagsFit, Noticed, ToldTwice

\* The flag of an open offering of the run.
LEMMA FlagIsSet ==
  ASSUME OfferingsTyped, NEW o \in Offerings, Open(o)
  PROVE  FlaggedUntil(o) \in {LastDayOf(o), LastDayOf(o) + 1} /\ FlaggedUntil(o) # 0
         /\ FlaggedUntil(o) \in 0 .. LastRun + 1
<1>1. LastDayOf(o) \in 1 .. LastRun /\ LastRun \in Nat /\ runDay \in Nat
  BY OfferingsAssumption DEF OfferingsTyped, Runs
<1> QED
  BY <1>1 DEF FlaggedUntil, LastDayOf

LEMMA MentionKeeps ==
  ASSUME OfferingsInvariant, NEW o \in Offerings, Mention(o)
  PROVE  OfferingsInvariant'
<1>1. /\ listing = "items" /\ o \in items /\ Open(o) /\ flag[o] <= runDay
      /\ items' = items \ {o} /\ message' = message \cup {o}
      /\ flag' = [flag EXCEPT ![o] = FlaggedUntil(o)]
      /\ UNCHANGED <<period, runDay, listing, offered, toldOn, lost, forgotten, aborts>>
  BY DEF Mention, outcome
<1>2. /\ \A i \in Offerings : LastDayOf(i)' = LastDayOf(i) /\ Open(i)' = Open(i)
      /\ flag'[o] \in {LastDayOf(o), LastDayOf(o) + 1} /\ flag'[o] # 0
      /\ \A i \in Offerings \ {o} : flag'[i] = flag[i]
      /\ flag' \in [Offerings -> 0 .. LastRun + 1]
  BY <1>1, FlagIsSet, DaysAreNumbers DEF OfferingsInvariant, LastDayOf, Open
<1>3. OfferingsTyped'
  BY <1>1, <1>2 DEF OfferingsInvariant, OfferingsTyped, POTypeOK
<1>4. FlagsFit'
  BY <1>1, <1>2 DEF OfferingsInvariant, FlagsFit, Noticed
<1>5. toldOn[o] # {} /\ o \notin forgotten => runDay = LastDayOf(o)
  <2>1. toldOn[o] # {} /\ o \notin forgotten => flag[o] # 0
    BY DEF OfferingsInvariant, FlagsFit, Noticed
  <2>2. flag[o] \in {0, LastDayOf(o), LastDayOf(o) + 1} /\ LastDayOf(o) \in Nat /\ runDay \in Nat
    BY DaysAreNumbers DEF OfferingsInvariant, OfferingsTyped
  <2>3. runDay <= LastDayOf(o)
    BY <1>1 DEF Open, LastDayOf
  <2> QED
    BY <1>1, <2>1, <2>2, <2>3
<1>6. ToldTwice'
  BY <1>1, <1>2, <1>5 DEF OfferingsInvariant, ToldTwice
<1> QED
  BY <1>3, <1>4, <1>6 DEF OfferingsInvariant

LEMMA AbortKeeps == ASSUME OfferingsInvariant, Abort PROVE OfferingsInvariant'
<1>1. /\ listing \in {"before", "items"} /\ listing' = "broken"
      /\ aborts < MaxAborts /\ aborts' = aborts + 1
      /\ UNCHANGED <<period, runDay, offered, items, message, toldOn, forgotten>>
  BY DEF Abort
<1>2. \A i \in Offerings : LastDayOf(i)' = LastDayOf(i) /\ Open(i)' = Open(i)
  BY <1>1 DEF LastDayOf, Open
<1>3. PICK gone \in SUBSET Offerings :
        /\ flag' \in [Offerings -> 0 .. LastRun + 1]
        /\ lost' = lost \cup message \cup gone
        /\ \A i \in gone : flag'[i] \in {LastDayOf(i), LastDayOf(i) + 1} /\ flag'[i] # 0
        /\ \A i \in Offerings \ gone : flag'[i] = flag[i]
  <2>1. CASE flag' = flag /\ lost' = lost \cup message
    <3> WITNESS {} \in SUBSET Offerings
    <3> QED
      BY <2>1, DaysAreNumbers DEF OfferingsInvariant
  <2>2. CASE \E o \in {i \in items : Open(i) /\ flag[i] <= runDay} :
               /\ flag' = [flag EXCEPT ![o] = FlaggedUntil(o)]
               /\ lost' = lost \cup message \cup {o}
    <3>1. PICK o \in Offerings : /\ Open(o) /\ flag' = [flag EXCEPT ![o] = FlaggedUntil(o)]
                                 /\ lost' = lost \cup message \cup {o}
      BY <2>2 DEF OfferingsInvariant, OfferingsTyped, POTypeOK
    <3>2. FlaggedUntil(o) \in {LastDayOf(o), LastDayOf(o) + 1} /\ FlaggedUntil(o) # 0
          /\ FlaggedUntil(o) \in 0 .. LastRun + 1 /\ flag \in [Offerings -> 0 .. LastRun + 1]
      BY <3>1, FlagIsSet, DaysAreNumbers DEF OfferingsInvariant
    <3> WITNESS {o} \in SUBSET Offerings
    <3> QED
      BY <3>1, <3>2
  <2> QED
    BY <2>1, <2>2 DEF Abort
<1>4. OfferingsTyped'
  <2>1. aborts' \in 0 .. MaxAborts
    BY <1>1, OfferingsAssumption DEF OfferingsInvariant, OfferingsTyped, POTypeOK
  <2> QED
    BY <1>1, <1>2, <1>3, <2>1 DEF OfferingsInvariant, OfferingsTyped, POTypeOK
<1>5. FlagsFit' /\ ToldTwice'
  BY <1>1, <1>2, <1>3 DEF OfferingsInvariant, FlagsFit, Noticed, ToldTwice
<1> QED
  BY <1>4, <1>5 DEF OfferingsInvariant

LEMMA SendKeeps == ASSUME OfferingsInvariant, SendOfferings PROVE OfferingsInvariant'
<1>1. /\ listing = "items" /\ items = {} /\ listing' = "sent"
      /\ toldOn' = [o \in Offerings |-> IF o \in message THEN toldOn[o] \cup {runDay} ELSE toldOn[o]]
      /\ UNCHANGED <<period, runDay, offered, items, message, flag, lost, forgotten, aborts>>
  BY DEF SendOfferings
<1>2. \A i \in Offerings : LastDayOf(i)' = LastDayOf(i) /\ Open(i)' = Open(i)
  BY <1>1 DEF LastDayOf, Open
<1>3. runDay \in Runs /\ toldOn \in [Offerings -> SUBSET Runs] /\ runDay \in Nat
  BY DaysAreNumbers DEF OfferingsInvariant, OfferingsTyped, POTypeOK
<1>4. OfferingsTyped'
  BY <1>1, <1>2, <1>3 DEF OfferingsInvariant, OfferingsTyped, POTypeOK
<1>5. FlagsFit'
  BY <1>1, <1>2, <1>3 DEF OfferingsInvariant, FlagsFit, Noticed
<1>6. ASSUME NEW o \in Offerings \ forgotten
      PROVE  /\ o \in message /\ (\E e \in toldOn'[o] : e < runDay) => runDay = LastDayOf(o)
             /\ \A r \in toldOn'[o] : (\E e \in toldOn'[o] : e < r) => r = LastDayOf(o)
  <2>1. toldOn'[o] = IF o \in message THEN toldOn[o] \cup {runDay} ELSE toldOn[o]
    BY <1>1
  <2>2. /\ \A r \in toldOn[o] : r \in Nat /\ r <= runDay
        /\ o \in message /\ (\E e \in toldOn[o] : e < runDay) => runDay = LastDayOf(o)
        /\ \A r \in toldOn[o] : (\E e \in toldOn[o] : e < r) => r = LastDayOf(o)
    BY DaysAreNumbers DEF OfferingsInvariant, OfferingsTyped, ToldTwice
  <2>3. CASE o \notin message
    BY <2>1, <2>2, <2>3
  <2>4. CASE o \in message
    <3>1. \A r \in toldOn'[o] : r \in toldOn[o] \/ r = runDay
      BY <2>1, <2>4
    <3>2. ASSUME NEW e \in toldOn'[o], e < runDay PROVE runDay = LastDayOf(o)
      <4>1. e # runDay
        BY <1>3, <3>2
      <4>2. e \in toldOn[o]
        BY <3>1, <4>1
      <4> QED
        BY <2>2, <2>4, <3>2, <4>2
    <3>3. ASSUME NEW r \in toldOn'[o], NEW e \in toldOn'[o], e < r
          PROVE  r = LastDayOf(o)
      <4>1. CASE r = runDay
        BY <3>2, <3>3, <4>1
      <4>2. CASE r # runDay
        <5>1. r \in toldOn[o] /\ r \in Nat /\ r <= runDay
          BY <2>2, <3>1, <4>2
        <5>2. e # runDay
          BY <1>3, <3>3, <5>1
        <5>3. e \in toldOn[o]
          BY <3>1, <5>2
        <5> QED
          BY <2>2, <3>3, <5>1, <5>3
      <4> QED
        BY <4>1, <4>2
    <3> QED
      BY <3>2, <3>3
  <2> QED
    BY <2>3, <2>4
<1>7. ToldTwice'
  BY <1>1, <1>2, <1>6 DEF ToldTwice
<1> QED
  BY <1>4, <1>5, <1>7 DEF OfferingsInvariant

\* A run begins, looks at an offering it does not tell, or ends.
LEMMA RunKeeps ==
  ASSUME OfferingsInvariant,
         \/ FetchOfferings \/ NextRun
         \/ \E o \in Offerings : SkipOffering(o)
  PROVE  OfferingsInvariant'
<1>1. CASE FetchOfferings
  <2>1. /\ listing' = "items" /\ listing = "before"
        /\ offered' \in SUBSET Offerings /\ items' = offered'
        /\ UNCHANGED <<period, runDay, message, flag, toldOn, lost, forgotten, aborts>>
    BY <1>1 DEF FetchOfferings, outcome
  <2> QED
    BY <2>1 DEF OfferingsInvariant, OfferingsTyped, POTypeOK, FlagsFit, Noticed, ToldTwice, LastDayOf, Open
<1>2. CASE NextRun
  <2>1. /\ listing \in {"sent", "broken"} /\ runDay < LastRun /\ runDay' = runDay + 1
        /\ listing' = "before" /\ offered' = {} /\ items' = {} /\ message' = {}
        /\ UNCHANGED <<period, flag, toldOn, lost, forgotten, aborts>>
    BY <1>2 DEF NextRun, outcome
  <2>2. runDay' \in Runs /\ runDay \in Nat /\ runDay' \in Nat \ {0} /\ runDay < runDay'
    BY <2>1, OfferingsAssumption DEF OfferingsInvariant, OfferingsTyped, Runs
  <2>3. OfferingsTyped'
    BY <2>1, <2>2, DaysAreNumbers DEF OfferingsInvariant, OfferingsTyped, POTypeOK, LastDayOf
  <2> QED
    BY <2>1, <2>3 DEF OfferingsInvariant, FlagsFit, Noticed, ToldTwice, LastDayOf
<1>3. ASSUME NEW o \in Offerings, SkipOffering(o) PROVE OfferingsInvariant'
  <2>1. /\ listing = "items" /\ items' = items \ {o} /\ (~Open(o) \/ flag[o] >= runDay)
        /\ UNCHANGED <<period, runDay, listing, offered, message, flag, toldOn, lost, forgotten, aborts>>
    BY <1>3 DEF SkipOffering, outcome
  <2>2. Open(o) => flag[o] # 0
    BY <2>1 DEF OfferingsInvariant, OfferingsTyped
  <2> QED
    BY <2>1, <2>2 DEF OfferingsInvariant, OfferingsTyped, POTypeOK, FlagsFit, Noticed, ToldTwice, LastDayOf,
                      Open
<1> QED
  BY <1>1, <1>2, <1>3

LEMMA EvictionKeeps ==
  ASSUME OfferingsInvariant, NEW o \in Offerings, EvictFlag(o)
  PROVE  OfferingsInvariant'
<1>1. /\ flag' = [flag EXCEPT ![o] = 0] /\ forgotten' = forgotten \cup {o}
      /\ UNCHANGED <<period, runDay, listing, offered, items, message, toldOn, lost, aborts>>
  BY DEF EvictFlag
<1>2. \A i \in Offerings : LastDayOf(i)' = LastDayOf(i) /\ Open(i)' = Open(i)
  BY <1>1 DEF LastDayOf, Open
<1>3. /\ flag' \in [Offerings -> 0 .. LastRun + 1] /\ flag'[o] = 0
      /\ \A i \in Offerings \ {o} : flag'[i] = flag[i]
  BY <1>1, DaysAreNumbers, OfferingsAssumption DEF OfferingsInvariant
<1>4. OfferingsTyped'
  BY <1>1, <1>2, <1>3 DEF OfferingsInvariant, OfferingsTyped, POTypeOK
<1> QED
  BY <1>1, <1>2, <1>3, <1>4 DEF OfferingsInvariant, FlagsFit, Noticed, ToldTwice

LEMMA OfferingsKeep == OfferingsInvariant /\ [PONext]_poVars => OfferingsInvariant'
<1> SUFFICES ASSUME OfferingsInvariant, [PONext]_poVars PROVE OfferingsInvariant'
  OBVIOUS
<1>1. CASE UNCHANGED poVars
  BY <1>1 DEF poVars, outcome, OfferingsInvariant, OfferingsTyped, POTypeOK, FlagsFit, Noticed, ToldTwice,
              LastDayOf, Open
<1>2. CASE PONext
  BY <1>2, MentionKeeps, AbortKeeps, SendKeeps, RunKeeps, EvictionKeeps DEF PONext
<1> QED
  BY <1>1, <1>2

\* POTypeOK, for any offerings, runs and failures.
THEOREM OfferingsTypeCorrect == POSpec => []POTypeOK
<1>1. OfferingsInvariant => POTypeOK
  BY DEF OfferingsInvariant, OfferingsTyped
<1> QED
  BY <1>1, OfferingsStart, OfferingsKeep, PTL DEF POSpec

\* OfferingsAreTold, for any offerings, runs and failures.
THEOREM OfferingsTold == POSpec => []OfferingsAreTold
<1>1. OfferingsInvariant => OfferingsAreTold
  BY DEF OfferingsInvariant, FlagsFit, Noticed, ToldTwice, OfferingsAreTold, LastDayOf
<1> QED
  BY <1>1, OfferingsStart, OfferingsKeep, PTL DEF POSpec

-----------------------------------------------------------------------------
(* The cache of last quotes, for any readers, hours of a day and times of  *)
(* reading.                                                                *)

\* Since when a closing has been out of date, if it is.
Outdated(c, since) == c < lastRow => rebuiltAt[c + 1] >= since

\* An entry was current when its reader came, which is at most its time of reading before
\* the entry's lifetime began.
EntryFits ==
    /\ entry.quote <= lastRow /\ entry.until <= hour + DayHours
    /\ Outdated(entry.quote, entry.until - DayHours - MaxReading)

\* A reader has not taken longer than it may; what it has read was current since it came,
\* and what it answers was current a day before it came.
ReaderFits(r) ==
    /\ reader[r].quote <= lastRow
    /\ reader[r].at # "idle" => reader[r].since <= hour /\ hour <= reader[r].since + MaxReading
    /\ reader[r].at = "read" => Outdated(reader[r].quote, reader[r].since)
    /\ reader[r].at = "answered" =>
        Outdated(reader[r].quote, reader[r].since - DayHours - MaxReading + 1)

QuotesInvariant == LQTypeOK /\ EntryFits /\ \A r \in Readers : ReaderFits(r)

LEMMA ReaderTypes ==
  ASSUME LQTypeOK
  PROVE  /\ hour \in Nat /\ hour <= LastHour /\ lastRow \in Nat
         /\ \A c \in Closings : c \in Nat /\ rebuiltAt[c] \in Nat
         /\ \A c \in Nat : c < lastRow => c + 1 \in Closings
         /\ entry.quote \in Nat /\ entry.until \in Nat
         /\ \A r \in Readers : /\ reader[r].quote \in Nat /\ reader[r].since \in Nat
                               /\ reader[r].quote \in Closings
                               /\ reader[r].since <= LastHour
         /\ DayHours \in Nat \ {0} /\ LastHour \in Nat /\ MaxReading \in Nat
<1>1. LastHour \div DayHours + 1 \in Int
  BY QuoteCacheAssumption
<1> PICK last : last = LastHour \div DayHours + 1
  OBVIOUS
<1>2. Closings = 0 .. last /\ last \in Int
  BY <1>1 DEF Closings
<1>3. /\ hour \in Hours /\ lastRow \in Closings /\ rebuiltAt \in [Closings -> Hours]
      /\ entry \in [quote : Closings, until : 0 .. LastHour + DayHours]
      /\ reader \in [Readers -> [at : {"idle", "missed", "read", "answered"}, quote : Closings,
                                 since : Hours, was : Closings]]
  BY DEF LQTypeOK
<1>4. \A h \in Hours : h \in Nat /\ h <= LastHour
  BY QuoteCacheAssumption DEF Hours
<1>5. \A c \in Closings : c \in Nat
  BY <1>2
<1>6. entry.quote \in Nat /\ entry.until \in Nat
  BY <1>3, <1>5, QuoteCacheAssumption
<1>7. \A r \in Readers : reader[r].quote \in Closings /\ reader[r].since \in Hours
  BY <1>3
<1>8. \A c \in Nat : c < lastRow => c + 1 \in Closings
  BY <1>2, <1>3
<1> QED
  BY <1>3, <1>4, <1>5, <1>6, <1>7, <1>8, QuoteCacheAssumption

\* What was out of date stays so since the same hour.
LEMMA RebuildsAge ==
  ASSUME LQTypeOK, RebuildLastQuotes, (hour + 1) \div DayHours \in Closings
  PROVE  /\ lastRow' \in Closings /\ lastRow <= lastRow'
         /\ rebuiltAt' \in [Closings -> Hours]
         /\ \A c, since \in Int : c \in Nat /\ c <= lastRow /\ since <= hour /\ Outdated(c, since)
                => (c < lastRow' => rebuiltAt'[c + 1] >= since)
<1> PICK latest : latest = lastRow'
  OBVIOUS
<1>1. /\ lastRow < latest /\ latest \in Closings
      /\ rebuiltAt' = [c \in Closings |-> IF lastRow < c /\ c <= latest THEN hour ELSE rebuiltAt[c]]
  BY DEF RebuildLastQuotes
<1>2. hour \in Hours /\ rebuiltAt \in [Closings -> Hours] /\ hour \in Nat /\ lastRow \in Nat
      /\ latest \in Nat
  BY <1>1, ReaderTypes DEF LQTypeOK
<1>3. \A c \in Nat : c < latest => c + 1 \in Closings
  <2>1. LastHour \div DayHours + 1 \in Int
    BY QuoteCacheAssumption
  <2> QED
    BY <1>1, <1>2, <2>1 DEF Closings
<1>4. ASSUME NEW c \in Int, NEW since \in Int, c \in Nat, c <= lastRow, since <= hour,
             Outdated(c, since), c < latest
      PROVE  rebuiltAt'[c + 1] >= since
  <2>1. CASE c = lastRow
    <3>1. rebuiltAt'[c + 1] = hour
      BY <1>1, <1>2, <1>3, <1>4, <2>1
    <3> QED
      BY <1>4, <3>1
  <2>2. CASE c < lastRow
    <3>1. rebuiltAt'[c + 1] = rebuiltAt[c + 1]
      BY <1>1, <1>2, <1>3, <1>4, <2>2
    <3> QED
      BY <1>4, <2>2, <3>1 DEF Outdated
  <2> QED
    BY <1>2, <1>4, <2>1, <2>2
<1> QED
  BY <1>1, <1>2, <1>4

\* The number of the closing that ends with an hour.
LEMMA DayIsClosing ==
  ASSUME NEW h \in 0 .. LastHour
  PROVE  (h + 1) \div DayHours \in Closings
BY QuoteCacheAssumption DEF Closings

LEMMA QuotesStart == LQInit => QuotesInvariant
<1> SUFFICES ASSUME LQInit PROVE QuotesInvariant
  OBVIOUS
<1>1. 0 \in Closings /\ 0 \in Hours /\ 0 \in 0 .. LastHour + DayHours
  <2>1. \A d \in 0 .. LastHour : (d + 1) \div DayHours >= 0
    BY QuoteCacheAssumption
  <2>2. (0 + 1) \div DayHours \in Closings
    BY DayIsClosing, QuoteCacheAssumption
  <2>3. LastHour \div DayHours + 1 \in Int
    BY QuoteCacheAssumption
  <2> QED
    BY <2>1, <2>2, <2>3, QuoteCacheAssumption DEF Closings, Hours
<1>2. LQTypeOK
  BY <1>1 DEF LQInit, LQTypeOK, NoEntry, Idle
<1>3. EntryFits /\ \A r \in Readers : ReaderFits(r)
  BY QuoteCacheAssumption DEF LQInit, EntryFits, ReaderFits, Outdated, NoEntry, Idle
<1> QED
  BY <1>2, <1>3 DEF QuotesInvariant

\* A reader takes a step that leaves the entry alone, or writes it.
LEMMA ReaderKeeps ==
  ASSUME QuotesInvariant, NEW r \in Readers,
         NEW f \in [at : {"idle", "missed", "read", "answered"}, quote : Closings,
                    since : Hours, was : Closings],
         reader' = [reader EXCEPT ![r] = f], UNCHANGED <<hour, lastRow, rebuiltAt>>,
         entry' \in [quote : Closings, until : 0 .. LastHour + DayHours],
         EntryFits',
         /\ f.quote <= lastRow
         /\ f.at # "idle" => f.since <= hour /\ hour <= f.since + MaxReading
         /\ f.at = "read" => Outdated(f.quote, f.since)
         /\ f.at = "answered" => Outdated(f.quote, f.since - DayHours - MaxReading + 1)
  PROVE  QuotesInvariant'
<1>1. LQTypeOK'
  BY DEF QuotesInvariant, LQTypeOK
<1>2. reader'[r] = f /\ \A q \in Readers \ {r} : reader'[q] = reader[q]
  BY DEF QuotesInvariant, LQTypeOK
<1>3. ASSUME NEW q \in Readers PROVE ReaderFits(q)'
  <2>1. CASE q = r
    BY <1>2, <2>1 DEF ReaderFits, Outdated
  <2>2. CASE q # r
    BY <1>2, <2>2 DEF QuotesInvariant, ReaderFits, Outdated
  <2> QED
    BY <2>1, <2>2
<1> QED
  BY <1>1, <1>3 DEF QuotesInvariant

LEMMA EntryStays ==
  ASSUME QuotesInvariant, UNCHANGED <<hour, lastRow, rebuiltAt, entry>>
  PROVE  entry' \in [quote : Closings, until : 0 .. LastHour + DayHours] /\ EntryFits'
BY DEF QuotesInvariant, LQTypeOK, EntryFits, Outdated

LEMMA ReadingKeeps ==
  ASSUME QuotesInvariant, NEW r \in Readers,
         Hit(r) \/ Miss(r) \/ ReadRow(r) \/ NoRow(r) \/ CacheSetFails(r) \/ Leaves(r)
  PROVE  QuotesInvariant'
<1>1. UNCHANGED <<hour, lastRow, rebuiltAt, entry>>
  BY DEF Hit, Miss, ReadRow, NoRow, CacheSetFails, Leaves
<1>2. /\ hour \in Hours /\ lastRow \in Closings /\ entry.quote \in Closings /\ LQTypeOK
      /\ reader \in [Readers -> [at : {"idle", "missed", "read", "answered"}, quote : Closings,
                                 since : Hours, was : Closings]]
      /\ 0 \in Closings /\ 0 \in Hours
  <2>1. LastHour \div DayHours + 1 \in Int
    BY QuoteCacheAssumption
  <2>2. /\ hour \in Hours /\ lastRow \in Closings /\ entry.quote \in Closings /\ LQTypeOK
        /\ reader \in [Readers -> [at : {"idle", "missed", "read", "answered"}, quote : Closings,
                                   since : Hours, was : Closings]]
    BY DEF QuotesInvariant, LQTypeOK
  <2>3. hour \in 0 .. LastHour /\ lastRow \in 0 .. LastHour \div DayHours + 1
    BY <2>2 DEF Hours, Closings
  <2>4. 0 \in 0 .. LastHour /\ 0 \in 0 .. LastHour \div DayHours + 1
    BY <2>1, <2>3, QuoteCacheAssumption
  <2> QED
    BY <2>2, <2>4 DEF Closings, Hours
<1>3. /\ hour \in Nat /\ lastRow \in Nat /\ entry.quote \in Nat /\ entry.until \in Nat
      /\ reader[r].quote \in Nat /\ reader[r].since \in Nat
      /\ DayHours \in Nat \ {0} /\ LastHour \in Nat /\ MaxReading \in Nat
      /\ \A c \in Nat : c < lastRow => rebuiltAt[c + 1] \in Nat
  BY <1>2, ReaderTypes
<1>4. ReaderFits(r)
  BY DEF QuotesInvariant
<1>5. EntryFits
  BY DEF QuotesInvariant
<1>6. CASE Hit(r)
  <2> PICK f : f = [at |-> "answered", quote |-> entry.quote, since |-> hour, was |-> lastRow]
    OBVIOUS
  <2>1. f \in [at : {"idle", "missed", "read", "answered"}, quote : Closings, since : Hours,
               was : Closings]
    BY <1>2
  <2>2. Outdated(f.quote, f.since - DayHours - MaxReading + 1)
    BY <1>3, <1>5, <1>6 DEF Hit, EntryFits, Outdated
  <2>3. f.quote <= lastRow /\ f.since <= hour /\ hour <= f.since + MaxReading
    BY <1>3, <1>5 DEF EntryFits
  <2>4. reader' = [reader EXCEPT ![r] = f] /\ f.at = "answered"
    BY <1>6 DEF Hit
  <2> QED
    BY <1>1, <2>1, <2>2, <2>3, <2>4, EntryStays, ReaderKeeps
<1>7. CASE Miss(r)
  <2> PICK f : f = [reader[r] EXCEPT !.at = "missed", !.since = hour, !.was = lastRow]
    OBVIOUS
  <2>1. /\ f \in [at : {"idle", "missed", "read", "answered"}, quote : Closings, since : Hours,
                  was : Closings]
        /\ f.at = "missed" /\ f.quote = reader[r].quote /\ f.since = hour
    BY <1>2
  <2>2. reader' = [reader EXCEPT ![r] = f]
    BY <1>2, <1>7 DEF Miss
  <2>3. f.quote <= lastRow /\ f.since <= hour /\ hour <= f.since + MaxReading
    BY <1>3, <1>4, <2>1 DEF ReaderFits
  <2> QED
    BY <1>1, <2>1, <2>2, <2>3, EntryStays, ReaderKeeps
<1>8. CASE ReadRow(r)
  <2> PICK f : f = [reader[r] EXCEPT !.at = "read", !.quote = lastRow]
    OBVIOUS
  <2>1. /\ f \in [at : {"idle", "missed", "read", "answered"}, quote : Closings, since : Hours,
                  was : Closings]
        /\ f.at = "read" /\ f.quote = lastRow /\ f.since = reader[r].since
    BY <1>2
  <2>2. reader' = [reader EXCEPT ![r] = f]
    BY <1>2, <1>8 DEF ReadRow
  <2>3. f.quote <= lastRow /\ f.since <= hour /\ hour <= f.since + MaxReading
        /\ Outdated(f.quote, f.since)
    BY <1>3, <1>4, <1>8, <2>1 DEF ReadRow, ReaderFits, Outdated
  <2> QED
    BY <1>1, <2>1, <2>2, <2>3, EntryStays, ReaderKeeps
<1>9. CASE CacheSetFails(r)
  <2> PICK f : f = [reader[r] EXCEPT !.at = "answered"]
    OBVIOUS
  <2>1. /\ f \in [at : {"idle", "missed", "read", "answered"}, quote : Closings, since : Hours,
                  was : Closings]
        /\ f.at = "answered" /\ f.quote = reader[r].quote /\ f.since = reader[r].since
    BY <1>2
  <2>2. reader' = [reader EXCEPT ![r] = f]
    BY <1>2, <1>9 DEF CacheSetFails
  <2>3. f.quote <= lastRow /\ f.since <= hour /\ hour <= f.since + MaxReading
        /\ Outdated(f.quote, f.since - DayHours - MaxReading + 1)
    BY <1>3, <1>4, <1>9, <2>1 DEF CacheSetFails, ReaderFits, Outdated
  <2> QED
    BY <1>1, <2>1, <2>2, <2>3, EntryStays, ReaderKeeps
<1>10. CASE Leaves(r) \/ NoRow(r)
  <2> PICK f : f = Idle
    OBVIOUS
  <2>1. f \in [at : {"idle", "missed", "read", "answered"}, quote : Closings, since : Hours,
               was : Closings]
        /\ f.at = "idle" /\ f.quote = 0
    BY <1>2 DEF Idle
  <2>2. reader' = [reader EXCEPT ![r] = f]
    BY <1>10 DEF Leaves, NoRow
  <2>3. f.quote <= lastRow /\ f.at # "read" /\ f.at # "answered"
    BY <1>3, <2>1
  <2>4. entry' \in [quote : Closings, until : 0 .. LastHour + DayHours] /\ EntryFits'
    BY <1>1, EntryStays
  <2> QED
    BY <1>1, <2>1, <2>2, <2>3, <2>4, ReaderKeeps
<1> QED
  BY <1>6, <1>7, <1>8, <1>9, <1>10

LEMMA CacheSetKeeps ==
  ASSUME QuotesInvariant, NEW r \in Readers, CacheSet(r)
  PROVE  QuotesInvariant'
<1>1. /\ reader[r].at = "read" /\ UNCHANGED <<hour, lastRow, rebuiltAt>>
      /\ entry' = [quote |-> reader[r].quote, until |-> hour + DayHours]
      /\ reader' = [reader EXCEPT ![r].at = "answered"]
  BY DEF CacheSet
<1>2. /\ reader \in [Readers -> [at : {"idle", "missed", "read", "answered"}, quote : Closings,
                                 since : Hours, was : Closings]]
      /\ ReaderFits(r) /\ LQTypeOK
  BY DEF QuotesInvariant, LQTypeOK
<1>3. /\ hour \in Nat /\ hour <= LastHour /\ lastRow \in Nat
      /\ reader[r].quote \in Nat /\ reader[r].since \in Nat
      /\ DayHours \in Nat \ {0} /\ LastHour \in Nat /\ MaxReading \in Nat
      /\ \A c \in Nat : c < lastRow => rebuiltAt[c + 1] \in Nat
  BY <1>2, ReaderTypes
<1> PICK f : f = [reader[r] EXCEPT !.at = "answered"]
  OBVIOUS
<1>4. /\ f \in [at : {"idle", "missed", "read", "answered"}, quote : Closings, since : Hours,
                was : Closings]
      /\ f.at = "answered" /\ f.quote = reader[r].quote /\ f.since = reader[r].since
  BY <1>2
<1>5. reader' = [reader EXCEPT ![r] = f]
  BY <1>1, <1>2
<1>6. entry' \in [quote : Closings, until : 0 .. LastHour + DayHours]
  BY <1>1, <1>2, <1>3
<1>7. EntryFits'
  <2>1. entry'.quote = reader[r].quote /\ entry'.until = hour + DayHours
    BY <1>1
  <2>2. reader[r].quote <= lastRow /\ Outdated(reader[r].quote, reader[r].since)
        /\ hour - MaxReading <= reader[r].since
    BY <1>1, <1>2, <1>3 DEF ReaderFits
  <2>3. Outdated(reader[r].quote, hour - MaxReading)
    BY <1>3, <2>2 DEF Outdated
  <2>4. hour + DayHours - DayHours - MaxReading = hour - MaxReading
    BY <1>3
  <2> QED
    BY <1>1, <1>3, <2>1, <2>2, <2>3, <2>4 DEF EntryFits, Outdated
<1>8. f.quote <= lastRow /\ f.since <= hour /\ hour <= f.since + MaxReading
      /\ Outdated(f.quote, f.since - DayHours - MaxReading + 1)
  BY <1>1, <1>2, <1>3, <1>4 DEF ReaderFits, Outdated
<1> QED
  BY <1>1, <1>4, <1>5, <1>6, <1>7, <1>8, ReaderKeeps

LEMMA RebuildKeepsQuotes ==
  ASSUME QuotesInvariant, RebuildLastQuotes
  PROVE  QuotesInvariant'
<1>1. LQTypeOK /\ hour \in Hours /\ UNCHANGED <<hour, entry, reader>>
  BY DEF QuotesInvariant, LQTypeOK, RebuildLastQuotes
<1>2. (hour + 1) \div DayHours \in Closings
  BY <1>1, DayIsClosing DEF Hours
<1>3. /\ hour \in Nat /\ lastRow \in Nat /\ entry.quote \in Nat /\ entry.until \in Nat
      /\ \A r \in Readers : reader[r].quote \in Nat /\ reader[r].since \in Nat
      /\ DayHours \in Nat \ {0} /\ MaxReading \in Nat
  BY <1>1, ReaderTypes
<1>4. LQTypeOK'
  BY <1>1, <1>2, RebuildsAge DEF LQTypeOK
<1>5. lastRow' \in Nat /\ lastRow <= lastRow'
  BY <1>1, <1>2, <1>4, RebuildsAge, ReaderTypes DEF Closings, LQTypeOK
<1>6. \A c \in Nat, since \in Int : c <= lastRow /\ since <= hour /\ Outdated(c, since)
        => Outdated(c, since)'
  BY <1>1, <1>2, RebuildsAge DEF Outdated
<1>7. EntryFits'
  <2>1. entry.until - DayHours - MaxReading \in Int /\ entry.until - DayHours - MaxReading <= hour
    BY <1>3 DEF QuotesInvariant, EntryFits
  <2>2. Outdated(entry.quote, entry.until - DayHours - MaxReading)'
    BY <1>1, <1>3, <1>6, <2>1 DEF QuotesInvariant, EntryFits, Outdated
  <2> QED
    BY <1>1, <1>3, <1>5, <2>2 DEF QuotesInvariant, EntryFits
<1>8. ASSUME NEW r \in Readers PROVE ReaderFits(r)'
  <2>1. ReaderFits(r) /\ reader[r].quote \in Nat /\ reader[r].since \in Nat
    BY <1>3 DEF QuotesInvariant
  <2>2. reader[r].since - DayHours - MaxReading + 1 \in Int
    BY <1>3
  <2>3. reader[r].at = "answered" => reader[r].since - DayHours - MaxReading + 1 <= hour
    BY <1>3, <2>1 DEF ReaderFits
  <2> QED
    BY <1>1, <1>3, <1>5, <1>6, <2>1, <2>2, <2>3 DEF ReaderFits, Outdated
<1> QED
  BY <1>4, <1>7, <1>8 DEF QuotesInvariant

LEMMA TimeKeeps ==
  ASSUME QuotesInvariant, EvictEntry \/ NextHour
  PROVE  QuotesInvariant'
<1>1. LQTypeOK /\ UNCHANGED <<lastRow, rebuiltAt, reader>> /\ entry' \in {entry, NoEntry}
  BY DEF QuotesInvariant, EvictEntry, NextHour
<1>2. /\ hour \in Nat /\ lastRow \in Nat /\ entry.quote \in Nat /\ entry.until \in Nat
      /\ \A r \in Readers : reader[r].quote \in Nat /\ reader[r].since \in Nat
      /\ DayHours \in Nat \ {0} /\ MaxReading \in Nat /\ LastHour \in Nat
      /\ \A c \in Nat : c < lastRow => rebuiltAt[c + 1] \in Nat
  BY <1>1, ReaderTypes
<1>3. hour' \in Hours /\ hour' \in Nat /\ hour <= hour' /\ hour' <= hour + 1
      /\ (hour' # hour => \A r \in Readers : reader[r].at # "idle" =>
                                hour < reader[r].since + MaxReading)
  BY <1>1, <1>2 DEF LQTypeOK, EvictEntry, NextHour, Hours
<1>4. NoEntry \in [quote : Closings, until : 0 .. LastHour + DayHours]
  <2>1. LastHour \div DayHours + 1 \in Int
    BY QuoteCacheAssumption
  <2>2. 0 \in Closings
    BY <1>1, <1>2, <2>1 DEF LQTypeOK, Closings
  <2> QED
    BY <1>2, <2>2 DEF NoEntry
<1>5. LQTypeOK'
  BY <1>1, <1>3, <1>4 DEF LQTypeOK
<1>6. EntryFits'
  <2>1. CASE entry' = entry
    BY <1>1, <1>2, <1>3, <2>1 DEF QuotesInvariant, EntryFits, Outdated
  <2>2. CASE entry' = NoEntry
    <3>1. entry'.quote = 0 /\ entry'.until = 0
      BY <2>2 DEF NoEntry
    <3>2. 0 < lastRow => rebuiltAt[0 + 1] \in Nat
      BY <1>2
    <3>3. 0 <= lastRow /\ 0 <= hour' + DayHours
      <4>1. \A h \in Nat, d \in Nat : 0 <= h + d
        OBVIOUS
      <4>2. 0 <= lastRow /\ DayHours \in Nat /\ hour' \in Nat
        BY <1>2, <1>3
      <4> QED
        BY <4>1, <4>2, Zenon
    <3>4. 0 < lastRow => rebuiltAt[0 + 1] >= 0 - DayHours - MaxReading
      BY <1>2, <3>2
    <3> QED
      BY <1>1, <3>1, <3>3, <3>4 DEF EntryFits, Outdated
  <2> QED
    BY <1>1, <2>1, <2>2
<1>7. ASSUME NEW r \in Readers PROVE ReaderFits(r)'
  BY <1>1, <1>2, <1>3 DEF QuotesInvariant, ReaderFits, Outdated
<1> QED
  BY <1>5, <1>6, <1>7 DEF QuotesInvariant

LEMMA QuotesKeep == QuotesInvariant /\ [LQNext]_lqVars => QuotesInvariant'
<1> SUFFICES ASSUME QuotesInvariant, [LQNext]_lqVars PROVE QuotesInvariant'
  OBVIOUS
<1>1. CASE UNCHANGED lqVars
  BY <1>1 DEF lqVars, QuotesInvariant, LQTypeOK, EntryFits, ReaderFits, Outdated
<1>2. CASE LQNext
  BY <1>2, ReadingKeeps, CacheSetKeeps, RebuildKeepsQuotes, TimeKeeps DEF LQNext
<1> QED
  BY <1>1, <1>2

\* LQTypeOK, for any readers, hours of a day and times of reading.
THEOREM QuotesTypeCorrect == LQSpec => []LQTypeOK
<1>1. QuotesInvariant => LQTypeOK
  BY DEF QuotesInvariant
<1> QED
  BY <1>1, QuotesStart, QuotesKeep, PTL DEF LQSpec

\* QuotesLagADayAtMost, for any readers, hours of a day and times of reading.
THEOREM QuotesLag == LQSpec => []QuotesLagADayAtMost
<1>1. QuotesInvariant => QuotesLagADayAtMost
  <2> SUFFICES ASSUME QuotesInvariant, NEW r \in Readers, reader[r].at = "answered",
                      reader[r].quote < lastRow
               PROVE  reader[r].since - rebuiltAt[reader[r].quote + 1] < DayHours + MaxReading
    BY DEF QuotesLagADayAtMost
  <2>1. rebuiltAt[reader[r].quote + 1] >= reader[r].since - DayHours - MaxReading + 1
    BY DEF QuotesInvariant, ReaderFits, Outdated
  <2>2. /\ reader[r].quote \in Nat /\ reader[r].since \in Nat
        /\ DayHours \in Nat /\ MaxReading \in Nat /\ rebuiltAt[reader[r].quote + 1] \in Nat
    BY ReaderTypes DEF QuotesInvariant
  <2> QED
    BY <2>1, <2>2
<1> QED
  BY <1>1, QuotesStart, QuotesKeep, PTL DEF LQSpec

-----------------------------------------------------------------------------
(* The two layers of alert deduplication, for any set of prices, any number *)
(* of evaluations, processes and restarts, and any window.                 *)

USE PricesAssumption, TaskAssumption, WindowAssumption

LEMMA PricesAreIntegers == \A p \in AlertPrices : p \in Int
OBVIOUS

LEMMA ElementOfSequence ==
    ASSUME NEW S, NEW s \in Seq(S), NEW k \in 1..Len(s)
    PROVE  s[k] \in S
OBVIOUS

LEMMA AlertTypesStart == ADInit => ADTypeOK
BY DEF ADInit, ADTypeOK, LongAgo, Unpriced

\* A task between idle and idle evaluates a price.
LEMMA WorkingHasPrice ==
    ASSUME ADTypeOK, NEW t \in Tasks, pc[t] # "idle"
    PROVE  price[t] \in AlertPrices
BY DEF ADTypeOK

LEMMA AlertTypesKeep == ADTypeOK /\ [ADNext]_adVars => ADTypeOK'
<1> SUFFICES ASSUME ADTypeOK, [ADNext]_adVars PROVE ADTypeOK'
  OBVIOUS
<1> USE DEF ADTypeOK, memory, redis, tasks, history, Unpriced
<1>1. ASSUME NEW t \in Tasks, NEW p \in AlertPrices, Evaluate(t, p) PROVE ADTypeOK'
  BY <1>1 DEF Evaluate
<1>2. ASSUME NEW t \in Tasks, RedisGrants(t) PROVE ADTypeOK'
  <2>1. price[t] \in AlertPrices
    BY <1>2, WorkingHasPrice DEF RedisGrants
  <2>2. [price |-> price[t], at |-> now] \in [price : AlertPrices, at : Nat]
    BY <2>1
  <2>3. granted' \in Seq([price : AlertPrices, at : Nat])
    BY <1>2, <2>2 DEF RedisGrants
  <2>4. alertedAt' \in [AlertPrices -> Int]
    BY <1>2, <2>1 DEF RedisGrants
  <2> QED
    BY <1>2, <2>1, <2>3, <2>4 DEF RedisGrants, WriteRedis
<1>3. ASSUME NEW t \in Tasks, RedisRefuses(t) PROVE ADTypeOK'
  BY <1>3 DEF RedisRefuses
<1>4. ASSUME NEW t \in Tasks, ReplyArrives(t) PROVE ADTypeOK'
  BY <1>4 DEF ReplyArrives, Finish
<1>5. ASSUME NEW t \in Tasks, RedisFails(t) PROVE ADTypeOK'
  <2>1. price[t] \in AlertPrices
    BY <1>5, WorkingHasPrice DEF RedisFails
  <2> QED
    BY <1>5, <2>1 DEF RedisFails
<1>6. ASSUME NEW t \in Tasks, Send(t) PROVE ADTypeOK'
  BY <1>6 DEF Send, Finish
<1>7. ASSUME NEW i \in Instances, Evict(i) PROVE ADTypeOK'
  BY <1>7 DEF Evict
<1>8. ASSUME NEW i \in Instances, Restart(i) PROVE ADTypeOK'
  BY <1>8 DEF Restart
<1>9. CASE Tick
  <2>1. granted' \in Seq([price : AlertPrices, at : Nat])
    BY <1>9 DEF Tick
  <2> QED
    BY <1>9, <2>1 DEF Tick
<1>10. CASE UNCHANGED adVars
  BY <1>10 DEF adVars
<1> QED
  BY <1>1, <1>2, <1>3, <1>4, <1>5, <1>6, <1>7, <1>8, <1>9, <1>10 DEF ADNext

\* Both layers and all tasks keep to their types.
THEOREM AlertTypeCorrect == ADSpec => []ADTypeOK
BY AlertTypesStart, AlertTypesKeep, PTL DEF ADSpec

-----------------------------------------------------------------------------
(* Granted alerts escalate.                                                *)

\* While a series of grants goes on, Redis holds its last price, alive: only a
\* more extreme price can be granted next.
SeriesInRedis ==
    LET n == Len(granted) IN
    granted # <<>> =>
        /\ redisPrice = granted[n].price
        /\ redisUntil = granted[n].at + Window
        /\ RedisLive

Series == AlertsEscalate /\ SeriesInRedis

LEMMA SeriesStep == ADTypeOK /\ Series /\ [ADNext]_adVars => Series'
<1> SUFFICES ASSUME ADTypeOK, Series, [ADNext]_adVars PROVE Series'
  OBVIOUS
<1> DEFINE Alerts == [price : AlertPrices, at : Nat]
<1>0. granted \in Seq(Alerts) /\ now \in Nat /\ AlertPrices \subseteq Int
  BY DEF ADTypeOK
<1>1. CASE UNCHANGED <<granted, redis, now>>
  BY <1>1 DEF Series, AlertsEscalate, SeriesInRedis, RedisLive, redis
<1>2. ASSUME NEW t \in Tasks, RedisGrants(t) PROVE Series'
  <2>1. price[t] \in AlertPrices
    BY <1>2, WorkingHasPrice DEF RedisGrants
  <2> DEFINE n == Len(granted)
             a == [price |-> price[t], at |-> now]
  <2>2. n \in Nat /\ \A k \in 1..n : granted[k] \in Alerts
    <3>1. n \in Nat
      BY <1>0
    <3>2. ASSUME NEW k \in 1..n PROVE granted[k] \in Alerts
      BY <1>0, ElementOfSequence
    <3> QED
      BY <3>1, <3>2
  <2>3. granted' = Append(granted, a) /\ a \in Alerts
    BY <1>2, <1>0, <2>1 DEF RedisGrants
  <2>4. /\ Len(granted') = n + 1
        /\ granted'[n + 1] = a
        /\ \A k \in 1..n : granted'[k] = granted[k]
    BY <1>0, <2>3
  <2>5. \A k \in 1..n : price[t] < granted[k].price
    <3> SUFFICES ASSUME NEW k \in 1..n PROVE price[t] < granted[k].price
      OBVIOUS
    <3>1. granted # <<>>
      BY <1>0
    <3>2. price[t] < granted[n].price
      BY <1>2, <3>1 DEF RedisGrants, MoreExtreme, Series, SeriesInRedis
    <3>3. k = n \/ granted[n].price < granted[k].price
      BY <2>2 DEF Series, AlertsEscalate
    <3>4. granted[n].price \in Int /\ granted[k].price \in Int /\ price[t] \in Int
      <4>1. n \in 1..n
        BY <2>2
      <4>2. granted[n] \in Alerts /\ granted[k] \in Alerts
        BY <2>2, <4>1
      <4> QED
        BY <1>0, <2>1, <4>2
    <3> QED
      BY <3>2, <3>3, <3>4
  <2>6. AlertsEscalate'
    <3> SUFFICES ASSUME NEW j \in 1..(n + 1), NEW k \in 1..(n + 1), k < j
                 PROVE  granted'[j].price < granted'[k].price
      BY <2>4 DEF AlertsEscalate
    <3>1. k \in 1..n
      BY <2>2
    <3>2. CASE j = n + 1
      BY <2>4, <2>5, <3>1, <3>2
    <3>3. CASE j \in 1..n
      BY <2>4, <3>1, <3>3 DEF Series, AlertsEscalate
    <3> QED
      BY <2>2, <3>2, <3>3
  <2>7. SeriesInRedis'
    BY <1>2, <1>0, <2>2, <2>4 DEF RedisGrants, WriteRedis, SeriesInRedis, RedisLive
  <2> QED
    BY <2>6, <2>7 DEF Series
<1>3. CASE Tick
  <2>1. CASE granted' = <<>>
    BY <2>1 DEF Series, AlertsEscalate, SeriesInRedis
  <2>2. CASE granted' = granted /\ granted # <<>>
    <3>1. now + 1 < granted[Len(granted)].at + Window
      <4>1. Len(granted) \in 1..Len(granted)
        BY <1>0, <2>2
      <4>2. granted[Len(granted)] \in Alerts
        BY <1>0, <4>1, ElementOfSequence
      <4> QED
        BY <1>3, <1>0, <2>2, <4>2 DEF Tick
    <3> QED
      BY <1>3, <2>2, <3>1
         DEF Tick, Series, AlertsEscalate, SeriesInRedis, RedisLive, redis
  <2> QED
    BY <1>3, <2>1, <2>2 DEF Tick
<1> QED
  BY <1>1, <1>2, <1>3
     DEF ADNext, adVars, history, Evaluate, RedisRefuses, ReplyArrives, RedisFails, Send,
         Evict, Restart

\* The rule of alert_on_price_boundary, across restarts, evictions, processes
\* and lost replies: within a series each alert Redis grants is for a strictly
\* more extreme price.
THEOREM GrantsEscalate == ADSpec => []AlertsEscalate
<1>1. ADInit => Series
  BY DEF ADInit, Series, AlertsEscalate, SeriesInRedis
<1>2. Series => AlertsEscalate
  BY DEF Series
<1> QED
  BY <1>1, <1>2, AlertTypesStart, AlertTypesKeep, SeriesStep, PTL DEF ADSpec

-----------------------------------------------------------------------------
(* Suppressed evaluations are backed by alerts.                            *)

\* Nothing was decided in the future, and no entry of the memory layer lives
\* longer than a window from now.
Clocks ==
    /\ \A p \in AlertPrices : alertedAt[p] <= now
    /\ \A i \in Instances : memUntil[i] <= now + Window

\* What Redis refuses was alerted when Redis wrote it.
RedisBacked ==
    RedisLive => redisPrice \in AlertPrices /\ redisUntil <= alertedAt[redisPrice] + Window

\* Until it expires, an entry of the memory layer is backed.
BackedBy(i, p) == p <= memPrice[i] /\ memUntil[i] <= alertedAt[p] + 2 * Window
MemoryBacked ==
    \A i \in Instances : MemoryLive(i) => Asking(i) \/ \E p \in AlertPrices : BackedBy(i, p)

Backed == Clocks /\ RedisBacked /\ MemoryBacked

LEMMA ClocksStep == ADTypeOK /\ Clocks /\ [ADNext]_adVars => Clocks'
<1> SUFFICES ASSUME ADTypeOK, Clocks, [ADNext]_adVars PROVE Clocks'
  OBVIOUS
<1> USE DEF ADTypeOK, Clocks, memory, redis, tasks, history
<1>1. ASSUME NEW t \in Tasks, NEW p \in AlertPrices, Evaluate(t, p) PROVE Clocks'
  BY <1>1 DEF Evaluate
<1>2. ASSUME NEW t \in Tasks, RedisGrants(t) \/ RedisFails(t) PROVE Clocks'
  <2>1. alertedAt' = [alertedAt EXCEPT ![price[t]] = now]
    BY <1>2 DEF RedisGrants, RedisFails
  <2>2. UNCHANGED <<now, memory>>
    BY <1>2 DEF RedisGrants, RedisFails
  <2>3. \A p \in AlertPrices : alertedAt'[p] <= now
    BY <2>1
  <2> QED
    BY <2>2, <2>3
<1>3. ASSUME NEW i \in Instances, Evict(i) \/ Restart(i) PROVE Clocks'
  <2>1. memUntil' = [memUntil EXCEPT ![i] = 0] /\ UNCHANGED <<now, alertedAt>>
    BY <1>3 DEF Evict, Restart
  <2> QED
    BY <2>1
<1>4. CASE Tick
  BY <1>4 DEF Tick
<1>5. CASE UNCHANGED <<now, memory, alertedAt>>
  BY <1>5
<1> QED
  BY <1>1, <1>2, <1>3, <1>4, <1>5 DEF ADNext, adVars, RedisRefuses, ReplyArrives, Send

LEMMA RedisBackedStep == ADTypeOK /\ Clocks /\ RedisBacked /\ [ADNext]_adVars => RedisBacked'
<1> SUFFICES ASSUME ADTypeOK, Clocks, RedisBacked, [ADNext]_adVars PROVE RedisBacked'
  OBVIOUS
<1> USE DEF ADTypeOK, RedisBacked, RedisLive, redis, history
<1>1. ASSUME NEW t \in Tasks, RedisGrants(t) PROVE RedisBacked'
  <2>1. price[t] \in AlertPrices
    BY <1>1, WorkingHasPrice DEF RedisGrants
  <2> QED
    BY <1>1, <2>1 DEF RedisGrants, WriteRedis
<1>2. ASSUME NEW t \in Tasks, RedisFails(t) PROVE RedisBacked'
  BY <1>2 DEF RedisFails, Clocks
<1>3. CASE Tick
  BY <1>3 DEF Tick
<1>4. CASE UNCHANGED <<now, redis, alertedAt>>
  BY <1>4
<1> QED
  BY <1>1, <1>2, <1>3, <1>4
     DEF ADNext, adVars, Evaluate, RedisRefuses, ReplyArrives, Send, Evict, Restart

\* A step that leaves the memory layer alone and takes back no decision keeps
\* what backs an entry.
LEMMA BackingStays ==
    ASSUME ADTypeOK, ADTypeOK', NEW i \in Instances, NEW p \in AlertPrices, BackedBy(i, p),
           UNCHANGED memory, alertedAt'[p] >= alertedAt[p]
    PROVE  BackedBy(i, p)'
BY DEF ADTypeOK, BackedBy, memory

\* A task that stops asking has alerted, or was refused a price that was: what
\* it wrote into the memory layer stays backed until it expires.
LEMMA AnswerBacks ==
    ASSUME ADTypeOK, Backed, NEW i \in Instances, NEW t \in Tasks,
           pc[t] = "asking", price[t] <= memPrice[i],
           RedisGrants(t) \/ RedisRefuses(t) \/ RedisFails(t)
    PROVE  \E p \in AlertPrices : BackedBy(i, p)'
<1> USE DEF ADTypeOK, memory, redis, history
<1>1. price[t] \in AlertPrices
  BY WorkingHasPrice
<1>2. memUntil[i] <= now + Window /\ memUntil[i] \in Nat
  BY DEF Backed, Clocks
<1>3. CASE RedisGrants(t) \/ RedisFails(t)
  <2>1. alertedAt'[price[t]] = now /\ UNCHANGED <<memory, price>>
    BY <1>1, <1>3 DEF RedisGrants, RedisFails
  <2> DEFINE p == price[t]
  <2>2. memUntil'[i] <= alertedAt'[p] + 2 * Window
    BY <1>2, <2>1
  <2>3. p <= memPrice'[i]
    BY <2>1
  <2> HIDE DEF p
  <2> QED
    BY <1>1, <2>2, <2>3 DEF p, BackedBy
<1>4. CASE RedisRefuses(t)
  <2>1. /\ redisPrice \in AlertPrices
        /\ redisUntil <= alertedAt[redisPrice] + Window
        /\ now < redisUntil
    BY <1>4 DEF RedisRefuses, RedisLive, Backed, RedisBacked
  <2>2. redisPrice <= memPrice[i]
    <3>1. ~(price[t] < redisPrice)
      BY <1>4 DEF RedisRefuses, MoreExtreme
    <3>2. redisPrice \in Int /\ price[t] \in Int
      BY <1>1, <2>1, PricesAreIntegers
    <3>3. memPrice[i] \in AlertPrices \/ memPrice[i] = 0
      BY DEF Unpriced
    <3>4. memPrice[i] \in Int
      <4>1. CASE memPrice[i] \in AlertPrices
        BY <4>1, PricesAreIntegers
      <4>2. CASE memPrice[i] = 0
        BY <4>2
      <4> QED
        BY <3>3, <4>1, <4>2
    <3> QED
      BY <3>1, <3>2, <3>4
  <2>3. BackedBy(i, redisPrice)
    BY <1>2, <2>1, <2>2 DEF BackedBy
  <2>4. UNCHANGED <<memory, alertedAt>>
    BY <1>4 DEF RedisRefuses
  <2> QED
    BY <2>1, <2>3, <2>4 DEF BackedBy
<1> QED
  BY <1>3, <1>4

LEMMA MemoryBackedStep == ADTypeOK /\ ADTypeOK' /\ Backed /\ [ADNext]_adVars => MemoryBacked'
<1> SUFFICES ASSUME ADTypeOK, ADTypeOK', Backed, [ADNext]_adVars,
                    NEW i \in Instances, MemoryLive(i)'
             PROVE  Asking(i)' \/ \E p \in AlertPrices : BackedBy(i, p)'
  BY DEF MemoryBacked
<1> USE DEF memory, redis, tasks, history
\* What backed the entry before the step.
<1> DEFINE WasBacked == MemoryLive(i) /\ (Asking(i) \/ \E p \in AlertPrices : BackedBy(i, p))
<1>0. MemoryLive(i) => WasBacked
  BY DEF Backed, MemoryBacked
<1>1. ASSUME NEW t \in Tasks, NEW p \in AlertPrices, Evaluate(t, p)
      PROVE  Asking(i)' \/ \E q \in AlertPrices : BackedBy(i, q)'
  <2>1. CASE InstanceOf[t] = i
    BY <1>1, <2>1 DEF Evaluate, Asking, ADTypeOK
  <2>2. CASE InstanceOf[t] # i
    <3>1. UNCHANGED <<memPrice[i], memUntil[i], now, alertedAt>>
      BY <1>1, <2>2 DEF Evaluate, ADTypeOK
    <3>2. WasBacked
      BY <1>0, <3>1 DEF MemoryLive
    <3>3. Asking(i) => Asking(i)'
      BY <1>1, <2>2, <3>1 DEF Evaluate, Asking, ADTypeOK
    <3> QED
      BY <3>1, <3>2, <3>3 DEF BackedBy
  <2> QED
    BY <2>1, <2>2
<1>2. ASSUME NEW t \in Tasks, RedisGrants(t) \/ RedisRefuses(t) \/ RedisFails(t)
      PROVE  Asking(i)' \/ \E p \in AlertPrices : BackedBy(i, p)'
  <2>1. UNCHANGED <<memory, now, price>>
    BY <1>2 DEF RedisGrants, RedisRefuses, RedisFails
  <2>2. WasBacked
    BY <1>0, <2>1 DEF MemoryLive
  <2>3. \A p \in AlertPrices : alertedAt'[p] >= alertedAt[p]
    <3>1. alertedAt \in [AlertPrices -> Int] /\ \A p \in AlertPrices : alertedAt[p] <= now
      BY DEF ADTypeOK, Backed, Clocks
    <3>2. alertedAt' = alertedAt \/ alertedAt' = [alertedAt EXCEPT ![price[t]] = now]
      BY <1>2 DEF RedisGrants, RedisRefuses, RedisFails
    <3>3. now \in Int
      BY DEF ADTypeOK
    <3>4. \A p \in AlertPrices : alertedAt'[p] = alertedAt[p] \/ alertedAt'[p] = now
      BY <3>1, <3>2
    <3> QED
      BY <3>1, <3>3, <3>4
  <2>4. CASE \E p \in AlertPrices : BackedBy(i, p)
    BY <2>1, <2>3, <2>4, BackingStays
  <2>5. CASE Asking(i)
    <3>1. PICK u \in Tasks : InstanceOf[u] = i /\ pc[u] = "asking" /\ price[u] <= memPrice[i]
      BY <2>5 DEF Asking
    <3>2. CASE u = t
      BY <1>2, <3>1, <3>2, AnswerBacks
    <3>3. CASE u # t
      <4>1. pc'[u] = "asking"
        BY <1>2, <3>1, <3>3 DEF RedisGrants, RedisRefuses, RedisFails, ADTypeOK
      <4> QED
        BY <2>1, <3>1, <4>1 DEF Asking
    <3> QED
      BY <3>2, <3>3
  <2> QED
    BY <2>2, <2>4, <2>5
<1>3. ASSUME NEW t \in Tasks, ReplyArrives(t) \/ Send(t)
      PROVE  Asking(i)' \/ \E p \in AlertPrices : BackedBy(i, p)'
  <2>1. UNCHANGED <<memory, now, alertedAt>>
    BY <1>3 DEF ReplyArrives, Send
  <2>2. WasBacked
    BY <1>0, <2>1 DEF MemoryLive
  <2>3. Asking(i) => Asking(i)'
    BY <1>3, <2>1 DEF ReplyArrives, Send, Finish, Asking, ADTypeOK
  <2> QED
    BY <2>1, <2>2, <2>3 DEF BackedBy
<1>4. ASSUME NEW j \in Instances, Evict(j) \/ Restart(j)
      PROVE  Asking(i)' \/ \E p \in AlertPrices : BackedBy(i, p)'
  <2>1. i # j
    BY <1>4 DEF Evict, Restart, MemoryLive, ADTypeOK
  <2>2. UNCHANGED <<memPrice[i], memUntil[i], now, alertedAt>>
    BY <1>4, <2>1 DEF Evict, Restart, ADTypeOK
  <2>3. WasBacked
    BY <1>0, <2>2 DEF MemoryLive
  <2>4. Asking(i) => Asking(i)'
    BY <1>4, <2>1, <2>2 DEF Evict, Restart, Asking, ADTypeOK
  <2> QED
    BY <2>2, <2>3, <2>4 DEF BackedBy
<1>5. CASE Tick
  <2>1. UNCHANGED <<memory, tasks, alertedAt>> /\ now' = now + 1
    BY <1>5 DEF Tick
  <2>2. WasBacked
    BY <1>0, <2>1 DEF MemoryLive, ADTypeOK
  <2> QED
    BY <2>1, <2>2 DEF BackedBy, Asking
<1>6. CASE UNCHANGED adVars
  <2>1. WasBacked
    BY <1>0, <1>6 DEF MemoryLive, adVars
  <2> QED
    BY <1>6, <2>1 DEF adVars, BackedBy, Asking
<1> QED
  BY <1>1, <1>2, <1>3, <1>4, <1>5, <1>6 DEF ADNext

\* A live, backed entry stands on a decision of the last two windows.
LEMMA BackedIsBacked == ADTypeOK /\ Backed => SuppressionIsBacked
<1> SUFFICES ASSUME ADTypeOK, Backed, NEW i \in Instances, MemoryLive(i), ~Asking(i)
             PROVE  AlertedWithin(i, 2 * Window)
  BY DEF SuppressionIsBacked
<1>1. PICK p \in AlertPrices : BackedBy(i, p)
  BY DEF Backed, MemoryBacked
<1> QED
  BY <1>1 DEF BackedBy, AlertedWithin, MemoryLive, ADTypeOK

\* The memory layer silences no price without an alert of the last two windows
\* that was at least as extreme, or an evaluation that is about to decide.
THEOREM SuppressionStaysBacked == ADSpec => []SuppressionIsBacked
<1>1. ADInit => Backed
  BY DEF ADInit, Backed, Clocks, RedisBacked, MemoryBacked, RedisLive, MemoryLive, LongAgo
<1>2. ADTypeOK /\ ADTypeOK' /\ Backed /\ [ADNext]_adVars => Backed'
  BY ClocksStep, RedisBackedStep, MemoryBackedStep DEF Backed
<1> QED
  BY <1>1, <1>2, AlertTypesStart, AlertTypesKeep, BackedIsBacked, PTL DEF ADSpec

-----------------------------------------------------------------------------
(* The reminder of ex-dividend days, for any days, weekends and holidays.  *)

ReminderSteps == {"asleep", "tomorrow", "loaded", "triggered", "holdings", "forecast", "over"}

ReminderTyped ==
    /\ today \in CalendarDays /\ weekend \in Weekends
    /\ closed \subseteq CalendarDays \ {LastDay}
    /\ holidays \subseteq closed
    /\ step \in ReminderSteps /\ (step # "asleep" => today < LastDay)
    /\ nextTrading = Never \/ (nextTrading \in CalendarDays /\ nextTrading > today)
    /\ exDay \in CalendarDays \cup {Never} /\ (exDay # Never => IsTradingDay(exDay, closed))
    /\ datedOn \in 0 .. exDay /\ datedOn <= today
    /\ lapsed \subseteq 1 .. today
    /\ told \subseteq CalendarDays \X {"today", "next"}

AfterLoad == {"loaded", "triggered", "holdings", "forecast"}
AfterTrigger == {"triggered", "holdings", "forecast"}

\* What a run that has not failed in a step has loaded, and what it forecasts.
RunFits ==
    /\ today \notin lapsed =>
        /\ step = "tomorrow" \/ step \in AfterLoad => closed \cap YearOf(today) \subseteq holidays
        /\ step \in AfterLoad => closed \cap YearOf(today + 1) \subseteq holidays
    /\ step \in AfterTrigger => nextTrading = NextTradingDay(today, holidays)

\* The dividend was told today, if it is due and the run has got so far.
TodayFits ==
    exDay # Never /\ datedOn < exDay /\ exDay \notin lapsed =>
        \/ today < exDay
        \/ today = exDay /\ step \notin {"holdings", "forecast", "over"}
        \/ <<exDay, "today">> \in told

\* And on the eve e of its day, if the run of that day asked for the right years.
IsEve(e) ==
    /\ e \in Before(exDay) /\ \A f \in Before(exDay) : f <= e
    /\ YearOf(exDay) \in {YearOf(e), YearOf(e + 1)}

EveFits ==
    exDay # Never => \A e \in CalendarDays :
        IsEve(e) /\ datedOn < e /\ Done(e) /\ e \notin lapsed => <<e, "next">> \in told

ReminderInvariant == ReminderTyped /\ RunFits /\ TodayFits /\ EveFits

LEMMA CalendarIsOfNumbers ==
  /\ LastDay \in Nat /\ NewYear \in Nat /\ 2 <= NewYear /\ NewYear <= LastDay - 1
  /\ \A d \in CalendarDays : d \in Nat /\ 1 <= d /\ d <= LastDay
  /\ \A w \in Weekends : w \subseteq CalendarDays /\ LastDay \notin w
BY CalendarAssumption DEF CalendarDays

\* The days of a year are in a row.
LEMMA YearsAreIntervals ==
  ASSUME NEW d \in CalendarDays, NEW e \in CalendarDays, NEW f \in CalendarDays,
         d <= f, f <= e, YearOf(d) = YearOf(e)
  PROVE  f \in YearOf(d)
<1>1. d \in Nat /\ e \in Nat /\ f \in Nat /\ 1 <= f /\ f <= LastDay
  BY CalendarIsOfNumbers
<1>2. CASE d < NewYear
  <2>1. e < NewYear
    <3>1. SUFFICES ASSUME ~(e < NewYear) PROVE FALSE
      OBVIOUS
    <3>2. FirstYear = CalendarDays \ FirstYear
      BY <1>2, <3>1 DEF YearOf
    <3>3. 1 \in FirstYear
      BY CalendarIsOfNumbers DEF FirstYear
    <3> QED
      BY <3>2, <3>3
  <2> QED
    BY <1>1, <1>2, <2>1, CalendarIsOfNumbers DEF YearOf, FirstYear
<1>3. CASE ~(d < NewYear)
  BY <1>1, <1>3, CalendarIsOfNumbers DEF YearOf, FirstYear
<1> QED
  BY <1>2, <1>3

\* The next trading day is the first of the days after d on which the exchange trades.
LEMMA NextTradingDayIs ==
  ASSUME NEW list, NEW d \in CalendarDays, NEW e \in CalendarDays, d < e,
         IsTradingDay(e, list), \A f \in d + 1 .. e - 1 : ~IsTradingDay(f, list)
  PROVE  NextTradingDay(d, list) = e
<1>1. d \in Nat /\ e \in Nat /\ e \in d + 1 .. LastDay
  BY CalendarIsOfNumbers
<1>2. ASSUME NEW x \in d + 1 .. LastDay, IsTradingDay(x, list),
             \A f \in d + 1 .. x - 1 : ~IsTradingDay(f, list)
      PROVE  x = e
  <2>1. x \in Int /\ ~(x < e) /\ ~(e < x)
    <3>1. x < e => x \in d + 1 .. e - 1
      BY <1>1, <1>2
    <3>2. e < x => e \in d + 1 .. x - 1
      BY <1>1, <1>2
    <3> QED
      BY <1>2, <3>1, <3>2
  <2> QED
    BY <1>1, <2>1
<1> QED
  BY <1>1, <1>2 DEF NextTradingDay

\* There is a next trading day: on the last of the days the exchange trades.
LEMMA NextTradingDayExists ==
  ASSUME ReminderTyped, today < LastDay
  PROVE  NextTradingDay(today, holidays) \in today + 1 .. LastDay
<1> DEFINE D == {e \in today + 1 .. LastDay : IsTradingDay(e, holidays)}
<1>1. today \in Nat /\ LastDay \in D
  BY CalendarIsOfNumbers DEF ReminderTyped, IsTradingDay
<1>2. IsFiniteSet(D) /\ \A x \in D : x \in Int
  BY <1>1, CalendarIsOfNumbers, FS_Interval, FS_Subset
<1>3. Min(D) \in D /\ \A x \in D : Min(D) <= x
  BY <1>1, <1>2, MinIsLeast
<1>4. \A f \in today + 1 .. Min(D) - 1 : ~IsTradingDay(f, holidays)
  BY <1>1, <1>2, <1>3, CalendarIsOfNumbers
<1>5. \E e \in today + 1 .. LastDay :
        IsTradingDay(e, holidays) /\ \A f \in today + 1 .. e - 1 : ~IsTradingDay(f, holidays)
  BY <1>3, <1>4
<1> QED
  BY <1>5 DEF NextTradingDay

LEMMA ReminderStarts == XRInit => ReminderInvariant
<1> SUFFICES ASSUME XRInit PROVE ReminderInvariant
  OBVIOUS
<1>1. PICK other \in CalendarDays \ {LastDay} : closed = {NewYear, other}
  BY DEF XRInit
<1>2. closed \subseteq CalendarDays \ {LastDay}
  BY <1>1, CalendarIsOfNumbers DEF CalendarDays
<1>3. ReminderTyped
  BY <1>2, CalendarIsOfNumbers DEF XRInit, ReminderTyped, ReminderSteps, CalendarDays, Never
<1>4. RunFits /\ TodayFits /\ EveFits
  BY DEF XRInit, RunFits, TodayFits, EveFits, AfterLoad, AfterTrigger
<1> QED
  BY <1>3, <1>4 DEF ReminderInvariant

LEMMA LoadKeeps ==
  ASSUME ReminderTyped, NEW year, Load(year)
  PROVE  /\ holidays' \subseteq closed /\ holidays \subseteq holidays'
         /\ lapsed' \in {lapsed, lapsed \cup {today}}
         /\ today \notin lapsed' => closed \cap year \subseteq holidays'
BY DEF Load, Lapse, ReminderTyped

LEMMA ReminderStaysTyped ==
  ASSUME ReminderTyped, XRNext
  PROVE  ReminderTyped'
<1> USE CalendarIsOfNumbers
<1>0. today \in 1 .. today /\ today \in Nat
  BY DEF ReminderTyped
<1>1. CASE LoadThisYear
  <2>1. /\ holidays' \subseteq closed /\ lapsed' \in {lapsed, lapsed \cup {today}}
    BY <1>1, LoadKeeps DEF LoadThisYear
  <2>2. lapsed' \subseteq 1 .. today
    BY <1>0, <2>1 DEF ReminderTyped
  <2> QED
    BY <1>1, <2>1, <2>2 DEF LoadThisYear, ReminderTyped, ReminderSteps, IsTradingDay
<1>2. CASE LoadNextYear
  <2>1. /\ holidays' \subseteq closed /\ lapsed' \in {lapsed, lapsed \cup {today}}
    BY <1>2, LoadKeeps DEF LoadNextYear, ReminderTyped
  <2> QED
    BY <1>2, <2>1 DEF LoadNextYear, ReminderTyped, ReminderSteps, IsTradingDay
<1>3. CASE StayQuiet \/ Trigger
  <2>1. CASE StayQuiet
    BY <2>1 DEF StayQuiet, ReminderTyped, ReminderSteps, IsTradingDay
  <2>2. CASE Trigger
    <3>1. NextTradingDay(today, holidays) \in today + 1 .. LastDay
      BY <2>2, NextTradingDayExists DEF Trigger, ReminderTyped
    <3>2. nextTrading' \in CalendarDays /\ nextTrading' > today
      BY <2>2, <3>1 DEF Trigger, ReminderTyped, CalendarDays
    <3> QED
      BY <2>2, <3>2 DEF Trigger, ReminderTyped, ReminderSteps, IsTradingDay
  <2> QED
    BY <1>3, <2>1, <2>2
<1>4. CASE TellToday \/ TellHoldings \/ TellNext
  <2>1. told' \subseteq CalendarDays \X {"today", "next"}
    BY <1>4 DEF TellToday, TellHoldings, TellNext, ReminderTyped
  <2>2. step \in AfterTrigger /\ step' \in ReminderSteps
    BY <1>4 DEF TellToday, TellHoldings, TellNext, AfterTrigger, ReminderSteps
  <2>3. UNCHANGED <<today, weekend, closed, holidays, nextTrading, exDay, datedOn, lapsed>>
    BY <1>4 DEF TellToday, TellHoldings, TellNext
  <2> QED
    BY <2>1, <2>2, <2>3 DEF ReminderTyped, AfterTrigger, IsTradingDay
<1>5. CASE QueryLapses
  <2>1. /\ lapsed' \subseteq 1 .. today /\ step \in AfterTrigger /\ step' = "over"
    BY <1>0, <1>5 DEF QueryLapses, Lapse, ReminderTyped, AfterTrigger
  <2>2. UNCHANGED <<today, weekend, closed, holidays, nextTrading, exDay, datedOn, told>>
    BY <1>5 DEF QueryLapses
  <2> QED
    BY <2>1, <2>2 DEF ReminderTyped, ReminderSteps, AfterTrigger, IsTradingDay
<1>6. CASE SetDate
  <2>1. PICK d \in today .. LastDay : d \notin weekend \cup closed /\ exDay' = d
    BY <1>6 DEF SetDate
  <2> QED
    BY <1>6, <2>1 DEF SetDate, run, ReminderTyped, ReminderSteps, IsTradingDay, CalendarDays
<1>7. CASE NextDay
  BY <1>7 DEF NextDay, ReminderTyped, ReminderSteps, IsTradingDay, CalendarDays
<1> QED
  BY <1>1, <1>2, <1>3, <1>4, <1>5, <1>6, <1>7 DEF XRNext

LEMMA RunStaysFit ==
  ASSUME ReminderTyped, RunFits, XRNext
  PROVE  RunFits'
<1>1. CASE LoadThisYear
  <2>1. closed \cap YearOf(today) \subseteq holidays' \/ today \in lapsed'
    BY <1>1, LoadKeeps DEF LoadThisYear
  <2> QED
    BY <1>1, <2>1 DEF LoadThisYear, RunFits, AfterLoad, AfterTrigger, YearOf
<1>2. CASE LoadNextYear
  <2>1. CASE YearOf(today + 1) = YearOf(today)
    BY <1>2, <2>1 DEF LoadNextYear, RunFits, AfterLoad, AfterTrigger, YearOf
  <2>2. CASE YearOf(today + 1) # YearOf(today)
    <3>1. /\ today \notin lapsed' => closed \cap YearOf(today + 1) \subseteq holidays'
          /\ holidays \subseteq holidays' /\ lapsed \subseteq lapsed'
      BY <1>2, <2>2, LoadKeeps DEF LoadNextYear
    <3>2. today \notin lapsed' => closed \cap YearOf(today) \subseteq holidays'
      BY <1>2, <3>1 DEF LoadNextYear, RunFits
    <3> QED
      BY <1>2, <3>1, <3>2 DEF LoadNextYear, RunFits, AfterLoad, AfterTrigger, YearOf
  <2> QED
    BY <2>1, <2>2
<1>3. CASE Trigger
  BY <1>3 DEF Trigger, RunFits, AfterLoad, AfterTrigger, YearOf, NextTradingDay, IsTradingDay
<1>4. CASE StayQuiet \/ TellNext
  BY <1>4 DEF StayQuiet, TellNext, RunFits, AfterLoad, AfterTrigger
<1>5. CASE TellToday \/ TellHoldings
  BY <1>5 DEF TellToday, TellHoldings, RunFits, AfterLoad, AfterTrigger, YearOf, NextTradingDay,
              IsTradingDay
<1>6. CASE QueryLapses
  BY <1>6 DEF QueryLapses, RunFits, AfterLoad, AfterTrigger
<1>7. CASE SetDate
  BY <1>7 DEF SetDate, run, RunFits, AfterLoad, AfterTrigger, YearOf, NextTradingDay, IsTradingDay
<1>8. CASE NextDay
  BY <1>8 DEF NextDay, RunFits, AfterLoad, AfterTrigger
<1> QED
  BY <1>1, <1>2, <1>3, <1>4, <1>5, <1>6, <1>7, <1>8 DEF XRNext

\* The day of the dividend and its eve are no days on which the run stays quiet.
LEMMA RunsOnTradingDays ==
  ASSUME ReminderTyped, StayQuiet, exDay # Never
  PROVE  today # exDay /\ today \notin Before(exDay)
BY DEF StayQuiet, ReminderTyped, IsTradingDay, Before

\* Lapses are of the day, and messages stay.
LEMMA ReminderGrows ==
  ASSUME ReminderTyped, XRNext
  PROVE  /\ lapsed' \in {lapsed, lapsed \cup {today}} /\ told \subseteq told'
         /\ UNCHANGED <<weekend, closed>>
<1>1. CASE LoadThisYear
  BY <1>1, LoadKeeps DEF LoadThisYear
<1>2. CASE LoadNextYear
  BY <1>2, LoadKeeps DEF LoadNextYear
<1>3. CASE ~LoadThisYear /\ ~LoadNextYear
  BY <1>3 DEF XRNext, StayQuiet, Trigger, TellToday, TellHoldings, TellNext, QueryLapses, Lapse,
              SetDate, NextDay
<1> QED
  BY <1>1, <1>2, <1>3

LEMMA TodayStaysFit ==
  ASSUME ReminderTyped, TodayFits, XRNext
  PROVE  TodayFits'
<1>1. lapsed \subseteq lapsed' /\ told \subseteq told'
  BY ReminderGrows
<1>2. CASE SetDate
  <2>1. PICK d \in today .. LastDay : exDay' = d
    BY <1>2 DEF SetDate
  <2> QED
    BY <1>2, <2>1, CalendarIsOfNumbers DEF SetDate, TodayFits, ReminderTyped
<1>3. CASE NextDay
  BY <1>3, CalendarIsOfNumbers DEF NextDay, TodayFits, ReminderTyped, Never
<1>4. CASE StayQuiet
  BY <1>4, RunsOnTradingDays DEF StayQuiet, TodayFits, Never
<1>5. CASE LoadThisYear \/ LoadNextYear \/ Trigger
  BY <1>1, <1>5 DEF LoadThisYear, LoadNextYear, Trigger, TodayFits, Never
<1>6. CASE TellToday \/ TellHoldings \/ TellNext
  BY <1>1, <1>6 DEF TellToday, TellHoldings, TellNext, TodayFits, Never
<1>7. CASE QueryLapses
  BY <1>7 DEF QueryLapses, Lapse, run, TodayFits, Never
<1> QED
  BY <1>2, <1>3, <1>4, <1>5, <1>6, <1>7 DEF XRNext

\* On the eve, a run that has not failed forecasts the day of the dividend.
LEMMA EveForecasts ==
  ASSUME ReminderTyped, RunFits, exDay # Never, IsEve(today), today \notin lapsed,
         step \in AfterTrigger
  PROVE  nextTrading = exDay
<1> USE CalendarIsOfNumbers
<1>1. /\ today \in CalendarDays /\ exDay \in CalendarDays /\ today < exDay
      /\ exDay \in Nat /\ today \in Nat /\ today + 1 \in CalendarDays
  BY DEF ReminderTyped, IsEve, Before, CalendarDays
<1>2. IsTradingDay(exDay, holidays)
  BY DEF ReminderTyped, IsTradingDay
<1>3. ASSUME NEW f \in today + 1 .. exDay - 1
      PROVE  ~IsTradingDay(f, holidays)
  <2>1. f \in CalendarDays /\ f \in Nat /\ today < f /\ f < exDay
    BY <1>1, <1>3 DEF CalendarDays
  <2>2. f \notin Before(exDay)
    BY <1>1, <2>1 DEF IsEve
  <2>3. ~IsTradingDay(f, closed)
    BY <2>1, <2>2, <1>1 DEF Before, CalendarDays
  <2>4. f \in YearOf(today) \/ f \in YearOf(today + 1)
    <3>1. CASE YearOf(exDay) = YearOf(today)
      BY <1>1, <2>1, <3>1, YearsAreIntervals
    <3>2. CASE YearOf(exDay) = YearOf(today + 1)
      <4>1. today + 1 <= f /\ f <= exDay
        BY <1>1, <2>1
      <4> QED
        BY <1>1, <2>1, <3>2, <4>1, YearsAreIntervals
    <3> QED
      BY <3>1, <3>2 DEF IsEve
  <2>5. f \in closed => f \in holidays
    BY <2>4 DEF RunFits, AfterTrigger, AfterLoad
  <2> QED
    BY <2>3, <2>5 DEF IsTradingDay
<1>4. NextTradingDay(today, holidays) = exDay
  BY <1>1, <1>2, <1>3, NextTradingDayIs
<1> QED
  BY <1>4 DEF RunFits

LEMMA EveStaysFit ==
  ASSUME ReminderTyped, RunFits, EveFits, XRNext
  PROVE  EveFits'
<1> SUFFICES ASSUME exDay' # Never, NEW e \in CalendarDays,
                    IsEve(e)', datedOn' < e, Done(e)', e \notin lapsed'
             PROVE  <<e, "next">> \in told'
  BY DEF EveFits
<1>1. lapsed \subseteq lapsed' /\ told \subseteq told' /\ UNCHANGED <<weekend, closed>>
  BY ReminderGrows
<1>2. CASE SetDate
  BY <1>2, CalendarIsOfNumbers DEF SetDate, run, ReminderTyped, Done
<1>3. CASE ~SetDate
  <2>1. UNCHANGED <<exDay, datedOn>>
    BY <1>3 DEF XRNext, LoadThisYear, LoadNextYear, StayQuiet, Trigger, TellToday, TellHoldings,
                TellNext, QueryLapses, NextDay
  <2>2. IsEve(e) /\ e \in Before(exDay)
    BY <1>1, <2>1 DEF IsEve, Before, IsTradingDay, YearOf
  <2>3. CASE Done(e)
    BY <1>1, <2>1, <2>2, <2>3 DEF EveFits
  <2>4. CASE ~Done(e)
    <3>1. e = today /\ step # "over" /\ step' = "over" /\ today' = today
      BY <2>4, <1>3, CalendarIsOfNumbers
      DEF Done, XRNext, LoadThisYear, LoadNextYear, StayQuiet, Trigger, TellToday, TellHoldings,
          TellNext, QueryLapses, NextDay, ReminderTyped, CalendarDays, run
    <3>2. CASE StayQuiet
      BY <2>1, <2>2, <3>1, <3>2, RunsOnTradingDays
    <3>3. CASE QueryLapses
      BY <3>1, <3>3 DEF QueryLapses, Lapse
    <3>4. CASE TellNext
      <4>1. nextTrading = exDay
        BY <1>1, <2>1, <2>2, <3>1, <3>4, EveForecasts DEF TellNext, AfterTrigger
      <4> QED
        BY <3>1, <3>4, <4>1 DEF TellNext
    <3> QED
      BY <1>3, <3>1, <3>2, <3>3, <3>4
      DEF XRNext, LoadThisYear, LoadNextYear, Trigger, TellToday, TellHoldings, NextDay
  <2> QED
    BY <2>3, <2>4
<1> QED
  BY <1>2, <1>3

LEMMA ReminderKeeps == ReminderInvariant /\ [XRNext]_xrVars => ReminderInvariant'
<1>1. ASSUME ReminderInvariant, XRNext PROVE ReminderInvariant'
  BY <1>1, ReminderStaysTyped, RunStaysFit, TodayStaysFit, EveStaysFit DEF ReminderInvariant
<1>2. ASSUME ReminderInvariant, UNCHANGED xrVars PROVE ReminderInvariant'
  BY <1>2 DEF ReminderInvariant, xrVars, run, ReminderTyped, RunFits, TodayFits, EveFits, IsEve,
     Done, Before, IsTradingDay, NextTradingDay, YearOf
<1> QED
  BY <1>1, <1>2

\* The eve that the property names.
LEMMA DayBeforeIs ==
  ASSUME NEW d \in Nat, Before(d) # {}
  PROVE  DayBefore(d) \in Before(d) /\ \A f \in Before(d) : f <= DayBefore(d)
<1>1. Before(d) \subseteq 1 .. d - 1 /\ \A x \in Before(d) : x \in Int
  BY DEF Before
<1>2. IsFiniteSet(Before(d))
  <2>1. IsFiniteSet(1 .. d - 1)
    BY FS_Interval
  <2> QED
    BY <1>1, <2>1, FS_Subset
<1>3. \E e \in Before(d) : \A f \in Before(d) : f <= e
  BY <1>1, <1>2, MaxIsGreatest
<1> QED
  BY <1>3 DEF DayBefore

\* Every variable has its type, and a dividend falls on a day of trading, for any calendar.
THEOREM ReminderTypeCorrect == XRSpec => []XRTypeOK
<1>1. ReminderInvariant => XRTypeOK
  BY CalendarIsOfNumbers DEF ReminderInvariant, ReminderTyped, ReminderSteps, XRTypeOK,
     CalendarDays
<1> QED
  BY <1>1, ReminderStarts, ReminderKeeps, PTL DEF XRSpec

\* DividendsAreForetold, for any calendar, any weekends and holidays and any failures.
THEOREM DividendsForetold == XRSpec => []DividendsAreForetold
<1>1. ReminderInvariant => DividendsAreForetold
  <2> SUFFICES ASSUME ReminderInvariant, exDay # Never PROVE DividendsAreForetold
    BY DEF DividendsAreForetold
  <2>1. exDay \in CalendarDays /\ exDay \in Nat /\ today \in Nat
    BY CalendarIsOfNumbers DEF ReminderInvariant, ReminderTyped
  <2>2. datedOn < exDay /\ Done(exDay) /\ exDay \notin lapsed => <<exDay, "today">> \in told
    BY <2>1 DEF ReminderInvariant, TodayFits, Done
  <2>3. Before(exDay) # {} =>
            LET eve == DayBefore(exDay)
            IN datedOn < eve /\ Done(eve) /\ eve \notin lapsed
               /\ YearOf(exDay) \in {YearOf(eve), YearOf(eve + 1)}
                 => <<eve, "next">> \in told
    <3> SUFFICES ASSUME NEW eve \in Before(exDay), \A f \in Before(exDay) : f <= eve,
                        datedOn < eve, Done(eve), eve \notin lapsed,
                        YearOf(exDay) \in {YearOf(eve), YearOf(eve + 1)}
                 PROVE  <<eve, "next">> \in told
      BY <2>1, DayBeforeIs
    <3>1. eve \in CalendarDays
      BY <2>1, CalendarIsOfNumbers DEF Before, CalendarDays
    <3> QED
      BY <3>1 DEF ReminderInvariant, EveFits, IsEve
  <2> QED
    BY <2>2, <2>3 DEF DividendsAreForetold
<1> QED
  BY <1>1, ReminderStarts, ReminderKeeps, PTL DEF XRSpec

-----------------------------------------------------------------------------
(* The six components side by side, as the run has them.                   *)

\* Whichever component runs while the others rest, each of them follows its specification,
\* and so what is proved of it holds of the run.
THEOREM NoticesRun ==
  MCSpec => Spec /\ ADSpec /\ XRSpec /\ POSpec /\ LQSpec /\ MISpec
<1>1. MCInit => Init /\ ADInit /\ XRInit /\ POInit /\ LQInit /\ MIInit
  BY DEF MCInit
<1>2. [MCNext]_mcVars => /\ [Next]_vars /\ [ADNext]_adVars /\ [XRNext]_xrVars
                         /\ [PONext]_poVars /\ [LQNext]_lqVars /\ [MINext]_miVars
  BY DEF MCNext, mcVars
<1> QED
  BY <1>1, <1>2, PTL DEF MCSpec, Spec, ADSpec, XRSpec, POSpec, LQSpec, MISpec

\* All that the run checks of the six components holds for every value of the constants.
THEOREM NoticesAreSound ==
  MCSpec => [](/\ PendingHasEvent /\ AtMostTwoEvents /\ AlertsEscalate /\ SuppressionIsBacked
               /\ DividendsAreForetold /\ OfferingsAreTold /\ QuotesLagADayAtMost
               /\ IndexIsToldOnce)
BY NoticesRun, PendingMarksHaveEvents, EventsAreFew, GrantsEscalate, SuppressionStaysBacked,
   DividendsForetold, OfferingsTold, QuotesLag, IndexToldOnce, PTL
=============================================================================
