------------------------- MODULE TracePriceEvents -------------------------
(***************************************************************************)
(* The price pipeline of the Trace feature: crawlers write a shared        *)
(* snapshot cache and publish "this symbol changed" events; a pending set  *)
(* keeps at most one event per symbol in flight; one consumer per session  *)
(* re-reads the cache and evaluates the traced boundaries; a slow          *)
(* reconciliation pass re-evaluates every traced symbol to make up for     *)
(* whatever the events missed.                                             *)
(*                                                                         *)
(* Source: app/event/trace/price_tasks.rs, app/event/trace/stock_price.rs  *)
(* and the crawlers that write the cache.                                  *)
(*                                                                         *)
(* Granularity: one action per lock acquisition, channel operation or      *)
(* await.  An event carries a symbol only (PriceUpdateEvent), a price is   *)
(* a model value, and NoPrice stands for "not in the cache".  Which        *)
(* boundary a price crosses is the subject of TraceAlertDedup.             *)
(***************************************************************************)
EXTENDS Naturals, Sequences, FiniteSets

CONSTANTS Symbols,    \* stock symbols
          Prices,     \* quoted, valid, non-zero prices
          NoPrice,    \* the symbol is not in the snapshot cache
          NoSymbol,   \* nobody's symbol
          Crawlers,   \* concurrent publishers: HiStock loop, backup tasks, ...
          Capacity,   \* PRICE_UPDATE_CHANNEL_CAPACITY
          MaxStarts   \* bound: how often the pipeline is started

ASSUME SentinelAssumption == NoPrice \notin Prices /\ NoSymbol \notin Symbols
ASSUME BoundAssumption == MaxStarts \in Nat /\ Capacity \in Nat

VARIABLES snapshot,    \* SHARE.stock_snapshots: symbol -> price
          targets,     \* keys of TRACE_TARGETS
          pending,     \* PENDING_PRICE_SYMBOLS
          tx,          \* PRICE_UPDATE_TX: generation of the open channel, 0 if None
          generation,  \* PRICE_CONSUMER_LAST_GENERATION
          queue,       \* generation -> events in that channel
          consumer,    \* generation -> where the consumer task of that channel is
          evaluating,  \* generation -> the symbol that consumer works on
          crawler,     \* publisher -> where it is between comparing and publishing
          quote,       \* publisher -> the quote it works on
          sender,      \* the channel each publisher has cloned the sender of, or 0
          reconciling, \* IS_RECONCILING, and its task has not left its loop
          recon,       \* symbols the current reconciliation pass still has to read
          phase,       \* how far start_price_tasks / stop_price_tasks has come
          seen         \* auxiliary: the price the boundaries were last evaluated at

session == <<tx, generation, phase>>
consumers == <<queue, consumer, evaluating>>
publishers == <<crawler, quote, sender>>
reconciliation == <<reconciling, recon>>
vars == <<snapshot, targets, pending, seen, session, consumers, publishers,
          reconciliation>>

Generations == 1..MaxStarts
CachePrices == Prices \cup {NoPrice}

NoQuote == [symbol |-> NoSymbol, price |-> NoPrice, changed |-> FALSE]

Init ==
    /\ snapshot = [s \in Symbols |-> NoPrice]
    /\ targets = {}
    /\ pending = {}
    /\ tx = 0
    /\ generation = 0
    /\ queue = [g \in Generations |-> <<>>]
    /\ consumer = [g \in Generations |-> "none"]
    /\ evaluating = [g \in Generations |-> NoSymbol]
    /\ crawler = [c \in Crawlers |-> "idle"]
    /\ quote = [c \in Crawlers |-> NoQuote]
    /\ sender = [c \in Crawlers |-> 0]
    /\ reconciling = FALSE
    /\ recon = {}
    /\ phase = "off"
    /\ seen = [s \in Symbols |-> NoPrice]

-----------------------------------------------------------------------------
(* Crawlers: compare with the cache, write the cache, publish the change.  *)

\* A quote arrived and is compared with the cached price.  A quote that fails
\* is_valid_price is still compared, but the write will keep the old price.
Fetch(c, s, p) ==
    /\ crawler[c] = "idle"
    /\ \E valid \in BOOLEAN :
         quote' = [quote EXCEPT ![c] =
             [symbol |-> s, price |-> IF valid THEN p ELSE NoPrice,
              changed |-> snapshot[s] # p]]
    /\ crawler' = [crawler EXCEPT ![c] = "write"]
    /\ UNCHANGED <<snapshot, targets, pending, session, consumers, sender,
                   reconciliation, seen>>

PublisherDone(c) ==
    /\ crawler' = [crawler EXCEPT ![c] = "idle"]
    /\ quote' = [quote EXCEPT ![c] = NoQuote]

WriteSnapshot(c) ==
    /\ crawler[c] = "write"
    /\ snapshot' = IF quote[c].price = NoPrice THEN snapshot
                   ELSE [snapshot EXCEPT ![quote[c].symbol] = quote[c].price]
    /\ IF quote[c].changed
       THEN crawler' = [crawler EXCEPT ![c] = "insert"] /\ UNCHANGED quote
       ELSE PublisherDone(c)
    /\ UNCHANGED <<targets, pending, session, consumers, sender,
                   reconciliation, seen>>

\* publish_price_update, first half: only traced symbols, and only when no
\* event of the symbol is pending.
MayPublishAgain(s) == s \in targets           \* mutant: pending not consulted
MayPublish(s) == s \in targets /\ s \notin pending

InsertPending(c) ==
    LET s == quote[c].symbol IN
    /\ crawler[c] = "insert"
    /\ IF MayPublish(s)
       THEN /\ pending' = pending \cup {s}
            /\ crawler' = [crawler EXCEPT ![c] = "clone"]
            /\ UNCHANGED quote
       ELSE /\ PublisherDone(c)
            /\ UNCHANGED pending
    /\ UNCHANGED <<snapshot, targets, session, consumers, sender,
                   reconciliation, seen>>

\* The sender is cloned under the read lock and used after the lock is released.
CloneSender(c) ==
    /\ crawler[c] = "clone"
    /\ crawler' = [crawler EXCEPT ![c] = "send"]
    /\ sender' = [sender EXCEPT ![c] = tx]
    /\ UNCHANGED <<snapshot, targets, pending, session, consumers, quote,
                   reconciliation, seen>>

\* mutant: a failed send keeps the pending mark
TrySendKeepingMark(c) ==
    LET g == sender[c] IN
    /\ crawler[c] = "send"
    /\ IF g # 0 /\ Len(queue[g]) < Capacity
       THEN queue' = [queue EXCEPT ![g] = Append(@, quote[c].symbol)]
       ELSE UNCHANGED queue
    /\ PublisherDone(c)
    /\ sender' = [sender EXCEPT ![c] = 0]
    /\ UNCHANGED <<snapshot, targets, pending, session, consumer, evaluating,
                   reconciliation, seen>>

TrySend(c) ==
    LET g == sender[c] IN
    /\ crawler[c] = "send"
    /\ IF g # 0 /\ Len(queue[g]) < Capacity /\ consumer[g] # "done"
       THEN /\ queue' = [queue EXCEPT ![g] = Append(@, quote[c].symbol)]
            /\ PublisherDone(c)
       ELSE /\ crawler' = [crawler EXCEPT ![c] = "unpend"]
            /\ UNCHANGED <<queue, quote>>
    /\ sender' = [sender EXCEPT ![c] = 0]
    /\ UNCHANGED <<snapshot, targets, pending, session, consumer, evaluating,
                   reconciliation, seen>>

\* No channel, or a full one: the pending mark is taken back.
DropEvent(c) ==
    /\ crawler[c] = "unpend"
    /\ pending' = pending \ {quote[c].symbol}
    /\ PublisherDone(c)
    /\ UNCHANGED <<snapshot, targets, session, consumers, sender,
                   reconciliation, seen>>

\* A whole-cache replacement by HiStock, or Yahoo's removal of the symbols a
\* category no longer lists, drops a symbol without an event.
DropSnapshot(s) ==
    /\ snapshot[s] # NoPrice
    /\ snapshot' = [snapshot EXCEPT ![s] = NoPrice]
    /\ UNCHANGED <<targets, pending, session, consumers, publishers,
                   reconciliation, seen>>

-----------------------------------------------------------------------------
(* The consumer task of generation g.                                      *)

SendersOf(g) == {c \in Crawlers : crawler[c] = "send" /\ sender[c] = g}
ChannelNeverClosed(g) == FALSE    \* mutant: the task keeps a sender of its own
ChannelClosed(g) == tx # g /\ SendersOf(g) = {}

\* Evaluating a symbol reads the cache once; a missing price is skipped.
Evaluated(s) ==
    IF snapshot[s] = NoPrice THEN seen ELSE [seen EXCEPT ![s] = snapshot[s]]

Receive(g) ==
    /\ consumer[g] = "recv"
    /\ queue[g] # <<>>
    /\ consumer' = [consumer EXCEPT ![g] = "read"]
    /\ evaluating' = [evaluating EXCEPT ![g] = Head(queue[g])]
    /\ queue' = [queue EXCEPT ![g] = Tail(@)]
    /\ UNCHANGED <<snapshot, targets, pending, session, publishers,
                   reconciliation, seen>>

\* evaluate_price_update: a symbol that is no longer traced is skipped.
EvaluatePriceUpdate(g) ==
    LET s == evaluating[g] IN
    /\ consumer[g] = "read"
    /\ seen' = IF s \in targets THEN Evaluated(s) ELSE seen
    /\ consumer' = [consumer EXCEPT ![g] = "clear"]
    /\ UNCHANGED <<snapshot, targets, pending, session, queue, evaluating,
                   publishers, reconciliation>>

\* The alerts of the evaluated price have been sent; only now may the symbol
\* be published again.
ClearPending(g) ==
    /\ consumer[g] = "clear"
    /\ pending' = pending \ {evaluating[g]}
    /\ consumer' = [consumer EXCEPT ![g] = "recv"]
    /\ evaluating' = [evaluating EXCEPT ![g] = NoSymbol]
    /\ UNCHANGED <<snapshot, targets, session, queue, publishers,
                   reconciliation, seen>>

\* recv() returns None once every sender is gone and the channel is drained;
\* the task then clears the whole pending set, whoever owns its marks by now.
ConsumerExit(g) ==
    /\ consumer[g] = "recv"
    /\ queue[g] = <<>>
    /\ ChannelClosed(g)
    /\ pending' = {}
    /\ consumer' = [consumer EXCEPT ![g] = "done"]
    /\ UNCHANGED <<snapshot, targets, session, queue, evaluating, publishers,
                   reconciliation, seen>>

-----------------------------------------------------------------------------
(* Reconciliation: a pass takes the traced symbols, then every symbol is   *)
(* read from the cache by a task of its own.                               *)

ReconcileTick ==
    /\ reconciling
    /\ recon = {}
    /\ targets # {}
    /\ recon' = targets
    /\ UNCHANGED <<snapshot, targets, pending, session, consumers, publishers,
                   reconciling, seen>>

\* mutant: only symbols that were never evaluated are looked at
ReconcileNewSymbol(s) ==
    /\ s \in recon
    /\ seen' = IF seen[s] = NoPrice THEN Evaluated(s) ELSE seen
    /\ recon' = recon \ {s}
    /\ UNCHANGED <<snapshot, targets, pending, session, consumers, publishers,
                   reconciling>>

ReconcileSymbol(s) ==
    /\ s \in recon
    /\ seen' = Evaluated(s)
    /\ recon' = recon \ {s}
    /\ UNCHANGED <<snapshot, targets, pending, session, consumers, publishers,
                   reconciling>>

-----------------------------------------------------------------------------
(* Lifecycle of a session.                                                 *)

\* The cache of traced symbols becomes what the trace table holds.  A symbol
\* that was not traced before has not been evaluated yet.
LoadTargets(T) ==
    /\ targets' = T
    /\ seen' = [s \in Symbols |-> IF s \in T \ targets THEN NoPrice ELSE seen[s]]

RefreshTargets ==
    /\ phase = "on"
    /\ \E T \in SUBSET Symbols : T # targets /\ LoadTargets(T)
    /\ UNCHANGED <<snapshot, pending, session, consumers, publishers,
                   reconciliation>>

\* start_price_tasks: the targets are read from the database ...
StartLoadTargets ==
    /\ phase = "off"
    /\ generation < MaxStarts
    /\ \E T \in SUBSET Symbols : LoadTargets(T)
    /\ phase' = "loaded"
    /\ UNCHANGED <<snapshot, pending, tx, generation, consumers, publishers,
                   reconciliation>>

\* ... then a channel with a new consumer and an empty pending set is opened
\* under the sender's write lock, and reconciliation starts.
StartConsumer ==
    /\ phase = "loaded"
    /\ generation' = generation + 1
    /\ tx' = generation + 1
    /\ pending' = {}
    /\ consumer' = [consumer EXCEPT ![generation + 1] = "recv"]
    /\ reconciling' = TRUE
    /\ phase' = "on"
    /\ UNCHANGED <<snapshot, targets, queue, evaluating, publishers, recon,
                   seen>>

\* stop_price_tasks: flags down and the sender taken ...
StopTakeSender ==
    /\ phase = "on"
    /\ tx' = 0
    /\ reconciling' = FALSE
    /\ phase' = "stopping"
    /\ UNCHANGED <<snapshot, targets, pending, generation, consumers,
                   publishers, recon, seen>>

\* ... the pending set cleared under its own lock ...
StopClearPending ==
    /\ phase = "stopping"
    /\ pending' = {}
    /\ phase' = "waiting"
    /\ UNCHANGED <<snapshot, targets, tx, generation, consumers, publishers,
                   reconciliation, seen>>

\* ... and, when the tasks have ended or the wait for them has timed out, the
\* snapshot and target caches.
StopClearCaches ==
    /\ phase = "waiting"
    /\ targets' = {}
    /\ snapshot' = [s \in Symbols |-> NoPrice]
    /\ phase' = "off"
    /\ UNCHANGED <<pending, tx, generation, consumers, publishers,
                   reconciliation, seen>>

\* The reconciliation task leaves its loop when the market has closed.
MarketClosed ==
    /\ reconciling
    /\ reconciling' = FALSE
    /\ UNCHANGED <<snapshot, targets, pending, session, consumers, publishers,
                   recon, seen>>

Publish(c) ==
    WriteSnapshot(c) \/ InsertPending(c) \/ CloneSender(c) \/ TrySend(c) \/ DropEvent(c)
Consume(g) ==
    Receive(g) \/ EvaluatePriceUpdate(g) \/ ClearPending(g) \/ ConsumerExit(g)

Next ==
    \/ \E c \in Crawlers : Publish(c) \/ \E s \in Symbols, p \in Prices : Fetch(c, s, p)
    \/ \E s \in Symbols : DropSnapshot(s) \/ ReconcileSymbol(s)
    \/ \E g \in Generations : Consume(g)
    \/ ReconcileTick \/ RefreshTargets
    \/ StartLoadTargets \/ StartConsumer
    \/ StopTakeSender \/ StopClearPending \/ StopClearCaches \/ MarketClosed

\* A publish in progress and a spawned consumer or reconciliation step are run
\* by the executor until they finish (their I/O has timeouts).  Nothing obliges
\* a crawler to fetch, nor the session to stop.
Fairness ==
    /\ \A c \in Crawlers : WF_vars(Publish(c))
    /\ \A g \in Generations : WF_vars(Consume(g))
    /\ WF_vars(ReconcileTick)
    /\ \A s \in Symbols : WF_vars(ReconcileSymbol(s))
    /\ WF_vars(StartConsumer)
    /\ WF_vars(StopClearPending) /\ WF_vars(StopClearCaches)

Spec == Init /\ [][Next]_vars
FairSpec == Spec /\ Fairness

-----------------------------------------------------------------------------
(* Properties.                                                             *)

CrawlerPcs == {"idle", "write", "insert", "clone", "send", "unpend"}
Quotes == [symbol : Symbols \cup {NoSymbol}, price : CachePrices, changed : BOOLEAN]
ConsumerPcs == {"none", "recv", "read", "clear", "done"}

\* Every variable has the type the code declares for it.
TypeOK ==
    /\ snapshot \in [Symbols -> CachePrices]
    /\ targets \subseteq Symbols
    /\ pending \subseteq Symbols
    /\ tx \in {0} \cup Generations
    /\ generation \in {0} \cup Generations
    /\ queue \in [Generations -> Seq(Symbols)]
    /\ consumer \in [Generations -> ConsumerPcs]
    /\ evaluating \in [Generations -> Symbols \cup {NoSymbol}]
    /\ crawler \in [Crawlers -> CrawlerPcs]
    /\ quote \in [Crawlers -> Quotes]
    /\ sender \in [Crawlers -> {0} \cup Generations]
    /\ reconciling \in BOOLEAN
    /\ recon \subseteq Symbols
    /\ phase \in {"off", "loaded", "on", "stopping", "waiting"}
    /\ seen \in [Symbols -> CachePrices]

\* Who carries an event of s: a publisher between its insert and its send, a
\* queued event, or a consumer that has not cleared the mark yet.
Publishing(s) == {c \in Crawlers : crawler[c] \in {"clone", "send", "unpend"}
                                    /\ quote[c].symbol = s}
Queued(s) == {g \in Generations : \E i \in 1..Len(queue[g]) : queue[g][i] = s}
Consuming(s) == {g \in Generations : consumer[g] \in {"read", "clear"}
                                      /\ evaluating[g] = s}

\* A pending mark is never left behind: somebody still carries the symbol's
\* event and will remove the mark.  Otherwise publish_price_update would
\* ignore the symbol for the rest of the session (price_tasks.rs 238-248), also
\* when sessions overlap, a channel fills up or a stop races a publisher.
PendingHasEvent ==
    \A s \in pending : Publishing(s) \cup Queued(s) \cup Consuming(s) # {}

\* No event is sent into the void: while a publisher holds a sender, and while
\* the sender is published in PRICE_UPDATE_TX, the receiving consumer runs.
SenderHasConsumer ==
    \A g \in Generations :
        tx = g \/ SendersOf(g) # {} \/ queue[g] # <<>>
            => consumer[g] \in {"recv", "read", "clear"}

\* The pending set keeps the channel short: in a first session a symbol has at
\* most one event under way, and one more when a publisher marked the symbol
\* between the loading of the targets and the opening of the channel, whose mark
\* start_price_update_consumer_task clears (price_tasks.rs 113-116, 292).
EventsOf(s, g) ==
    Cardinality({i \in 1..Len(queue[g]) : queue[g][i] = s})
      + Cardinality({c \in Publishing(s) : sender[c] = g})
      + (IF g \in Consuming(s) THEN 1 ELSE 0)
AtMostTwoEvents ==
    generation = 1 => \A s \in Symbols : EventsOf(s, 1) <= 2

\* A consumer whose sender was taken drains its channel and ends, which is what
\* wait_for_trace_tasks_to_stop counts on.
ConsumersEnd ==
    \A g \in Generations :
        (generation >= g /\ tx # g) ~> consumer[g] = "done"

\* While reconciliation runs, the boundaries of a traced symbol are evaluated at
\* its current price or the price moves on; no change is missed for good, even
\* when its event was swallowed because an older one was still pending.
PriceIsEvaluated ==
    \A s \in Symbols, p \in Prices :
        (reconciling /\ s \in targets /\ snapshot[s] = p)
            ~> (seen[s] = p \/ snapshot[s] # p \/ ~reconciling \/ s \notin targets)

-----------------------------------------------------------------------------
(* What the pipeline promises, without events, channels or passes.         *)

Watch == INSTANCE PriceWatch WITH
    price <- snapshot, watched <- IF reconciling THEN targets ELSE {}, seen <- seen

\* Events, pending marks, channels, passes and restarts implement PriceWatch.
ImplementsPriceWatch == Watch!FairSpec
=============================================================================
