-------------------------- MODULE TraceAlertDedup --------------------------
(***************************************************************************)
(* Two-layer deduplication of price alerts for one key (one symbol and one *)
(* boundary).  A price beyond the boundary must be more extreme than the   *)
(* one remembered in the process's TTL cache and than the one remembered   *)
(* in Redis; each layer remembers it for its own window, started when that *)
(* layer wrote it.  Redis is shared by instances and outlives a restart.   *)
(*                                                                         *)
(* Source: alert_on_price_boundary in app/event/trace/stock_price.rs, the  *)
(* TTL cache in infra/cache/ttl.rs and the Lua script in                   *)
(* infra/nosql/redis.rs.                                                   *)
(*                                                                         *)
(* AlertPrices lie beyond the boundary; the floor is modelled, where       *)
(* lower is more extreme (the ceiling is its mirror image).  Time advances *)
(* in ticks at any moment, so every await may take any time.               *)
(***************************************************************************)
EXTENDS Integers, Sequences

CONSTANTS Tasks,       \* concurrent evaluations: event consumers, reconciliation
          Instances,   \* running processes that share one Redis
          InstanceOf,  \* the process each task belongs to
          AlertPrices, \* quotes beyond the floor, as natural numbers
          Window,      \* TRACE_ALERT_DEDUP_WINDOW_SECS, in ticks
          MaxTime      \* bound on the clock

ASSUME PricesAssumption == AlertPrices \subseteq Nat \ {0}
ASSUME TaskAssumption == InstanceOf \in [Tasks -> Instances]
ASSUME WindowAssumption == Window \in Nat \ {0}

VARIABLES now,         \* the clock
          memPrice,    \* instance -> price kept by TTL.trace_quote_notify
          memUntil,    \* instance -> when that entry expires
          redisPrice,  \* the price kept in Redis
          redisUntil,  \* when it expires
          pc,          \* task -> idle, asking, granted, refused or sending
          price,       \* task -> the price it evaluates
          granted,     \* auxiliary: alerts Redis granted, each within a window of the last
          alertedAt    \* auxiliary: price -> when it was last to be alerted

memory == <<memPrice, memUntil>>
redis == <<redisPrice, redisUntil>>
tasks == <<pc, price>>
history == <<granted, alertedAt>>
adVars == <<now, memory, redis, tasks, history>>

Unpriced == 0
LongAgo == -(2 * Window)

ADInit ==
    /\ now = 0
    /\ memPrice = [i \in Instances |-> Unpriced]
    /\ memUntil = [i \in Instances |-> 0]
    /\ redisPrice = Unpriced
    /\ redisUntil = 0
    /\ pc = [t \in Tasks |-> "idle"]
    /\ price = [t \in Tasks |-> Unpriced]
    /\ granted = <<>>
    /\ alertedAt = [p \in AlertPrices |-> LongAgo]

MemoryLive(i) == now < memUntil[i]
RedisLive == now < redisUntil

AsExtreme(p, q) == p <= q      \* mutant: equal counts as more extreme
MoreExtreme(p, q) == p < q

-----------------------------------------------------------------------------

\* First layer: trace_quote_notify_if_more_extreme compares and writes in one
\* atomic step, and restarts the window with every write.
Evaluate(t, p) ==
    LET i == InstanceOf[t] IN
    /\ pc[t] = "idle"
    /\ MemoryLive(i) => MoreExtreme(p, memPrice[i])
    /\ memPrice' = [memPrice EXCEPT ![i] = p]
    /\ memUntil' = [memUntil EXCEPT ![i] = now + Window]
    /\ pc' = [pc EXCEPT ![t] = "asking"]
    /\ price' = [price EXCEPT ![t] = p]
    /\ UNCHANGED <<now, redis, history>>

Finish(t) ==
    /\ pc' = [pc EXCEPT ![t] = "idle"]
    /\ price' = [price EXCEPT ![t] = Unpriced]

\* The script's SET key value EX window.
WriteRedis(t) ==
    /\ redisPrice' = price[t]
    /\ redisUntil' = now + Window

\* Second layer: the script reads, compares and writes atomically in Redis,
\* while its caller awaits the reply.
RedisGrants(t) ==
    /\ pc[t] = "asking"
    /\ RedisLive => MoreExtreme(price[t], redisPrice)
    /\ WriteRedis(t)
    /\ pc' = [pc EXCEPT ![t] = "granted"]
    /\ granted' = Append(granted, [price |-> price[t], at |-> now])
    /\ alertedAt' = [alertedAt EXCEPT ![price[t]] = now]
    /\ UNCHANGED <<now, memory, price>>

RedisRefuses(t) ==
    /\ pc[t] = "asking"
    /\ RedisLive /\ ~MoreExtreme(price[t], redisPrice)
    /\ pc' = [pc EXCEPT ![t] = "refused"]
    /\ UNCHANGED <<now, memory, redis, price, history>>

\* The reply: alert, or not.
ReplyArrives(t) ==
    /\ \/ pc[t] = "granted" /\ pc' = [pc EXCEPT ![t] = "sending"] /\ UNCHANGED price
       \/ pc[t] = "refused" /\ Finish(t)
    /\ UNCHANGED <<now, memory, redis, history>>

\* mutant: a failed Redis call suppresses the alert
SuppressOnRedisError(t) ==
    /\ pc[t] \in {"asking", "granted", "refused"}
    /\ Finish(t)
    /\ UNCHANGED <<now, memory, redis, history>>
\* The call failed, before or after the script ran: the memory layer alone
\* decides, and it has already said yes.
RedisFails(t) ==
    /\ pc[t] \in {"asking", "granted", "refused"}
    /\ pc' = [pc EXCEPT ![t] = "sending"]
    /\ alertedAt' = [alertedAt EXCEPT ![price[t]] = now]
    /\ UNCHANGED <<now, memory, redis, price, granted>>

\* format_alert_message and send_message, which swallows its errors: the
\* evaluation is over either way.
Send(t) ==
    /\ pc[t] = "sending"
    /\ Finish(t)
    /\ UNCHANGED <<now, memory, redis, history>>

\* The TTL cache holds 128 keys: an entry may be evicted before it expires.
Evict(i) ==
    /\ MemoryLive(i)
    /\ memPrice' = [memPrice EXCEPT ![i] = Unpriced]
    /\ memUntil' = [memUntil EXCEPT ![i] = 0]
    /\ UNCHANGED <<now, redis, tasks, history>>

\* The process dies and starts again: its memory and its tasks are gone, and
\* with them an alert that Redis granted and that was not sent; Redis stays.
Restart(i) ==
    /\ memPrice' = [memPrice EXCEPT ![i] = Unpriced]
    /\ memUntil' = [memUntil EXCEPT ![i] = 0]
    /\ pc' = [t \in Tasks |-> IF InstanceOf[t] = i THEN "idle" ELSE pc[t]]
    /\ price' = [t \in Tasks |-> IF InstanceOf[t] = i THEN Unpriced ELSE price[t]]
    /\ UNCHANGED <<now, redis, history>>

\* Time passes; a window without a grant closes the series of grants.
Tick ==
    /\ now < MaxTime
    /\ now' = now + 1
    /\ granted' = IF granted # <<>> /\ now + 1 >= granted[Len(granted)].at + Window
                  THEN <<>> ELSE granted
    /\ UNCHANGED <<memory, redis, tasks, alertedAt>>

ADNext ==
    \/ \E t \in Tasks : \/ \E p \in AlertPrices : Evaluate(t, p)
                        \/ RedisGrants(t) \/ RedisRefuses(t)
                        \/ ReplyArrives(t) \/ RedisFails(t)
                        \/ Send(t)
    \/ \E i \in Instances : Evict(i) \/ Restart(i)
    \/ Tick

ADSpec == ADInit /\ [][ADNext]_adVars

-----------------------------------------------------------------------------
(* Properties.                                                             *)

\* Every variable has its type, and a task has a price exactly while it works.
ADTypeOK ==
    /\ now \in Nat
    /\ memPrice \in [Instances -> AlertPrices \cup {Unpriced}]
    /\ memUntil \in [Instances -> Nat]
    /\ redisPrice \in AlertPrices \cup {Unpriced}
    /\ redisUntil \in Nat
    /\ pc \in [Tasks -> {"idle", "asking", "granted", "refused", "sending"}]
    /\ price \in [Tasks -> AlertPrices \cup {Unpriced}]
    /\ granted \in Seq([price : AlertPrices, at : Nat])
    /\ alertedAt \in [AlertPrices -> Int]
    /\ \A t \in Tasks : pc[t] = "idle" <=> price[t] = Unpriced

\* In a series of granted alerts, each within a window of the one before it, every
\* alert is for a strictly more extreme price than all the earlier ones, whatever
\* restarts, evictions, instances, lost replies or concurrent evaluations there
\* were (the rule documented at stock_price.rs 352-358).
AlertsEscalate ==
    \A i, j \in 1..Len(granted) :
        i < j => granted[j].price < granted[i].price

\* Some evaluation on i is still on its way to Redis with a price as extreme.
Asking(i) ==
    \E t \in Tasks : /\ InstanceOf[t] = i /\ pc[t] = "asking"
                     /\ price[t] <= memPrice[i]

\* An alert for a price at least as extreme was decided within the last d ticks.
AlertedWithin(i, d) ==
    \E p \in AlertPrices : now < alertedAt[p] + d /\ p <= memPrice[i]

\* The memory layer never silences a price for which no alert was decided: an
\* entry that suppresses evaluations is backed by the decision to alert at least
\* that extremity in the last two windows, or by an evaluation still under way.
SuppressionIsBacked ==
    \A i \in Instances : MemoryLive(i) => Asking(i) \/ AlertedWithin(i, 2 * Window)
=============================================================================
