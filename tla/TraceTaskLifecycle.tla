------------------------- MODULE TraceTaskLifecycle -------------------------
(***************************************************************************)
(* The resident tasks of a trading session: the driver starts them when    *)
(* the market opens and stops them when it has closed; the closing event   *)
(* and the shutdown of the process stop them too, at their own time.       *)
(*                                                                         *)
(* Source: app/event/trace/price_tasks.rs, execute in                      *)
(* app/event/trace/stock_price.rs, infra/crawler/price_tasks.rs,           *)
(* infra/crawler/{histock/price,yahoo/price/cache}.rs.                     *)
(*                                                                         *)
(* Every kind of task has a flag that keeps its loop going.  Tickers and   *)
(* the backup task count themselves, and sleep until their interval ends   *)
(* or TRACE_TASK_STOP_NOTIFY wakes them; crawlers are joined by handle.    *)
(* The event consumer, which is told to end by its channel, is the         *)
(* business of TracePriceEvents.                                           *)
(***************************************************************************)
EXTENDS Integers, Sequences

CONSTANTS Tickers,      \* which of refresh, reconcile and diagnostics there are
          Stoppers,     \* who calls stop_price_tasks: driver, closing, main
          MaxSessions   \* bound on the trading days

ASSUME TickersAssumption == Tickers \subseteq {"refresh", "reconcile", "diagnostics"}
ASSUME StoppersAssumption ==
    "driver" \in Stoppers /\ Stoppers \subseteq {"driver", "closing", "main"}
ASSUME MaxSessionsAssumption == MaxSessions \in Nat

Crawlers == {"histock", "yahoo"}
Loops == Tickers \cup {"backup"}      \* counted and woken, not joined
Kinds == Loops \cup Crawlers

\* The order in which start_price_tasks starts them.
StartOrder == <<"refresh", "reconcile", "diagnostics", "histock", "yahoo", "backup">>
Before(j, k) == \E m, n \in DOMAIN StartOrder : StartOrder[m] = j /\ StartOrder[n] = k /\ m < n

VARIABLES open,       \* TWSE.is_open()
          sessions,   \* trading days so far
          driver,     \* the task of execute; IS_RUNNING is driver # "idle"
          started,    \* kinds that start_price_tasks has dealt with
          flag,       \* kind -> IS_...
          task,       \* kind -> the progress of its task
          active,     \* loop -> ..._ACTIVE_TASKS
          handle,     \* crawler -> CACHING_TASK holds a handle
          phase,      \* stopper -> where it is in stop_price_tasks
          at,         \* stopper -> the crawler it stops
          holds,      \* stopper -> it has taken that crawler's handle
          forced      \* a stop has given up waiting

market == <<open, sessions>>
session == <<driver, started>>
tasks == <<flag, task, active, handle>>
stops == <<phase, at, holds, forced>>
vars == <<market, session, tasks, stops>>

Init ==
    /\ open = FALSE /\ sessions = 0
    /\ driver = "idle" /\ started = {}
    /\ flag = [k \in Kinds |-> FALSE]
    /\ task = [k \in Kinds |-> "none"]
    /\ active = [k \in Loops |-> 0]
    /\ handle = [c \in Crawlers |-> FALSE]
    /\ phase = [s \in Stoppers |-> "idle"]
    /\ at = [s \in Stoppers |-> "histock"]
    /\ holds = [s \in Stoppers |-> FALSE]
    /\ forced = FALSE

\* The process ends when the stop of main has returned.
Exited == "main" \in Stoppers /\ phase["main"] = "done"
Alive(k) == task[k] # "none"

-----------------------------------------------------------------------------
(* The market, and the driver.                                             *)

\* The night is long enough for every task of the last session to end.
MarketOpens ==
    /\ ~open /\ sessions < MaxSessions
    /\ driver = "idle" /\ \A k \in Kinds : ~Alive(k)
    /\ \A s \in Stoppers : phase[s] = "idle"
    /\ open' = TRUE
    /\ sessions' = sessions + 1
    /\ UNCHANGED <<session, tasks, stops>>

MarketCloses ==
    /\ open
    /\ open' = FALSE
    /\ UNCHANGED <<sessions, session, tasks, stops>>

\* Triggered during opening hours, by cron or at boot; while IS_RUNNING is set
\* the trigger is ignored.
Execute ==
    /\ ~Exited /\ open
    /\ driver = "idle"
    /\ driver' = "loading"
    /\ UNCHANGED <<market, started, tasks, stops>>

\* The first load of the targets fails, and with it the session.
LoadFails ==
    /\ ~Exited /\ driver = "loading"
    /\ driver' = "idle"
    /\ UNCHANGED <<market, started, tasks, stops>>

LoadSucceeds ==
    /\ ~Exited /\ driver = "loading"
    /\ driver' = "starting" /\ started' = {}
    /\ UNCHANGED <<market, tasks, stops>>

\* compare_exchange, then spawn; nothing happens if the flag is set.
Start(k) ==
    /\ ~Exited /\ driver = "starting"
    /\ k \notin started
    /\ \A j \in Kinds \ started : ~Before(j, k)
    /\ IF flag[k] THEN UNCHANGED <<flag, task, handle>>
       ELSE /\ flag' = [flag EXCEPT ![k] = TRUE]
            /\ task' = [task EXCEPT ![k] = "spawned"]
            /\ handle' = [c \in Crawlers |-> c = k \/ handle[c]]
    /\ started' = started \cup {k}
    /\ driver' = IF started' = Kinds THEN "watching" ELSE "starting"
    /\ UNCHANGED <<market, active, stops>>

\* wait_for_price_cache_ready only delays; wait_until_market_close does not end
\* before the market closes.
SeeMarketClosed ==
    /\ ~Exited /\ driver = "watching"
    /\ ~open
    /\ driver' = "stopping"
    /\ phase' = [phase EXCEPT !["driver"] = "flags"]
    /\ UNCHANGED <<market, started, tasks, at, holds, forced>>

ReleaseRunning ==
    /\ ~Exited /\ driver = "stopping"
    /\ phase["driver"] = "done"
    /\ driver' = "idle"
    /\ phase' = [phase EXCEPT !["driver"] = "idle"]
    /\ UNCHANGED <<market, started, tasks, at, holds, forced>>

-----------------------------------------------------------------------------
(* The tasks.                                                              *)

Go(k, pc) == task' = [task EXCEPT ![k] = pc]
IfFlag(k, pc) == Go(k, IF flag[k] THEN pc ELSE "exit")

\* The first poll.
Enter(k) ==
    /\ ~Exited /\ task[k] = "spawned"
    /\ Go(k, "check")
    /\ active' = [l \in Loops |-> active[l] + IF l = k THEN 1 ELSE 0]
    /\ UNCHANGED <<market, session, flag, handle, stops>>

\* The loop's condition.  Tickers sleep before they work; the backup task asks
\* whether the market is open.
Check(k) ==
    /\ ~Exited /\ task[k] = "check"
    /\ IfFlag(k, CASE k \in Tickers -> "sleepy"
                   [] k = "backup"  -> IF open THEN "work" ELSE "exit"
                   [] OTHER         -> "work")
    /\ UNCHANGED <<market, session, flag, active, handle, stops>>

\* The future notified() is created, after the flag was read.
Sleep(k) ==
    /\ ~Exited /\ task[k] = "sleepy"
    /\ Go(k, "asleep")
    /\ UNCHANGED <<market, session, flag, active, handle, stops>>

\* mutant: intervals of days
WakeUpWhenNotified(k) ==
    /\ ~Exited /\ task[k] = "woken"
    /\ IF k \in Tickers
       THEN IfFlag(k, IF k = "reconcile" /\ ~open THEN "exit" ELSE "work")
       ELSE Go(k, "check")
    /\ UNCHANGED <<market, session, flag, active, handle, stops>>
\* The interval ends, or a notification came.
WakeUp(k) ==
    /\ ~Exited /\ task[k] \in {"asleep", "woken"}
    /\ IF k \in Tickers
       THEN IfFlag(k, IF k = "reconcile" /\ ~open THEN "exit" ELSE "work")
       ELSE Go(k, "check")
    /\ UNCHANGED <<market, session, flag, active, handle, stops>>

\* A pass of a ticker.
Tick(k) ==
    /\ ~Exited /\ k \in Tickers /\ task[k] = "work"
    /\ Go(k, "check")
    /\ UNCHANGED <<market, session, flag, active, handle, stops>>

\* mutant: an error ends the loop
FetchedOrFailed(k) ==
    /\ ~Exited /\ k \notin Tickers /\ task[k] = "work"
    /\ IF k = "yahoo"
       THEN IfFlag(k, "write")
       ELSE Go(k, "written") \/ Go(k, "exit")
    /\ UNCHANGED <<market, session, flag, active, handle, stops>>
\* A fetch ends, with prices or without.  Yahoo asks its flag before it writes.
Fetched(k) ==
    /\ ~Exited /\ k \notin Tickers /\ task[k] = "work"
    /\ IF k = "yahoo"
       THEN IfFlag(k, "write")
       ELSE Go(k, "written")
    /\ UNCHANGED <<market, session, flag, active, handle, stops>>

Write(k) ==
    /\ ~Exited /\ task[k] = "write"
    /\ Go(k, "written")
    /\ UNCHANGED <<market, session, flag, active, handle, stops>>

\* After its work: crawlers sleep without listening to notifications.
Written(k) ==
    /\ ~Exited /\ task[k] = "written"
    /\ IfFlag(k, IF k \in Crawlers THEN "asleep" ELSE "sleepy")
    /\ UNCHANGED <<market, session, flag, active, handle, stops>>

\* The flag first ...
LowerFlag(k) ==
    /\ ~Exited /\ task[k] = "exit"
    /\ flag' = [flag EXCEPT ![k] = FALSE]
    /\ Go(k, "leave")
    /\ UNCHANGED <<market, session, active, handle, stops>>

\* ... then the counter, which saturates.
Leave(k) ==
    /\ ~Exited /\ task[k] = "leave"
    /\ Go(k, "none")
    /\ active' = [l \in Loops |-> IF l = k /\ active[l] > 0 THEN active[l] - 1 ELSE active[l]]
    /\ UNCHANGED <<market, session, flag, handle, stops>>

TaskStep(k) ==
    Enter(k) \/ Check(k) \/ Sleep(k) \/ WakeUp(k) \/ Tick(k) \/ Fetched(k)
    \/ Write(k) \/ Written(k) \/ LowerFlag(k) \/ Leave(k)

-----------------------------------------------------------------------------
(* stop_price_tasks.                                                       *)

\* The closing event, an hour and a half after the market closed; or the last
\* gate of the shutdown.
CallStop(s) ==
    /\ ~Exited /\ s \in {"closing", "main"}
    /\ s = "closing" => ~open /\ driver = "idle"
    /\ phase[s] = "idle"
    /\ phase' = [phase EXCEPT ![s] = "flags"]
    /\ UNCHANGED <<market, session, tasks, at, holds, forced>>

StopLoops(s) ==
    /\ ~Exited /\ phase[s] = "flags"
    /\ flag' = [k \in Kinds |-> k \in Crawlers /\ flag[k]]
    /\ phase' = [phase EXCEPT ![s] = "notify"]
    /\ UNCHANGED <<market, session, task, active, handle, at, holds, forced>>

\* notify_waiters wakes those that wait now, and nobody later.
NotifyWaiters(s) ==
    /\ ~Exited /\ phase[s] = "notify"
    /\ task' = [k \in Kinds |->
                  IF k \in Loops /\ task[k] = "asleep" THEN "woken" ELSE task[k]]
    /\ phase' = [phase EXCEPT ![s] = "stop"]
    /\ at' = [at EXCEPT ![s] = "histock"]
    /\ UNCHANGED <<market, session, flag, active, handle, holds, forced>>

StopCrawler(s) ==
    /\ ~Exited /\ phase[s] = "stop"
    /\ flag' = [flag EXCEPT ![at[s]] = FALSE]
    /\ holds' = [holds EXCEPT ![s] = handle[at[s]]]
    /\ handle' = [handle EXCEPT ![at[s]] = FALSE]
    /\ phase' = [phase EXCEPT ![s] = "join"]
    /\ UNCHANGED <<market, session, task, active, at, forced>>

\* mutant: the crawler is told to stop but not awaited
AbandonCrawler(s) ==
    /\ ~Exited /\ phase[s] = "join"
    /\ holds' = [holds EXCEPT ![s] = FALSE]
    /\ at' = [at EXCEPT ![s] = "yahoo"]
    /\ phase' = [phase EXCEPT ![s] = IF at[s] = "yahoo" THEN "wait" ELSE "stop"]
    /\ UNCHANGED <<market, session, tasks, forced>>
\* Who has no handle has nothing to await; the cache is cleared either way (SnapshotCache).
JoinCrawler(s) ==
    /\ ~Exited /\ phase[s] = "join"
    /\ holds[s] => ~Alive(at[s])
    /\ holds' = [holds EXCEPT ![s] = FALSE]
    /\ at' = [at EXCEPT ![s] = "yahoo"]
    /\ phase' = [phase EXCEPT ![s] = IF at[s] = "yahoo" THEN "wait" ELSE "stop"]
    /\ UNCHANGED <<market, session, tasks, forced>>

AllLeft == \A l \in Loops : active[l] = 0

Return(s) == phase' = [phase EXCEPT ![s] = IF s = "closing" THEN "idle" ELSE "done"]

WaitForTasks(s) ==
    /\ ~Exited /\ phase[s] = "wait"
    /\ AllLeft
    /\ Return(s)
    /\ UNCHANGED <<market, session, tasks, at, holds, forced>>

\* After 30 seconds.
GiveUp(s) ==
    /\ ~Exited /\ phase[s] = "wait"
    /\ ~AllLeft
    /\ Return(s)
    /\ forced' = TRUE
    /\ UNCHANGED <<market, session, tasks, at, holds>>

StopStep(s) ==
    StopLoops(s) \/ NotifyWaiters(s) \/ StopCrawler(s) \/ JoinCrawler(s)
    \/ WaitForTasks(s)

DriverStep ==
    LoadFails \/ LoadSucceeds \/ (\E k \in Kinds : Start(k))
    \/ SeeMarketClosed \/ ReleaseRunning

Next ==
    \/ MarketOpens \/ MarketCloses \/ Execute
    \/ DriverStep
    \/ \E k \in Kinds : TaskStep(k)
    \/ \E s \in Stoppers : CallStop(s) \/ StopStep(s) \/ GiveUp(s)

Spec == Init /\ [][Next]_vars

\* The runtime polls what is ready, every fetch and interval ends, and so does
\* the day; nobody has to call a stop, and none has to give up.
FairSpec ==
    /\ Spec
    /\ WF_vars(MarketCloses)
    /\ WF_vars(DriverStep)
    /\ \A k \in Kinds : WF_vars(TaskStep(k))
    /\ \A s \in Stoppers : WF_vars(StopStep(s))

-----------------------------------------------------------------------------
(* Properties.                                                             *)

TaskPcs == {"none", "spawned", "check", "sleepy", "asleep", "woken", "work",
            "write", "written", "exit", "leave"}

\* Every variable has its type.
TypeOK ==
    /\ open \in BOOLEAN /\ sessions \in 0..MaxSessions
    /\ driver \in {"idle", "loading", "starting", "watching", "stopping"}
    /\ started \subseteq Kinds
    /\ flag \in [Kinds -> BOOLEAN]
    /\ task \in [Kinds -> TaskPcs]
    /\ active \in [Loops -> 0..1]
    /\ handle \in [Crawlers -> BOOLEAN]
    /\ phase \in [Stoppers -> {"idle", "flags", "notify", "stop", "join", "wait", "done"}]
    /\ at \in [Stoppers -> Crawlers]
    /\ holds \in [Stoppers -> BOOLEAN]
    /\ forced \in BOOLEAN

MainStops == "main" \in Stoppers /\ phase["main"] # "idle"

\* From the end of the start to the close of the market every task of the
\* session is there and goes on, in later sessions as in the first one: no flag
\* left over from an earlier task makes a start a no-op.
SessionHasTasks ==
    driver = "watching" /\ open /\ ~MainStops =>
        \A k \in Kinds : flag[k] /\ task[k] \notin {"none", "exit", "leave"}

\* The tasks of a session fetch and write no more when its driver has released
\* IS_RUNNING, unless a stop gave up or was not the only one.
QuietAfterStop ==
    driver = "idle" /\ ~forced /\ ~MainStops =>
        \A k \in Kinds : task[k] \notin {"work", "write"}

\* The counters that a stop waits on are 1 for a task that was polled and has
\* not left, whichever way its loop ended.
CountersAreExact ==
    \A l \in Loops : active[l] = IF task[l] \in {"none", "spawned"} THEN 0 ELSE 1

\* A driver that stops its session comes to an end without having to give up, and
\* so the next session can be started, even when a notification was missed.
StopEnds == driver = "stopping" ~> driver = "idle" \/ Exited

=============================================================================
