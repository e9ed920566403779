# Verification of stock_crawler

stock_crawler is a Rust/Tokio service that crawls Taiwanese stock market data into
PostgreSQL, watches prices while the market is open, sends Telegram alerts, and serves
gRPC and HTTP. This directory holds TLA+ modules of its concurrent core and of the
flows that write its tables, the TLC configurations that check them on small instances,
and proofs that TLAPS checks for every value of the constants.

Contents: 1 inventory, 2 plan, 3 the modules and the code, 4 what the runs show,
5 bounds, 6 fairness, 7 proofs, 8 findings, 9 what is not modelled, 10 how to run.
Paths of Rust files are below `src/src/`.

## 1. Inventory

### Components with shared state

| Component | State | Operations | Interacts with | What makes it hard | What makes it correct |
|---|---|---|---|---|---|
| Trace price pipeline (`app/event/trace/price_tasks.rs`, `stock_price.rs`) | event channel, pending marks, target cache, reconciliation flag | publish, consume, reconcile, refresh, open and close a session | snapshot cache, crawlers, alert dedup | cloned senders outlive a session; marks, channel and cache are three locks; bounded channel | no mark without an event; no event without a consumer; a settled price is evaluated |
| Alert dedup (`stock_price.rs`, `infra/cache/ttl.rs`, `infra/nosql/redis.rs`) | one TTL entry per key in memory and one in Redis | evaluate, run the script, send | Telegram | two layers with different clocks, evictions, lost replies, restarts | a series of alerts escalates; nothing is silenced without an alert |
| Session tasks (`stock_price.rs`, `price_tasks.rs`, `infra/crawler/histock/price.rs`, `infra/crawler/yahoo/price/cache.rs`) | flags, counters and handles per task, `IS_RUNNING` | start, loop, stop by driver, closing event and main | price pipeline | stops that overlap, `notify_waiters`, tasks that end by themselves | a session has its tasks; it ends quietly; a stop ends |
| Backfill jobs (`interfaces/web/backfill_admin`) | job table, four permits | register, run, record, prune | background tracker | duplicates, panics, pruning | exclusion; no permit leaks; unfinished jobs are listed |
| Shutdown (`core/shutdown.rs`, `main.rs`, `app/scheduler.rs`) | counter of background operations, `Notify` | begin, end, wait; the gates of main | everything | operations that begin while main counts them; timeouts | an unforced exit cuts nothing off; the exit comes |
| Event dispatch (`app/event/handlers.rs`) and debouncer (`app/event/handlers/debounce.rs`) | bounded channel, buffer, epoch | dispatch, handle, push, flush | repositories, Telegram | slow sends hold the buffer's lock; timers overtake each other | messages once, in order, none left |
| Site pool (`infra/crawler/site_pool.rs`) | one rotation index for all calls | next site, retry on the next | crawlers, backup task | concurrent calls share the index | a call alone tries every site once before it fails; concurrent calls do not, but the calls of a round that fails as a whole have tried every site together |
| Closing pipeline (`app/event/taiwan_stock/closing.rs`, `app/backfill/quote.rs`, `app/calculation/*`, `infra/database/repository/{quote,money_flow,yield_rank}.rs`) | quotes, last quotes, records, estimates, market values, last closing day | aggregate, replace quotes, fill gaps of a day or of the history, rebuild | caches, dispatcher, jobs | steps commit one by one; reruns of old days; a cron and a manual closing at once | derived tables belong to the quotes; dates never go back |
| CAGR (`app/calculation/cagr.rs`, `domain/performance/simulator.rs`, `infra/database/repository/performance.rs`) | table of results | calculate, backfill a period, serve a ranking page by page | quotes, dividends, data API | chunks commit separately; resumption looks for missing dates; a page is three statements | a date is complete or found again; the three measures agree without dividends; the pages of a list make one ranking |
| Financial statements (`app/event/taiwan_stock/{quarter_eps,annual_eps}.rs`, `app/backfill/financial_statement/*`, `infra/database/table/financial/financial_statement.rs`) | rows per stock, year and quarter; Redis flags | EPS of a quarter from cumulative figures, ratios from Yahoo, EPS and statement of a year | exchange, Yahoo, Wespai, NStock | four jobs write whole rows or single columns of the same rows from lists read before; late and unreadable reports | a wrong EPS has a failure behind it; a poor row never replaces a rich one |
| HTTP client and alerts (`core/util/http/mod.rs`, `core/alert.rs`, `interfaces/bot/telegram.rs`) | five permits | send with two kinds of retries, alert a refusal, send to all recipients | every crawler, Telegram | answers that get lost after the request arrived; alerts take the same way as the requests they report | one alert per refusal; who has confirmed an alert gets no other copy |
| Dividend records (`app/calculation/dividend_record.rs`, `infra/database/repository/portfolio.rs`) | records per holding and year, sums per holding | recalculate, delete | jobs, daily backfill | sums read after a save, without a lock | the sums of a holding are those of its records |
| Dividend table (`app/backfill/dividend/*`, `infra/crawler/yahoo/dividend.rs`, `infra/database/repository/dividend.rs`) | rows of a stock (quarters and annual totals), one Redis flag per stock | scan for missing dividends, search for dates, historical backfill, payout ratios | Yahoo, jobs, dividend records | four flows write the same rows; dividends are stored before their dates are known; New Year | an annual row is the sum of its quarters; dates reach the dividend they were published for |
| Stock registry and weights (`app/backfill/{isin,etf,delisted_company,stock_weight,qualified_foreign_institutional_investor,net_asset_value_per_share}`, `infra/database/repository/stock.rs`) | stocks table, cached stocks | save a whole row, then the cache; delist; refresh weights | caches, dispatcher | every job writes all columns of a copy it read earlier | cache follows table; only stocks that left are delisted, and stay so |
| Snapshot cache (`infra/cache/snapshot.rs`) | latest price per symbol | replace all, set one, clear | crawlers, price pipeline, data API | a batch replaces the map while others write single entries | an implausible price never replaces a plausible one |
| Ex-dividend reminder (`app/event/taiwan_stock/ex_dividend.rs`, `app/event/handlers/ex_dividend.rs`) | the holidays it has loaded | load holidays, find the next trading day, tell today's and the next day's dividends | exchange, dispatcher, dividend table | weekends, holidays and New Year in a row; failed requests count as no holidays | a dividend is told on its day and foretold on the trading day before |
| Public offerings (`app/event/taiwan_stock/public.rs`) | one Redis flag per offering | collect the open ones, flag them, send one message | exchange, Redis, last quotes | flags are set before the message is sent; flags expire at the time of the next run | an open offering is told once, and once more on its last day |
| Last quote of a stock (`infra/database/repository/quote.rs`) | row of `last_daily_quotes`, entry in Redis | read through, rebuild | closing, gRPC, public offerings | the closing replaces one of the two; readers overtake each other | an answer lags by a day at most |
| Market index (`app/backfill/taiwan_stock_index.rs`, `infra/database/repository/market_index.rs`) | table, cache of 30 days | save and announce a month's days, backfill one date, load at start | exchange, dispatcher, jobs | save, announcement and cache are three steps; corrected figures; restarts | a day is announced once; the cache holds days of the table |
| Reference caches (`infra/cache/{share,loader,lookup,query}.rs`) | stocks, last quotes, records, revenues | load at start, replace | nearly everything | partial loads | mandatory data is there or the start fails |
| Logging (`core/logging`) | queue per level, active file | write, rotate, clean | all | bounded queue, rotation by size and day | lines are dropped only when counted as dropped |

### Components without state of their own

Scheduler table (`app/scheduler.rs`), the other daily notifications (`payable_date.rs`,
`handlers/money_flow.rs`), crawlers (`infra/crawler/*`), SQL tables and repositories
(`infra/database`), the data API but for its rankings (`interfaces/web/data_api`), gRPC
services (`interfaces/rpc`), domain entities (`domain`), configuration and text utilities
(`core`), statistics. They fetch, convert, query or format; see section 9.

### How the components interact

The scheduler starts the driver of a session in the morning. The driver loads the
traced boundaries, opens the event channel with its consumer, and starts the loops and
crawlers. A crawler writes prices into the snapshot cache and publishes the symbols that
changed; the consumer reads the cache again and evaluates the boundaries; an evaluation
that crosses one goes through the two layers of the alert dedup to Telegram. When the
market closes the driver stops everything; the closing event, at three o'clock, stops it
once more after it has aggregated the day, which ends by dispatching a domain event that
the dispatcher turns into a message. Jobs that a user starts over HTTP or gRPC run the
same backfills and calculations. At shutdown main stops the scheduler, drains both
servers, waits for all cron jobs and jobs in flight, stops the session and exits.

`PROJECT.json` lists the hazards of this code line by line with the properties that
cover them.

## 2. Plan

Done, in this order: the price pipeline with its abstract specification
(`TracePriceEvents` implements `PriceWatch`), the alert dedup, the job registry, the
shutdown, the dispatcher with the debouncer, the lifecycle of the session tasks, with
proofs; then the calculations on the database (`ClosingPipeline`, `DividendRecords`,
`CagrBackfill`, `CagrSimulator`, `DividendBackfill`, `FinancialStatements`) and the shared
infrastructure (`SitePool`, `SnapshotCache`, `StockRegistry`, `LogWriter`, `HttpClient`,
`CagrRanking`), the simulator, the dispatcher as a feed of messages, and the composed runs.

Then the composition in which the jobs of `BackfillJobs` are the operations that
`GracefulShutdown` counts (`JobsAtShutdown`), the notices (`ExDividendReminder`,
`PublicOfferings`, `LastQuoteCache`, `MarketIndex`), and proofs about `HttpClient` and
`TraceTaskLifecycle`. Then the proofs about the calculations (`DividendBackfill`,
`DividendRecords`, `FinancialStatements`, `ClosingPipeline`), the notices and the rest of
the infrastructure (`SnapshotCache`, `StockRegistry`, `SitePool`, `LogWriter`,
`CagrRanking`), the simulator, the dispatcher as a feed of messages, and the composed runs.

What is left, most important first:

1. A composition of `DividendBackfill` with `DividendRecords`, whose input is its table, and
   of `ClosingPipeline` with `LastQuoteCache`.
2. The sessions of `interfaces/rpc/manual_backfill_service.rs`, which call what the modules
   already contain, and the worker that forwards log lines to Seq.

Conventions: constants carry named assumptions in the module that declares them; one
action per lock acquisition, channel operation, commit or await; no `RECURSIVE` operator;
definitions keep the names of the code in the style of TLA+; a "mutant" definition is a
plausible mistake, used only to see that a property notices it.

## 3. The modules and the code

**`TracePriceEvents`** (`NoticesProofs`).
A crawler's write is `Fetch` (reads the old price and compares) and `WriteSnapshot`; its
publication is `InsertPending`, `CloneSender`, `TrySend` and `DropEvent`, one step per lock
or channel operation of `publish_price_update`. The consumer of a session is `Receive`,
`EvaluatePriceUpdate`, `ClearPending`, `ConsumerExit`; every opened channel has a
*generation* of its own, since senders cloned in one session are used in the next.
Reconciliation is `ReconcileTick` with one `ReconcileSymbol` per traced symbol. Opening
and closing a session are `StartLoadTargets`, `StartConsumer`, `StopTakeSender`,
`StopClearPending`, `StopClearCaches`. Prices are model values; `NoPrice` is an absent
entry. `seen` is auxiliary: the price of the last evaluation of a symbol.
**`PriceWatch`** is the abstract promise: evaluations use the price the cache holds, and
watched symbols are evaluated eventually.

**`TraceAlertDedup`** (`NoticesProofs`). One boundary of one stock. A price is its
extremity: 1 is the most extreme. `Evaluate` is the atomic check-and-set of the TTL cache;
`RedisGrants`/`RedisRefuses` are the Lua script, which runs whether or not its reply
arrives (`ReplyArrives`, `RedisFails`); `Send` is the message. `Evict` is the capacity of
the cache, `Restart` a crash of one of the processes that share Redis, `Tick` the clock.
`granted` (the current series of alerts granted by Redis) and `alertedAt` are auxiliary.

**`TraceTaskLifecycle`** (`TraceTaskLifecycleProofs`). The driver of `execute` (`IS_RUNNING`
is "driver not idle"), the flag, counter or handle of each task, and the steps of
`stop_price_tasks`: lower the flags, notify, join the crawlers one by one, clear the
snapshots, wait for the counters, or give up. Loops and crawlers pass the same stages (check
the flag, work, write, sleep, leave); what differs is who wakes and who awaits them. The
consumer is not repeated here.

**`BackfillJobs`** (`BackfillJobsProofs`). `Register` is the critical section of the start
of a job: duplicate, permit, prune, insert. The task is `Spawn`, `RunEnds` (success,
failure or timeout), `Record`, `ReleasePermit`, `EndOperation`, or `Panic`, which unwinds
past the record.

**`GracefulShutdown`** (`ProcessProofs`). `main` goes through its gates
(`scheduler`, `grpc`, `web`, the idle wait, the price tasks), each with its timeout
(`TimeOut` sets `forced`). A cron run is dispatched before it counts itself; a call is
handled by a server before it begins a job. Counting down and notifying are two steps.
`quiet` is the short pause after which main trusts a counter of zero. `AbortServer` is the
timeout of a server's gate and also a server whose task ended with an error or a panic: either
way main goes on while handlers may still run.

**`JobsAtShutdown`** (`ProcessProofs`). `GracefulShutdown` and an instance of `BackfillJobs` that take their
steps together: `StartJob` is `Register` while the handler of a call runs, `BeginJob` takes
the guard and spawns the task, `JobRuns` and `JobPanics` are the task's, `EndJob` drops the
guard. The counter of the registry's own module is the jobs' part of the tracker's.

**`EventDispatcher`** (`ProcessProofs`). A bounded channel, one consumer that
either handles an event or pushes a message and starts a timer with the next epoch, and
the timers, which look at the newest epoch, take the buffer and send under its lock.
**`MessageFeed`** is the abstract promise: events become messages in the order they were
dispatched, and what arrives is a growing beginning of them.

The other modules share no state, though some read what others write. Four modules put
them side by side: `MCProcess` (`JobsAtShutdown`, `EventDispatcher`), `MCNotices`
(`TracePriceEvents`, `TraceAlertDedup` and the four modules of notices), `MCCalculations`
(the next six) and `MCInfrastructure` (the six after these). There `part` names the
component that runs; the initial state chooses it, only its actions are taken, and the
others rest in one of their states. So a run has the sum of their states, not the product,
and a property of one component is trivially true while another one runs. In the three without
liveness a `VIEW` identifies a state by the variables of the running part: the resting ones
never change, and no property reads them.

**`ClosingPipeline`** (`ClosingPipelineProofs`). `Fetch` is the download of a day, `ReplaceQuotes` the transaction
that deletes and inserts its rows; then, one commit each, `CacheLastPrices`, `ReadDate` and
`SaveDate` (the last closing day, read and written in two statements), `MakeUpQuotes` (rows
for stocks without trades), `CalculateAverages`/`UpdateAverages`, `SaveRecords` (record by
record, so any of them may fail), `RebuildLastQuotes`, `RebuildTable` (estimates, yields, market values), `Announce`. A
backfill of the quote history is `BeginHistory` and one `InsertMissing` per stock, which
leaves existing rows as they are. `Fail` ends a run at any step that returns its error,
`LogFailure` is a failed update of the averages, which is only logged, `Restart` loses the
caches. A stock without a net asset value is unrated: only its first record is written. A
price is the day it is from, so a derived row tells which quote it was computed from; serial
numbers are kept, because "the last quote" is the one with the highest serial.

**`DividendRecords`** (`CalculationsProofs`). A recalculation reads the dividends of a year, then saves the
summary and its items in one transaction (`BeginSave`, `CommitSave`: the row locks are
held in between) or deletes the year (`BeginDelete`, `CommitDelete`), and at the end reads
the sums (`Accumulate`) and writes them to the holding (`UpdateHolding`). `Correct` is a
source that changes a dividend meanwhile.

**`CagrBackfill`** (`CalculationsProofs`). A calculation aligns its end to a trading day (`AlignEnd`), the start of
every period (`AlignBases`), builds the rows of a period and saves them in chunks
(`SaveChunk`, a commit each); a period backfill works through the dates that have no row
yet. `AddQuote` is a quote that arrives meanwhile. A day whose rows have no price, only made
up or suspended ones, is a trading day to align to, but no day to start from.

**`CagrSimulator`** (`CalculationsProofs`). `simulate` as one step per dividend, stock
dividend or split. Shares are counted in units small enough for all divisions to be exact,
so the reference definition is exact as well: `Grain[n]` is what every holding is a multiple
of after `n` changes, and `GrainAssumption` says that each rate of the input leaves no
remainder. For any finite input there are such units.

**`DividendBackfill`** (`CalculationsProofs`). All rows of one stock. The page at Yahoo gains dividends and dates
(`AnnounceDividend`), years pass (`NewYear`), the Redis flag expires (`FlagExpires`). The
scan, the historical backfill, the search for dates and the payout flow are four flows
with their own local copies; a flow's steps are its reads, its commits and its visits
of the page. A dividend's dates are abstracted to the year they put it in.

**`FinancialStatements`** (`CalculationsProofs`). One stock and one year, from its first day until the annual jobs
have run. A quarter earns 1 or loses 1; `Cumulative` is what the exchange publishes,
`SmallerQuarters` and `CumulativeEps` what the EPS job subtracts. The jobs are `eps`,
`yahoo`, `yearly` and `complete`, each with one step per query, visit, save or flag; the
calendar and the company are `NextPeriod` and `Report`. `lapse` is auxiliary: the first
quarter for which a fetch, a save or a report in time was missed.

**`SitePool`**. `TakeSite` is the atomic increment of the shared index, `Answer` the reply,
after which a call goes on to the next site or ends; whether a site answers is chosen for each
request. A round starts calls for all symbols. The other functions of the file that draw from
the index have no caller in the program, so the rounds are all there is.

**`SnapshotCache`** (`InfrastructureProofs`). `FetchBatch`/`StoreBatch` is HiStock's replacement of the whole map,
`ApplyCategory` the rows of a Yahoo category, `CompareBackup`/`StoreBackup` the backup
task's check and write, `ReloadClose` a new reference close. The filter of 10.5 per cent is
computed, not chosen.

**`StockRegistry`** (`InfrastructureProofs`). `Begin` is the copy a saver takes from the cache, with its change;
`WriteRow` the write of all columns; `WriteCache` the entry in the cache. `Move` is the
exchanges: a stock is newly listed, changes its market, leaves, or returns. Delisting by
difference is `FetchRoster`, `CompareRosters` and `MarkMissing`; the limit above which a
difference is not believed may be any up to `MaxDelist`. `DelistOfficially` follows the official
list, which keeps what was once delisted. `UpdateWeight` is the refresh, which writes the table
only.

**`LogWriter`**. `CountLine` and `SendLine` of a thread; `TakeLine`, `WaitsForMore`,
`Collect` and `FlushBatch` of the worker; a flush ensures today's file, removes expired
ones, renames a full one to the first free archive number. `FlushFails`, `RestartLog` are
the faults.

**`HttpClient`** (`InfrastructureProofs`). A request is ready, on the wire (with a permit), in
the pause before it is sent again, or ended; `SendFails` is a network error, before or after
the request arrived, `RateLimited` status 429, `Forbidden` status 403, which starts an
alert: one request per recipient, which take the same steps. `Joined` is the end of the
sends of one form, after which nobody's acceptance means a second round as plain text.
`copies`, `accepted` and `forbidden` are auxiliary.

**`CagrRanking`** (`InfrastructureProofs`). `CountMatching`, `SelectPage` and `FetchCoverage` are
the three statements of a page; `RankOf` and `PrecedesInPage` are the window function and the order of the query.
`SaveResults` is a chunk saved by a calculation at any moment. `FollowingPage` is the client,
which either names the day of its first page or leaves it out again. The coverage counts the
rows that are complete, of which some may have no value in the sorted column, so its number is
anything from the ranked rows to all. `settled` is auxiliary.

**`ExDividendReminder`** (`NoticesProofs`). One dividend through the days around a New Year. `LoadThisYear`,
`LoadNextYear`, `StayQuiet` and `Trigger` are the job; `TellToday`, `TellHoldings` and
`TellNext` the handler of its event; `QueryLapses` a failed query, and a failed request for
holidays is a step of `Load`. `SetDate` is the dividend table. Weekends and one more holiday
besides New Year's Day are chosen by the initial state.

**`PublicOfferings`** (`NoticesProofs`). `FetchOfferings`, then one `SkipOffering` or `Mention` per offering,
then `SendOfferings`; `Abort` is a failure at any point, also one after Redis has set a
flag. The exchange is asked for the year of five days from now and may have no answer, which
counts as an empty list; so `offered`, the list of a run, is any set of offerings. `EvictFlag` is
Redis; `forgotten` (offerings whose flag it dropped) is auxiliary. Time is the number of the run.

**`LastQuoteCache`** (`NoticesProofs`). `Hit`, or `Miss`, then `ReadRow` and `CacheSet` (or `CacheSetFails`), or `NoRow`
(there is none, or the query fails), per reader; `RebuildLastQuotes` is the closing; `EvictEntry` and `NextHour` are Redis. A quote is
the number of its closing.

**`MarketIndex`** (`NoticesProofs`). The closing event is `FetchMonth` and, per day, `SkipCached` or
`BeginIndex`, `SaveIndex`, `AnnounceIndex`, `CacheIndex`; the backfill is `FetchDate`,
`SaveDate`, `CacheDate`. `SavedIndex` is the statement with its conflict clause; a row may also
be written while its answer is lost (`SaveIndexFails`, and the same for `SaveDate`).
`RestartIndices` loads the cache from the table, or starts without it.

## 4. What the runs show

| Run | Shows |
|---|---|
| `trace_events_live` | Consumers of closed channels end, a settled price of a traced symbol is evaluated, and the pipeline implements `PriceWatch`. |
| `notices` | Trace events: a pending mark always has its event (else the symbol would be ignored for the rest of the session), and a symbol has at most two events under way. Alert dedup: granted alerts escalate strictly, and a suppressed price has an alert behind it. Ex-dividend days: a dividend is told on its day and foretold on the trading day before (`DividendsAreForetold`). Offerings: an open one on the list of a run is told unless a broken run had flagged it, and told again only on its last day unless Redis lost the flag (`OfferingsAreTold`). Last quotes: an answer is not older than a day (`QuotesLagADayAtMost`). Index: a day is announced once, save for starts without a cache, backfills that were faster and lost answers, and cache and table differ only in corrected figures (`IndexIsToldOnce`). |
| `backfill_jobs` | No backfill runs twice at once, permits add up, pruning takes the oldest finished job, and every job gives back what it took, panics included. |
| `backfill_panic` (violation) | A panic leaves a job listed as running for good. |
| `process` | An unforced exit is clean and leaves no job behind, neither a permit nor an entry (`CleanExit`, `JobsEndBeforeExit`); the exit comes; composed, registry and shutdown are each still what their own module says (`BothKeepTheirPromises`). Dispatcher and debouncer implement `MessageFeed` (`ImplementsFeed`), and all messages are sent although slow sends fill the channel. |
| `trace_tasks` | A session has all its tasks, ends quietly, and its stop ends. |
| `calculations` | Closing: the tables derived from an announced day agree with each other, no day loses its quotes, and the closing day retreats only when two runs overlap (`ClosingsAreSound`, which is `AnnouncedDayIsConsistent` and `ClosingsLoseNothing`). Received dividends: an item belongs to one summary, and a year recalculated after the last correction is exact (`RecordsAreExact`). CAGR: a backfill leaves no date out, and a row is built from quotes that were there (`BackfillIsComplete`). Simulator: the total return is what a holder gets, and the three measures compare as they must (`SimulationIsExact`). Dividend table: an annual row is the sum of its quarters unless a refresh is due, and dates go to the dividend they were published for (`DividendRowsAgree`). Financial statements: an EPS that is not the quarter's own has a lapse behind it (`EpsErrorsFollowLapses`), and details once stored stay (`StatementsKeepDetail`). |
| `infrastructure` | Site pool: a call alone tries every site before it fails, and a round that fails has tried every site (`EverySiteIsTried`). Snapshots: a cached price was supplied by a source and passed the filter, and entries leave only with a batch that does not list them (`SnapshotsAreKept`). Registry: when all savers are idle cache and table agree and each change was announced; only stocks that left a market are delisted, and they stay so unless an outdated copy is saved over the mark (`DelistedStayGone`). Log: every line is in a file, on its way or counted as dropped or failed, and files respect their size (`LinesAreAccounted`). HTTP: permits suffice, a refusal is alerted once, an alert reaches someone or failed in both forms, and nobody who confirmed it gets it again (`OneAlertPerRefusal`). Ranking: each page comes from one moment, and the pages of an undisturbed day list everything asked for once, by its place in the market (`PagesMakeOneRanking`). |
| `stale_weights`, `paid_year`, `new_year`, `stale_quote` (violations) | See section 8. |

Every property of a passing run has a mutant of the code that it catches; they are in
`PROJECT.json`.

## 5. Bounds

| Constant | Value | Why it is enough |
|---|---|---|
| `Crawlers`, `MaxStarts`, `Capacity` of `TracePriceEvents` | 2, 2, 1 | two publishers race for a mark and for the last slot; a second session overlaps the consumer and the senders of the first. Symbols do not interact but through the channel's capacity, which one symbol with two events already exhausts. |
| `Prices` there | 1 for safety, 2 for liveness | control depends on whether a price changed (also from absent), values matter for what was evaluated last. |
| `Prices`, `Window`, `MaxTime` of `TraceAlertDedup` | {1, 2}, 2, 5 | an escalation and a repetition; two windows and a tick. |
| `Requests`, `MaxJobs`, `MaxConcurrent`, `MaxRetained` | 2, 4, 2, 1 | the third job finds no permit, the fourth prunes; duplicates occur. |
| `CronRuns`, `Calls`, and the limits of the registry in `JobsAtShutdown` | 1, 2, and 2 permits, 2 jobs, 1 retained | one operation ends while another begins, on either server; the calls ask for the same backfill or for different ones; the limits of the registry are reached in `backfill_jobs`. 312k states with the dispatcher. |
| `Capacity`, `MaxEvents` of `EventDispatcher` | 2, 5 | the channel is full while one event is handled and one is about to be dispatched; three timers overlap. |
| `Tickers`, `MaxSessions` | {"reconcile"}, 2 | the tickers differ in their name only; the second session meets what the first left behind. |
| `Stocks`, `LastDay`, `Closers`, `MaxRuns` of `ClosingPipeline` | 2, 2, 2, 2 | two runs overlap, of the same day or of an older one; one stock trades, the other is made up; a history backfill meets a closing. 223k states. |
| `Years`, `Dividends`, `Recalcs`, `MaxPay`, `MaxCorrections` | 2, 2, 2, 1, 1 | a dividend moves from one year to the other between two recalculations. 260k states. |
| `Symbols`, `LastTradeDay`, `Periods`, `Grace`, `Tasks`, `MaxCalculations`, `MaxQuotes` | 2, 3, {1, 2}, 2, 2, 2, 1 | a day without quotes, or with rows that have no price, lies inside a period; a chunk is saved by one task while another has failed; a quote arrives late. |
| `Horizon`, `Base`, `End`, `BaseShares`, `Par`, `MaxEvents`, `Prices`, `Grain` of `CagrSimulator` | 4, 1, 3, 64, 10, 3, 0..2, 64 halved n times | events before, on and after both ends, of every kind, three in one period in every order; a missing price. 113k states. |
| `Quarters`, `LastYear`, `MaxNews`, `MaxFlows` of `DividendBackfill` | 2, 2, 1, 2 | each pair of the four flows, with one dividend published between any two steps and a New Year; the initial table may hold a stored dividend. |
| `LastQuarter`, `MaxNights` of `FinancialStatements` | 2, 2 | the second quarter subtracts the first; any two of the four jobs overlap, or one runs twice; the year begins empty, in the middle, or before the annual jobs. |
| `Callers`, `NSites`, `MaxRounds` of `SitePool` | 2, 3, 3 | two calls share the index at every offset. |
| prices of `SnapshotCache` | 180, 222, 223 around closes of 200 and 210 | on and beyond the limit of 10.5 per cent, for either close; 0 is an absent price. 127k states. |
| `Securities`, `Markets`, `MaxDelist`, `MaxMoves`, `MaxSaves`, `MaxRefreshes` | 1, {1, 2}, 1, 2, 2, 1 | a stock is listed, leaves, returns or changes market between the read and the write of two savers; stocks do not share rows; a limit of 0 makes one missing stock too many, one of 1 does not. 293k states. |
| `Threads`, `Capacity`, `BatchSize`, `MaxSize`, `MaxAge`, `DayLength`, `MaxLines`, `MaxTime`, `MaxFaults` | 2, 2, 2, 2, 2, 2, 5, 3, 1 | a full channel, a batch that crosses the size limit, two rotations in a day, an expired file. 126k states. |
| `Crawlers`, `Recipients`, `Permits`, `MaxNetworkRetries`, `MaxRateLimitRetries` of `HttpClient` | 1, 2, 1, 3, 1 | two recipients with different fates in both forms compete for one permit; the limit of network errors is the program's own, the one for status 429 is smaller and counts in the same way. 42k states. |
| `Ranked`, `RankDates`, `Returns`, `Filters`, `Limits`, `MaxRankingSaves` of `CagrRanking` | 3, 2, 0..2, {{1, 3}}, {1}, 1 | equal returns and missing ones, a stock outside of the filter that ranks between those inside, two pages with a save between any two statements. 118k states. |
| `LastDay`, `NewYear`, `Weekends`, `MaxLapses` of `ExDividendReminder` | 7, 4, {{2, 3}, {5, 6}}, 1 | New Year's Day after a weekend and before one, one more holiday on any day; one failure. |
| `Offerings`, `LastRun`, `MaxAborts` of `PublicOfferings` | 2, 4, 2 | every pair of periods within four days, one offering before or after the one that fails, each on the list of a run or not; two failures, and any flag lost. |
| `Readers`, `DayHours`, `LastHour`, `MaxReading` of `LastQuoteCache` | 2, 2, 5, 1 | two closings; a reader writes back, after a closing, what it read before it. |
| `IndexDays`, `MaxRevisions`, `MaxRestarts` of `MarketIndex` | {1, 2}, 1, 1 | the month grows while a run goes through it; a figure is corrected; a restart with or without the cache; answers are lost at any save. |

`MaxTime`, `MaxJobs`, `MaxStarts`, `MaxSessions`, `MaxRuns`, `MaxCorrections`,
`MaxCalculations`, `MaxQuotes`, `MaxNews`, `MaxFlows`, `MaxRounds`, `MaxMoves`, `MaxSaves`,
`MaxRefreshes`, `MaxReloads`, `MaxDelist`, `MaxLines`, `MaxFaults`, `MaxNights`,
`MaxRankingSaves`, `MaxLapses`, `MaxAborts`, `LastRun`, `LastHour`, `MaxReading`,
`MaxRevisions`, `MaxRestarts` and both `MaxEvents` bound the runs only; the
code has no such limits, and where a bound ends the behaviours a run says
`CHECK_DEADLOCK FALSE`. Symmetry is used for the safety runs only.

## 6. Fairness

Weak fairness throughout. A spawned task, a started publication and a granted lock are
polled by Tokio until they finish, and every request they await has a timeout; Tokio's
mutexes, `RwLock` and channels are first come, first served. The market closes and
intervals end (`MarketCloses`, `TaskStep`). Not assumed: that a crawler ever fetches, that
anyone calls a stop or sends the signal, that a stop gives up or a gate times out, that
Redis answers. So `StopEnds` and `ShutdownEnds` do not rest on the timeouts.

In `JobsAtShutdown` it is even less: `JSFairness` asks that some operation goes on while one
can, which is that the runtime works at all, and that main and the servers are polled; each
operation takes finitely many steps. `EDFairness` is the same for the dispatcher.

The runs `notices`, `calculations` and `infrastructure` check safety only and state no
fairness: nothing in these flows waits for another one but for row locks, and a flow that
stops has failed, which is modelled.

## 7. Proofs

| Module proved about | Theorem | Inductive invariant and why it is needed |
|---|---|---|
| in `NoticesProofs`: | | |
| `TracePriceEvents` | `TypeCorrect` | `TypeInv`: `TypeOK` and that whoever carries an event carries a symbol (otherwise `pending` could leave its type). |
| | `SendersHaveConsumers` | `ChannelServed`: generations above the last one are unused, and the open channel's consumer has not left; then a consumer can leave only when no sender is left. |
| | `PendingMarksHaveEvents` | `MarksCarried`: the same claim by case of the carrier, with the types; a step moves an event from carrier to carrier. |
| | `EventsAreFew` | `FewEvents`: nothing of a session is there before it starts; before the first start who publishes holds the mark, and from then on there is one carrier of a symbol more than the mark allows, and once the sender is gone nobody joins. Counting the events alone says nothing of the publishers that still may send. |
| | `PipelineImplementsWatch` | `OnlyOnReconciles`: reconciliation ends before the targets are cleared. Every action is then a step or a stutter of `PriceWatch`. |
| `TraceAlertDedup` | `AlertTypeCorrect`, `GrantsEscalate` | `Series`: the last grant of a series is what Redis holds, alive for a window; only a more extreme price is granted. |
| | `SuppressionStaysBacked` | `Backed`: bounds on the clocks, and that the entries of both layers end at most one, respectively two, windows after an alert. |
| `MarketIndex` | `IndexTypeCorrect`, `IndexToldOnce` | `IndexInvariant`: no figure is newer than the published one, the table has what the cache has, and between save, announcement and cache entry the day in hand has been told at most once per degraded start (`NewsFit`, which alone says nothing of the steps in between); a lost answer leaves a row that is not in the cache (`LostAnswerKeeps`). |
| `PublicOfferings` | `OfferingsTypeCorrect`, `OfferingsTold` | `OfferingsInvariant`: a flag expires on the last day or the day after; whatever has a flag, on a list or not, was told, is in the message, or was lost with it; what was told before is in a message only on its last day. |
| `LastQuoteCache` | `QuotesTypeCorrect`, `QuotesLag` | `QuotesInvariant`: since when each entry, and each quote in a reader's hand, may have been out of date: a day and a time of reading for an entry, counted back from its end. |
| `ExDividendReminder` | `ReminderTypeCorrect`, `DividendsForetold` | `ReminderInvariant`: what an unbroken run has loaded and may still forecast at each of its steps (`RunFits`), and that the dividend has been told once the runs of its eve and of its day are past that (`TodayFits`, `EveFits`). |
| in `BackfillJobsProofs`: | | |
| `BackfillJobs` | seven: types, exclusion, permits, guards (`GuardsCounted`), listing (`UnfinishedIsListed`), the bound on finished jobs (`FinishedIsBounded`), pruning | `JobsInv`: types with "ids above `nextId` are unused", listing (a job holds its place until it is recorded), permits, guards, and the bound on finished jobs. |
| in `ProcessProofs`: | | |
| `GracefulShutdown` | `ShutdownTypeCorrect`, `CounterStaysExact`, `ExitIsClean`, `WakeupsAreKept` | `ShutdownInv`: the counter is exact, and `Passed`: what main has behind it at each gate it passed unforced. |
| `JobsAtShutdown` | `PartsKeepTheirPromises`, `NoJobIsLeftBehind` | `JobsFit`: each job belongs to one call, whose place in the shutdown and in the registry agree, and the permits are those of the jobs in hand; with `ShutdownInv` an unforced exit then finds no job. Every step is a step or a stutter of each part. |
| `EventDispatcher` | `DispatcherTypeCorrect`, `MessagesHaveTimers`, `DispatcherImplementsFeed` | `FeedInvariant`: handled messages are those sent, then the batch being sent, the buffer, and the one in hand (`NothingLost`), with `Bookkeeping` of epochs and the lock; events are queued in the order they were dispatched, and messages are older than what is queued. Receiving an event is then `Announce`, sending a batch `Deliver`, and all else a stutter of `MessageFeed`. |
| `MCProcess` | `ProcessIsSound` | See below. |
| in `TraceTaskLifecycleProofs`: | | |
| `TraceTaskLifecycle` | `TasksTypeCorrect`, `CountersStayExact`, `SessionsKeepTheirTasks`, `StoppedSessionsAreQuiet` | `TasksInv`: a raised flag belongs to a task that has not left and does not leave; a session starts from nothing; who may stop in which phase; a crawler's handle is there until it is joined; a loop whose flag is down and that has been awaited does no work. |
| in `CalculationsProofs`: | | |
| `DividendBackfill` | `RowsFit`, `RowsAgree` | `RowsInvariant`: what each flow has in hand was on the page and still is, a row or a copy of one belongs to the dividend its key names (`RowFits`), a row in hand is never without a dividend again, and annual rows are the sums of their quarters except those a flow still has to refresh. Each of the four flows writes from reads of long ago, so the claim needs what those reads may still say. |
| `DividendRecords` | `RecordsExact` | `RecordsInvariant`: what each transaction has locked, and what a recalculation that is alone has achieved: the years it is done with are settled (`YearSettled`), up to items a deletion has missed. |
| `FinancialStatements` | `ErrorsFollowLapses`, `DetailsStay` | `StatementsInvariant`: quarters before the due one are in the table or lapsed; the EPS job works on at most two neighbouring quarters, whose cumulative figure and earlier sum in hand are right unless one has lapsed (`EpsFits`). |
| `CagrBackfill` | `BackfillsComplete` | `ReturnsInvariant`: what a calculation read was so when it read it, and quotes stay (`CalcFits`); what one has in hand that no quote and no other calculation has met is so now, and the dates its backfill has left behind need nothing more (`CleanCalcFits`). |
| `CagrSimulator` | `SimulationsAreExact` | `SimulationInvariant`: the actions done come before all others; what is held, times the divisors of the stock dividends and splits done, is the shares of the base day times their factors; the cash is the sum over the dividends paid so far; and holdings are multiples of the grain that is left, so no division has a remainder. The order by date and kind makes what was done before a dividend just what happened before its day. The comparison of the measures is invariant for the dividends done so far. |
| `MCCalculations` | `CalculationTypesCorrect`, `CalculationsRun`, `CalculationsAreSound` | See below. |
| in `ClosingPipelineProofs`: | | |
| `ClosingPipeline` | `ClosingsSound` | `ClosingsInvariant`: a closing that has met no failure and no other run is alone, and has achieved by each of its steps what the steps before were for (`Achieved`); the claim about its end says nothing of the way there. |
| in `InfrastructureProofs`: | | |
| `HttpClient` | `RefusalsAreAlertedOnce` | `HttpInv`: the types; `CrawlersFit`, the attempts of a request fit its stage; `AlertsFit`, within a form each failed send adds at most one copy, and who has confirmed stays confirmed; `PermitsFit`, with the finiteness of what is on the wire; and that the alerts are those of the refusals. |
| `SnapshotCache` | `SnapshotsKept` | `SnapshotsInvariant`: an entry has the price and the close of one source (`EntriesAreGenuine`), from which follows what a write may replace. |
| `StockRegistry` | `SavesReach`, `DelistedStayMarked` | `RegistryInvariant`: rosters, marks and moves of one comparison fit together (`DelistFits`), nothing is known or in hand of a stock that was never listed (`UnlistedFits`), and every difference of copies, table and cache comes from a save that is under way or was torn (`TornFits`). |
| `LogWriter` | `EveryLineIsAccounted` | `LogInvariant`: a line is in one place at a time (`OnePlace`); no file is empty or shares a line with another, a day has one base file, written on that day (`FilesFit`); the open file is that one and is no larger than the size in memory (`HandleFits`). An archive finds a free number since every file has a line of its own (`NumberIsFree`), and a base file of today is never old enough to be removed, since the retention is at least a day. |
| `SitePool` | `EverySiteGetsItsTurn` | `PoolInvariant`: the round has drawn an unbroken row of numbers, at least as many as any call has trials; every number's site is tried or waited for by some call, whether or not it answers; alone, a call has drawn the whole row and no site twice. As many numbers in a row as there are sites stand for each site once (`RowIsDistinct`, `RowIsComplete`), so a failed call leaves no site out. |
| `CagrRanking` | `PagesAreOneRanking` | `RankingInvariant`: with the rows of its day unchanged, the client's list is the places 0, 1, ... of the stocks asked for, up to the offset, and the page in hand the places from there to its end (`PageFits`). The order of a page is a strict order of all its stocks, so that every place has exactly one stock (`PlacesAreOnce`), and better ranks come first although the rank counts the stocks outside of the filter too (`RanksFollowOrder`). |

| `MCInfrastructure` | `InfrastructureTypesCorrect`, `ComponentsRun`, `InfrastructureIsSound` | See below. |

The proof modules of the runs that put components side by side extend the MC modules. There
the specification of the run implies that of each component (`NoticesRun`,
`CalculationsRun`, `ComponentsRun`): it starts in one of its initial states, and every step
is one of its steps or leaves it alone. So `NoticesAreSound`, `CalculationsAreSound` and
`InfrastructureIsSound` say of the run itself, for every value of the constants, all that
TLC checks of it on an instance, and `CalculationTypesCorrect` and
`InfrastructureTypesCorrect` that the components have their types; the type theorems of the
single components are in the same modules. In `MCProcess` a resting dispatcher is as after
its last event, which is not an initial state of it; `ProcessIsSound` therefore maps the
steps of the run to the feed directly.

`SumLemmas` holds what these proofs need of the community modules' folds, sums, products,
`Max` and `Min`. A fold over a finite set does not depend on the order in which members are
taken out, agrees for functions that agree and for the restriction to its set
(`FoldTakesOut`, `FoldsAgree`, `FoldsRestrict`); a sum and a product are the fold with their
operation, a product of positive numbers is positive, and a sum is bounded by the bound of
its summands; finite sets of numbers have a highest and a lowest member. The library's
induction over finite sets takes an operator as a parameter, which these provers cannot
instantiate; the lemmas go by the smallest subset for which a claim fails instead
(`SmallestSubset`), which exists because cardinalities are natural numbers. In the same way
the simulator, whose reference definition is a product over sets of events, is proved by the
steps of the program, each of which takes one event out of a product.

The proofs use the named assumptions of each module and no others. The sets of the
constants are arbitrary, finite where the code has finitely many (dividends, years, markets,
securities, days with an index), the bounds arbitrary numbers, the lists of days and closings
of any length. `SnapshotAssumption` asks that a price names its source, and that a row or a
reference without a close has 0, as the code's default of `Decimal` has. `GrainAssumption`
asks that the unit of shares is small enough, which is a choice of the unit and excludes no
input; the code computes with `Decimal` and rounds at its 28th digit, which is not modelled.
`BackfillAssumption` has finitely many quarters, as the table has (four, and two halves).

A proof attempt corrected a claim about the simulator: that reinvesting above the end price
is never better was stated for periods with one *day* of payment. Two dividends that go ex
on one day are paid one after the other, and the second one on shares bought with the first;
the run has no two events of cash alone on the same day, so TLC had not seen it. The claim
is now about a single dividend.

What is proved is not listed in the runs a second time where the run would add nothing:
the type invariants of these modules, `SenderHasConsumer`, `GuardsCounted`,
`FinishedIsBounded`, `UnfinishedIsListed`, `CounterIsExact`, `CountersAreExact`,
`NoLostWakeup` and `BufferHasTimer` are theorems without a run.

Only model-checked:

- all liveness (`ConsumersEnd`, `PriceIsEvaluated`, `EveryJobEnds`, `ShutdownEnds`,
  `EverythingIsSent`, `StopEnds`, and the fairness part of `ImplementsPriceWatch`), which
  TLAPS cannot prove under fairness;
- the properties of the runs that expect a violation, which are false.

## 8. Findings

| Run | The code and what is said of it |
|---|---|
| `backfill_panic` | `Running` is documented as "the background task is executing". The outcome is recorded on the normal path only, so a job that panics stays `Running`, and the same request is refused as a duplicate until the restart. |
| `stale_weights` | A comment says that the weights are reset so that no old one remains. The refresh writes the table only; every later save of a stock writes all columns of its cached copy, the old weight with them. |
| `paid_year` | A comment says that the provisional paid year is updated once the dates are published. The search writes the dates and never the year, and the scan does not touch the row again. |
| `new_year` | The reminder is documented to forecast the next trading day. It asks for the holidays of the next year only if tomorrow is in that year, so on a last trading day such as Friday, 29 December, it forecasts New Year's Day, and the dividends of the real next trading day are not foretold. |
| `stale_quote` | The repository promises the latest price of a stock. The closing rebuilds the table and leaves the entries in Redis alone, so an entry from before answers for up to a day. `QuotesLagADayAtMost` is what does hold. |

Observations that the modules show as well and that have no run of their own:

- A reinvesting holder of the simulator is credited a stock dividend of a day on the shares
  bought with the cash of that day, against the comment at `simulator.rs:65`.
- `notify_waiters` reaches only tasks that sleep already; one between its flag check and
  its sleep sleeps its whole interval. Of two overlapping stops only the one that took a
  handle awaits it. The backup task may write a price after the snapshots were cleared.
- The memory layer of the dedup writes its entry before Redis is asked and keeps it when
  Redis refuses: after a restart a price is silenced for up to two windows.
- A call of the site pool may miss the one site that works when other calls draw indices
  in between.
- The last quote of a stock is the one with the highest serial: a rerun of an older day wins
  over a newer one until the next closing.
- The sums of a holding are read after the commit of a year, without a lock, and may lag
  behind its records when two recalculations overlap.
- A date that has some rows of a period counts as present for the period backfill and is
  never completed.
- The history backfill gives old days the newest serials, so they become the last quotes
  until the next closing; a made-up row keeps the genuine quote of its day out; the records of
  the highest price never see the history.
- The ranking without a date takes the newest day that has any row (`MAX(date)`), though
  `performance.rs` calls it the latest day whose calculation is complete: while the first
  chunks of a day are saved such a ranking is empty or partial, and the pages of one list
  may be of two days.
- The EPS of a quarter is the cumulative figure minus the *stored* earlier quarters. A
  quarter that was missed goes into the next one, a figure that cannot be parsed is stored
  as zero, and since a positive EPS counts as present neither is computed again. The flag
  of Yahoo's profile goes to the target quarter even when Yahoo showed another one, and its
  whole-row save sets columns Yahoo does not have to zero. The annual job at five o'clock
  stores rows that the one at five past five then skips, so their details stay empty; that
  job's flag is set even when its batch failed.
- The HTTP client says three network retries (`http/mod.rs:28`, backoff "3→8s" at 495) and
  makes three attempts, two retries; the pause of eight seconds never happens. An alert that
  reached one of several recipients counts as sent. A recipient whose confirmations are
  lost may get an alert up to six times.
- The reminder of public offerings flags each offering before the message is sent: when a
  later offering, a quote or Redis fails, the message is lost and the offerings are not told
  again, but on their last day.
- The backfill of an index date is said to make sure that the data reach the database
  (`taiwan_stock_index.rs:69`). Of a row that is there the conflict clause updates the time
  only, while the cache takes the new figures; so a corrected figure is shown until the next
  start and never stored.
- In the dividend backfill: a failed refresh of an annual total is never repeated; a
  dividend declared for a whole year and quarters with the same paid year overwrite each
  other's annual row, as do two dividends that share paid year and quarter; the payout flow
  writes back whole rows it read before and may revert dates; scan and search share one
  flag per stock, and so do all rows of a search, so that an annual total without dates can
  take the one visit every time; a search that runs over New Year may write its dates to a
  row that was replaced meanwhile.

## 9. What is not modelled, and why

- Parsing, formatting and SQL texts: stateless conversions, better served by the tests the
  repository has. Most of the data API, the gRPC services, the other notifications, the
  crawlers and most repositories consist of them.
- Of the log: the thousand archives of one second (`MAX_FILENAME_SEQ`), after which the last one is
  replaced; a write to an open file that fails part of the way; the end of the channel, which
  lives as long as the process.
- The conditions under which a property holds are themselves behaviour that nothing flags: a
  symbol queued twice in a later session, the early return of the second of two stops, a
  stop that gives up, dates that are never completed, rows of mixed prices, symbols of another
  source lost with a batch, marks undone by an outdated copy, pages torn by a save, and offerings
  whose message is lost. Section 8 lists most; the notes of the hazards in `PROJECT.json` say at
  each what the property leaves open.
- Decimal arithmetic: which boundary a price crosses and the plausibility filter are choices of
  the environment in the pipeline module.
- Loading of the caches, configuration and the schedule: done once at start.
- Annualised rates, averages, estimates and market values as numbers: the modules keep which
  quote or event they are computed from.
- The backup, diagnostics and trim tasks in the price pipeline (their life cycle is in
  `TraceTaskLifecycle`), the Seq worker, and the sessions of the manual backfill service: see
  section 2. The monthly revenues (`app/backfill/revenue.rs`) are a fetch and an upsert.
- The map names a small share of all lines, because most of the repository is generated
  protobuf code (`interfaces/rpc/{manual_backfill,stock,control}.rs`), tests inside the source
  files, DTOs, the read-only data API, SQL texts, and a parser per web page. None of that keeps
  state between two requests, so a module of it would have one action and nothing to say; the
  map names the lines of the code that does keep state.
- Panics outside of backfill runs, poisoned locks and the loss of PostgreSQL: the code logs and
  goes on, or the process ends.
- Real time: windows and intervals are ticks or steps that may be taken; that a dispatched cron
  job is polled within the pause of the idle check is an assumption of `GracefulShutdown`.

## 10. How to run

    tlc -config MCTracePriceEventsLive.cfg MCTracePriceEvents
    tlapm NoticesProofs.tla

and likewise for the others; `PROJECT.json` pairs every configuration with its module.
All runs end within minutes on two workers; the largest are `notices` (1,847,408 distinct
states, two minutes), `calculations` (1,153,788, three minutes), `infrastructure`
(709,526) and `process` (312,481).
