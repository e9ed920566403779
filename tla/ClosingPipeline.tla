--------------------------- MODULE ClosingPipeline ---------------------------
(***************************************************************************)
(* The closing of a trading day: the quotes of the day replace those in    *)
(* the table, and averages, records, last quotes, estimates, yields and    *)
(* market values are fresh from them, one commit after the other         *)
(* (app/event/taiwan_stock/closing.rs, app/backfill/quote.rs,              *)
(* app/calculation).  The scheduler closes today; users close any day, or  *)
(* only fetch its quotes, or fill the gaps in the quotes of some stocks    *)
(* (app/backfill/quote_history.rs), over HTTP or gRPC, at the same time.   *)
(*                                                                         *)
(* All days lie within the thirty days the queries look back.  The price   *)
(* of a stock on day d is d.  One serial number stands for those of a      *)
(* whole statement of a closing: serials are only compared within a stock. *)
(***************************************************************************)
EXTENDS Integers, FiniteSets

CONSTANTS
    Stocks,     \* active stocks
    LastDay,    \* the days are 1 .. LastDay, and day 1 is closed already
    Closers,    \* who may run a closing or a quote job: the scheduler, jobs
    MaxRuns     \* bound of the runs on how many closings and quote jobs begin

ASSUME ClosingAssumption ==
    /\ Stocks # {}
    /\ LastDay \in Nat \ {0}
    /\ MaxRuns \in Nat

Days == 1 .. LastDay
NoRow == [serial |-> 0, of |-> 0, avg |-> 0]
Keys == {"last-closing-day", "estimate-date"}
Tables == {"estimate", "yield_rank", "money_history"}

\* The steps after which a step of a closing comes.
Stages == {"replace", "cache", "readDay", "saveDay", "makeUp", "average", "update",
           "records", "last", "estimate", "readDate", "saveDate", "yield", "money",
           "announce", "history"}
Idle == [pc |-> "idle", day |-> 0, full |-> FALSE, traded |-> {}, seen |-> 0,
         calc |-> {}, clean |-> FALSE]

VARIABLES
    quotes,      \* DailyQuotes: serial, day whose price it has, day of its averages
    serial,      \* the last serial number given
    lastQuotes,  \* last_daily_quotes: the day of the row selected for a stock
    lastPrice,   \* SHARE.last_trading_day_quotes: the day whose price is cached
    config,      \* the two dates of table config
    records,     \* quote_history_record: the highest price of a stock, 0 for none
    fresh,       \* tables and days that were computed from the quotes as they are
    runs,        \* how many runs have begun
    closing      \* what each closer is doing

cpVars == <<quotes, serial, lastQuotes, lastPrice, config, records, fresh, runs, closing>>

CPTypeOK ==
    /\ quotes \in [Stocks \X Days -> [serial : Nat, of : 0 .. LastDay, avg : 0 .. LastDay]]
    /\ serial \in Nat
    /\ lastQuotes \in [Stocks -> 0 .. LastDay]
    /\ lastPrice \in [Stocks -> 0 .. LastDay]
    /\ config \in [Keys -> 0 .. LastDay]
    /\ records \in [Stocks -> 0 .. LastDay]
    /\ fresh \subseteq Tables \X Days
    /\ runs \in 0 .. MaxRuns
    /\ \A c \in Closers :
        /\ closing[c].pc \in Stages \cup {"idle"}
        /\ closing[c].day \in 0 .. LastDay
        /\ closing[c].traded \subseteq Stocks
        /\ \A q \in closing[c].calc : q.stock \in Stocks /\ q.serial \in Nat \ {0}

-----------------------------------------------------------------------------
(* The queries. *)

HasRow(s, d) == quotes[<<s, d>>].serial # 0
RowDays(s) == {d \in Days : HasRow(s, d)}

\* The day of the row with the highest serial among some days: max("Serial").
NewestRow(s, ds) ==
    CHOOSE d \in ds : \A e \in ds : quotes[<<s, e>>].serial <= quotes[<<s, d>>].serial

\* Mutant: the last quotes are rebuilt before the lacking ones are made up.
NextStageLastFirst ==
    [replace |-> "cache", cache |-> "readDay", readDay |-> "saveDay", saveDay |-> "last",
     last |-> "makeUp", makeUp |-> "average", average |-> "update", update |-> "records",
     records |-> "estimate", estimate |-> "readDate", readDate |-> "saveDate",
     saveDate |-> "yield", yield |-> "money", money |-> "announce"]

\* The order in which aggregate takes its steps.
NextStage == [replace |-> "cache", cache |-> "readDay", readDay |-> "saveDay",
              saveDay |-> "makeUp", makeUp |-> "average", average |-> "update",
              update |-> "records", records |-> "last", last |-> "estimate",
              estimate |-> "readDate", readDate |-> "saveDate", saveDate |-> "yield",
              yield |-> "money", money |-> "announce"]

\* config: only a later date replaces the one that was read.
ShouldUpdateDate(old, new) == new > old

\* quote_history_record: the first price of a stock makes its record; afterwards only a
\* higher one changes it, of a stock that is rated: its price-to-book ratio is not zero.
ShouldUpdateHistory(old, high, rated) == old = 0 \/ (rated /\ high > old)

-----------------------------------------------------------------------------
(* The steps. *)

Advance(c) == closing' = [closing EXCEPT ![c].pc = NextStage[@]]

At(c, stage) == closing[c].pc = stage

CPInit ==
    /\ quotes = [sd \in Stocks \X Days |->
                    IF sd[2] = 1 THEN [serial |-> 1, of |-> 1, avg |-> 1] ELSE NoRow]
    /\ serial = 1
    /\ lastQuotes = [s \in Stocks |-> 1]
    /\ lastPrice = lastQuotes
    /\ config = [k \in Keys |-> 1]
    /\ records = [s \in Stocks |-> 1]
    /\ fresh = Tables \X {1}
    /\ runs = 0
    /\ closing = [c \in Closers |-> Idle]

\* Both exchanges answered with the quotes of the traded stocks.  A failed or empty
\* answer ends the run with nothing done.  A run that overlaps another is not clean.
Fetch(c, d, full, traded) ==
    /\ At(c, "idle")
    /\ traded # {} /\ runs < MaxRuns
    /\ runs' = runs + 1
    /\ closing' = [b \in Closers |->
                    IF b = c
                    THEN [Idle EXCEPT !.pc = "replace", !.day = d, !.full = full,
                                      !.traded = traded,
                                      !.clean = \A o \in Closers : At(o, "idle")]
                    ELSE [closing[b] EXCEPT !.clean = FALSE]]
    /\ UNCHANGED <<quotes, serial, lastQuotes, lastPrice, config, records, fresh>>

\* execute_with of quote_history.rs: the gaps in the quotes of some stocks are filled.
BeginHistory(c, symbols) ==
    /\ At(c, "idle")
    /\ symbols # {} /\ runs < MaxRuns
    /\ runs' = runs + 1
    /\ closing' = [b \in Closers |->
                    IF b = c THEN [Idle EXCEPT !.pc = "history", !.traded = symbols]
                    ELSE [closing[b] EXCEPT !.clean = FALSE]]
    /\ UNCHANGED <<quotes, serial, lastQuotes, lastPrice, config, records, fresh>>

\* insert_missing_batch: on conflict do nothing, so made-up quotes stay too.
Gaps(s, listed) == {d \in listed : ~HasRow(s, d)}

\* One stock and the month all days of the model are in: the quotes the exchange lists are
\* inserted in the order of their days; a month that cannot be fetched lists none.
InsertMissing(c, s, listed) ==
    /\ At(c, "history") /\ s \in closing[c].traded
    /\ LET gaps == Gaps(s, listed) IN
       /\ quotes' = [sd \in Stocks \X Days |->
                        IF sd[1] = s /\ sd[2] \in gaps
                        THEN [serial |-> serial + Cardinality(gaps \cap 1 .. sd[2]),
                              of |-> sd[2], avg |-> 0]
                        ELSE quotes[sd]]
       /\ serial' = serial + Cardinality(gaps)
       /\ fresh' = fresh \ (Tables \X gaps)
    /\ closing' = IF closing[c].traded = {s} THEN [closing EXCEPT ![c] = Idle]
                  ELSE [closing EXCEPT ![c].traded = @ \ {s}]
    /\ UNCHANGED <<lastQuotes, lastPrice, config, records, runs>>

\* replace_quotes_by_date: delete and COPY in one transaction.
ReplaceQuotes(c) ==
    /\ At(c, "replace")
    /\ serial' = serial + 1
    /\ quotes' = [sd \in Stocks \X Days |->
                    IF sd[2] # closing[c].day THEN quotes[sd]
                    ELSE IF sd[1] \in closing[c].traded
                         THEN [serial |-> serial', of |-> sd[2], avg |-> 0]
                         ELSE NoRow]
    /\ fresh' = fresh \ (Tables \X {closing[c].day})
    /\ Advance(c)
    /\ UNCHANGED <<lastQuotes, lastPrice, config, records, runs>>

\* set_stock_last_price: cached stocks only, whatever their date.
CacheLastPrices(c) ==
    /\ At(c, "cache")
    /\ lastPrice' = [s \in Stocks |->
                        IF s \in closing[c].traded /\ lastPrice[s] # 0
                        THEN closing[c].day ELSE lastPrice[s]]
    /\ closing' = [closing EXCEPT ![c].traded = {}, ![c].pc = NextStage[@]]
    /\ UNCHANGED <<quotes, serial, lastQuotes, config, records, fresh, runs>>

\* find_by_key; the date is compared and saved without a transaction.
ReadDate(c, stage) ==
    /\ At(c, stage)
    /\ LET key == IF stage = "readDay" THEN "last-closing-day" ELSE "estimate-date"
       IN closing' = [closing EXCEPT ![c].seen = config[key], ![c].pc = NextStage[@]]
    /\ UNCHANGED <<quotes, serial, lastQuotes, lastPrice, config, records, fresh, runs>>

\* A quote job ends with the last closing day.
SaveDate(c, stage) ==
    /\ At(c, stage)
    /\ LET key == IF stage = "saveDay" THEN "last-closing-day" ELSE "estimate-date"
       IN config' = IF ShouldUpdateDate(closing[c].seen, closing[c].day)
                    THEN [config EXCEPT ![key] = closing[c].day]
                    ELSE config
    /\ closing' = IF closing[c].full
                  THEN [closing EXCEPT ![c].seen = 0, ![c].pc = NextStage[@]]
                  ELSE [closing EXCEPT ![c] = Idle]
    /\ UNCHANGED <<quotes, serial, lastQuotes, lastPrice, records, fresh, runs>>

\* makeup_for_the_lack_daily_quotes: stocks without a quote get a copy of their newest.
MakeUpQuotes(c) ==
    /\ At(c, "makeUp")
    /\ LET day == closing[c].day
           Earlier(s) == {d \in RowDays(s) : d < day}
           lacking == {s \in Stocks : ~HasRow(s, day) /\ Earlier(s) # {}}
       IN /\ serial' = IF lacking = {} THEN serial ELSE serial + 1
          /\ quotes' = [sd \in Stocks \X Days |->
                IF sd[2] = day /\ sd[1] \in lacking
                THEN [quotes[<<sd[1], NewestRow(sd[1], Earlier(sd[1]))>>]
                        EXCEPT !.serial = serial']
                ELSE quotes[sd]]
          /\ fresh' = IF lacking = {} THEN fresh ELSE fresh \ (Tables \X {day})
    /\ Advance(c)
    /\ UNCHANGED <<lastQuotes, lastPrice, config, records, runs>>

\* calculate_moving_average: the quotes of the day are read, averaged, and compared with
\* the records.  Some may fail, which is logged; the unrated have no net asset value.
CalculateAverages(c, failed, unrated) ==
    /\ At(c, "average")
    /\ LET day == closing[c].day
           read == {s \in Stocks \ failed : HasRow(s, day)}
       IN closing' = [closing EXCEPT
            ![c].calc = {[stock |-> s, serial |-> quotes[<<s, day>>].serial,
                          high |-> IF ShouldUpdateHistory(records[s], quotes[<<s, day>>].of,
                                                          s \notin unrated)
                                   THEN quotes[<<s, day>>].of ELSE 0] : s \in read},
            ![c].clean = @ /\ failed = {},
            ![c].pc = NextStage[@]]
    /\ UNCHANGED <<quotes, serial, lastQuotes, lastPrice, config, records, fresh, runs>>

\* batch_update_moving_average: the rows are found by the serials read before.
UpdateAverages(c) ==
    /\ At(c, "update")
    /\ quotes' = [sd \in Stocks \X Days |->
                    IF \E q \in closing[c].calc :
                        q.stock = sd[1] /\ q.serial = quotes[sd].serial
                    THEN [quotes[sd] EXCEPT !.avg = closing[c].day]
                    ELSE quotes[sd]]
    /\ Advance(c)
    /\ UNCHANGED <<serial, lastQuotes, lastPrice, config, records, fresh, runs>>

\* The stocks whose record a closing has found to change.
Changed(c) == {s \in Stocks : \E q \in closing[c].calc : q.stock = s /\ q.high # 0}

\* save_quote_history_record for each changed record, in the table and the cache; those
\* that cannot be saved are logged and passed over.
SaveRecords(c, saved) ==
    /\ At(c, "records")
    /\ saved \subseteq Changed(c)
    /\ records' = [s \in Stocks |->
                    IF s \in saved THEN (CHOOSE q \in closing[c].calc : q.stock = s).high
                    ELSE records[s]]
    /\ closing' = [closing EXCEPT ![c].calc = {}, ![c].clean = @ /\ saved = Changed(c),
                                  ![c].pc = NextStage[@]]
    /\ UNCHANGED <<quotes, serial, lastQuotes, lastPrice, config, fresh, runs>>

\* A failure while the averages are saved is logged and the closing goes on.
LogFailure(c) ==
    /\ At(c, "update")
    /\ closing' = [closing EXCEPT ![c].clean = FALSE, ![c].pc = NextStage[@]]
    /\ UNCHANGED <<quotes, serial, lastQuotes, lastPrice, config, records, fresh, runs>>

\* LastDailyQuotes::rebuild: per stock, the row with the highest serial.
RebuildLastQuotes(c) ==
    /\ At(c, "last")
    /\ lastQuotes' = [s \in Stocks |->
                        IF RowDays(s) = {} THEN 0 ELSE NewestRow(s, RowDays(s))]
    /\ Advance(c)
    /\ UNCHANGED <<quotes, serial, lastPrice, config, records, fresh, runs>>

\* The tables computed from the quotes of the day, each in its own transaction.
RebuildTable(c, stage) ==
    /\ At(c, stage)
    /\ LET table == CASE stage = "estimate" -> "estimate"
                      [] stage = "yield"    -> "yield_rank"
                      [] stage = "money"    -> "money_history"
       IN fresh' = fresh \cup {<<table, closing[c].day>>}
    /\ Advance(c)
    /\ UNCHANGED <<quotes, serial, lastQuotes, lastPrice, config, records, runs>>

\* TTL.clear and the event, the last step of aggregate.
Announce(c) ==
    /\ At(c, "announce")
    /\ closing' = [closing EXCEPT ![c] = Idle]
    /\ UNCHANGED <<quotes, serial, lastQuotes, lastPrice, config, records, fresh, runs>>

\* A step fails: its transaction is rolled back and aggregate returns the error.
Fail(c) ==
    /\ closing[c].pc \in Stages \ {"cache", "update", "records", "announce"}
    /\ closing' = [closing EXCEPT ![c] = Idle]
    /\ UNCHANGED <<quotes, serial, lastQuotes, lastPrice, config, records, fresh, runs>>

\* The process dies and starts again: the cache is loaded from the table.
Restart ==
    /\ \E c \in Closers : ~At(c, "idle")
    /\ closing' = [c \in Closers |-> Idle]
    /\ lastPrice' = lastQuotes
    /\ UNCHANGED <<quotes, serial, lastQuotes, config, records, fresh, runs>>

CPStep(c) ==
    \/ \E d \in Days, full \in BOOLEAN, traded \in SUBSET Stocks : Fetch(c, d, full, traded)
    \/ \E symbols \in SUBSET Stocks : BeginHistory(c, symbols)
    \/ \E s \in Stocks, listed \in SUBSET Days : InsertMissing(c, s, listed)
    \/ ReplaceQuotes(c) \/ CacheLastPrices(c) \/ MakeUpQuotes(c)
    \/ \E stage \in {"readDay", "readDate"} : ReadDate(c, stage)
    \/ \E stage \in {"saveDay", "saveDate"} : SaveDate(c, stage)
    \/ \E failed, unrated \in SUBSET Stocks : CalculateAverages(c, failed, unrated)
    \/ \E saved \in SUBSET Stocks : SaveRecords(c, saved)
    \/ UpdateAverages(c) \/ LogFailure(c) \/ RebuildLastQuotes(c)
    \/ \E stage \in {"estimate", "yield", "money"} : RebuildTable(c, stage)
    \/ Announce(c) \/ Fail(c)

CPNext == Restart \/ \E c \in Closers : CPStep(c)

CPSpec == CPInit /\ [][CPNext]_cpVars

-----------------------------------------------------------------------------
(* Properties. *)

\* When a closing that nobody overlapped and that logged no failure announces its day,
\* every stock with a past has a quote with averages of the day, each table was computed
\* from the quotes as they are, the last quotes are the newest rows, and a cached price
\* of a stock that was traded is the day's (the order of the steps of aggregate).
AnnouncedDayIsConsistent ==
    \A c \in Closers : (closing[c].pc = "announce" /\ closing[c].clean) =>
        LET day == closing[c].day IN
        /\ \A s \in Stocks :
            LET past == {d \in Days : d <= day /\ quotes[<<s, d>>] # NoRow} IN
            /\ past # {} => day \in past /\ quotes[<<s, day>>].avg = day
            /\ past # {} => \A d \in Days :
                    quotes[<<s, d>>].serial <= quotes[<<s, lastQuotes[s]>>].serial
            /\ quotes[<<s, day>>].of = day => lastPrice[s] \in {0, day}
        /\ Tables \X {day} \subseteq fresh

\* Whatever fails and whoever overlaps, a day that has quotes keeps having quotes; the two
\* dates go back, and a record is narrowed, only when two runs overlap, since they are
\* read, compared and saved without a lock (replace_quotes_by_date, should_update_date,
\* should_update_history).
ClosingsLoseNothing ==
    /\ \A d \in Days : (\E s \in Stocks : quotes[<<s, d>>] # NoRow)
         => \E s \in Stocks : quotes'[<<s, d>>] # NoRow
    /\ \A k \in Keys : config'[k] < config[k] =>
         \E c \in Closers : closing[c].pc \in {"saveDay", "saveDate"} /\ ~closing[c].clean
    /\ \A s \in Stocks : records'[s] < records[s] =>
         \E c \in Closers : closing[c].pc = "records" /\ ~closing[c].clean

\* The closings of aggregate, as a whole: what they announce is consistent, and what was
\* there before is not lost.
ClosingsAreSound == [][AnnouncedDayIsConsistent' /\ ClosingsLoseNothing]_cpVars
=============================================================================
