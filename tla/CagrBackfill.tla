----------------------------- MODULE CagrBackfill -----------------------------
(***************************************************************************)
(* The annualised returns of the active stocks per end date and period     *)
(* (app/calculation/cagr.rs, infra/database/repository/cagr_source.rs and  *)
(* performance.rs).  The scheduler calculates the latest trading day,      *)
(* users any day or one period for all days that lack it; quotes arrive in *)
(* between.  A row is saved in chunks, each a commit.  What a row says of  *)
(* money is the module CagrSimulator; here it is its base day.             *)
(***************************************************************************)
EXTENDS Integers, FiniteSetsExt

CONSTANTS
    Symbols,            \* the active symbols
    LastTradeDay,       \* the days are 1 .. LastTradeDay
    Periods,            \* the lengths of the periods, in days
    Grace,              \* BASE_DATE_GRACE_DAYS
    Tasks,              \* who may calculate: the scheduler, jobs, gRPC calls
    MaxCalculations,    \* bound of the runs on how many calculations begin
    MaxQuotes           \* bound of the runs on how many quotes arrive

ASSUME CagrAssumption ==
    /\ Symbols # {} /\ LastTradeDay \in Nat \ {0}
    /\ Periods \subseteq Nat \ {0} /\ Grace \in Nat
    /\ MaxCalculations \in Nat /\ MaxQuotes \in Nat

TradeDays == 1 .. LastTradeDay
None == 0
Unwritten == [base |-> -1, complete |-> FALSE]
Resting == [pc |-> "idle", backfill |-> FALSE, dates |-> {}, listed |-> {}, periods |-> {},
            todo |-> {}, end |-> 0, ends |-> {}, period |-> 0, records |-> <<>>,
            saved |-> {}, clean |-> FALSE]

VARIABLES
    quoted,     \* DailyQuotes: the <<stock, day>> with a closing price
    unpriced,   \* the days of rows without one
    rows,       \* stock_cagr: base day (0 for none) per day, stock and period
    calc,       \* what each calculation is doing
    started, arrived    \* counts, for the bounds

cbVars == <<quoted, unpriced, rows, calc, started, arrived>>

CBTypeOK ==
    /\ quoted \subseteq Symbols \X TradeDays /\ unpriced \subseteq TradeDays
    /\ rows \in [TradeDays \X Symbols \X Periods -> [base : -1 .. LastTradeDay, complete : BOOLEAN]]
    /\ started \in 0 .. MaxCalculations /\ arrived \in 0 .. MaxQuotes
    /\ \A t \in Tasks :
        /\ calc[t].pc \in {"idle", "next", "prices", "period", "save"}
        /\ calc[t].end \in 0 .. LastTradeDay
        /\ calc[t].saved \subseteq Symbols
        /\ calc[t].dates \subseteq TradeDays

-----------------------------------------------------------------------------
(* The queries. *)

PricedDays == {sd[2] : sd \in quoted}

\* A day of which the table has any row, with a price or without.
TradingDays == PricedDays \cup unpriced
OnOrBefore(d) == {e \in TradingDays : e <= d}

\* fetch_trading_day_on_or_before
Align(d) == IF OnOrBefore(d) = {} THEN None ELSE Max(OnOrBefore(d))

\* fetch_dates_missing_period: dates with rows, but with none of the period.
DatesMissing(p) ==
    {d \in TradeDays : /\ \E s \in Symbols, q \in Periods : rows[<<d, s, q>>] # Unwritten
                       /\ \A s \in Symbols : rows[<<d, s, p>>] = Unwritten}

\* The base of a stock: its quote on the aligned day, else its first quote in the days
\* of grace (fetch_closing_prices_on, fetch_first_quote_within).
BaseDay(s, aligned) ==
    LET quotes == {d \in aligned .. aligned + Grace : <<s, d>> \in quoted}
    IN IF quotes = {} THEN None ELSE Min(quotes)

\* build_record.  A base without an end price, or not before the end, is kept but the
\* row is not complete (simulate).
BuildRecord(base, end, hasEnd) ==
    [base |-> base, complete |-> base # None /\ hasEnd /\ base < end]

-----------------------------------------------------------------------------
CBInit ==
    /\ quoted \in SUBSET (Symbols \X TradeDays) /\ unpriced \in SUBSET (TradeDays \ PricedDays)
    /\ rows = [dsp \in TradeDays \X Symbols \X Periods |-> Unwritten]
    /\ calc = [t \in Tasks |-> Resting]
    /\ started = 0 /\ arrived = 0

\* A closing or a quote job adds a row, or one without a price for a stock that did not
\* trade: no calculation under way is undisturbed.
AddQuote(s, d, priced) ==
    /\ arrived < MaxQuotes /\ <<s, d>> \notin quoted
    /\ arrived' = arrived + 1
    /\ quoted' = IF priced THEN quoted \cup {<<s, d>>} ELSE quoted
    /\ unpriced' = IF priced THEN unpriced ELSE unpriced \cup {d}
    /\ calc' = [t \in Tasks |-> [calc[t] EXCEPT !.clean = FALSE]]
    /\ UNCHANGED <<rows, started>>

\* A calculation begins: of one day (None for the latest), or of a period's missing dates.
Start(t, task) ==
    /\ calc[t].pc = "idle" /\ started < MaxCalculations
    /\ started' = started + 1
    /\ calc' = [u \in Tasks |->
            IF u = t THEN [task EXCEPT !.clean = \A o \in Tasks : calc[o].pc = "idle"]
            ELSE [calc[u] EXCEPT !.clean = FALSE]]
    /\ UNCHANGED <<quoted, unpriced, rows, arrived>>

Execute(t, d) ==
    Start(t, [Resting EXCEPT !.pc = "next", !.dates = {IF d = None THEN LastTradeDay ELSE d},
                             !.periods = Periods])

\* backfill_period_with: the list is read once; an empty list ends it.
BackfillPeriod(t, p) ==
    /\ DatesMissing(p) # {}
    /\ Start(t, [Resting EXCEPT !.pc = "next", !.backfill = TRUE, !.periods = {p},
                                !.dates = DatesMissing(p), !.listed = DatesMissing(p)])

\* A date is done; the end of a calculation of one date.
Finish(task) ==
    IF task.dates = {} /\ ~task.backfill THEN Resting
    ELSE [task EXCEPT !.pc = "next", !.end = 0, !.ends = {}, !.todo = {}, !.period = 0]

\* calculate_periods up to its end prices: without a trading day nothing is done.
AlignEnd(t) ==
    /\ calc[t].pc = "next" /\ calc[t].dates # {}
    /\ LET d == Min(calc[t].dates)
           rest == [calc[t] EXCEPT !.dates = @ \ {d}]
       IN calc' = [calc EXCEPT ![t] =
            IF Align(d) = None THEN Finish(rest)
            ELSE [rest EXCEPT !.pc = "prices", !.end = Align(d),
                              !.ends = {s \in Symbols : <<s, Align(d)>> \in quoted}]]
    /\ UNCHANGED <<quoted, unpriced, rows, started, arrived>>

\* The base days of the periods; a period older than the first quote is skipped, and a
\* date without any period is skipped as a whole.
AlignBases(t) ==
    /\ calc[t].pc = "prices"
    /\ LET aligned == {pb \in calc[t].periods \X TradeDays : pb[2] = Align(calc[t].end - pb[1])}
       IN calc' = [calc EXCEPT ![t] =
            IF aligned = {} THEN Finish(@) ELSE [@ EXCEPT !.pc = "period", !.todo = aligned]]
    /\ UNCHANGED <<quoted, unpriced, rows, started, arrived>>

\* The base prices of a period are read and its records built; periods in order.
BuildPeriod(t) ==
    /\ calc[t].pc = "period"
    /\ LET pb == CHOOSE pb \in calc[t].todo : \A qb \in calc[t].todo : pb[1] <= qb[1]
           end == calc[t].end
           records == [s \in Symbols |->
                            BuildRecord(BaseDay(s, pb[2]), end, s \in calc[t].ends)]
       IN calc' = [calc EXCEPT ![t] =
            [@ EXCEPT !.pc = "save", !.period = pb[1], !.todo = calc[t].todo \ {pb},
                      !.saved = {}, !.records = records]]
    /\ UNCHANGED <<quoted, unpriced, rows, started, arrived>>

\* ON CONFLICT DO UPDATE: the new row replaces the old one.
Upsert(old, new) == new

\* Mutant: the loop ends after its first chunk.
SavedFirst(saved) == saved # {}

\* The loop over the chunks has come to its end.
SavedAll(saved) == saved = Symbols

\* save_batch of a chunk, which is one statement.
SaveChunk(t, chunk) ==
    /\ calc[t].pc = "save"
    /\ chunk # {} /\ chunk \cap calc[t].saved = {}
    /\ rows' = [dsp \in TradeDays \X Symbols \X Periods |->
                    IF dsp[1] = calc[t].end /\ dsp[2] \in chunk /\ dsp[3] = calc[t].period
                    THEN Upsert(rows[dsp], calc[t].records[dsp[2]]) ELSE rows[dsp]]
    /\ LET saved == calc[t].saved \cup chunk
           done == [calc[t] EXCEPT !.records = <<>>, !.saved = {}, !.period = 0]
       IN calc' = [calc EXCEPT ![t] =
            IF ~SavedAll(saved) THEN [@ EXCEPT !.saved = saved]
            ELSE IF calc[t].todo # {} THEN [done EXCEPT !.pc = "period"]
            ELSE Finish(done)]
    /\ UNCHANGED <<quoted, unpriced, started, arrived>>

\* The summary of a backfill.
EndBackfill(t) ==
    /\ calc[t].pc = "next" /\ calc[t].dates = {}
    /\ calc' = [calc EXCEPT ![t] = Resting]
    /\ UNCHANGED <<quoted, unpriced, rows, started, arrived>>

\* A query or a chunk fails, or the process dies: the rest of the run is not done.
FailCalc(t) ==
    /\ calc[t].pc # "idle"
    /\ calc' = [calc EXCEPT ![t] = Resting]
    /\ UNCHANGED <<quoted, unpriced, rows, started, arrived>>

CBNext ==
    \/ \E s \in Symbols, d \in TradeDays, priced \in BOOLEAN : AddQuote(s, d, priced)
    \/ \E t \in Tasks :
        \/ \E d \in TradeDays \cup {None} : Execute(t, d)
        \/ \E p \in Periods : BackfillPeriod(t, p)
        \/ AlignEnd(t) \/ AlignBases(t) \/ BuildPeriod(t)
        \/ \E chunk \in SUBSET Symbols : SaveChunk(t, chunk)
        \/ EndBackfill(t) \/ FailCalc(t)

CBSpec == CBInit /\ [][CBNext]_cbVars

-----------------------------------------------------------------------------
(* Properties. *)

\* A row that counts as complete rests on two quotes of its stock, the later of which is
\* of the row's date, and its base is no later than the days of grace allow
\* (build_record, simulate), whatever calculations and quotes raced.
CompleteRowsHaveQuotes ==
    \A d \in TradeDays, s \in Symbols, p \in Periods :
        LET row == rows[<<d, s, p>>]
        IN row.complete => /\ {<<s, row.base>>, <<s, d>>} \subseteq quoted
                           /\ row.base < d /\ row.base <= d - p + Grace

\* When an undisturbed backfill of a period has been through a date, each stock has a row
\* of that date and period, unless no day of quotes is as old as the period is long
\* (backfill_period_with).
BackfillLeavesNoGap ==
    \A t \in Tasks : calc[t].backfill /\ calc[t].clean /\ calc[t].pc = "next" =>
        \A d \in calc[t].listed \ calc[t].dates, p \in calc[t].periods :
            \/ \A s \in Symbols : rows[<<d, s, p>>] # Unwritten
            \/ \A e \in TradingDays : e > d - p

\* The rows an undisturbed calculation has saved are those of the quotes as they are,
\* also where an earlier calculation had saved rows from fewer quotes (the upsert).
UndisturbedRowsAreCurrent ==
    \A t \in Tasks : calc[t].clean =>
        \A s \in calc[t].saved :
            LET row == rows[<<calc[t].end, s, calc[t].period>>]
                before == {e \in TradingDays : e <= calc[t].end - calc[t].period}
                after == {e \in TradeDays : <<s, e>> \in quoted
                                            /\ Max(before) <= e /\ e <= Max(before) + Grace}
            IN /\ row.base = 0 <=> after = {}
               /\ after # {} => row.base \in after /\ \A e \in after : row.base <= e

\* Rows tell what the quotes say: complete ones at all times, all of them after an
\* undisturbed calculation.
RowsFollowQuotes == CompleteRowsHaveQuotes /\ UndisturbedRowsAreCurrent

\* An undisturbed backfill has written every row there can be, and none from other quotes.
BackfillIsComplete == BackfillLeavesNoGap /\ RowsFollowQuotes
=============================================================================
