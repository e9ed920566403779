-------------------------- MODULE DividendBackfill --------------------------
(***************************************************************************)
(* The table dividend of one stock and the flows that fill it from Yahoo:  *)
(* the daily scan for missing dividends and the daily search for dates,    *)
(* which run side by side and share a flag in Redis, the historical        *)
(* backfill that users start, and the flow for the payout ratios           *)
(* (app/backfill/dividend, infra/crawler/yahoo/dividend.rs,                *)
(* infra/database/repository/dividend.rs).                                 *)
(*                                                                         *)
(* A dividend pays 1; only sums of them matter here.  Of its four dates    *)
(* one is kept, the one that tells its year, and of that only the year.    *)
(***************************************************************************)
EXTENDS Integers, FiniteSets, Functions

CONSTANTS
    Quarters,   \* Q1 .. Q4, H1, H2
    WholeYear,  \* the empty quarter of a yearly dividend, and of the annual totals
    LastYear,   \* the years are 1 .. LastYear, and dividends are paid up to the next one
    MaxNews,    \* bound of the runs on what companies announce
    MaxFlows    \* bound of the runs on the flows that begin

ASSUME BackfillAssumption ==
    /\ IsFiniteSet(Quarters) /\ WholeYear \notin Quarters
    /\ LastYear \in Nat \ {0}
    /\ MaxNews \in Nat /\ MaxFlows \in Nat

Terms == Quarters \cup {WholeYear}
YearsOfDividend == 1 .. LastYear
PaidYears == 1 .. LastYear + 1
Unpublished == 0        \* no date yet, '-' or its Chinese wording
NotAnnounced == -1
NoDividend == [of |-> 0, amount |-> 0, date |-> Unpublished, rated |-> FALSE]

Details == [of : YearsOfDividend, term : Terms, date : PaidYears \cup {Unpublished}]
RowKeys == PaidYears \X Terms

AtRest == [pc |-> "idle", year |-> 0, known |-> {}, todo |-> {}, touched |-> {}]
NoSearch == [pc |-> "idle", year |-> 0, queue |-> {}, row |-> <<>>, date |-> Unpublished]

VARIABLES
    calendar,  \* the current year
    page,      \* the stock's page at Yahoo: the date of each dividend
    table,     \* table dividend by paid year and quarter, the unique key
    recently,  \* Redis flag yahoo:dividend:{stock}: the page was visited in the last days
    scan,      \* backfill_missing_or_multiple_dividends
    history,   \* backfill_historical_dividends_for_stock
    search,    \* backfill_unannounced_dividend_dates
    copies,    \* payout_ratio::execute: the rows it has read and not yet saved
    news, flows,
    lagging    \* auxiliary: years whose total a failure or another source has left behind

dbVars == <<calendar, page, table, recently, scan, history, search, copies, news, flows,
            lagging>>

DividendRows == [of : 0 .. LastYear, amount : 0 .. Cardinality(Quarters) + 1,
         date : PaidYears \cup {Unpublished}, rated : BOOLEAN]

DBTypeOK ==
    /\ calendar \in YearsOfDividend
    /\ page \in [YearsOfDividend \X Terms -> PaidYears \cup {Unpublished, NotAnnounced}]
    /\ table \in [RowKeys -> DividendRows]
    /\ recently \in BOOLEAN
    /\ scan.pc \in {"idle", "listed", "set", "fetch", "save"}
    /\ history.pc \in {"idle", "save"}
    /\ \A f \in {scan, history} : f.todo \subseteq Details /\ f.touched \subseteq PaidYears
    /\ search.pc \in {"idle", "check", "set", "visit", "write"}
    /\ \A e \in search.queue \cup copies : e.key \in RowKeys /\ e.row \in DividendRows
    /\ lagging \subseteq PaidYears
    /\ news \in 0 .. MaxNews /\ flows \in 0 .. MaxFlows

-----------------------------------------------------------------------------
(* The page and the table. *)

\* What visit returns.
PageDetails == {e \in Details : page[<<e.of, e.term>>] = e.date}

\* The group a dividend is in: the year of its date, or an estimate.
PaidYear(e) == IF e.date = Unpublished THEN e.of + 1 ELSE e.date

\* No two dividends of the page share a row.
KeysAreDistinct ==
    \A e, f \in PageDetails : e.term = f.term /\ PaidYear(e) = PaidYear(f) => e = f

IsStored(k) == table[k] # NoDividend
QuartersOf(y) == {q \in Quarters : IsStored(<<y, q>>)}
QuarterTotal(y) == SumFunction([q \in Quarters |-> table[<<y, q>>].amount])

\* save: the row with this key is replaced, or made.
Saved(e) ==
    [table EXCEPT ![<<PaidYear(e), e.term>>] =
        [of |-> e.of, amount |-> 1, date |-> e.date, rated |-> FALSE]]

\* upsert_annual_total_dividend: an existing row keeps all but its amounts.
WithAnnualTotal(y) ==
    IF QuartersOf(y) = {} THEN table
    ELSE [table EXCEPT ![<<y, WholeYear>>] =
            IF @ = NoDividend
            THEN [NoDividend EXCEPT !.of = y - 1, !.amount = QuarterTotal(y)]
            ELSE [@ EXCEPT !.amount = QuarterTotal(y)]]

\* Saving a yearly dividend over the total of quarters leaves that total behind.
LagsAfterSave(e) ==
    IF e.term = WholeYear /\ QuartersOf(PaidYear(e)) # {} THEN {PaidYear(e)} ELSE {}

\* Mutant: the total of the year the dividend belongs to.
TouchedByOwnYear(e) == IF e.term = WholeYear THEN {} ELSE {e.of}

\* The years whose total is to be refreshed after a save.
TouchedBy(e) == IF e.term = WholeYear THEN {} ELSE {PaidYear(e)}

-----------------------------------------------------------------------------
\* One dividend of the first year is on the page, and a scan has stored it, with its total,
\* or not yet.
StoredRow(e, k) ==
    IF k = <<PaidYear(e), e.term>> THEN [NoDividend EXCEPT !.of = e.of, !.amount = 1, !.date = e.date]
    ELSE IF k = <<PaidYear(e), WholeYear>>
         THEN [NoDividend EXCEPT !.of = k[1] - 1,
                    !.amount = SumFunction([q \in Quarters |-> IF q = e.term THEN 1 ELSE 0])]
    ELSE NoDividend

DBInit ==
    /\ calendar = 1
    /\ \E e \in {d \in Details : d.of = 1 /\ d.date \in {Unpublished, 1, 2}} :
        /\ page = [d \in YearsOfDividend \X Terms |->
                    IF d = <<e.of, e.term>> THEN e.date ELSE NotAnnounced]
        /\ \/ table = [k \in RowKeys |-> NoDividend]
           \/ table = [k \in RowKeys |-> StoredRow(e, k)]
    /\ recently = FALSE
    /\ scan = AtRest /\ history = AtRest /\ search = NoSearch /\ copies = {}
    /\ news = 0 /\ flows = 0
    /\ lagging = {}

\* A company announces a dividend, with or without its date, or the date of one.
AnnounceDividend(d, date) ==
    /\ news < MaxNews
    /\ d[1] <= calendar
    /\ page[d] \in {NotAnnounced, Unpublished} /\ date # page[d]
    /\ date \in {d[1], d[1] + 1, Unpublished}
    /\ page' = [page EXCEPT ![d] = date]
    /\ news' = news + 1
    /\ UNCHANGED <<calendar, table, recently, scan, history, search, copies, flows, lagging>>

NewYear ==
    /\ calendar < LastYear
    /\ calendar' = calendar + 1
    /\ UNCHANGED <<page, table, recently, scan, history, search, copies, news, flows, lagging>>

\* The flag expires.
FlagExpires ==
    /\ recently
    /\ recently' = FALSE
    /\ UNCHANGED <<calendar, page, table, scan, history, search, copies, news, flows, lagging>>

BeginFlow == flows < MaxFlows /\ flows' = flows + 1

-----------------------------------------------------------------------------
(* The scan for missing dividends. *)

\* The rows with a quarter that are paid in the year or belong to it.
MultipleDividends(year) ==
    {k \in RowKeys :
        k[2] # WholeYear /\ IsStored(k) /\ (k[1] = year \/ table[k].of = year)}

\* The keys of the dividends that a scan leaves alone.
KnownKeys(year) == {<<table[k].of, k[2]>> : k \in MultipleDividends(year)}

\* The stock is listed when it lacks the row of the year or has rows with a quarter.
ScanBegins ==
    /\ scan.pc = "idle"
    /\ BeginFlow
    /\ ~IsStored(<<calendar, WholeYear>>) \/ MultipleDividends(calendar) # {}
    /\ scan' = [AtRest EXCEPT !.pc = "listed", !.year = calendar,
                              !.known = KnownKeys(calendar)]
    /\ UNCHANGED <<calendar, page, table, recently, history, search, copies, news, lagging>>

\* The flag is asked and then set: two requests to Redis.
ScanChecksFlag ==
    /\ scan.pc = "listed"
    /\ scan' = IF recently THEN AtRest ELSE [scan EXCEPT !.pc = "set"]
    /\ UNCHANGED <<calendar, page, table, recently, history, search, copies, news, flows,
                   lagging>>

ScanSetsFlag ==
    /\ scan.pc = "set"
    /\ recently' = TRUE
    /\ scan' = [scan EXCEPT !.pc = "fetch"]
    /\ UNCHANGED <<calendar, page, table, history, search, copies, news, flows, lagging>>

\* The dividends of the year and the one before that are not known yet.
ScanTakes(e) == e.of \in {scan.year, scan.year - 1} /\ <<e.of, e.term>> \notin scan.known

ScanFetches ==
    /\ scan.pc = "fetch"
    /\ scan' = [scan EXCEPT !.pc = "save", !.todo = {e \in PageDetails : ScanTakes(e)}]
    /\ UNCHANGED <<calendar, page, table, recently, history, search, copies, news, flows,
                   lagging>>

\* Redis or Yahoo fails: nothing has been written but the flag, which a missing page sets
\* again.
ScanGivesUp ==
    /\ scan.pc \in {"listed", "set", "fetch"}
    /\ scan' = AtRest
    /\ recently' \in IF scan.pc = "fetch" THEN {recently, TRUE} ELSE {recently}
    /\ UNCHANGED <<calendar, page, table, history, search, copies, news, flows, lagging>>

\* One dividend after the other; a failure is logged.
ScanSaves(e) ==
    /\ scan.pc = "save" /\ e \in scan.todo
    /\ \/ /\ table' = Saved(e)
          /\ scan' = [scan EXCEPT !.todo = @ \ {e}, !.touched = @ \cup TouchedBy(e)]
          /\ lagging' = lagging \cup LagsAfterSave(e)
       \/ /\ scan' = [scan EXCEPT !.todo = @ \ {e}]
          /\ UNCHANGED <<table, lagging>>
    /\ UNCHANGED <<calendar, page, recently, history, search, copies, news, flows>>

\* The totals, when all is saved; a failure is logged.
ScanRefreshes(y) ==
    /\ scan.pc = "save" /\ scan.todo = {} /\ y \in scan.touched
    /\ \/ table' = WithAnnualTotal(y) /\ lagging' = lagging \ {y}
       \/ lagging' = lagging \cup {y} /\ UNCHANGED table
    /\ scan' = [scan EXCEPT !.touched = @ \ {y}]
    /\ UNCHANGED <<calendar, page, recently, history, search, copies, news, flows>>

ScanEnds ==
    /\ scan.pc = "save" /\ scan.todo = {} /\ scan.touched = {}
    /\ scan' = AtRest
    /\ UNCHANGED <<calendar, page, table, recently, history, search, copies, news, flows,
                   lagging>>

-----------------------------------------------------------------------------
(* The historical backfill: every dividend of the page, the first failure ends it. *)

HistoryFetches ==
    /\ history.pc = "idle"
    /\ BeginFlow
    /\ history' = [AtRest EXCEPT !.pc = "save", !.todo = PageDetails]
    /\ UNCHANGED <<calendar, page, table, recently, scan, search, copies, news, lagging>>

HistorySaves(e) ==
    /\ history.pc = "save" /\ e \in history.todo
    /\ table' = Saved(e)
    /\ history' = [history EXCEPT !.todo = @ \ {e}, !.touched = @ \cup TouchedBy(e)]
    /\ lagging' = lagging \cup LagsAfterSave(e)
    /\ UNCHANGED <<calendar, page, recently, scan, search, copies, news, flows>>

HistoryRefreshes(y) ==
    /\ history.pc = "save" /\ history.todo = {} /\ y \in history.touched
    /\ table' = WithAnnualTotal(y)
    /\ history' = [history EXCEPT !.touched = @ \ {y}]
    /\ lagging' = lagging \ {y}
    /\ UNCHANGED <<calendar, page, recently, scan, search, copies, news, flows>>

\* It ends, or it fails and leaves the totals it has not refreshed.
HistoryEnds ==
    /\ history.pc = "save"
    /\ history' = AtRest
    /\ lagging' = lagging \cup history.touched
    /\ UNCHANGED <<calendar, page, table, recently, scan, search, copies, news, flows>>

-----------------------------------------------------------------------------
(* The search for the dates of dividends in the table. *)

\* The rows without a date that are paid in the year or belong to it.
WithoutDate(year) ==
    {[key |-> k, row |-> table[k]] : k \in {k \in RowKeys :
        IsStored(k) /\ table[k].date = Unpublished /\ (k[1] = year \/ table[k].of = year)}}

SearchBegins ==
    /\ search.pc = "idle"
    /\ BeginFlow
    /\ WithoutDate(calendar) # {}
    /\ search' = [NoSearch EXCEPT !.pc = "check", !.year = calendar,
                                  !.queue = WithoutDate(calendar)]
    /\ UNCHANGED <<calendar, page, table, recently, scan, history, copies, news, lagging>>

\* The rest of the queue, or the end.
NextInQueue(rest) ==
    IF rest = {} THEN NoSearch
    ELSE [NoSearch EXCEPT !.pc = "check", !.year = search.year, !.queue = rest]

\* The query has no order, so any row may be next; the flag is that of the stock.
SearchSkips(e) ==
    /\ search.pc = "check" /\ e \in search.queue
    /\ recently
    /\ search' = NextInQueue(search.queue \ {e})
    /\ UNCHANGED <<calendar, page, table, recently, scan, history, copies, news, flows, lagging>>

\* The flag is not there, or Redis fails.
SearchChecksFlag ==
    /\ search.pc = "check"
    /\ search' = [search EXCEPT !.pc = "set"]
    /\ UNCHANGED <<calendar, page, table, recently, scan, history, copies, news, flows, lagging>>

SearchSetsFlag ==
    /\ search.pc = "set"
    /\ recently' \in {TRUE, recently}
    /\ search' = [search EXCEPT !.pc = "visit"]
    /\ UNCHANGED <<calendar, page, table, scan, history, copies, news, flows, lagging>>

\* find_changed_dividend_detail
ChangedDetail(e, row, term) == e.of = row.of /\ e.term = term /\ e.date # row.date

\* The page is visited for one row, and the row's dividend looked for in this year's group.
SearchVisits(e) ==
    /\ search.pc = "visit" /\ e \in search.queue
    /\ \E found \in {d \in PageDetails : PaidYear(d) = search.year /\ ChangedDetail(d, e.row, e.key[2])} :
        search' = [search EXCEPT !.pc = "write", !.date = found.date,
                                 !.row = e.key, !.queue = @ \ {e}]
    /\ UNCHANGED <<calendar, page, table, recently, scan, history, copies, news, flows, lagging>>

\* The visit fails, or nothing has changed.
SearchFindsNothing(e) ==
    /\ search.pc = "visit" /\ e \in search.queue
    /\ search' = NextInQueue(search.queue \ {e})
    /\ UNCHANGED <<calendar, page, table, recently, scan, history, copies, news, flows, lagging>>

\* update_dividend_date, by serial number: the dates only.  It may fail.
SearchWrites ==
    /\ search.pc = "write"
    /\ table' \in {table, [table EXCEPT ![search.row].date = search.date]}
    /\ search' = NextInQueue(search.queue)
    /\ UNCHANGED <<calendar, page, recently, scan, history, copies, news, flows, lagging>>

-----------------------------------------------------------------------------
(* The payout ratios: rows are read at the start and written back whole, hours later. *)

\* Its own flag only spaces the visits, and is left out.
PayoutBegins ==
    /\ copies = {}
    /\ BeginFlow
    /\ copies' = {[key |-> k, row |-> table[k]] : k \in {k \in RowKeys :
            IsStored(k) /\ ~table[k].rated}}
    /\ UNCHANGED <<calendar, page, table, recently, scan, history, search, news, lagging>>

\* Goodinfo has the dividend; a ratio of zero leaves the row among those without one.
PayoutSaves(c) ==
    /\ c \in copies
    /\ \E rated \in BOOLEAN : table' = [table EXCEPT ![c.key] = [c.row EXCEPT !.rated = rated]]
    /\ copies' = copies \ {c}
    /\ lagging' = IF c.row.amount = table[c.key].amount THEN lagging
                  ELSE lagging \cup {c.key[1]}
    /\ UNCHANGED <<calendar, page, recently, scan, history, search, news, flows>>

\* It has none for the rest, or a request fails.
PayoutEnds ==
    /\ copies # {}
    /\ copies' = {}
    /\ UNCHANGED <<calendar, page, table, recently, scan, history, search, news, flows, lagging>>

DBNext ==
    \/ \E d \in YearsOfDividend \X Terms, date \in PaidYears \cup {Unpublished} : AnnounceDividend(d, date)
    \/ NewYear \/ FlagExpires
    \/ ScanBegins \/ ScanChecksFlag \/ ScanSetsFlag \/ ScanFetches \/ ScanGivesUp \/ ScanEnds
    \/ \E e \in scan.todo : ScanSaves(e)
    \/ \E y \in scan.touched : ScanRefreshes(y)
    \/ HistoryFetches \/ HistoryEnds
    \/ \E e \in history.todo : HistorySaves(e)
    \/ \E y \in history.touched : HistoryRefreshes(y)
    \/ SearchBegins \/ SearchChecksFlag \/ SearchSetsFlag \/ SearchWrites
    \/ \E e \in search.queue : SearchSkips(e) \/ SearchVisits(e) \/ SearchFindsNothing(e)
    \/ PayoutBegins \/ PayoutEnds
    \/ \E c \in copies : PayoutSaves(c)

DBSpec == DBInit /\ [][DBNext]_dbVars

-----------------------------------------------------------------------------
(* Properties. *)

\* The annual row of a year with quarters is their sum, but for the years a running flow
\* still has to refresh and those whose last refresh failed or whose row another source
\* has overwritten since (upsert_annual_total_dividend after every saved quarter).
AnnualFollowsQuarters ==
    \A y \in PaidYears \ (scan.touched \cup history.touched \cup lagging) :
        QuartersOf(y) # {} => table[<<y, WholeYear>>].amount = QuarterTotal(y)

\* A search writes a date only into the row of the dividend it was announced for, although
\* it has read the row long before and saves replace rows in between; taken aside are
\* searches that go on into the next year, and two dividends that share a paid year and a
\* quarter, which the table cannot hold both (find_changed_dividend_detail,
\* update_dividend_date).
DatesGoToTheirDividend ==
    search.pc = "write" /\ search' # search /\ search.year = calendar /\ KeysAreDistinct =>
        \A k \in RowKeys : table'[k] # table[k] =>
            [of |-> table[k].of, term |-> k[2], date |-> table'[k].date] \in PageDetails

\* The three flows, in any overlap, leave totals that follow their quarters and dates
\* that belong to their dividend.
DividendRowsAgree == [][AnnualFollowsQuarters' /\ DatesGoToTheirDividend]_dbVars

\* A dividend whose date is known is stored under the year it is paid in, as the comment
\* on the estimated year promises: "the backfill then updates it to the actual dates"
\* (estimate_paid_year).  The search changes the dates of a row but not its year, and the
\* scan leaves the row alone.
PaidYearIsActual ==
    \A k \in RowKeys : table[k].date # Unpublished => table[k].date = k[1]

=============================================================================
