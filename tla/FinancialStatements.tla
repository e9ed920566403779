------------------------- MODULE FinancialStatements -------------------------
(***************************************************************************)
(* The table financial_statement of one stock and one year, and the four   *)
(* nightly jobs that fill it: the EPS of a quarter from the exchange       *)
(* (app/event/taiwan_stock/quarter_eps.rs), its ratios from Yahoo          *)
(* (app/backfill/financial_statement/quarter.rs), the EPS of the year      *)
(* (annual_eps.rs) and the complete statement of the year (annual.rs).     *)
(* Each starts at its hour, and a slow one meets the next one.             *)
(*                                                                         *)
(* A quarter earns 1 or loses 1.  Of the columns three are kept: the EPS,  *)
(* whether the columns only Yahoo and Wespai fill are there, and whether   *)
(* ROE and ROA are not zero.                                               *)
(***************************************************************************)
EXTENDS Integers, FiniteSetsExt, Functions

CONSTANTS
    LastQuarter,     \* the quarters are 1 .. LastQuarter
    MaxNights        \* bound of the runs on how many jobs begin

ASSUME StatementsAssumption == LastQuarter \in Nat \ {0} /\ MaxNights \in Nat

QuartersOfYear == 1 .. LastQuarter
Annual == 0                          \* the row with an empty quarter
StatementKeys == QuartersOfYear \cup {Annual}
NoStatement == [stored |-> FALSE, eps |-> 0, detailed |-> FALSE, ratios |-> FALSE]

EpsAtRest == [pc |-> "rest", todo |-> {}, cumulative |-> 0, before |-> 0]
YahooAtRest == [pc |-> "rest", todo |-> {}, profile |-> 0, lacking |-> FALSE]
AnnualAtRest == [pc |-> "rest", absent |-> FALSE, lacking |-> FALSE]

VARIABLES
    own,        \* what each quarter earned
    ended,      \* quarters that have ended
    due,        \* quarters whose statutory deadline has passed
    announced,  \* quarters the company has reported
    statement,  \* the table
    visited,    \* Redis: quarters whose profile was saved within a week
    skips,      \* Redis: the flags of the stock and of the annual jobs
    eps,        \* the job for the EPS of the quarters
    yahoo,      \* the job for the ratios of the quarters
    yearly,     \* the job for the EPS of the year
    complete,   \* the job for the complete statement of the year
    nights,     \* how many jobs have begun
    lapse       \* auxiliary: the first quarter whose report was not taken in time

fsVars == <<own, ended, due, announced, statement, visited, skips, eps, yahoo, yearly,
            complete, nights, lapse>>
theYear == <<own, ended, due, announced>>
flags == <<visited, skips>>
annualJobs == <<yearly, complete>>
jobs == <<eps, yahoo, annualJobs>>

FSTypeOK ==
    /\ own \in [QuartersOfYear -> {-1, 1}]
    /\ ended \in 0 .. LastQuarter /\ due \in 0 .. ended /\ ended <= due + 1
    /\ announced \in 0 .. ended
    /\ statement \in [StatementKeys -> [stored : BOOLEAN, eps : Int, detailed : BOOLEAN,
                                     ratios : BOOLEAN]]
    /\ visited \subseteq QuartersOfYear
    /\ skips \subseteq {"profile", "annual eps", "annual"}
    /\ eps.pc \in {"rest", "select", "fetch", "earlier", "save"} /\ eps.todo \subseteq QuartersOfYear
    /\ yahoo.pc \in {"rest", "select", "visit", "save", "zeros", "ratios"}
    /\ yahoo.todo \subseteq QuartersOfYear /\ yahoo.profile \in StatementKeys
    /\ yearly.pc \in {"rest", "fetch", "save", "end"}
    /\ complete.pc \in {"rest", "save", "zeros", "ratios", "end"}
    /\ nights \in 0 .. MaxNights
    /\ lapse \in 1 .. LastQuarter + 1

-----------------------------------------------------------------------------
(* The queries. *)

\* What the exchange shows for a quarter: the sum since the start of the year.
Cumulative(q) == SumFunctionOnSet(own, 1 .. q)

\* Mutant: the quarter itself is among those subtracted.
SmallerQuartersInclusive(q) == 1 .. q

\* smaller_quarters: the quarters whose EPS is subtracted.
SmallerQuarters(q) == 1 .. (q - 1)

\* fetch_cumulative_eps: the sum of what is stored, rows that are missing left out.
CumulativeEps(qs) == SumFunctionOnSet([q \in QuartersOfYear |-> statement[q].eps], qs)

\* eps_report_quarter_targets: the last quarter due, and the next one once it has ended.
EpsTargets == {q \in QuartersOfYear : q = due \/ (q = due + 1 /\ ended > due)}

\* The order in which a job works through its targets.
NextTarget(todo) == Min(todo)

\* fetch_stocks_without_financial_statement: a loss counts as missing.
WithoutStatement(q) == ~statement[q].stored \/ statement[q].eps <= 0

\* fetch_roe_or_roa_equal_to_zero
LacksValues(k) == statement[k].stored /\ ~(statement[k].detailed /\ statement[k].ratios)

\* The year begins, or some quarters were reported in time and their EPS was stored.
FSInit ==
    /\ own \in [QuartersOfYear -> {-1, 1}]
    /\ ended \in 0 .. LastQuarter /\ due = ended /\ announced = ended
    /\ statement = [k \in StatementKeys |->
                 IF k \in 1 .. ended THEN [NoStatement EXCEPT !.stored = TRUE, !.eps = own[k]]
                 ELSE NoStatement]
    /\ visited = {} /\ skips = {}
    /\ eps = EpsAtRest /\ yahoo = YahooAtRest
    /\ yearly = AnnualAtRest /\ complete = AnnualAtRest
    /\ nights = 0
    /\ lapse = LastQuarter + 1

-----------------------------------------------------------------------------
(* The year. *)

\* A quarter ends, or the deadline of the one that ended passes.  A quarter that is not
\* in the table by then is a target no more.
NextPeriod ==
    \/ /\ ended = due /\ ended < LastQuarter
       /\ ended' = ended + 1
       /\ UNCHANGED <<own, due, announced, statement, flags, jobs, nights, lapse>>
    \/ /\ ended > due
       /\ due' = due + 1
       /\ lapse' = Min({lapse} \cup {q \in {due} \cap QuartersOfYear : ~statement[q].stored})
       /\ UNCHANGED <<own, ended, announced, statement, flags, jobs, nights>>

\* The company reports a quarter, before the deadline or after it.
Report ==
    /\ announced < ended
    /\ announced' = announced + 1
    /\ UNCHANGED <<own, ended, due, statement, flags, jobs, nights, lapse>>

FlagsExpire ==
    /\ visited # {} \/ skips # {}
    /\ visited' \in SUBSET visited /\ skips' \in SUBSET skips
    /\ UNCHANGED <<theYear, statement, jobs, nights, lapse>>

BeginJob == nights < MaxNights /\ nights' = nights + 1

-----------------------------------------------------------------------------
(* The EPS of the quarters. *)

EpsBegins ==
    /\ eps.pc = "rest" /\ EpsTargets # {} /\ BeginJob
    /\ eps' = [EpsAtRest EXCEPT !.pc = "select", !.todo = EpsTargets]
    /\ UNCHANGED <<theYear, statement, flags, yahoo, annualJobs, lapse>>

EpsGoesOn(q) ==
    eps' = IF eps.todo = {q} THEN EpsAtRest
           ELSE [EpsAtRest EXCEPT !.pc = "select", !.todo = eps.todo \ {q}]

EpsSelects ==
    /\ eps.pc = "select"
    /\ LET q == NextTarget(eps.todo) IN
       IF WithoutStatement(q) THEN eps' = [eps EXCEPT !.pc = "fetch"] ELSE EpsGoesOn(q)
    /\ UNCHANGED <<theYear, statement, flags, yahoo, annualJobs, nights, lapse>>

\* A failure, of the query too, is logged and the next target follows, as it does when
\* the stock is not listed; a figure that cannot be parsed is taken as zero.
EpsFetches(figure) ==
    /\ eps.pc = "fetch"
    /\ LET q == NextTarget(eps.todo) IN
       IF figure = "none" \/ q > announced
       THEN /\ EpsGoesOn(q)
            /\ lapse' = IF q <= due \/ q <= announced THEN Min({lapse, q}) ELSE lapse
       ELSE /\ eps' = [eps EXCEPT !.cumulative = IF figure = "sum" THEN Cumulative(q) ELSE 0,
                                  !.pc = IF q = 1 THEN "save" ELSE "earlier"]
            /\ lapse' = IF figure = "sum" THEN lapse ELSE Min({lapse, q})
    /\ UNCHANGED <<theYear, statement, flags, yahoo, annualJobs, nights>>

\* A failure leaves the stocks of the market that follow as they are.
EpsReadsEarlier(read) ==
    /\ eps.pc = "earlier"
    /\ LET q == NextTarget(eps.todo) IN
       IF read
       THEN /\ eps' = [eps EXCEPT !.before = CumulativeEps(SmallerQuarters(q)), !.pc = "save"]
            /\ UNCHANGED lapse
       ELSE EpsGoesOn(q) /\ lapse' = Min({lapse, q})
    /\ UNCHANGED <<theYear, statement, flags, yahoo, annualJobs, nights>>

\* upsert_earnings_per_share: of a row that is there only the EPS changes.
EpsUpsert(row, value) == [row EXCEPT !.stored = TRUE, !.eps = value]

\* A save that fails is logged.
EpsSaves(saved) ==
    /\ eps.pc = "save"
    /\ LET q == NextTarget(eps.todo) IN
       /\ statement' =
            IF saved THEN [statement EXCEPT ![q] = EpsUpsert(@, eps.cumulative - eps.before)]
            ELSE statement
       /\ lapse' = IF saved THEN lapse ELSE Min({lapse, q})
       /\ EpsGoesOn(q)
    /\ UNCHANGED <<theYear, flags, yahoo, annualJobs, nights>>

-----------------------------------------------------------------------------
(* The ratios of the quarters. *)

\* The next quarter is a target only in the last thirty days before its deadline.
YahooBegins(targets) ==
    /\ yahoo.pc = "rest" /\ targets # {} /\ BeginJob
    /\ targets \in {EpsTargets, EpsTargets \cap {due}}
    /\ yahoo' = [YahooAtRest EXCEPT !.pc = "select", !.todo = targets]
    /\ UNCHANGED <<theYear, statement, flags, eps, annualJobs, lapse>>

YahooSelects ==
    /\ yahoo.pc = "select"
    /\ LET q == NextTarget(yahoo.todo)
           visit == LacksValues(q) /\ q \notin visited /\ "profile" \notin skips
       IN yahoo' = [yahoo EXCEPT !.pc = IF visit THEN "visit" ELSE "zeros"]
    /\ UNCHANGED <<theYear, statement, flags, eps, annualJobs, nights, lapse>>

\* Yahoo shows the quarter it knows last, be it the target or not, and even one of the
\* year before (here 0).
YahooVisits(shown) ==
    /\ yahoo.pc = "visit" /\ shown \in {announced - 1, announced}
    /\ yahoo' = [yahoo EXCEPT !.profile = shown, !.pc = "save"]
    /\ UNCHANGED <<theYear, statement, flags, eps, annualJobs, nights, lapse>>

\* The visit fails, or the page has no data, which is remembered for a day.
YahooFindsNothing(remembered) ==
    /\ yahoo.pc = "visit"
    /\ yahoo' = [yahoo EXCEPT !.pc = "zeros"]
    /\ skips' = IF remembered THEN skips \cup {"profile"} ELSE skips
    /\ UNCHANGED <<theYear, statement, visited, eps, annualJobs, nights, lapse>>

\* batch_upsert writes every column.
FullRow(value, ratios) ==
    [stored |-> TRUE, eps |-> value, detailed |-> TRUE, ratios |-> ratios]

\* batch_save_financial_statements goes to the quarter Yahoo named; the flag goes to the
\* target, and may get lost.
YahooSaves(ratios, flagged) ==
    /\ yahoo.pc = "save"
    /\ LET r == yahoo.profile IN
       statement' = IF r = 0 THEN statement
                    ELSE [statement EXCEPT ![r] = FullRow(own[r], ratios)]
    /\ visited' = IF flagged THEN visited \cup {NextTarget(yahoo.todo)} ELSE visited
    /\ yahoo' = [yahoo EXCEPT !.profile = 0, !.pc = "zeros"]
    /\ UNCHANGED <<theYear, skips, eps, annualJobs, nights, lapse>>

\* A save that fails ends the job.
YahooFails ==
    /\ yahoo.pc \in {"select", "save"}
    /\ yahoo' = YahooAtRest
    /\ UNCHANGED <<theYear, statement, flags, eps, annualJobs, nights, lapse>>

\* update_roe_and_roa_for_zero_values: the rows are read once for all stocks ...
YahooReadsZeros ==
    /\ yahoo.pc = "zeros"
    /\ yahoo' = [yahoo EXCEPT !.lacking = LacksValues(NextTarget(yahoo.todo)),
                              !.pc = "ratios"]
    /\ UNCHANGED <<theYear, statement, flags, eps, annualJobs, nights, lapse>>

\* ... and two columns are written later, by what NStock says, zero or not.
RatiosWritten(k, lacking, answer) ==
    statement' = IF lacking /\ answer # "none"
                 THEN [statement EXCEPT ![k].ratios = (answer = "values")]
                 ELSE statement

YahooWritesRatios(answer) ==
    /\ yahoo.pc = "ratios"
    /\ LET q == NextTarget(yahoo.todo) IN
       /\ RatiosWritten(q, yahoo.lacking, answer)
       /\ yahoo' = IF yahoo.todo = {q} THEN YahooAtRest
                   ELSE [YahooAtRest EXCEPT !.pc = "select", !.todo = yahoo.todo \ {q}]
    /\ UNCHANGED <<theYear, flags, eps, annualJobs, nights, lapse>>

-----------------------------------------------------------------------------
(* The statements of the year, from the New Year on. *)

\* fetch_without_annual: a year with some quarter and without a statement of its own.
YearlyBegins ==
    /\ yearly.pc = "rest" /\ ended = LastQuarter /\ BeginJob
    /\ ~statement[Annual].stored /\ "annual eps" \notin skips
    /\ \E q \in QuartersOfYear : statement[q].stored
    /\ yearly' = [yearly EXCEPT !.pc = "fetch"]
    /\ UNCHANGED <<theYear, statement, flags, eps, yahoo, complete, lapse>>

\* The first of three sites that answers with something, or none does.
YearlyFetches(found) ==
    /\ yearly.pc = "fetch" /\ (found => announced = LastQuarter)
    /\ yearly' = [yearly EXCEPT !.pc = IF found THEN "save" ELSE "end"]
    /\ UNCHANGED <<theYear, statement, flags, eps, yahoo, complete, nights, lapse>>

\* Mutant: the row is replaced, as save_financial_statement would.
InsertAnnualOver(row, bare) == bare

\* upsert_annual_eps: on conflict do nothing.
InsertAnnual(row, bare) == IF row.stored THEN row ELSE bare

YearlySaves(saved) ==
    /\ yearly.pc = "save"
    /\ LET bare == [NoStatement EXCEPT !.stored = TRUE, !.eps = Cumulative(LastQuarter)] IN
       statement' = IF saved THEN [statement EXCEPT ![Annual] = InsertAnnual(@, bare)]
                    ELSE statement
    /\ yearly' = [yearly EXCEPT !.pc = "end"]
    /\ UNCHANGED <<theYear, flags, eps, yahoo, complete, nights, lapse>>

\* The flag is set whatever has happened, unless Redis fails.
YearlyEnds(flagged) ==
    /\ yearly.pc = "end"
    /\ skips' = IF flagged THEN skips \cup {"annual eps"} ELSE skips
    /\ yearly' = AnnualAtRest
    /\ UNCHANGED <<theYear, statement, visited, eps, yahoo, complete, nights, lapse>>

\* Wespai lists the year; what is in the table already is left out.
CompleteBegins ==
    /\ complete.pc = "rest" /\ announced = LastQuarter /\ BeginJob
    /\ "annual" \notin skips
    /\ complete' = [complete EXCEPT !.absent = ~statement[Annual].stored, !.pc = "save"]
    /\ UNCHANGED <<theYear, statement, flags, eps, yahoo, yearly, lapse>>

\* A failure of the batch is logged.
CompleteSaves(saved, ratios) ==
    /\ complete.pc = "save"
    /\ statement' =
         IF complete.absent /\ saved
         THEN [statement EXCEPT ![Annual] = FullRow(Cumulative(LastQuarter), ratios)]
         ELSE statement
    /\ complete' = [complete EXCEPT !.pc = "zeros"]
    /\ UNCHANGED <<theYear, flags, eps, yahoo, yearly, nights, lapse>>

CompleteReadsZeros ==
    /\ complete.pc = "zeros"
    /\ complete' = [complete EXCEPT !.lacking = LacksValues(Annual), !.pc = "ratios"]
    /\ UNCHANGED <<theYear, statement, flags, eps, yahoo, yearly, nights, lapse>>

CompleteWritesRatios(answer) ==
    /\ complete.pc = "ratios"
    /\ RatiosWritten(Annual, complete.lacking, answer)
    /\ complete' = [complete EXCEPT !.pc = "end"]
    /\ UNCHANGED <<theYear, flags, eps, yahoo, yearly, nights, lapse>>

\* A batch that failed leaves the flag too; not so a failure of the query for the ratios.
CompleteEnds(flagged) ==
    /\ complete.pc \in {"zeros", "end"} /\ (complete.pc = "zeros" => ~flagged)
    /\ skips' = IF flagged THEN skips \cup {"annual"} ELSE skips
    /\ complete' = AnnualAtRest
    /\ UNCHANGED <<theYear, statement, visited, eps, yahoo, yearly, nights, lapse>>

-----------------------------------------------------------------------------
EpsStep ==
    \/ EpsBegins \/ EpsSelects
    \/ \E read \in BOOLEAN : EpsReadsEarlier(read)
    \/ \E figure \in {"sum", "unreadable", "none"} : EpsFetches(figure)
    \/ \E saved \in BOOLEAN : EpsSaves(saved)

YahooStep ==
    \/ \E targets \in SUBSET QuartersOfYear : YahooBegins(targets)
    \/ YahooSelects \/ YahooReadsZeros \/ YahooFails
    \/ \E shown \in 0 .. LastQuarter : YahooVisits(shown)
    \/ \E remembered \in BOOLEAN : YahooFindsNothing(remembered)
    \/ \E ratios, flagged \in BOOLEAN : YahooSaves(ratios, flagged)
    \/ \E answer \in {"values", "zero", "none"} : YahooWritesRatios(answer)

AnnualStep ==
    \/ YearlyBegins \/ CompleteBegins \/ CompleteReadsZeros
    \/ \E flagged \in BOOLEAN : YearlyEnds(flagged) \/ CompleteEnds(flagged)
    \/ \E found \in BOOLEAN : YearlyFetches(found)
    \/ \E saved \in BOOLEAN : YearlySaves(saved)
    \/ \E saved, ratios \in BOOLEAN : CompleteSaves(saved, ratios)
    \/ \E answer \in {"values", "zero", "none"} : CompleteWritesRatios(answer)

FSNext == NextPeriod \/ Report \/ FlagsExpire \/ EpsStep \/ YahooStep \/ AnnualStep

FSSpec == FSInit /\ [][FSNext]_fsVars

-----------------------------------------------------------------------------
(* Properties. *)

\* A stored EPS that is not the quarter's own has a lapse behind it: a fetch or a save
\* that failed, a figure that could not be read, or a quarter that was not listed or not
\* in the table after its deadline, of this quarter or of an earlier one.  The
\* order of the targets, the nightly repetition for losses and the job at Yahoo, which
\* runs at the same time, add no error (process_eps of quarter_eps.rs).
EpsErrorsFollowLapses ==
    \A q \in QuartersOfYear :
        statement[q].stored /\ statement[q].eps # own[q] => lapse <= q

\* A statement that has its details keeps them, whichever job writes next; only ROE and
\* ROA may be set to zero again (the conflict clauses of financial_statement.rs).
StatementsKeepDetail ==
    [][\A k \in StatementKeys : statement[k].detailed => statement'[k].detailed]_statement
=============================================================================
