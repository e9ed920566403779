------------------------ MODULE ExDividendReminder --------------------------
(***************************************************************************)
(* The reminder of ex-dividend days: every morning the job looks up        *)
(* whether the exchange trades, finds the next trading day, and has the    *)
(* dispatcher tell which dividends are due today and on that next day.     *)
(*                                                                         *)
(* Source: app/event/taiwan_stock/ex_dividend.rs and                       *)
(* app/event/handlers/ex_dividend.rs.  One dividend is followed, through   *)
(* the days around the turn of a year; messages reach Telegram             *)
(* (HttpClient has their sending).                                         *)
(***************************************************************************)
EXTENDS Integers, FiniteSets

CONSTANTS LastDay,     \* the days 1 .. LastDay
          NewYear,     \* the first day of the second year, a holiday
          Weekends,    \* the possible sets of weekend days
          MaxLapses    \* runs that fail in a step

CalendarDays == 1 .. LastDay
Never == 0

ASSUME CalendarAssumption ==
    /\ LastDay \in Nat /\ NewYear \in 2 .. LastDay - 1
    /\ Weekends \subseteq SUBSET (CalendarDays \ {LastDay})

VARIABLES today, weekend,
          closed,      \* the holidays of the exchange
          holidays,    \* those the run has loaded
          step,        \* of the run of today
          nextTrading, \* find_next_trading_day of the run
          exDay,       \* the ex-dividend date of the row, or Never
          datedOn,     \* auxiliary: the day it was written
          lapsed,      \* auxiliary: days whose run failed in a step
          told         \* auxiliary: the messages <<day, "today" or "next">> about the dividend

run == <<holidays, step, nextTrading>>
xrVars == <<today, weekend, closed, run, exDay, datedOn, lapsed, told>>

FirstYear == 1 .. NewYear - 1
YearOf(d) == IF d < NewYear THEN FirstYear ELSE CalendarDays \ FirstYear

IsTradingDay(d, list) == d \notin weekend /\ d \notin list

\* find_next_trading_day
NextTradingDay(d, list) ==
    CHOOSE e \in d + 1 .. LastDay :
        IsTradingDay(e, list) /\ \A f \in d + 1 .. e - 1 : ~IsTradingDay(f, list)

XRInit ==
    /\ today = 1
    /\ weekend \in Weekends
    /\ \E other \in CalendarDays \ {LastDay} : closed = {NewYear, other}
    /\ holidays = {}
    /\ step = "asleep"
    /\ nextTrading = Never
    /\ exDay = Never /\ datedOn = Never
    /\ lapsed = {}
    /\ told = {}

-----------------------------------------------------------------------------
(* The job.                                                                *)

Lapse == Cardinality(lapsed) < MaxLapses /\ lapsed' = lapsed \cup {today}

\* get_holidays_set: a failed request counts as a year without holidays.
Load(year) ==
    \/ holidays' = holidays \cup (closed \cap year) /\ UNCHANGED lapsed
    \/ UNCHANGED holidays /\ Lapse

LoadThisYear ==
    /\ step = "asleep" /\ today < LastDay
    /\ Load(YearOf(today))
    /\ step' = "tomorrow"
    /\ UNCHANGED <<today, weekend, closed, nextTrading, exDay, datedOn, told>>

\* The list of the next year is loaded if tomorrow is in it.
LoadNextYear ==
    /\ step = "tomorrow"
    /\ IF YearOf(today + 1) = YearOf(today) THEN UNCHANGED <<holidays, lapsed>>
                                            ELSE Load(YearOf(today + 1))
    /\ step' = "loaded"
    /\ UNCHANGED <<today, weekend, closed, nextTrading, exDay, datedOn, told>>

StayQuiet ==
    /\ step = "loaded" /\ ~IsTradingDay(today, holidays)
    /\ step' = "over"
    /\ UNCHANGED <<today, weekend, closed, holidays, nextTrading, exDay, datedOn, lapsed, told>>

\* mutant: the forecast is for the calendar's tomorrow
TriggerForTomorrow ==
    /\ step = "loaded" /\ IsTradingDay(today, holidays)
    /\ nextTrading' = today + 1
    /\ step' = "triggered"
    /\ UNCHANGED <<today, weekend, closed, holidays, exDay, datedOn, lapsed, told>>
\* ExDividendReminderTriggered goes to the dispatcher.
Trigger ==
    /\ step = "loaded" /\ IsTradingDay(today, holidays)
    /\ nextTrading' = NextTradingDay(today, holidays)
    /\ step' = "triggered"
    /\ UNCHANGED <<today, weekend, closed, holidays, exDay, datedOn, lapsed, told>>

-----------------------------------------------------------------------------
(* The handler of the event.                                               *)

\* The dividends of today are read and told.  Without any, the records and the
\* holdings are skipped; other stocks may have one on any day.
TellToday ==
    /\ step = "triggered"
    /\ \/ exDay = today /\ told' = told \cup {<<today, "today">>} /\ step' = "holdings"
       \/ exDay # today /\ UNCHANGED told /\ step' \in {"holdings", "forecast"}
    /\ UNCHANGED <<today, weekend, closed, holidays, nextTrading, exDay, datedOn, lapsed>>

\* The records are recalculated (DividendRecords) and the holdings told.
TellHoldings ==
    /\ step = "holdings"
    /\ step' = "forecast"
    /\ UNCHANGED <<today, weekend, closed, holidays, nextTrading, exDay, datedOn, lapsed, told>>

\* The dividends of the next trading day are read and told.
TellNext ==
    /\ step = "forecast"
    /\ told' = told \cup {<<today, "next">> : d \in {exDay} \cap {nextTrading}}
    /\ step' = "over"
    /\ UNCHANGED <<today, weekend, closed, holidays, nextTrading, exDay, datedOn, lapsed>>

\* A failed query ends the handler, without what it has not told yet.
QueryLapses ==
    /\ step \in {"triggered", "holdings", "forecast"}
    /\ Lapse
    /\ step' = "over"
    /\ UNCHANGED <<today, weekend, closed, holidays, nextTrading, exDay, datedOn, told>>

-----------------------------------------------------------------------------
(* Around it.                                                              *)

\* A date appears on a dividend (DividendBackfill), at any time before its day ends.
SetDate ==
    /\ exDay = Never
    /\ \E d \in today .. LastDay : d \notin weekend \cup closed /\ exDay' = d
    /\ datedOn' = today
    /\ UNCHANGED <<today, weekend, closed, run, lapsed, told>>

NextDay ==
    /\ step = "over" /\ today < LastDay
    /\ today' = today + 1
    /\ step' = "asleep" /\ holidays' = {} /\ nextTrading' = Never
    /\ UNCHANGED <<weekend, closed, exDay, datedOn, lapsed, told>>

XRNext ==
    \/ LoadThisYear \/ LoadNextYear \/ StayQuiet \/ Trigger
    \/ TellToday \/ TellHoldings \/ TellNext \/ QueryLapses
    \/ SetDate \/ NextDay

XRSpec == XRInit /\ [][XRNext]_xrVars

-----------------------------------------------------------------------------
(* Properties.                                                             *)

Before(d) == {e \in 1 .. d - 1 : IsTradingDay(e, closed)}
DayBefore(d) == CHOOSE e \in Before(d) : \A f \in Before(d) : f <= e
Done(d) == today > d \/ (today = d /\ step = "over")

\* A dividend dated before a day is told on its day, and was told as coming on the
\* trading day before, over weekends and holidays, if the run of that day did not fail
\* in a step.  Taken aside are days of which the run did not ask the year for holidays
\* (find_next_trading_day, the early return of the handler).
DividendsAreForetold ==
    exDay # Never =>
        /\ datedOn < exDay /\ Done(exDay) /\ exDay \notin lapsed => <<exDay, "today">> \in told
        /\ Before(exDay) # {} =>
            LET eve == DayBefore(exDay)
            IN datedOn < eve /\ Done(eve) /\ eve \notin lapsed
               /\ YearOf(exDay) \in {YearOf(eve), YearOf(eve + 1)}
                 => <<eve, "next">> \in told

\* What the comment of the job promises: the day it forecasts is the next on which the
\* exchange trades.  On a last Friday of a year it is New Year's Day: tomorrow is a
\* Saturday of the old year, so the new year's holidays are not loaded.
ForecastIsTradingDay ==
    step = "forecast" /\ today \notin lapsed => IsTradingDay(nextTrading, closed)

\* Every variable has its type, and a dividend falls on a day of trading.
XRTypeOK ==
    /\ today \in CalendarDays /\ weekend \in Weekends /\ closed \subseteq CalendarDays
    /\ holidays \subseteq closed
    /\ step \in {"asleep", "tomorrow", "loaded", "triggered", "holdings", "forecast", "over"}
    /\ nextTrading = Never \/ (nextTrading \in CalendarDays /\ nextTrading > today)
    /\ exDay = Never \/ IsTradingDay(exDay, closed)
    /\ datedOn \in 0 .. exDay
    /\ lapsed \subseteq CalendarDays
    /\ told \subseteq CalendarDays \X {"today", "next"}
=============================================================================
