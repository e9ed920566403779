--------------------------- MODULE DividendRecords ---------------------------
(***************************************************************************)
(* The dividends one holding has received (app/calculation/                *)
(* dividend_record.rs, infra/database/repository/portfolio.rs): a summary  *)
(* per year, an item per dividend and year, and the sums on the holding.   *)
(* The ex-dividend event recalculates a year, jobs and the historical      *)
(* backfill all years, at the same time; sources correct dividends in      *)
(* between.  Holdings do not share rows.                                   *)
(***************************************************************************)
EXTENDS Integers, FiniteSetsExt, Functions

CONSTANTS
    Years, Dividends,   \* those of the stock of the holding
    Recalcs,            \* recalculations that may run at once
    MaxPay,             \* a dividend pays 0 (none, or bought too late) .. MaxPay
    MaxCorrections      \* bound of the runs on the corrections of dividends

ASSUME DividendAssumption ==
    /\ Years \subseteq Nat /\ Years # {} /\ IsFiniteSet(Years)
    /\ IsFiniteSet(Dividends)
    /\ MaxPay \in Nat /\ MaxCorrections \in Nat

Nothing == [d \in Dividends |-> 0]
NoTask == [pc |-> "idle", todo |-> {}, done |-> {}, year |-> 0, paid |-> Nothing,
           doomed |-> {}, sum |-> 0, clean |-> FALSE]

VARIABLES
    dividend,     \* table dividend: year and payout of each dividend
    summary,      \* dividend_record_detail: total per year, 0 for no row
    item,         \* dividend_record_detail_more: amount per year and dividend
    cumulated,    \* stock_ownership_details.cumulate_dividends_*
    recalc,       \* what each recalculation is doing
    corrections,  \* corrections so far
    overlapped,   \* auxiliary: two transactions of the holding have been open at once
    failed        \* auxiliary: a recalculation has failed half-way

drVars == <<dividend, summary, item, cumulated, recalc, corrections, overlapped, failed>>

DRTypeOK ==
    /\ dividend \in [Dividends -> [year : Years, pay : 0 .. MaxPay]]
    /\ summary \in [Years -> Nat] /\ item \in [Years -> [Dividends -> 0 .. MaxPay]]
    /\ cumulated \in Nat /\ corrections \in 0 .. MaxCorrections
    /\ overlapped \in BOOLEAN /\ failed \in BOOLEAN
    /\ \A t \in Recalcs :
        /\ recalc[t].pc \in {"idle", "read", "begin", "commit", "beginDelete",
                             "commitDelete", "accumulate", "update"}
        /\ recalc[t].pc # "idle" => recalc[t].year \in Years \ recalc[t].todo
        /\ recalc[t].doomed \subseteq Years \X Dividends

Total(f) == SumFunction(f)
RecordsTotal == Total(summary)

\* calculate_payout of the dividends that the table has for a year.
Payout(year) ==
    [d \in Dividends |-> IF dividend[d].year = year THEN dividend[d].pay ELSE 0]

Saving(t) == recalc[t].pc = "commit"
Open(t) == recalc[t].pc \in {"commit", "commitDelete"}

-----------------------------------------------------------------------------
DRInit ==
    /\ dividend \in [Dividends -> [year : Years, pay : 0 .. MaxPay]]
    /\ summary = [y \in Years |-> 0] /\ item = [y \in Years |-> Nothing]
    /\ cumulated = 0
    /\ recalc = [t \in Recalcs |-> NoTask]
    /\ corrections = 0
    /\ overlapped = FALSE /\ failed = FALSE

\* A backfill changes what the table dividend says of one dividend.
Correct(d, year, pay) ==
    /\ corrections < MaxCorrections
    /\ [year |-> year, pay |-> pay] # dividend[d]
    /\ corrections' = corrections + 1
    /\ dividend' = [dividend EXCEPT ![d] = [year |-> year, pay |-> pay]]
    /\ recalc' = [t \in Recalcs |-> [recalc[t] EXCEPT !.clean = FALSE]]
    /\ UNCHANGED <<summary, item, cumulated, overlapped, failed>>

\* execute takes one year, backfill_received_dividend_records_for_stock every year of
\* which the table has a dividend, the latest first.
Begin(t, years) ==
    /\ recalc[t].pc = "idle"
    /\ years # {}
    /\ recalc' = [r \in Recalcs |->
            IF r = t
            THEN [NoTask EXCEPT !.pc = "read", !.year = Max(years),
                                !.todo = years \ {Max(years)},
                                !.clean = \A o \in Recalcs : recalc[o].pc = "idle"]
            ELSE [recalc[r] EXCEPT !.clean = FALSE]]
    /\ UNCHANGED <<dividend, summary, item, cumulated, corrections, overlapped, failed>>

\* calculate_dividend reads the dividends of the year; a year that pays nothing loses
\* its records.
ReadDividends(t) ==
    /\ recalc[t].pc = "read"
    /\ LET paid == Payout(recalc[t].year)
       IN recalc' = [recalc EXCEPT ![t].paid = paid,
                        ![t].pc = IF Total(paid) = 0 THEN "beginDelete" ELSE "begin"]
    /\ UNCHANGED <<dividend, summary, item, cumulated, corrections, overlapped, failed>>

\* The items of the same dividends in other years that a save deletes: those the
\* transaction sees, which are the committed ones.
ItemsElsewhere(year, paid) ==
    {yd \in Years \X Dividends : yd[1] # year /\ paid[yd[2]] # 0 /\ item[yd[1]][yd[2]] # 0}

\* save_received_dividend up to its last statement: it holds the row of its year.
BeginSave(t) ==
    /\ recalc[t].pc = "begin"
    /\ \A o \in Recalcs : Saving(o) => recalc[o].year # recalc[t].year
    /\ recalc' = [recalc EXCEPT ![t].pc = "commit",
                    ![t].doomed = ItemsElsewhere(recalc[t].year, recalc[t].paid)]
    /\ overlapped' = (overlapped \/ \E o \in Recalcs : Open(o))
    /\ UNCHANGED <<dividend, summary, item, cumulated, corrections, failed>>

\* Mutant: items no longer paid stay.
ItemsOnlyUpserted(old, paid) == [d \in Dividends |-> IF paid[d] # 0 THEN paid[d] ELSE old[d]]

\* The items of the year after the upserts and the deletion of those no longer paid.
ItemsSaved(old, paid) == paid

CommitSave(t) ==
    /\ Saving(t)
    /\ LET year == recalc[t].year
       IN /\ summary' = [summary EXCEPT ![year] = Total(recalc[t].paid)]
          /\ item' = [y \in Years |->
                        IF y = year THEN ItemsSaved(item[y], recalc[t].paid)
                        ELSE IF summary[y] = 0 THEN Nothing      \* orphans
                        ELSE [d \in Dividends |->
                                IF <<y, d>> \in recalc[t].doomed THEN 0 ELSE item[y][d]]]
    /\ recalc' = [recalc EXCEPT ![t].pc = "accumulate", ![t].doomed = {}, ![t].paid = Nothing]
    /\ UNCHANGED <<dividend, cumulated, corrections, overlapped, failed>>

\* delete_received_dividend: the items it sees, then the summary, for which it waits
\* while a save holds the row.
BeginDelete(t) ==
    /\ recalc[t].pc = "beginDelete"
    /\ LET y == recalc[t].year
       IN recalc' = [recalc EXCEPT ![t].pc = "commitDelete",
            ![t].doomed = IF summary[y] = 0 THEN {}
                          ELSE {<<y, d>> : d \in {d \in Dividends : item[y][d] # 0}}]
    /\ overlapped' = (overlapped \/ \E o \in Recalcs : Open(o))
    /\ UNCHANGED <<dividend, summary, item, cumulated, corrections, failed>>

\* Mutant: the year is not taken off the list.
NextYearAgain(task) ==
    IF task.todo = {} THEN NoTask
    ELSE [task EXCEPT !.pc = "read", !.year = Max(task.todo), !.done = @ \cup {task.year},
                      !.sum = 0, !.doomed = {}, !.paid = Nothing]

\* The next year of a recalculation, or its end.
NextYear(task) ==
    IF task.todo = {} THEN NoTask
    ELSE [task EXCEPT !.pc = "read", !.year = Max(task.todo), !.done = @ \cup {task.year},
                      !.todo = @ \ {Max(@)}, !.sum = 0, !.doomed = {}, !.paid = Nothing]

\* The year ends with the deletion: the sums are not touched.
CommitDelete(t) ==
    /\ recalc[t].pc = "commitDelete"
    /\ LET y == recalc[t].year
       IN /\ summary[y] # 0 => \A o \in Recalcs : Saving(o) => recalc[o].year # y
          /\ summary' = [summary EXCEPT ![y] = 0]
          /\ item' = [item EXCEPT ![y] =
                        [d \in Dividends |-> IF <<y, d>> \in recalc[t].doomed THEN 0 ELSE @[d]]]
    /\ recalc' = [recalc EXCEPT ![t] = NextYear(@)]
    /\ UNCHANGED <<dividend, cumulated, corrections, overlapped, failed>>

\* calculate_accumulated_dividends
Accumulate(t) ==
    /\ recalc[t].pc = "accumulate"
    /\ recalc' = [recalc EXCEPT ![t].pc = "update", ![t].sum = RecordsTotal]
    /\ UNCHANGED <<dividend, summary, item, cumulated, corrections, overlapped, failed>>

\* update_holding_dividends
UpdateHolding(t) ==
    /\ recalc[t].pc = "update"
    /\ cumulated' = recalc[t].sum
    /\ recalc' = [recalc EXCEPT ![t] = NextYear(@)]
    /\ UNCHANGED <<dividend, summary, item, corrections, overlapped, failed>>

\* A query fails: an open transaction is rolled back, the remaining years are left.
FailRecalc(t) ==
    /\ recalc[t].pc # "idle"
    /\ recalc' = [recalc EXCEPT ![t] = NoTask]
    /\ failed' = TRUE
    /\ UNCHANGED <<dividend, summary, item, cumulated, corrections, overlapped>>

DRStep(t) ==
    \/ \E y \in Years : Begin(t, {y})
    \/ Begin(t, {dividend[d].year : d \in Dividends})
    \/ ReadDividends(t) \/ BeginSave(t) \/ CommitSave(t) \/ BeginDelete(t)
    \/ CommitDelete(t) \/ Accumulate(t) \/ UpdateHolding(t) \/ FailRecalc(t)

DRNext ==
    \/ \E d \in Dividends, y \in Years, pay \in 0 .. MaxPay : Correct(d, y, pay)
    \/ \E t \in Recalcs : DRStep(t)

DRSpec == DRInit /\ [][DRNext]_drVars

-----------------------------------------------------------------------------
(* Properties. *)

\* As long as no two transactions were open at once, a dividend is counted among the
\* items of one year only, although sources move dividends between years, and a year
\* without a summary has no items, whatever fails.
OneSummaryEach ==
    ~overlapped => \A d \in Dividends, y \in Years : item[y][d] # 0 =>
        summary[y] # 0 /\ \A z \in Years \ {y} : item[z][d] = 0

\* When an undisturbed recalculation writes the sums of the holding, the years it has
\* been through hold exactly what the dividends pay, in items and in summary, and the
\* sums are those of the summaries.
UndisturbedIsExact ==
    \A t \in Recalcs : recalc[t].pc = "update" /\ recalc[t].clean =>
        /\ recalc[t].sum = RecordsTotal
        /\ \A y \in recalc[t].done \cup {recalc[t].year} :
            /\ \A d \in Dividends :
                item[y][d] = IF dividend[d].year = y THEN dividend[d].pay ELSE 0
            /\ summary[y] = Total(item[y])

\* The records of a holding are exact: no dividend is counted in two years, and a
\* recalculation that ends has left nothing stale behind (the deletions of
\* save_received_dividend and delete_received_dividend).
RecordsAreExact == OneSummaryEach /\ UndisturbedIsExact
=============================================================================
