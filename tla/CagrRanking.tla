----------------------------- MODULE CagrRanking -----------------------------
(***************************************************************************)
(* The ranking of annualised returns as the data API serves it             *)
(* (interfaces/web/data_api/handlers.rs, PgCagrRepository in               *)
(* infra/database/repository/performance.rs): a page is the result of      *)
(* three statements, the ranking of several pages, and calculations save   *)
(* rows in between.                                                        *)
(* Abstracted: one period, measure and sort key; the filters for market,   *)
(* industry and keyword are the set of stocks that pass them.  Stocks are  *)
(* numbered in the order of their symbols.                                 *)
(***************************************************************************)
EXTENDS Integers, Sequences, FiniteSets

CONSTANTS
    Ranked,             \* the stocks with rows, as numbers
    RankDates,          \* the days, numbers from 1
    Returns,            \* the sort column of a row; 0 when it is NULL or its data have gaps
    Filters,            \* sets of stocks a request may ask for
    Limits,             \* sizes of a page
    MaxRankingSaves     \* bound of the runs on how many chunks are saved

ASSUME RankingAssumption ==
    /\ Ranked \subseteq Nat /\ IsFiniteSet(Ranked) /\ Filters \subseteq SUBSET Ranked
    /\ RankDates \subseteq Nat \ {0} /\ 1 \in RankDates
    /\ Returns \subseteq Nat /\ Limits \subseteq Nat \ {0} /\ MaxRankingSaves \in Nat

NoReturn == -1      \* the stock has no row
Incomplete == 0
NoQuery == [pc |-> "idle", date |-> 0, filter |-> {}, incomplete |-> FALSE, limit |-> 1, offset |-> 0]
NoAnswer == [total |-> 0, items |-> <<>>, universe |-> 0, counted |-> 0]

VARIABLES
    results,    \* stock_cagr: the sort column per day and stock
    newestDay,  \* MAX(date) over the rows of all periods, 0 without a row
    query,      \* the request being answered, or the last one answered
    answer,     \* the page as far as it has been read
    shown,      \* the client's: items of the pages of this ranking so far
    settled,    \* ghost: since the first page all pages were of one day and no row
                \* of it was saved
    chunksSaved \* count, for the bound

crVars == <<results, newestDay, query, answer, shown, settled, chunksSaved>>

-----------------------------------------------------------------------------
(* The statements of fetch_ranking_page. *)

RowsOf(d) == {s \in Ranked : results[d][s] # NoReturn}
Rankable(d) == {s \in Ranked : results[d][s] > Incomplete}

\* ORDER BY the column DESC, stock_symbol
Better(d, s, t) ==
    \/ results[d][s] > results[d][t]
    \/ /\ results[d][s] = results[d][t]
       /\ s < t

\* Mutant: the filter is applied before the rows are numbered.
RankWithin(d, s, filter) ==
    IF s \in Rankable(d)
    THEN 1 + Cardinality({t \in Rankable(d) \cap filter : Better(d, t, s)}) ELSE 0

\* ROW_NUMBER over the rankable rows, before any filter; 0 for NULL.
RankOf(d, s, filter) ==
    IF s \in Rankable(d) THEN 1 + Cardinality({t \in Rankable(d) : Better(d, t, s)}) ELSE 0

\* The WHERE clauses.
Matching(q) ==
    RowsOf(q.date) \cap q.filter \cap (IF q.incomplete THEN Ranked ELSE Rankable(q.date))

\* ORDER BY rankable DESC, rank NULLS LAST, stock_symbol
PrecedesInPage(d, s, t) ==
    IF s \in Rankable(d) THEN t \notin Rankable(d) \/ Better(d, s, t)
    ELSE t \notin Rankable(d) /\ s < t

Place(q, s) == Cardinality({t \in Matching(q) : PrecedesInPage(q.date, t, s)})

\* LIMIT and OFFSET: the items at the places offset, offset + 1, ...
PageOf(q) ==
    LET places == {n \in q.offset .. q.offset + q.limit - 1 : n < Cardinality(Matching(q))}
    IN [n \in 1 .. Cardinality(places) |->
            LET s == CHOOSE s \in Matching(q) : Place(q, s) = q.offset + n - 1
            IN [stock |-> s, rank |-> RankOf(q.date, s, q.filter), return |-> results[q.date][s]]]

-----------------------------------------------------------------------------
CRInit ==
    /\ results \in {r \in [RankDates -> [Ranked -> Returns \cup {NoReturn}]] :
                        \A d \in RankDates, s \in Ranked : r[d][s] = NoReturn <=> d # 1}
    /\ newestDay = 1
    /\ query = NoQuery /\ answer = NoAnswer
    /\ shown = <<>> /\ settled = TRUE /\ chunksSaved = 0

\* save_batch of a chunk of the day, an upsert of the rows in new; the chunk of another
\* period (new is empty) makes the day the newest as well.
SaveResults(d, new) ==
    /\ chunksSaved < MaxRankingSaves
    /\ chunksSaved' = chunksSaved + 1
    /\ results' = [results EXCEPT ![d] =
                        [s \in Ranked |-> IF s \in DOMAIN new THEN new[s] ELSE @[s]]]
    /\ newestDay' = IF d > newestDay THEN d ELSE newestDay
    /\ settled' = (settled /\ query.date # d)
    /\ UNCHANGED <<query, answer, shown>>

\* cagr_ranking up to resolve_cagr_date: without a date the newest one (0 stands for none).
Request(q, date) ==
    /\ query.pc \in {"idle", "answered"}
    /\ query' = [q EXCEPT !.pc = "count", !.date = IF date = 0 THEN newestDay ELSE date]
    /\ answer' = NoAnswer

\* A client asks for a ranking, from its first page.
FirstPage(filter, incomplete, limit, date) ==
    /\ query.pc = "idle"
    /\ Request([NoQuery EXCEPT !.filter = filter, !.incomplete = incomplete, !.limit = limit],
               date)
    /\ shown' = <<>> /\ settled' = TRUE
    /\ UNCHANGED <<results, newestDay, chunksSaved>>

\* It asks for the next page, of the day that the answer named or again without a day.
FollowingPage(date) ==
    /\ query.pc = "answered" /\ query.offset + query.limit < answer.total
    /\ Request([query EXCEPT !.offset = @ + query.limit], date)
    /\ settled' = (settled /\ query'.date = query.date)
    /\ UNCHANGED <<results, newestDay, shown, chunksSaved>>

\* SELECT COUNT(*)
CountMatching ==
    /\ query.pc = "count"
    /\ answer' = [answer EXCEPT !.total = Cardinality(Matching(query))]
    /\ query' = [query EXCEPT !.pc = "page"]
    /\ UNCHANGED <<results, newestDay, shown, settled, chunksSaved>>

\* The SELECT of the page.
SelectPage ==
    /\ query.pc = "page"
    /\ answer' = [answer EXCEPT !.items = PageOf(query)]
    /\ query' = [query EXCEPT !.pc = "coverage"]
    /\ UNCHANGED <<results, newestDay, shown, settled, chunksSaved>>

\* fetch_coverage, over all stocks of the day, counts the rows with complete data, also
\* those whose sort column is NULL; then the page is returned.
FetchCoverage ==
    /\ query.pc = "coverage"
    /\ \E complete \in Cardinality(Rankable(query.date)) .. Cardinality(RowsOf(query.date)) :
        answer' = [answer EXCEPT !.universe = Cardinality(RowsOf(query.date)),
                                 !.counted = complete]
    /\ query' = [query EXCEPT !.pc = "answered"]
    /\ shown' = shown \o answer.items
    /\ UNCHANGED <<results, newestDay, settled, chunksSaved>>

\* A statement fails, which is answered by status 500.
QueryFails ==
    /\ query.pc \in {"count", "page", "coverage"}
    /\ query' = NoQuery /\ answer' = NoAnswer /\ shown' = <<>> /\ settled' = TRUE
    /\ UNCHANGED <<results, newestDay, chunksSaved>>

CRNext ==
    \/ \E d \in RankDates, chunk \in SUBSET Ranked :
        \E new \in [chunk -> Returns] : SaveResults(d, new)
    \/ \E f \in Filters, i \in BOOLEAN, l \in Limits, d \in RankDates \cup {0} :
        FirstPage(f, i, l, d)
    \/ \E d \in {query.date, 0} : FollowingPage(d)
    \/ CountMatching \/ SelectPage \/ FetchCoverage \/ QueryFails

CRSpec == CRInit /\ [][CRNext]_crVars

-----------------------------------------------------------------------------
CRTypeOK ==
    /\ results \in [RankDates -> [Ranked -> Returns \cup {NoReturn}]]
    /\ newestDay \in RankDates
    /\ query.pc \in {"idle", "count", "page", "coverage", "answered"}
    /\ query.date \in RankDates \cup {0}
    /\ answer.total \in 0 .. Cardinality(Ranked)
    /\ Len(answer.items) <= query.limit
    /\ settled \in BOOLEAN /\ chunksSaved \in 0 .. MaxRankingSaves

\* A list goes by ascending rank; the items without one come last, by symbol.
InRankOrder(items) ==
    \A m, n \in DOMAIN items : m < n =>
        \/ items[m].rank > 0 /\ (items[n].rank = 0 \/ items[m].rank < items[n].rank)
        \/ items[m].rank = 0 /\ items[n].rank = 0 /\ items[m].stock < items[n].stock

\* What rows are saved, in whatever order: the items of a page come from one moment (no
\* stock twice, better ranks first, those without a rank last); and if all pages are of one
\* day of which no row was saved while the client read, they together list every stock it
\* asked for exactly once, with its place among all stocks of the day, not among those
\* asked for, and the counts fit the list (fetch_ranking_page).
PagesMakeOneRanking ==
    /\ InRankOrder(answer.items)
    /\ (settled /\ query.pc = "answered") =>
        LET returns == results[query.date]
            asked == {s \in query.filter :
                        returns[s] > Incomplete \/ (query.incomplete /\ returns[s] = Incomplete)}
            ahead(s) == {t \in Ranked :
                        returns[t] > returns[s] \/ (returns[t] = returns[s] /\ t < s)}
            stocks == {shown[n].stock : n \in DOMAIN shown}
        IN /\ InRankOrder(shown)
           /\ stocks \subseteq asked /\ Len(shown) = Cardinality(stocks)
           /\ query.offset + query.limit >= answer.total => stocks = asked
           /\ answer.total = Cardinality(asked)
           /\ \A n \in DOMAIN shown :
                LET item == shown[n]
                IN /\ item.return = returns[item.stock] /\ item.rank <= answer.counted
                   /\ item.rank = IF item.return = Incomplete THEN 0
                                  ELSE 1 + Cardinality(ahead(item.stock))
=============================================================================
