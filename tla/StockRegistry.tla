-------------------------- MODULE StockRegistry --------------------------
(* The stocks table, its cache SHARE.stocks and the backfills that write     *)
(* them: ISIN and ETF lists (app/backfill/isin.rs, etf.rs), foreign holdings *)
(* and net asset values, delisting by the official list and by the           *)
(* difference to the ISIN rosters (delisted_company.rs), and the weights     *)
(* (stock_weight.rs).  All but the weights go through                        *)
(* PgStockRepository::save, which writes every column of the row and then    *)
(* the cache.  The jobs run at different times of the night, but a slow one  *)
(* or a manual backfill may overlap any other.                               *)
(* Abstracted: of the identity of a stock the market stands for name, market *)
(* and industry; of the columns that have no reader here nothing is kept.    *)
EXTENDS Integers, FiniteSets

CONSTANTS
    Securities,
    Markets,        \* the markets of the ISIN lists, 1 .. n in their order
    Weights,        \* weights the exchange publishes; 0 is not in the index
    MaxDelist,      \* the largest limit of a difference: MAX_DELIST_PER_RUN, or
                    \* a higher one for a cleanup by hand
    MaxMoves,       \* bound: changes of the market of a stock outside
    MaxSaves,       \* bound: saves begun
    MaxRefreshes    \* bound: weight refreshes begun

ASSUME RegistryAssumption ==
    /\ IsFiniteSet(Markets) /\ Markets = 1 .. Cardinality(Markets) /\ Markets # {}
    /\ IsFiniteSet(Securities)
    /\ 0 \in Weights /\ Weights \subseteq Nat
    /\ {MaxDelist, MaxMoves, MaxSaves, MaxRefreshes} \subseteq Nat

Gone == 0                       \* the market of a stock that is listed nowhere (yet)
NoRow == [market |-> 0, suspended |-> FALSE, weight |-> 0]
LastMarket == Cardinality(Markets)
Holdings == LastMarket + 1            \* the backfills of holdings and asset values
Delist == LastMarket + 2              \* the delisting run
Savers == Markets \cup {Holdings, Delist}     \* Markets: the ISIN tasks
Free == [symbol |-> "none"]

VARIABLES
    listing,    \* outside: the market that lists each stock now, or Gone
    table,      \* stocks; NoRow where there is no row
    cache,      \* SHARE.stocks
    items,      \* items[m]: fetched ISIN items of m still to be processed
    saver,      \* saver[w]: the save in flight of w, or Free
    roster,     \* the rosters collected by the delisting run
    fetched,    \* rosters fetched by the delisting run; n + 1 marks stocks
    missing,    \* rows read from the table and about to be marked as delisted
    published,  \* the weights of the last refresh
    refresh,    \* symbols whose weight the refresh has still to write
    announced,  \* market of the last event of each stock, 0 for none
    gone,       \* outside: stocks that were listed once and then nowhere; the
                \* official list keeps them
    moving,     \* ghost: stocks that moved while the rosters were fetched
    torn,       \* ghost: stocks of which an outdated copy was saved
    unheard,    \* ghost: stocks whose event a restart has lost
    moves, saves, refreshes

srVars == <<listing, table, cache, items, saver, roster, fetched, missing, published,
            refresh, announced, gone, moving, torn, unheard, moves, saves, refreshes>>

Known(s) == table[s] # NoRow

(* The process has loaded the stocks at its start.                           *)
SRInit ==
    /\ listing \in [Securities -> Markets \cup {Gone}]
    /\ table \in [Securities -> {NoRow} \cup {[market |-> m, suspended |-> FALSE, weight |-> x] :
                                              m \in Markets, x \in Weights}]
    /\ \A s \in Securities : Known(s) => table[s].market = listing[s]
    /\ cache = table
    /\ items = [m \in Markets |-> {}]
    /\ saver = [w \in Savers |-> Free]
    /\ roster = {} /\ fetched = 0 /\ missing = {}
    /\ published = [s \in Securities |-> table[s].weight]
    /\ refresh = {}
    /\ announced = [s \in Securities |-> table[s].market]
    /\ gone = {} /\ moving = {} /\ torn = {} /\ unheard = {}
    /\ moves = 0 /\ saves = 0 /\ refreshes = 0

(* Outside: a stock moves to another market, is listed no more, or is listed *)
(* for the first time or again.                                              *)
Move(s, m) ==
    /\ moves < MaxMoves
    /\ m # listing[s]
    /\ listing' = [listing EXCEPT ![s] = m]
    /\ moves' = moves + 1
    /\ gone' = IF m = Gone THEN gone \cup {s} ELSE gone
    /\ moving' = IF fetched \in Markets THEN moving \cup {s} ELSE moving
    /\ UNCHANGED <<table, cache, items, saver, roster, fetched, missing, published,
                   refresh, announced, torn, unheard, saves, refreshes>>

(* process_market has fetched the list of one market.                        *)
FetchItems(m) ==
    /\ items[m] = {} /\ saver[m] = Free
    /\ \E s \in Securities : listing[s] = m /\ cache[s].market # m
    /\ items' = [items EXCEPT ![m] = {s \in Securities : listing[s] = m}]
    /\ UNCHANGED <<listing, table, cache, saver, roster, fetched, missing, published,
                   refresh, announced, gone, moving, torn, unheard, moves, saves, refreshes>>

(* find_by_symbol: the cache first, the table if it has no entry.            *)
FindBySymbol(s) == IF cache[s] # NoRow THEN cache[s] ELSE table[s]

(* A save of s has written the row, and not yet the cache.                   *)
Written(s) == \E v \in Savers : saver[v] # Free /\ saver[v].symbol = s /\ saver[v].written

(* A save begins with a copy of the stock.                                   *)
Begin(w, s, row, tells) ==
    /\ saver[w] = Free
    /\ saves < MaxSaves
    /\ saves' = saves + 1
    /\ saver' = [saver EXCEPT ![w] =
           [symbol |-> s, row |-> row, tells |-> tells, written |-> FALSE, stale |-> Written(s)]]

(* Mutant: only new stocks are announced.                                    *)
ProcessItemTellsNew(m, s) ==
    /\ s \in items[m]
    /\ items' = [items EXCEPT ![m] = @ \ {s}]
    /\ IF cache[s].market # m
       THEN Begin(m, s, [FindBySymbol(s) EXCEPT !.market = m], FindBySymbol(s) = NoRow)
       ELSE saver[m] = Free /\ UNCHANGED <<saver, saves>>
    /\ UNCHANGED <<listing, table, cache, roster, fetched, missing, published,
                   refresh, announced, gone, moving, torn, unheard, moves, refreshes>>

(* update_stock_info: a stock whose identity differs from the cached one is  *)
(* registered or changed; others are skipped.                                *)
ProcessItem(m, s) ==
    /\ s \in items[m]
    /\ items' = [items EXCEPT ![m] = @ \ {s}]
    /\ IF cache[s].market # m
       THEN Begin(m, s, [FindBySymbol(s) EXCEPT !.market = m], FindBySymbol(s).market # m)
       ELSE saver[m] = Free /\ UNCHANGED <<saver, saves>>
    /\ UNCHANGED <<listing, table, cache, roster, fetched, missing, published,
                   refresh, announced, gone, moving, torn, unheard, moves, refreshes>>

(* Foreign holdings or a net asset value have changed: the whole row is      *)
(* saved as the cache has it.                                                *)
ChangeHoldings(s) ==
    /\ FindBySymbol(s) # NoRow
    /\ Begin(Holdings, s, FindBySymbol(s), FALSE)
    /\ UNCHANGED <<listing, table, cache, items, roster, fetched, missing, published,
                   refresh, announced, gone, moving, torn, unheard, moves, refreshes>>

(* First phase of the delisting: the official list of stocks that went, also *)
(* if one of them is back.                                                   *)
DelistOfficially(s) ==
    /\ fetched = 0
    /\ s \in gone
    /\ FindBySymbol(s) # NoRow /\ ~FindBySymbol(s).suspended
    /\ Begin(Delist, s, [FindBySymbol(s) EXCEPT !.suspended = TRUE], FALSE)
    /\ UNCHANGED <<listing, table, cache, items, roster, fetched, missing, published,
                   refresh, announced, gone, moving, torn, unheard, moves, refreshes>>

(* Mutant: each roster replaces the one before.                              *)
FetchRosterAlone ==
    /\ saver[Delist] = Free
    /\ fetched < LastMarket
    /\ saves < MaxSaves
    /\ fetched' = fetched + 1
    /\ roster' = {s \in Securities : listing[s] = fetched + 1}
    /\ UNCHANGED <<listing, table, cache, items, saver, missing, published,
                   refresh, announced, gone, moving, torn, unheard, moves, saves, refreshes>>

(* Second phase: the rosters of the markets, one after the other.            *)
FetchRoster ==
    /\ saver[Delist] = Free
    /\ fetched < LastMarket
    /\ saves < MaxSaves
    /\ fetched' = fetched + 1
    /\ roster' = roster \cup {s \in Securities : listing[s] = fetched + 1}
    /\ UNCHANGED <<listing, table, cache, items, saver, missing, published,
                   refresh, announced, gone, moving, torn, unheard, moves, saves, refreshes>>

EndDelisting == roster' = {} /\ fetched' = 0

(* A roster cannot be fetched or is suspiciously small: nothing is marked.   *)
RosterFails ==
    /\ fetched \in Markets
    /\ EndDelisting
    /\ UNCHANGED <<listing, table, cache, items, saver, missing, published,
                   refresh, announced, gone, moving, torn, unheard, moves, saves, refreshes>>

(* Active stocks of the table that no roster lists.                          *)
MissingFromRosters == {s \in Securities : Known(s) /\ ~table[s].suspended /\ s \notin roster}

(* The difference; one above the limit of the run is not believed.           *)
CompareRosters(limit) ==
    /\ fetched = LastMarket
    /\ IF Cardinality(MissingFromRosters) \in 1 .. limit
       THEN /\ missing' = {[symbol |-> s, row |-> table[s], stale |-> FALSE] : s \in MissingFromRosters}
            /\ fetched' = LastMarket + 1
            /\ UNCHANGED roster
       ELSE EndDelisting /\ UNCHANGED missing
    /\ UNCHANGED <<listing, table, cache, items, saver, published, refresh, announced,
                   gone, moving, torn, unheard, moves, saves, refreshes>>

(* The next missing stock is saved, as it was read, with the mark.           *)
MarkMissing(x) ==
    /\ x \in missing
    /\ saver[Delist] = Free
    /\ missing' = missing \ {x}
    /\ saver' = [saver EXCEPT ![Delist] =
           [symbol |-> x.symbol, row |-> [x.row EXCEPT !.suspended = TRUE], tells |-> FALSE,
            written |-> FALSE, stale |-> x.stale]]
    /\ IF missing = {x} THEN EndDelisting ELSE UNCHANGED <<roster, fetched>>
    /\ UNCHANGED <<listing, table, cache, items, published, refresh, announced,
                   gone, moving, torn, unheard, moves, saves, refreshes>>

(* The upsert of save: every column, whatever has changed since the copy.    *)
WriteRow(w) ==
    LET s == saver[w].symbol
        Outdated(v) == v # w /\ saver[v] # Free /\ saver[v].symbol = s
    IN
    /\ saver[w] # Free /\ ~saver[w].written
    /\ table' = [table EXCEPT ![s] = saver[w].row]
    /\ saver' = [v \in Savers |->
           IF v = w THEN [saver[v] EXCEPT !.written = TRUE]
           ELSE IF Outdated(v) THEN [saver[v] EXCEPT !.stale = TRUE] ELSE saver[v]]
    /\ missing' = {IF x.symbol = s THEN [x EXCEPT !.stale = TRUE] ELSE x : x \in missing}
    /\ torn' = IF saver[w].stale \/ \E v \in Savers : Outdated(v) /\ saver[v].written
               THEN torn \cup {s} ELSE torn
    /\ UNCHANGED <<listing, cache, items, roster, fetched, published, refresh, announced,
                   gone, moving, unheard, moves, saves, refreshes>>

(* The upsert fails: the error is logged, nothing has changed.               *)
SaveFails(w) ==
    /\ saver[w] # Free /\ ~saver[w].written
    /\ saver' = [saver EXCEPT ![w] = Free]
    /\ UNCHANGED <<listing, table, cache, items, roster, fetched, missing, published, refresh,
                   announced, gone, moving, torn, unheard, moves, saves, refreshes>>

(* The search index is made, the cache entry replaced, and the events of a   *)
(* new or changed stock are sent.                                            *)
WriteCache(w) ==
    /\ saver[w] # Free /\ saver[w].written
    /\ cache' = [cache EXCEPT ![saver[w].symbol] = saver[w].row]
    /\ announced' = IF saver[w].tells
                    THEN [announced EXCEPT ![saver[w].symbol] = saver[w].row.market] ELSE announced
    /\ unheard' = IF saver[w].tells THEN unheard \ {saver[w].symbol} ELSE unheard
    /\ saver' = [saver EXCEPT ![w] = Free]
    /\ UNCHANGED <<listing, table, items, roster, fetched, missing, published, refresh,
                   gone, moving, torn, moves, saves, refreshes>>

(* stock_weight::execute has all weights: every row is set to zero, the      *)
(* cache is not touched.                                                     *)
ZeroWeights(weights) ==
    /\ refreshes < MaxRefreshes
    /\ refresh = {}
    /\ refreshes' = refreshes + 1
    /\ published' = weights
    /\ table' = [s \in Securities |-> IF Known(s) THEN [table[s] EXCEPT !.weight = 0] ELSE NoRow]
    /\ refresh' = {s \in Securities : weights[s] > 0}
    /\ UNCHANGED <<listing, cache, items, saver, roster, fetched, missing, announced,
                   gone, moving, torn, unheard, moves, saves>>

(* One of the concurrent updates, which may fail.                            *)
UpdateWeight(s) ==
    /\ s \in refresh
    /\ refresh' = refresh \ {s}
    /\ \/ Known(s) /\ table' = [table EXCEPT ![s].weight = published[s]]
       \/ UNCHANGED table
    /\ UNCHANGED <<listing, cache, items, saver, roster, fetched, missing, published, announced,
                   gone, moving, torn, unheard, moves, saves, refreshes>>

(* The process restarts and loads the stocks; load_required refuses an empty *)
(* table.  Events that were about to be sent are lost.                       *)
RestartRegistry ==
    /\ \E w \in Savers : saver[w] # Free
    /\ \E s \in Securities : Known(s)
    /\ cache' = table
    /\ items' = [m \in Markets |-> {}]
    /\ saver' = [w \in Savers |-> Free]
    /\ unheard' = unheard \cup
           {saver[w].symbol : w \in {v \in Savers : saver[v] # Free /\ saver[v].tells /\ saver[v].written}}
    /\ missing' = {} /\ refresh' = {}
    /\ EndDelisting
    /\ UNCHANGED <<listing, table, published, announced, gone, moving, torn, moves, saves, refreshes>>

SRNext ==
    \/ \E s \in Securities, m \in Markets \cup {Gone} : Move(s, m)
    \/ \E m \in Markets : FetchItems(m)
    \/ \E m \in Markets, s \in Securities : ProcessItem(m, s)
    \/ \E s \in Securities : ChangeHoldings(s) \/ DelistOfficially(s) \/ UpdateWeight(s)
    \/ FetchRoster \/ RosterFails
    \/ \E limit \in 0 .. MaxDelist : CompareRosters(limit)
    \/ \E x \in missing : MarkMissing(x)
    \/ \E w \in Savers : WriteRow(w) \/ SaveFails(w) \/ WriteCache(w)
    \/ \E weights \in [Securities -> Weights] : ZeroWeights(weights)
    \/ RestartRegistry

SRSpec == SRInit /\ [][SRNext]_srVars

---------------------------------------------------------------------------
Saving(s) == \E w \in Savers : saver[w] # Free /\ saver[w].symbol = s

(* Every variable has its type; a row, once there, is never lost.            *)
SRTypeOK ==
    LET Row == [market : Markets, suspended : BOOLEAN, weight : Weights] IN
    /\ listing \in [Securities -> Markets \cup {Gone}]
    /\ table \in [Securities -> Row \cup {NoRow}]
    /\ cache \in [Securities -> Row \cup {NoRow}]
    /\ items \in [Markets -> SUBSET Securities]
    /\ \A w \in Savers : saver[w] = Free \/ saver[w].row \in Row
    /\ roster \subseteq Securities /\ fetched \in 0 .. LastMarket + 1
    /\ \A x \in missing : x.row \in Row
    /\ Cardinality(missing) <= MaxDelist

(* Between saves the cache has what the table has, but for the weight, which *)
(* its refresh writes behind the cache: through failed saves and restarts,   *)
(* as long as no outdated copy of the stock has been saved.                  *)
CacheFollowsTable ==
    \A s \in Securities : ~Saving(s) /\ s \notin torn =>
        cache[s].market = table[s].market /\ cache[s].suspended = table[s].suspended

(* The last event of a stock tells the market its row has: a failed save is  *)
(* noticed again by the next run, and no change goes in silence.             *)
ChangesAreAnnounced ==
    \A s \in Securities : ~Saving(s) /\ s \notin torn \cup unheard =>
        announced[s] = table[s].market

(* What a save writes reaches the cache and the subscribers.                 *)
SavesReachEveryone == CacheFollowsTable /\ ChangesAreAnnounced

(* A stock is marked as delisted only if it went from all lists at some time,*)
(* or was listed or changed its market while the rosters were fetched.       *)
OnlyGoneAreDelisted ==
    \A s \in Securities : table[s].suspended => s \in gone \cup moving

(* The mark of a delisted stock goes only if an outdated copy is saved.      *)
DelistedStay ==
    \A s \in Securities : table[s].suspended /\ ~table'[s].suspended => s \in torn'

(* Both ways: only what is gone is marked as delisted, and the mark stays.   *)
DelistedStayGone == [][OnlyGoneAreDelisted' /\ DelistedStay]_srVars

(* The comment of the weight refresh: all weights are set to zero first, so  *)
(* that no old ones remain.  A later save of the row brings the weight back  *)
(* that the cache has kept from the start of the process.                    *)
NoOldWeightRemains ==
    \A s \in Securities : refreshes > 0 /\ refresh = {} => table[s].weight \in {0, published[s]}
=============================================================================
