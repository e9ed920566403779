-------------------------- MODULE SnapshotCache --------------------------
(* The shared cache of realtime snapshots (src/infra/cache/snapshot.rs) and  *)
(* its three writers: the HiStock task replaces the whole map by a batch,    *)
(* the Yahoo task replaces the rows of one category, the backup task of      *)
(* app/event/trace/price_tasks.rs sets the price of one symbol.  Every       *)
(* writer filters implausible prices against a reference close, which the    *)
(* closing may replace meanwhile.                                            *)
(* Abstracted: names, volumes, times.  A price is a number; the sets of      *)
(* prices the sources deliver are disjoint, so that a price tells its source.*)
EXTENDS Integers, FiniteSets

CONSTANTS
    Symbols,        \* tracked symbols
    Categories,     \* Yahoo categories
    HiPrices,       \* prices HiStock may deliver, 0 for a missing one
    YahooPrices,    \* prices Yahoo may deliver
    BackupPrices,   \* prices the site pool may deliver
    RowCloses,      \* closes a row may carry, 0 for a missing one
    RefCloses,      \* official closes, 0 for a missing one
    MaxReloads      \* bound: replacements of an official close

ASSUME SnapshotAssumption ==
    /\ HiPrices \cup YahooPrices \cup BackupPrices \cup RowCloses \cup RefCloses \subseteq Nat
    /\ \A p \in HiPrices \cup YahooPrices \cup BackupPrices :
           p > 0 => Cardinality({S \in {HiPrices, YahooPrices, BackupPrices} : p \in S}) = 1
    /\ 0 \in RowCloses /\ 0 \in RefCloses /\ MaxReloads \in Nat

NoSnapshot == [price |-> 0, close |-> 0, source |-> "none"]
NoBatch == <<>>
Idle == 0
Sources == {"histock", "yahoo", "backup"}
Rows(S, prices) == [S -> prices \X RowCloses]

VARIABLES
    running,    \* the crawlers of the session run
    snapshots,  \* stock_snapshots; NoSnapshot where the map has no entry
    closes,     \* last_trading_day_quotes: the official close, or 0
    batch,      \* the rows HiStock has fetched and not yet stored, or NoBatch
    listed,     \* category_symbols of the Yahoo task
    backup,     \* backup[s]: price about to be set, or Idle
    moved,      \* ghost: symbols whose official close is newer than their snapshot
    reloads     \* replacements of official closes

scVars == <<running, snapshots, closes, batch, listed, backup, moved, reloads>>

SCInit ==
    /\ running = TRUE
    /\ snapshots = [s \in Symbols |-> NoSnapshot]
    /\ closes \in [Symbols -> RefCloses]
    /\ batch = NoBatch
    /\ listed = [k \in Categories |-> {}]
    /\ backup = [s \in Symbols |-> Idle]
    /\ moved = {}
    /\ reloads = 0

Cached(s) == snapshots[s] # NoSnapshot
Distance(x, y) == IF x >= y THEN x - y ELSE y - x

(* The official close if there is one, else the close the caller knows.      *)
GetLastClose(s, fallback) == IF closes[s] > 0 THEN closes[s] ELSE fallback

(* A price is positive and within 10.5 percent of the reference close; with  *)
(* no reference there is nothing to compare with.                            *)
IsValidPrice(s, price, fallback) ==
    /\ price > 0
    /\ LET c == GetLastClose(s, fallback) IN
           c > 0 => Distance(price, c) * 1000 <= c * 105

(* Mutant: filtered rows are dropped, whatever the cache held.               *)
StoredOrDropped(s, row) ==
    IF IsValidPrice(s, row[1], row[2])
    THEN [price |-> row[1], close |-> row[2], source |-> "histock"]
    ELSE NoSnapshot

(* What set_stock_snapshots makes of one row of a batch: a filtered or       *)
(* missing price takes back the old snapshot, if there is one.               *)
StoredOrKept(s, row) ==
    IF IsValidPrice(s, row[1], row[2])
    THEN [price |-> row[1], close |-> row[2], source |-> "histock"]
    ELSE snapshots[s]

(* The HiStock task has fetched the ranking page, which lists some symbols.  *)
FetchBatch(S, rows) ==
    /\ running
    /\ batch = NoBatch
    /\ batch' = rows
    /\ UNCHANGED <<running, snapshots, closes, listed, backup, moved, reloads>>

(* The batch replaces the whole map.                                         *)
StoreBatch ==
    /\ batch # NoBatch
    /\ snapshots' = [s \in Symbols |->
                        IF s \in DOMAIN batch THEN StoredOrKept(s, batch[s]) ELSE NoSnapshot]
    /\ moved' = {s \in moved : snapshots'[s] = snapshots[s] /\ Cached(s)}
    /\ batch' = NoBatch
    /\ UNCHANGED <<running, closes, listed, backup, reloads>>

(* The Yahoo task applies the rows of one category: symbols the category no  *)
(* longer lists leave the map, whoever wrote them; filtered rows are skipped.*)
ApplyCategory(k, S, rows) ==
    /\ running
    /\ listed' = [listed EXCEPT ![k] = S]
    /\ snapshots' = [s \in Symbols |->
           IF s \in S
           THEN IF IsValidPrice(s, rows[s][1], rows[s][2])
                THEN [price |-> rows[s][1], close |-> rows[s][2], source |-> "yahoo"]
                ELSE snapshots[s]
           ELSE IF s \in listed[k] THEN NoSnapshot ELSE snapshots[s]]
    /\ moved' = {s \in moved : snapshots'[s] = snapshots[s] /\ Cached(s)}
    /\ UNCHANGED <<running, closes, batch, backup, reloads>>

(* The backup task has a price for s and compares it with the snapshot: only *)
(* a plausible price that is new, or comes from another source, is stored.   *)
CompareBackup(s, price) ==
    /\ running
    /\ backup[s] = Idle
    /\ IsValidPrice(s, price, snapshots[s].close)
    /\ snapshots[s].price # price \/ snapshots[s].source # "backup"
    /\ backup' = [backup EXCEPT ![s] = price]
    /\ UNCHANGED <<running, snapshots, closes, batch, listed, moved, reloads>>

(* set_stock_snapshot_price_with_source: checks again, under the lock, and   *)
(* keeps the close of the snapshot.                                          *)
StoreBackup(s) ==
    /\ backup[s] # Idle
    /\ backup' = [backup EXCEPT ![s] = Idle]
    /\ IF IsValidPrice(s, backup[s], snapshots[s].close)
       THEN /\ snapshots' = [snapshots EXCEPT ![s].price = backup[s], ![s].source = "backup"]
            /\ moved' = moved \ {s}
       ELSE UNCHANGED <<snapshots, moved>>
    /\ UNCHANGED <<running, closes, batch, listed, reloads>>

(* The closing, or a manual backfill of quotes at any time, stores a new     *)
(* close of a symbol that has one.                                           *)
ReloadClose(s, c) ==
    /\ reloads < MaxReloads
    /\ closes[s] > 0 /\ c > 0 /\ c # closes[s]
    /\ closes' = [closes EXCEPT ![s] = c]
    /\ moved' = IF Cached(s) THEN moved \cup {s} ELSE moved
    /\ reloads' = reloads + 1
    /\ UNCHANGED <<running, snapshots, batch, listed, backup>>

(* The crawlers have been stopped and joined; the map is cleared.  A price   *)
(* of the backup task may still be about to be set.                          *)
StopCrawlers ==
    /\ running
    /\ batch = NoBatch
    /\ running' = FALSE
    /\ snapshots' = [s \in Symbols |-> NoSnapshot]
    /\ listed' = [k \in Categories |-> {}]
    /\ moved' = {}
    /\ UNCHANGED <<closes, batch, backup, reloads>>

(* The next session; its stop has awaited the backup task before.            *)
StartCrawlers ==
    /\ ~running
    /\ \A s \in Symbols : backup[s] = Idle
    /\ running' = TRUE
    /\ UNCHANGED <<snapshots, closes, batch, listed, backup, moved, reloads>>

SCNext ==
    \/ \E S \in (SUBSET Symbols) \ {{}} : \E rows \in Rows(S, HiPrices) : FetchBatch(S, rows)
    \/ StoreBatch
    \/ \E k \in Categories, S \in SUBSET Symbols :
           \E rows \in Rows(S, YahooPrices) : ApplyCategory(k, S, rows)
    \/ \E s \in Symbols : \E p \in BackupPrices : CompareBackup(s, p)
    \/ \E s \in Symbols : StoreBackup(s)
    \/ \E s \in Symbols : \E c \in RefCloses : ReloadClose(s, c)
    \/ StopCrawlers
    \/ StartCrawlers

SCSpec == SCInit /\ [][SCNext]_scVars

---------------------------------------------------------------------------
(* Every variable has its type; an entry always has a price, as the readers  *)
(* that convert it rely on.                                                  *)
SCTypeOK ==
    /\ running \in BOOLEAN /\ reloads \in 0 .. MaxReloads
    /\ \A s \in Symbols : Cached(s) =>
           snapshots[s].price > 0 /\ snapshots[s].close \in RowCloses /\ snapshots[s].source \in Sources
    /\ closes \in [Symbols -> RefCloses]
    /\ batch = NoBatch \/ batch \in UNION {Rows(S, HiPrices) : S \in SUBSET Symbols}
    /\ listed \in [Categories -> SUBSET Symbols]
    /\ backup \in [Symbols -> BackupPrices \cup {Idle}]
    /\ moved \subseteq Symbols

(* Whoever wrote it last, the price in the cache is within 10.5 percent of   *)
(* the best close the program knows, unless the close is newer.              *)
SnapshotsArePlausible ==
    \A s \in Symbols : Cached(s) /\ s \notin moved =>
        LET c == IF closes[s] > 0 THEN closes[s] ELSE snapshots[s].close IN
            c > 0 => Distance(snapshots[s].price, c) * 1000 <= c * 105

(* The source of an entry has delivered its price.                           *)
SourceSuppliedPrice ==
    \A s \in Symbols : Cached(s) =>
        snapshots[s].price \in CASE snapshots[s].source = "histock" -> HiPrices
                                 [] snapshots[s].source = "yahoo" -> YahooPrices
                                 [] snapshots[s].source = "backup" -> BackupPrices

(* Whatever is in the cache, a reader may show.                              *)
SnapshotsAreGenuine == SnapshotsArePlausible /\ SourceSuppliedPrice

(* A symbol leaves the cache only when a batch or its category no longer     *)
(* lists it or the session stops: never for a filtered or missing price.     *)
LeavesOnlyUnlisted ==
    \A s \in Symbols : Cached(s) /\ snapshots'[s] = NoSnapshot =>
        \/ batch # NoBatch /\ batch' = NoBatch /\ s \notin DOMAIN batch
        \/ \E k \in Categories : s \in listed[k] \ listed'[k]
        \/ running /\ ~running'

(* What a step leaves in the cache may be shown, and what it takes out its   *)
(* source has let go.                                                        *)
SnapshotsAreKept == [][SnapshotsAreGenuine' /\ LeavesOnlyUnlisted]_scVars
=============================================================================
