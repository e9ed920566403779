----------------------------- MODULE MarketIndex ----------------------------
(***************************************************************************)
(* The index of the market: the closing event fetches the days of the      *)
(* month, saves those that the cache does not hold and announces them; a   *)
(* backfill saves one date silently.                                       *)
(*                                                                         *)
(* Source: app/backfill/taiwan_stock_index.rs, save in                     *)
(* infra/database/repository/market_index.rs, the indices of               *)
(* infra/cache/loader.rs.  The cache is loaded with 30 rows, which a month *)
(* does not exceed; of an index only its version is kept.                  *)
(***************************************************************************)
EXTENDS Integers, FiniteSets, FiniteSetsExt

CONSTANTS IndexDays,    \* the days of a month
          MaxRevisions, \* figures the exchange corrects
          MaxRestarts     \* restarts of the process

ASSUME IndexAssumption ==
    /\ IndexDays \subseteq Nat /\ IsFiniteSet(IndexDays)
    /\ MaxRevisions \in Nat /\ MaxRestarts \in Nat

VARIABLES figures,   \* day -> what the exchange publishes, 0 before the day
          indexRows, \* day -> the row of the table, 0 without one
          indices,   \* day -> SHARE.indices, 0 without an entry
          update,    \* the run of the closing event
          fill,      \* the backfill of a date
          news,      \* auxiliary: day -> how often it was announced
          excused,   \* auxiliary: days saved by a backfill, by a run that the process left
                     \* before it announced them, or without an answer
          starts,    \* auxiliary: the restarts
          degraded   \* auxiliary: those that could not load the indices

miHistory == <<news, excused, starts, degraded>>
miVars == <<figures, indexRows, indices, update, fill, miHistory>>

NoDays == [d \in IndexDays |-> 0]
Resting == [at |-> "idle", data |-> NoDays, left |-> {}]
NoFill == [at |-> "idle", day |-> 0, figure |-> 0]

MIInit ==
    /\ figures = NoDays /\ indexRows = NoDays /\ indices = NoDays
    /\ update = Resting /\ fill = NoFill
    /\ news = NoDays /\ excused = {}
    /\ starts = 0 /\ degraded = 0

Current == Min(update.left)

\* INSERT ... ON CONFLICT: of a row that is there only the time is updated.
SavedIndex(d, figure) ==
    [indexRows EXCEPT ![d] = IF indexRows[d] = 0 THEN figure ELSE indexRows[d]]

-----------------------------------------------------------------------------
(* The closing event: execute.                                             *)

FetchMonth ==
    /\ update.at = "idle"
    /\ update' = [at |-> "items", data |-> figures, left |-> {d \in IndexDays : figures[d] # 0}]
    /\ UNCHANGED <<figures, indexRows, indices, fill, miHistory>>

SkipCached ==
    /\ update.at = "items" /\ update.left # {}
    /\ indices[Current] # 0
    /\ update' = [update EXCEPT !.left = @ \ {Current}]
    /\ UNCHANGED <<figures, indexRows, indices, fill, miHistory>>

BeginIndex ==
    /\ update.at = "items" /\ update.left # {}
    /\ indices[Current] = 0
    /\ update' = [update EXCEPT !.at = "save"]
    /\ UNCHANGED <<figures, indexRows, indices, fill, miHistory>>

SaveIndex ==
    /\ update.at = "save"
    /\ indexRows' = SavedIndex(Current, update.data[Current])
    /\ update' = [update EXCEPT !.at = "tell"]
    /\ UNCHANGED <<figures, indices, fill, miHistory>>

\* A failure is logged; the next closing tries again.  The row may be there nevertheless,
\* when only the answer of the database was lost.
SaveIndexFails ==
    /\ update.at = "save"
    /\ \/ UNCHANGED <<indexRows, excused>>
       \/ /\ indexRows' = SavedIndex(Current, update.data[Current])
          /\ excused' = excused \cup {Current}
    /\ update' = [update EXCEPT !.at = "items", !.left = @ \ {Current}]
    /\ UNCHANGED <<figures, indices, fill, news, starts, degraded>>

\* StockIndexUpdated goes to the dispatcher.
AnnounceIndex ==
    /\ update.at = "tell"
    /\ news' = [news EXCEPT ![Current] = @ + 1]
    /\ update' = [update EXCEPT !.at = "cache"]
    /\ UNCHANGED <<figures, indexRows, indices, fill, excused, starts, degraded>>

\* mutant: the cache is left to the next start
CacheIndexLater ==
    /\ update.at = "cache"
    /\ update' = [update EXCEPT !.at = "items", !.left = @ \ {Current}]
    /\ UNCHANGED <<figures, indexRows, indices, fill, miHistory>>
\* set_stock_index
CacheIndex ==
    /\ update.at = "cache"
    /\ indices' = [indices EXCEPT ![Current] = update.data[Current]]
    /\ update' = [update EXCEPT !.at = "items", !.left = @ \ {Current}]
    /\ UNCHANGED <<figures, indexRows, fill, miHistory>>

EndUpdate ==
    /\ update.at = "items" /\ update.left = {}
    /\ update' = Resting
    /\ UNCHANGED <<figures, indexRows, indices, fill, miHistory>>

-----------------------------------------------------------------------------
(* The backfill: execute_for_date.                                         *)

FetchDate ==
    /\ fill.at = "idle"
    /\ \E d \in IndexDays :
        figures[d] # 0 /\ fill' = [at |-> "save", day |-> d, figure |-> figures[d]]
    /\ UNCHANGED <<figures, indexRows, indices, update, miHistory>>

\* The date is saved, with or without an answer, or not.
SaveDate ==
    /\ fill.at = "save"
    /\ \/ /\ indexRows' = SavedIndex(fill.day, fill.figure)
          /\ fill' \in {[fill EXCEPT !.at = "cache"], NoFill}
          /\ excused' = excused \cup {fill.day}
       \/ fill' = NoFill /\ UNCHANGED <<indexRows, excused>>
    /\ UNCHANGED <<figures, indices, update, news, starts, degraded>>

CacheDate ==
    /\ fill.at = "cache"
    /\ indices' = [indices EXCEPT ![fill.day] = fill.figure]
    /\ fill' = NoFill
    /\ UNCHANGED <<figures, indexRows, update, miHistory>>

-----------------------------------------------------------------------------
(* The exchange and the process.                                           *)

\* A day's figures appear after the days before.
PublishDay ==
    /\ \E d \in IndexDays :
        /\ figures[d] = 0 /\ \A e \in IndexDays : e < d => figures[e] # 0
        /\ figures' = [figures EXCEPT ![d] = 1]
    /\ UNCHANGED <<indexRows, indices, update, fill, miHistory>>

ReviseDay ==
    /\ Cardinality({d \in IndexDays : figures[d] = 2}) < MaxRevisions
    /\ \E d \in IndexDays : figures[d] = 1 /\ figures' = [figures EXCEPT ![d] = 2]
    /\ UNCHANGED <<indexRows, indices, update, fill, miHistory>>

\* The indices are loaded from the table; a failure only degrades the start.
RestartIndices ==
    /\ starts < MaxRestarts /\ starts' = starts + 1
    /\ \/ indices' = indexRows /\ degraded' = degraded
       \/ indices' = NoDays /\ degraded' = degraded + 1
    /\ excused' = excused \cup (IF update.at = "tell" THEN {Current} ELSE {})
    /\ update' = Resting /\ fill' = NoFill
    /\ UNCHANGED <<figures, indexRows, news>>

MINext ==
    \/ FetchMonth \/ SkipCached \/ BeginIndex \/ SaveIndex \/ SaveIndexFails
    \/ AnnounceIndex \/ CacheIndex \/ EndUpdate
    \/ FetchDate \/ SaveDate \/ CacheDate
    \/ PublishDay \/ ReviseDay \/ RestartIndices

MISpec == MIInit /\ [][MINext]_miVars

-----------------------------------------------------------------------------
(* Properties.                                                             *)

\* A day is announced once, a second time only after a start that could not load the
\* cache; a day in the table was announced, or is about to be, unless a backfill was
\* faster, the process stopped in between or the answer to the save was lost.  The cache
\* holds only days of the table, and differs from its rows only in figures the exchange has
\* corrected (the order of save, dispatch_async and set_stock_index).
IndexIsToldOnce ==
    \A d \in IndexDays :
        /\ news[d] <= 1 + degraded
        /\ indexRows[d] # 0 /\ news[d] = 0 =>
            d \in excused \/ (update.at = "tell" /\ Current = d)
        /\ indices[d] # 0 => indexRows[d] # 0
        /\ indices[d] # 0 /\ indices[d] # indexRows[d] => figures[d] = 2

\* Every variable has its type.
MITypeOK ==
    /\ figures \in [IndexDays -> 0 .. 2] /\ indexRows \in [IndexDays -> 0 .. 2]
    /\ indices \in [IndexDays -> 0 .. 2]
    /\ update.at \in {"idle", "items", "save", "tell", "cache"}
    /\ update.left \subseteq IndexDays
    /\ fill.at \in {"idle", "save", "cache"} /\ fill.day \in IndexDays \cup {0}
    /\ news \in [IndexDays -> Nat] /\ excused \subseteq IndexDays
    /\ starts \in 0 .. MaxRestarts /\ degraded \in 0 .. starts
=============================================================================
