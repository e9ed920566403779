--------------------------- MODULE LastQuoteCache ---------------------------
(***************************************************************************)
(* The last quote of a stock, read through Redis: a reader takes the entry *)
(* of the cache, or else the row of the table, which it writes to the      *)
(* cache for a day.  The closing rebuilds the table and leaves the cache   *)
(* alone.                                                                  *)
(*                                                                         *)
(* Source: fetch_last_quote and rebuild_last_daily_quotes in               *)
(* infra/database/repository/quote.rs; their callers are the reminder of   *)
(* public offerings and the quotes of the gRPC service.  A quote is the    *)
(* number of the closing it comes from, time is counted in hours of which  *)
(* a day has a few.                                                        *)
(***************************************************************************)
EXTENDS Integers

CONSTANTS Readers,
          DayHours,     \* the hours of a day, the lifetime of an entry
          LastHour,     \* the hours 0 .. LastHour
          MaxReading    \* the hours a reader may take

ASSUME QuoteCacheAssumption ==
    DayHours \in Nat \ {0} /\ LastHour \in Nat /\ MaxReading \in Nat

VARIABLES hour,
          lastRow,      \* the closing of the row in last_daily_quotes
          rebuiltAt,    \* auxiliary: closing -> the hour its quotes replaced the ones before
          entry,        \* the entry in Redis
          reader        \* reader -> where it is and what it has read, since when

lqVars == <<hour, lastRow, rebuiltAt, entry, reader>>

Hours == 0 .. LastHour
Closings == 0 .. LastHour \div DayHours + 1
NoEntry == [quote |-> 0, until |-> 0]
Idle == [at |-> "idle", quote |-> 0, since |-> 0, was |-> 0]

LQInit ==
    /\ hour = 0
    /\ lastRow = 0 /\ rebuiltAt = [c \in Closings |-> 0]
    /\ entry = NoEntry
    /\ reader = [r \in Readers |-> Idle]

\* try_cache_get: the entry answers.
Hit(r) ==
    /\ reader[r].at = "idle"
    /\ entry.until > hour
    /\ reader' = [reader EXCEPT ![r] =
            [at |-> "answered", quote |-> entry.quote, since |-> hour, was |-> lastRow]]
    /\ UNCHANGED <<hour, lastRow, rebuiltAt, entry>>

\* No entry, or Redis fails.
Miss(r) ==
    /\ reader[r].at = "idle"
    /\ reader' = [reader EXCEPT ![r] = [@ EXCEPT !.at = "missed", !.since = hour, !.was = lastRow]]
    /\ UNCHANGED <<hour, lastRow, rebuiltAt, entry>>

\* pg_fetch_last_quote
ReadRow(r) ==
    /\ reader[r].at = "missed"
    /\ reader' = [reader EXCEPT ![r] = [@ EXCEPT !.at = "read", !.quote = lastRow]]
    /\ UNCHANGED <<hour, lastRow, rebuiltAt, entry>>

\* The table has no row of the stock, or the statement fails: no answer.
NoRow(r) ==
    /\ reader[r].at = "missed"
    /\ reader' = [reader EXCEPT ![r] = Idle]
    /\ UNCHANGED <<hour, lastRow, rebuiltAt, entry>>

\* mutant: the entry has no time to live
CacheSetForever(r) ==
    /\ reader[r].at = "read"
    /\ entry' = [quote |-> reader[r].quote, until |-> LastHour + 1]
    /\ reader' = [reader EXCEPT ![r].at = "answered"]
    /\ UNCHANGED <<hour, lastRow, rebuiltAt>>
\* The row goes into the cache for a day, whatever is there by now.
CacheSet(r) ==
    /\ reader[r].at = "read"
    /\ entry' = [quote |-> reader[r].quote, until |-> hour + DayHours]
    /\ reader' = [reader EXCEPT ![r].at = "answered"]
    /\ UNCHANGED <<hour, lastRow, rebuiltAt>>

\* A failed write is logged.
CacheSetFails(r) ==
    /\ reader[r].at = "read"
    /\ reader' = [reader EXCEPT ![r].at = "answered"]
    /\ UNCHANGED <<hour, lastRow, rebuiltAt, entry>>

\* The caller goes on with the answer.
Leaves(r) ==
    /\ reader[r].at = "answered"
    /\ reader' = [reader EXCEPT ![r] = Idle]
    /\ UNCHANGED <<hour, lastRow, rebuiltAt, entry>>

\* The closing of a day, not before the day's last hour; it may fail or not be run.
RebuildLastQuotes ==
    /\ lastRow < (hour + 1) \div DayHours
    /\ lastRow' = (hour + 1) \div DayHours
    /\ rebuiltAt' = [c \in Closings |-> IF lastRow < c /\ c <= lastRow' THEN hour ELSE rebuiltAt[c]]
    /\ UNCHANGED <<hour, entry, reader>>

\* Redis drops the entry before its time.
EvictEntry ==
    /\ entry.until > hour
    /\ entry' = NoEntry
    /\ UNCHANGED <<hour, lastRow, rebuiltAt, reader>>

NextHour ==
    /\ hour < LastHour
    /\ \A r \in Readers : reader[r].at # "idle" => hour < reader[r].since + MaxReading
    /\ hour' = hour + 1
    /\ entry' = IF entry.until > hour' THEN entry ELSE NoEntry
    /\ UNCHANGED <<lastRow, rebuiltAt, reader>>

LQNext ==
    \/ RebuildLastQuotes \/ EvictEntry \/ NextHour
    \/ \E r \in Readers : \/ Hit(r) \/ Miss(r) \/ ReadRow(r) \/ NoRow(r)
                          \/ CacheSet(r) \/ CacheSetFails(r) \/ Leaves(r)

LQSpec == LQInit /\ [][LQNext]_lqVars

-----------------------------------------------------------------------------
(* Properties.                                                             *)

\* An answer is never older than what was replaced a day ago, and the hours its readers
\* took; also when readers overtake each other and write back what they read before a
\* closing (the lifetime of 86400 seconds).
QuotesLagADayAtMost ==
    \A r \in Readers : reader[r].at = "answered" /\ reader[r].quote < lastRow
        => reader[r].since - rebuiltAt[reader[r].quote + 1] < DayHours + MaxReading

\* The repository promises "the latest price of a stock": an answer is not older than the
\* row of the table when the reader came.  An entry from before the closing answers for
\* up to a day after it.
AnswersAreLatest ==
    \A r \in Readers : reader[r].at = "answered" => reader[r].quote >= reader[r].was

\* Every variable has its type.
LQTypeOK ==
    /\ hour \in Hours /\ lastRow \in Closings /\ rebuiltAt \in [Closings -> Hours]
    /\ entry \in [quote : Closings, until : 0 .. LastHour + DayHours]
    /\ reader \in [Readers -> [at : {"idle", "missed", "read", "answered"}, quote : Closings,
                               since : Hours, was : Closings]]
=============================================================================
