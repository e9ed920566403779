-------------------------- MODULE PublicOfferings ---------------------------
(***************************************************************************)
(* The reminder of public offerings: every morning the open offerings that *)
(* carry no flag in Redis are put into one message, each is flagged until  *)
(* its last day, and the message is sent at the end.                       *)
(*                                                                         *)
(* Source: execute in app/event/taiwan_stock/public.rs and visit in        *)
(* infra/crawler/twse/public.rs.  Time is counted in runs: a flag that     *)
(* expires at the time of day of a run may or may not be there any more.   *)
(* The quotes shown are in LastQuoteCache.                                 *)
(***************************************************************************)
EXTENDS Integers, FiniteSets

CONSTANTS Offerings,
          LastRun,      \* the runs 1 .. LastRun, one a day
          MaxAborts     \* runs that fail

ASSUME OfferingsAssumption == LastRun \in Nat \ {0} /\ MaxAborts \in Nat

Runs == 1 .. LastRun

VARIABLES period,    \* offering -> its first and last day
          runDay,       \* the day of the run
          listing,   \* the run: "before", "items", "sent" or "broken"
          offered,   \* the offerings on its list
          items,     \* those it has not looked at
          message,   \* those in its message
          flag,      \* offering -> the day its flag expires, 0 without one
          toldOn,    \* auxiliary: offering -> the days it was told on
          lost,      \* auxiliary: offerings whose message was not sent
          forgotten, \* auxiliary: offerings whose flag was evicted
          aborts     \* auxiliary: the number of broken runs

outcome == <<toldOn, lost, forgotten, aborts>>
poVars == <<period, runDay, listing, offered, items, message, flag, outcome>>

Open(o) == period[o][1] <= runDay /\ runDay <= period[o][2]

POInit ==
    /\ period \in [Offerings -> {p \in Runs \X Runs : p[1] <= p[2]}]
    /\ runDay = 1 /\ listing = "before"
    /\ offered = {} /\ items = {} /\ message = {}
    /\ flag = [o \in Offerings |-> 0]
    /\ toldOn = [o \in Offerings |-> {}]
    /\ lost = {} /\ forgotten = {} /\ aborts = 0

\* The list of the exchange, in some order: those of the year in which the fifth day from
\* now lies, and none when the exchange has no answer, which is no failure.
FetchOfferings ==
    /\ listing = "before"
    /\ listing' = "items"
    /\ offered' \in SUBSET Offerings /\ items' = offered'
    /\ UNCHANGED <<period, runDay, message, flag, outcome>>

\* An offering that is not open, or is flagged.
SkipOffering(o) ==
    /\ listing = "items" /\ o \in items
    /\ ~Open(o) \/ flag[o] >= runDay
    /\ items' = items \ {o}
    /\ UNCHANGED <<period, runDay, listing, offered, message, flag, outcome>>

\* mutant: the flag lasts for a day
DayAfter(o) == runDay + 1
\* The flag expires with the time of the run on the last day, or a day later on that day.
FlaggedUntil(o) == IF period[o][2] = runDay THEN runDay + 1 ELSE period[o][2]

\* The offering is put into the message, then flagged.
Mention(o) ==
    /\ listing = "items" /\ o \in items
    /\ Open(o) /\ flag[o] <= runDay
    /\ items' = items \ {o}
    /\ message' = message \cup {o}
    /\ flag' = [flag EXCEPT ![o] = FlaggedUntil(o)]
    /\ UNCHANGED <<period, runDay, listing, offered, outcome>>

\* A failure ends the run: of the list, of Redis (a flag whose confirmation is lost may
\* be set) or of a quote.  The message goes with it.
Abort ==
    /\ listing = "before" \/ (listing = "items" /\ items # {})
    /\ aborts < MaxAborts /\ aborts' = aborts + 1
    /\ listing' = "broken"
    /\ \/ flag' = flag /\ lost' = lost \cup message
       \/ \E o \in {i \in items : Open(i) /\ flag[i] <= runDay} :
            /\ flag' = [flag EXCEPT ![o] = FlaggedUntil(o)]
            /\ lost' = lost \cup message \cup {o}
    /\ UNCHANGED <<period, runDay, offered, items, message, toldOn, forgotten>>

SendOfferings ==
    /\ listing = "items" /\ items = {}
    /\ listing' = "sent"
    /\ toldOn' = [o \in Offerings |-> IF o \in message THEN toldOn[o] \cup {runDay} ELSE toldOn[o]]
    /\ UNCHANGED <<period, runDay, offered, items, message, flag, lost, forgotten, aborts>>

NextRun ==
    /\ listing \in {"sent", "broken"} /\ runDay < LastRun
    /\ runDay' = runDay + 1
    /\ listing' = "before" /\ offered' = {} /\ items' = {} /\ message' = {}
    /\ UNCHANGED <<period, flag, outcome>>

\* Redis drops a flag before its time.
EvictFlag(o) ==
    /\ flag[o] # 0
    /\ flag' = [flag EXCEPT ![o] = 0]
    /\ forgotten' = forgotten \cup {o}
    /\ UNCHANGED <<period, runDay, listing, offered, items, message, toldOn, lost, aborts>>

PONext ==
    \/ FetchOfferings \/ Abort \/ SendOfferings \/ NextRun
    \/ \E o \in Offerings : SkipOffering(o) \/ Mention(o) \/ EvictFlag(o)

POSpec == POInit /\ [][PONext]_poVars

-----------------------------------------------------------------------------
(* Properties.                                                             *)

\* After a run that went through, every open offering on its list has been told, unless a
\* run that broke off had flagged it; and no offering is told more than twice, the second
\* time on its last day, unless Redis dropped its flag (the flag is set before the message
\* is sent).
OfferingsAreTold ==
    \A o \in Offerings :
        /\ listing = "sent" /\ o \in offered /\ Open(o) /\ o \notin lost => toldOn[o] # {}
        /\ o \notin forgotten =>
            \A r \in toldOn[o] : (\E e \in toldOn[o] : e < r) => r = period[o][2]

\* Every variable has its type.
POTypeOK ==
    /\ runDay \in Runs /\ listing \in {"before", "items", "sent", "broken"}
    /\ offered \subseteq Offerings /\ items \subseteq offered /\ message \subseteq Offerings
    /\ flag \in [Offerings -> 0 .. LastRun + 1]
    /\ toldOn \in [Offerings -> SUBSET Runs]
    /\ lost \subseteq Offerings /\ forgotten \subseteq Offerings /\ aborts \in 0 .. MaxAborts
=============================================================================
