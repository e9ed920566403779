---------------------- MODULE TraceTaskLifecycleProofs ----------------------
(***************************************************************************)
(* The tasks of a trading session, for any choice of tickers, whoever      *)
(* stops them, over any number of sessions.                                *)
(***************************************************************************)
EXTENDS TraceTaskLifecycle, TLAPS

Lame == {"none", "spawned", "check", "exit", "leave"}

\* A flag is raised for a task that does not leave.
Flagged == \A k \in Kinds : flag[k] => task[k] \notin {"none", "leave"}

\* A session starts from nothing.
Fresh ==
    /\ driver = "idle" /\ open => \A k \in Kinds : task[k] = "none"
    /\ driver = "loading" => \A k \in Kinds : task[k] = "none"
    /\ driver = "starting" => \A k \in Kinds \ started : task[k] = "none"
    /\ driver = "watching" => started = Kinds

\* Who stops, and when.
StopsFit ==
    /\ driver = "stopping" <=> phase["driver"] # "idle"
    /\ driver = "stopping" => ~open
    /\ \A s \in Stoppers : s = "closing" /\ phase[s] # "idle" => ~open /\ driver = "idle"

\* What the session has started goes on while the market is open.
Going ==
    driver \in {"starting", "watching"} /\ open =>
        \A k \in started : flag[k] /\ task[k] \notin {"none", "exit", "leave"}

\* The driver's stop is about to await the crawler c, or has done so.
Joins(c) == driver = "stopping" /\ phase["driver"] = "join" /\ at["driver"] = c
Joined(c) ==
    /\ driver = "stopping"
    /\ \/ phase["driver"] \in {"wait", "done"}
       \/ c = "histock" /\ at["driver"] = "yahoo" /\ phase["driver"] \in {"stop", "join"}

\* A crawler that runs can be awaited by the driver, until it has been.
CrawlerFits(c) ==
    /\ driver \in {"idle", "loading"} \/ Joined(c) => task[c] = "none"
    /\ Joins(c) => task[c] = "none" \/ holds["driver"]
    /\ ~Joined(c) /\ ~Joins(c) => task[c] = "none" \/ handle[c]

\* Loops whose flag is down, and that have left, do no more work.
LoopFits(l) ==
    /\ driver = "stopping" /\ phase["driver"] \notin {"idle", "flags"} => ~flag[l]
    /\ driver = "stopping" /\ phase["driver"] = "done" /\ ~forced => task[l] \in Lame
    /\ driver = "idle" /\ ~forced => ~flag[l] /\ task[l] \in Lame

OnlyDriverStops ==
    ~MainStops =>
        /\ Going
        /\ \A c \in Crawlers : CrawlerFits(c)
        /\ \A l \in Loops : LoopFits(l)

TasksInv ==
    /\ TypeOK
    /\ CountersAreExact
    /\ Flagged
    /\ Fresh
    /\ StopsFit
    /\ OnlyDriverStops

\* The names of the kinds differ.
LEMMA KindsDiffer ==
    /\ Kinds = Loops \cup Crawlers
    /\ \A l \in Loops : l \notin Crawlers
    /\ "driver" \in Stoppers
    /\ \A s \in Stoppers : s \in {"driver", "closing", "main"}
    /\ MaxSessions \in Nat
BY TickersAssumption, StoppersAssumption, MaxSessionsAssumption
   DEF Kinds, Loops, Crawlers

LEMMA TasksInit == Init => TasksInv
<1> SUFFICES ASSUME Init PROVE TasksInv
  OBVIOUS
<1> USE KindsDiffer DEF Init
<1>1. TypeOK
  <2>1. open \in BOOLEAN /\ forced \in BOOLEAN
    BY Zenon
  <2>6. sessions \in 0..MaxSessions
    OBVIOUS
  <2>2. driver = "idle" /\ started \subseteq Kinds
    OBVIOUS
  <2>3. flag \in [Kinds -> BOOLEAN] /\ handle \in [Crawlers -> BOOLEAN]
        /\ holds \in [Stoppers -> BOOLEAN]
    OBVIOUS
  <2>4. task \in [Kinds -> TaskPcs] /\ active \in [Loops -> 0..1]
    BY DEF TaskPcs
  <2>5. phase \in [Stoppers -> {"idle", "flags", "notify", "stop", "join", "wait", "done"}]
        /\ at \in [Stoppers -> Crawlers]
    BY DEF Crawlers
  <2> HIDE DEF Init
  <2> QED
    BY <2>1, <2>2, <2>3, <2>4, <2>5, <2>6 DEF TypeOK
<1>2. CountersAreExact
  BY DEF CountersAreExact, Kinds
<1>3. Flagged /\ Fresh /\ StopsFit
  BY DEF Flagged, Fresh, StopsFit
<1>4. OnlyDriverStops
  BY DEF OnlyDriverStops, Going, CrawlerFits, LoopFits, Joins, Joined, Lame, Kinds
<1> QED
  BY <1>1, <1>2, <1>3, <1>4 DEF TasksInv
-----------------------------------------------------------------------------
(* The steps of the tasks.                                                 *)

\* What every step of the task of kind k does, where pc is the stage it enters.
Moves(k, pc) ==
    /\ task[k] # "none" /\ pc \in TaskPcs
    /\ task' = [task EXCEPT ![k] = pc]
    /\ flag' \in [Kinds -> BOOLEAN]
    /\ \A j \in Kinds : j # k => flag'[j] = flag[j]
    /\ UNCHANGED <<open, sessions, driver, started, handle, phase, at, holds, forced>>

\* ... and what it must not do: leave while its flag is up, leave a market that is open, or
\* work without a flag.
MovesWell(k, pc) ==
    /\ flag'[k] => flag[k] /\ pc \notin {"none", "leave"}
    /\ flag[k] /\ open /\ task[k] \notin {"exit", "leave"} =>
        flag'[k] /\ pc \notin {"none", "exit", "leave"}
    /\ k \in Loops /\ ~flag[k] /\ task[k] \in Lame => pc \in Lame

LEMMA MovesKeep ==
    ASSUME TasksInv, NEW k \in Kinds, NEW pc, Moves(k, pc), MovesWell(k, pc)
    PROVE  Flagged' /\ Fresh' /\ StopsFit' /\ OnlyDriverStops'
<1> USE DEF TasksInv, Moves
<1>0. task \in [Kinds -> TaskPcs] /\ flag \in [Kinds -> BOOLEAN]
  BY DEF TypeOK
<1>1. /\ task'[k] = pc
      /\ \A j \in Kinds : j # k => task'[j] = task[j]
      /\ \A j \in Kinds : task[j] = "none" => task'[j] = "none"
  BY <1>0
<1>2. Flagged'
  BY <1>0, <1>1 DEF Flagged, MovesWell
<1>3. Fresh'
  BY <1>1 DEF Fresh
<1>4. StopsFit'
  BY DEF StopsFit
<1>5. ASSUME ~MainStops' PROVE Going'
  <2>1. Going /\ started \subseteq Kinds
    BY <1>5 DEF OnlyDriverStops, MainStops, TypeOK
  <2> QED
    BY <2>1, <1>1 DEF Going, MovesWell
<1>6. ASSUME ~MainStops', NEW c \in Crawlers PROVE CrawlerFits(c)'
  <2>1. CrawlerFits(c) /\ c \in Kinds
    BY <1>6 DEF OnlyDriverStops, MainStops, Kinds
  <2>2. (Joined(c) <=> Joined(c)') /\ (Joins(c) <=> Joins(c)')
    BY DEF Joined, Joins
  <2> QED
    BY <2>1, <2>2, <1>1 DEF CrawlerFits
<1>7. ASSUME ~MainStops', NEW l \in Loops PROVE LoopFits(l)'
  <2>1. LoopFits(l) /\ l \in Kinds
    BY <1>7 DEF OnlyDriverStops, MainStops, Kinds
  <2>2. l # k => task'[l] = task[l] /\ flag'[l] = flag[l]
    BY <2>1, <1>1
  <2>3. flag'[l] => flag[l]
    BY <2>1, <2>2 DEF MovesWell
  <2>4. ~flag[l] /\ task[l] \in Lame => task'[l] \in Lame
    BY <2>2, <1>1 DEF MovesWell
  <2>5. driver = "stopping" /\ phase["driver"] = "done" =>
          phase["driver"] \notin {"idle", "flags"}
    OBVIOUS
  <2> QED
    BY <2>1, <2>3, <2>4, <2>5 DEF LoopFits
<1> QED
  BY <1>2, <1>3, <1>4, <1>5, <1>6, <1>7 DEF OnlyDriverStops

\* A step keeps the invariant if it keeps the counters.
LEMMA MovesKeepAll ==
    ASSUME TasksInv, NEW k \in Kinds, NEW pc, Moves(k, pc), MovesWell(k, pc),
           active' \in [Loops -> 0..1], CountersAreExact'
    PROVE  TasksInv'
<1>1. Flagged' /\ Fresh' /\ StopsFit' /\ OnlyDriverStops'
  BY MovesKeep
<1>2. task' \in [Kinds -> TaskPcs]
  BY DEF Moves, TasksInv, TypeOK
<1>3. TypeOK'
  BY <1>2 DEF TasksInv, TypeOK, Moves
<1> QED
  BY <1>1, <1>3 DEF TasksInv

\* The counters stay exact where a task neither enters nor leaves.
LEMMA UncountedMovesKeep ==
    ASSUME TasksInv, NEW k \in Kinds, NEW pc, Moves(k, pc), MovesWell(k, pc),
           UNCHANGED active, task[k] # "spawned", pc \notin {"none", "spawned"}
    PROVE  TasksInv'
<1>1. task \in [Kinds -> TaskPcs] /\ active \in [Loops -> 0..1]
  BY DEF TasksInv, TypeOK
<1>2. CountersAreExact'
  BY <1>1, KindsDiffer DEF TasksInv, CountersAreExact, Moves
<1> QED
  BY <1>1, <1>2, MovesKeepAll

LEMMA EnterKeeps ==
    ASSUME TasksInv, NEW k \in Kinds, Enter(k)
    PROVE  TasksInv'
<1>1. task \in [Kinds -> TaskPcs] /\ active \in [Loops -> 0..1] /\ flag \in [Kinds -> BOOLEAN]
  BY DEF TasksInv, TypeOK
<1>2. task[k] = "spawned" /\ task' = [task EXCEPT ![k] = "check"]
  BY DEF Enter, Go
<1>3. Moves(k, "check")
  BY <1>1, <1>2 DEF Moves, Enter, TaskPcs, market, session, stops
<1>4. MovesWell(k, "check")
  BY <1>2 DEF MovesWell, Enter, Lame
<1>5. \A l \in Loops : active'[l] = active[l] + IF l = k THEN 1 ELSE 0
  BY DEF Enter
<1>6. CountersAreExact'
  BY <1>1, <1>2, <1>5, KindsDiffer DEF TasksInv, CountersAreExact
<1>7. active' \in [Loops -> 0..1]
  <2>1. active' = [l \in Loops |-> active'[l]]
    BY DEF Enter
  <2>2. \A l \in Loops : active'[l] \in 0..1
    BY <1>6 DEF CountersAreExact
  <2> QED
    BY <2>1, <2>2
<1> QED
  BY <1>3, <1>4, <1>6, <1>7, MovesKeepAll

LEMMA LeaveKeeps ==
    ASSUME TasksInv, NEW k \in Kinds, Leave(k)
    PROVE  TasksInv'
<1>1. task \in [Kinds -> TaskPcs] /\ active \in [Loops -> 0..1] /\ flag \in [Kinds -> BOOLEAN]
  BY DEF TasksInv, TypeOK
<1>2. task[k] = "leave" /\ task' = [task EXCEPT ![k] = "none"]
  BY DEF Leave, Go
<1>3. Moves(k, "none")
  BY <1>1, <1>2 DEF Moves, Leave, TaskPcs, market, session, stops
<1>4. MovesWell(k, "none")
  <2>1. ~flag[k] /\ flag' = flag
    BY <1>2 DEF TasksInv, Flagged, Leave
  <2> QED
    BY <2>1, <1>2 DEF MovesWell, Lame
<1>5. \A l \in Loops :
        active'[l] = IF l = k /\ active[l] > 0 THEN active[l] - 1 ELSE active[l]
  BY DEF Leave
<1>6. CountersAreExact'
  BY <1>1, <1>2, <1>5, KindsDiffer DEF TasksInv, CountersAreExact
<1>7. active' \in [Loops -> 0..1]
  <2>1. active' = [l \in Loops |-> active'[l]]
    BY DEF Leave
  <2>2. \A l \in Loops : active'[l] \in 0..1
    BY <1>6 DEF CountersAreExact
  <2> QED
    BY <2>1, <2>2
<1> QED
  BY <1>3, <1>4, <1>6, <1>7, MovesKeepAll

LEMMA LowerFlagKeeps ==
    ASSUME TasksInv, NEW k \in Kinds, LowerFlag(k)
    PROVE  TasksInv'
<1>1. task \in [Kinds -> TaskPcs] /\ flag \in [Kinds -> BOOLEAN]
  BY DEF TasksInv, TypeOK
<1>2. task[k] = "exit" /\ task' = [task EXCEPT ![k] = "leave"]
  BY DEF LowerFlag, Go
<1>3. flag' \in [Kinds -> BOOLEAN] /\ ~flag'[k] /\ \A j \in Kinds : j # k => flag'[j] = flag[j]
  BY <1>1 DEF LowerFlag
<1>4. Moves(k, "leave")
  BY <1>1, <1>2, <1>3 DEF Moves, LowerFlag, TaskPcs, market, session, stops
<1>5. MovesWell(k, "leave")
  BY <1>2, <1>3 DEF MovesWell, Lame
<1> QED
  BY <1>2, <1>4, <1>5, UncountedMovesKeep DEF LowerFlag

\* The steps that leave flags and counters alone.
LEMMA WorkingKeeps ==
    ASSUME TasksInv, NEW k \in Kinds, UNCHANGED <<market, session, flag, active, handle, stops>>,
           NEW pc \in TaskPcs \ {"none", "spawned", "leave"}, Go(k, pc),
           task[k] \notin {"none", "spawned", "exit", "leave"},
           pc = "exit" => ~flag[k] \/ ~open,
           ~flag[k] /\ task[k] = "check" => pc = "exit"
    PROVE  TasksInv'
<1>1. task \in [Kinds -> TaskPcs] /\ flag \in [Kinds -> BOOLEAN]
  BY DEF TasksInv, TypeOK
<1>2. Moves(k, pc)
  BY <1>1 DEF Moves, Go, market, session, stops
<1>3. MovesWell(k, pc)
  BY <1>1 DEF MovesWell, Lame
<1> QED
  BY <1>2, <1>3, UncountedMovesKeep

LEMMA TaskStepKeeps ==
    ASSUME TasksInv, NEW k \in Kinds, TaskStep(k)
    PROVE  TasksInv'
<1> DEFINE Rest == UNCHANGED <<market, session, flag, active, handle, stops>>
<1> HIDE DEF Rest
<1>0. ASSUME Rest, NEW pc \in TaskPcs \ {"none", "spawned", "leave"}, Go(k, pc),
             task[k] \notin {"none", "spawned", "exit", "leave"},
             pc = "exit" => ~flag[k] \/ ~open,
             ~flag[k] /\ task[k] = "check" => pc = "exit"
      PROVE  TasksInv'
  BY <1>0, WorkingKeeps DEF Rest
<1>1. CASE Check(k)
  <2>1. Rest /\ task[k] = "check"
    BY <1>1 DEF Check, Rest
  <2>2. CASE ~flag[k]
    <3>1. Go(k, "exit")
      BY <1>1, <2>2 DEF Check, IfFlag
    <3> QED
      BY <3>1, <2>1, <2>2, <1>0 DEF TaskPcs
  <2>3. CASE flag[k] /\ k \in Tickers
    <3>0. k # "backup"
      BY <2>3, TickersAssumption
    <3>1. Go(k, "sleepy")
      BY <1>1, <2>3, <3>0 DEF Check, IfFlag
    <3> QED
      BY <3>1, <2>1, <2>3, <1>0 DEF TaskPcs
  <2>4. CASE flag[k] /\ k = "backup"
    <3>0. k \notin Tickers
      BY <2>4, TickersAssumption
    <3>1. Go(k, IF open THEN "work" ELSE "exit")
      BY <1>1, <2>4, <3>0 DEF Check, IfFlag
    <3>2. CASE open
      BY <3>1, <3>2, <2>1, <2>4, <1>0 DEF TaskPcs
    <3>3. CASE ~open
      BY <3>1, <3>3, <2>1, <2>4, <1>0 DEF TaskPcs
    <3> QED
      BY <3>2, <3>3
  <2>5. CASE flag[k] /\ k \notin Tickers /\ k # "backup"
    <3>1. Go(k, "work")
      BY <1>1, <2>5 DEF Check, IfFlag
    <3> QED
      BY <3>1, <2>1, <2>5, <1>0 DEF TaskPcs
  <2> QED
    BY <2>2, <2>3, <2>4, <2>5
<1>2. CASE Sleep(k)
  BY <1>2, <1>0 DEF Sleep, Rest, TaskPcs
<1>3. CASE WakeUp(k)
  <2>1. Rest /\ task[k] \in {"asleep", "woken"}
    BY <1>3 DEF WakeUp, Rest
  <2>2. CASE Go(k, "check") \/ Go(k, "work")
    BY <2>1, <2>2, <1>0 DEF TaskPcs
  <2>3. CASE Go(k, "exit") /\ (~flag[k] \/ ~open)
    BY <2>1, <2>3, <1>0 DEF TaskPcs
  <2> QED
    BY <1>3, <2>2, <2>3 DEF WakeUp, IfFlag
<1>4. CASE Tick(k)
  BY <1>4, <1>0 DEF Tick, Rest, TaskPcs
<1>5. CASE Fetched(k)
  <2>1. Rest /\ task[k] = "work"
    BY <1>5 DEF Fetched, Rest
  <2>2. CASE Go(k, "write") \/ Go(k, "written")
    BY <2>1, <2>2, <1>0 DEF TaskPcs
  <2>3. CASE Go(k, "exit") /\ ~flag[k]
    BY <2>1, <2>3, <1>0 DEF TaskPcs
  <2> QED
    BY <1>5, <2>2, <2>3 DEF Fetched, IfFlag
<1>6. CASE Write(k)
  BY <1>6, <1>0 DEF Write, Rest, TaskPcs
<1>7. CASE Written(k)
  <2>1. Rest /\ task[k] = "written"
    BY <1>7 DEF Written, Rest
  <2>2. CASE Go(k, "asleep") \/ Go(k, "sleepy")
    BY <2>1, <2>2, <1>0 DEF TaskPcs
  <2>3. CASE Go(k, "exit") /\ ~flag[k]
    BY <2>1, <2>3, <1>0 DEF TaskPcs
  <2> QED
    BY <1>7, <2>2, <2>3 DEF Written, IfFlag
<1> QED
  BY <1>1, <1>2, <1>3, <1>4, <1>5, <1>6, <1>7, EnterKeeps, LeaveKeeps, LowerFlagKeeps
  DEF TaskStep
-----------------------------------------------------------------------------
(* The market, the driver and the stops.                                   *)

\* What has to be shown of the steps that leave the tasks alone.
LEMMA TasksUntouched ==
    ASSUME TasksInv, UNCHANGED tasks
    PROVE  Flagged' /\ CountersAreExact'
BY DEF TasksInv, tasks, Flagged, CountersAreExact

LEMMA MarketKeeps ==
    ASSUME TasksInv, MarketOpens \/ MarketCloses
    PROVE  TasksInv'
<1> USE KindsDiffer DEF TasksInv, session, tasks, stops
<1>1. CASE MarketOpens
  <2>0. UNCHANGED <<driver, started, flag, task, active, handle, phase, at, holds, forced>>
    BY <1>1 DEF MarketOpens
  <2>1. TypeOK'
    <3>1. open' \in BOOLEAN /\ sessions' \in 0..MaxSessions
      BY <1>1 DEF MarketOpens, TypeOK
    <3> QED
      BY <2>0, <3>1 DEF TypeOK
  <2>2. driver = "idle" /\ \A k \in Kinds : task[k] = "none"
    BY <1>1 DEF MarketOpens, Alive
  <2>3. Fresh' /\ StopsFit'
    BY <1>1, <2>0, <2>2 DEF MarketOpens, Fresh, StopsFit
  <2>4. OnlyDriverStops'
    BY <2>0, <2>2 DEF OnlyDriverStops, MainStops, Going, CrawlerFits, LoopFits, Joins, Joined
  <2> QED
    BY <2>0, <2>1, <2>3, <2>4, TasksUntouched
<1>2. CASE MarketCloses
  <2>0. UNCHANGED <<sessions, driver, started, flag, task, active, handle, phase, at, holds,
                    forced>> /\ open' = FALSE
    BY <1>2 DEF MarketCloses
  <2>1. TypeOK'
    BY <2>0 DEF TypeOK
  <2>3. Fresh' /\ StopsFit'
    BY <2>0 DEF Fresh, StopsFit
  <2>4. OnlyDriverStops'
    BY <2>0 DEF OnlyDriverStops, MainStops, Going, CrawlerFits, LoopFits, Joins, Joined
  <2> QED
    BY <2>0, <2>1, <2>3, <2>4, TasksUntouched
<1> QED
  BY <1>1, <1>2

\* The driver before it has started anything.
LEMMA LoadingKeeps ==
    ASSUME TasksInv, Execute \/ LoadFails \/ LoadSucceeds
    PROVE  TasksInv'
<1> USE KindsDiffer DEF TasksInv, market, tasks, stops
<1>0. /\ UNCHANGED <<open, sessions, flag, task, active, handle, phase, at, holds, forced>>
      /\ driver' \in {"idle", "loading", "starting"} /\ started' \subseteq Kinds
      /\ driver' = "starting" => started' = {}
  BY DEF Execute, LoadFails, LoadSucceeds, TypeOK
<1>1. \A k \in Kinds : task[k] = "none" /\ ~flag[k]
  BY DEF Execute, LoadFails, LoadSucceeds, Fresh, Flagged
<1>2. driver \in {"idle", "loading"}
  BY DEF Execute, LoadFails, LoadSucceeds
<1>3. TypeOK'
  BY <1>0 DEF TypeOK
<1>4. Fresh'
  BY <1>0, <1>1 DEF Fresh
<1>5. StopsFit'
  BY <1>0, <1>2 DEF StopsFit, Execute, LoadFails, LoadSucceeds
<1>6. OnlyDriverStops'
  BY <1>0, <1>1 DEF OnlyDriverStops, MainStops, Going, CrawlerFits, LoopFits, Joins, Joined, Lame
<1> QED
  BY <1>0, <1>3, <1>4, <1>5, <1>6, TasksUntouched

\* No flag is left over that would keep a task from starting.
LEMMA StartKeeps ==
    ASSUME TasksInv, NEW k \in Kinds, Start(k)
    PROVE  TasksInv'
<1> USE KindsDiffer DEF TasksInv, market, stops
<1>0. /\ UNCHANGED <<open, sessions, active, phase, at, holds, forced>>
      /\ driver = "starting" /\ driver' \in {"starting", "watching"}
      /\ driver' = "watching" => started' = Kinds
      /\ k \notin started /\ started' = started \cup {k}
  BY DEF Start
<1>1. task[k] = "none" /\ ~flag[k]
  BY <1>0 DEF Fresh, Flagged
<1>2. /\ flag' = [flag EXCEPT ![k] = TRUE]
      /\ task' = [task EXCEPT ![k] = "spawned"]
      /\ handle' = [c \in Crawlers |-> c = k \/ handle[c]]
  BY <1>1 DEF Start
<1>3. TypeOK'
  <2>1. flag' \in [Kinds -> BOOLEAN] /\ task' \in [Kinds -> TaskPcs]
    BY <1>2 DEF TypeOK, TaskPcs
  <2>2. handle' \in [Crawlers -> BOOLEAN]
    BY <1>2
  <2> QED
    BY <1>0, <2>1, <2>2 DEF TypeOK
<1>4. /\ flag'[k] /\ task'[k] = "spawned"
      /\ \A j \in Kinds : j # k => flag'[j] = flag[j] /\ task'[j] = task[j]
      /\ \A c \in Crawlers : handle'[c] <=> c = k \/ handle[c]
  BY <1>2 DEF TypeOK
<1>5. CountersAreExact'
  BY <1>0, <1>1, <1>4 DEF CountersAreExact
<1>6. Flagged'
  BY <1>4 DEF Flagged
<1>7. Fresh'
  BY <1>0, <1>4 DEF Fresh
<1>8. StopsFit'
  BY <1>0 DEF StopsFit
<1>9. ASSUME ~MainStops' PROVE Going' /\ (\A c \in Crawlers : CrawlerFits(c)')
                               /\ (\A l \in Loops : LoopFits(l)')
  <2>1. Going /\ \A c \in Crawlers : CrawlerFits(c)
    BY <1>0, <1>9 DEF OnlyDriverStops, MainStops
  <2>2. Going'
    BY <1>0, <1>4, <2>1 DEF Going, TypeOK
  <2>3. ASSUME NEW c \in Crawlers PROVE CrawlerFits(c)'
    <3>1. task[c] = "none" \/ handle[c]
      BY <1>0, <2>1 DEF CrawlerFits, Joins, Joined
    <3>2. task'[c] = "none" \/ handle'[c]
      BY <3>1, <1>4
    <3> QED
      BY <1>0, <3>2 DEF CrawlerFits, Joins, Joined
  <2>4. \A l \in Loops : LoopFits(l)'
    BY <1>0 DEF LoopFits
  <2> QED
    BY <2>2, <2>3, <2>4
<1> QED
  BY <1>3, <1>5, <1>6, <1>7, <1>8, <1>9 DEF OnlyDriverStops

LEMMA ClosingKeeps ==
    ASSUME TasksInv, SeeMarketClosed \/ ReleaseRunning
    PROVE  TasksInv'
<1> USE KindsDiffer DEF TasksInv, market, tasks
<1>1. CASE SeeMarketClosed
  <2>0. /\ UNCHANGED <<open, sessions, started, flag, task, active, handle, at, holds, forced>>
        /\ driver = "watching" /\ driver' = "stopping" /\ ~open
        /\ phase' = [phase EXCEPT !["driver"] = "flags"]
    BY <1>1 DEF SeeMarketClosed
  <2>1. /\ phase'["driver"] = "flags"
        /\ \A s \in Stoppers : s # "driver" => phase'[s] = phase[s]
    BY <2>0 DEF TypeOK
  <2>2. TypeOK'
    <3>1. phase' \in [Stoppers -> {"idle", "flags", "notify", "stop", "join", "wait", "done"}]
      BY <2>0 DEF TypeOK
    <3> QED
      BY <2>0, <3>1 DEF TypeOK
  <2>3. Fresh' /\ StopsFit'
    BY <2>0, <2>1 DEF Fresh, StopsFit
  <2>4. OnlyDriverStops'
    BY <2>0, <2>1 DEF OnlyDriverStops, MainStops, Going, CrawlerFits, LoopFits, Joins, Joined
  <2> QED
    BY <2>0, <2>2, <2>3, <2>4, TasksUntouched
<1>2. CASE ReleaseRunning
  <2>0. /\ UNCHANGED <<open, sessions, started, flag, task, active, handle, at, holds, forced>>
        /\ driver = "stopping" /\ driver' = "idle" /\ phase["driver"] = "done"
        /\ phase' = [phase EXCEPT !["driver"] = "idle"]
    BY <1>2 DEF ReleaseRunning
  <2>1. /\ phase'["driver"] = "idle"
        /\ \A s \in Stoppers : s # "driver" => phase'[s] = phase[s]
    BY <2>0 DEF TypeOK
  <2>2. TypeOK'
    <3>1. phase' \in [Stoppers -> {"idle", "flags", "notify", "stop", "join", "wait", "done"}]
      BY <2>0 DEF TypeOK
    <3> QED
      BY <2>0, <3>1 DEF TypeOK
  <2>3. Fresh' /\ StopsFit'
    BY <2>0, <2>1 DEF Fresh, StopsFit
  <2>4. OnlyDriverStops'
    BY <2>0, <2>1 DEF OnlyDriverStops, MainStops, Going, CrawlerFits, LoopFits, Joins, Joined
  <2> QED
    BY <2>0, <2>2, <2>3, <2>4, TasksUntouched
<1> QED
  BY <1>1, <1>2
-----------------------------------------------------------------------------
(* The stops.                                                              *)

Phases == {"idle", "flags", "notify", "stop", "join", "wait", "done"}

\* A stop goes from its phase to p, and the driver does nothing.
StopMoves(s, p) ==
    /\ phase' = [phase EXCEPT ![s] = p] /\ p \in Phases
    /\ phase[s] = "idle" =>
        s \in {"closing", "main"} /\ (s = "closing" => ~open /\ driver = "idle")
    /\ p = "idle" => s = "closing"
    /\ UNCHANGED <<open, sessions, driver, started>>

LEMMA StopMovesFit ==
    ASSUME TasksInv, NEW s \in Stoppers, NEW p, StopMoves(s, p)
    PROVE  /\ phase' \in [Stoppers -> Phases]
           /\ phase'[s] = p
           /\ \A r \in Stoppers : r # s => phase'[r] = phase[r]
           /\ StopsFit'
           /\ ~MainStops' => ~MainStops /\ s # "main"
           /\ s = "closing" => driver = "idle" /\ ~open
           /\ s = "driver" => driver = "stopping" /\ ~open
<1> USE KindsDiffer DEF TasksInv, StopMoves
<1>1. phase \in [Stoppers -> Phases]
  BY DEF TypeOK, Phases
<1>2. /\ phase' \in [Stoppers -> Phases]
      /\ phase'[s] = p
      /\ \A r \in Stoppers : r # s => phase'[r] = phase[r]
  BY <1>1
<1>3. s = "closing" => driver = "idle" /\ ~open
  BY DEF StopsFit
<1>4. s = "driver" => driver = "stopping" /\ ~open
  BY DEF StopsFit
<1>5. StopsFit'
  BY <1>2, <1>3, <1>4 DEF StopsFit
<1>6. ~MainStops' => ~MainStops /\ s # "main"
  BY <1>2 DEF MainStops
<1> QED
  BY <1>2, <1>3, <1>4, <1>5, <1>6

LEMMA CallStopKeeps ==
    ASSUME TasksInv, NEW s \in Stoppers, CallStop(s)
    PROVE  TasksInv'
<1> USE DEF TasksInv, market, session, tasks
<1>0. StopMoves(s, "flags")
  BY DEF StopMoves, CallStop, Phases
<1>1. UNCHANGED <<open, sessions, driver, started, flag, task, active, handle, at, holds, forced>>
  BY DEF CallStop
<1>2. s # "driver"
  BY DEF CallStop
<1>3. TypeOK'
  BY <1>0, <1>1, StopMovesFit DEF TypeOK, Phases
<1>4. Fresh'
  BY <1>1 DEF Fresh
<1>5. phase'["driver"] = phase["driver"]
  BY <1>0, <1>2, KindsDiffer, StopMovesFit
<1>6. OnlyDriverStops'
  BY <1>0, <1>1, <1>5, StopMovesFit
  DEF OnlyDriverStops, Going, CrawlerFits, LoopFits, Joins, Joined
<1> QED
  BY <1>0, <1>1, <1>3, <1>4, <1>6, TasksUntouched, StopMovesFit

\* A flag that goes down harms no session: the driver is past it.
LEMMA StopLoopsKeeps ==
    ASSUME TasksInv, NEW s \in Stoppers, StopLoops(s)
    PROVE  TasksInv'
<1> USE DEF TasksInv, market, session
<1>0. StopMoves(s, "notify")
  BY DEF StopMoves, StopLoops, Phases
<1>1. UNCHANGED <<open, sessions, driver, started, task, active, handle, at, holds, forced>>
  BY DEF StopLoops
<1>2. flag \in [Kinds -> BOOLEAN]
  BY DEF TypeOK
<1>3. /\ flag' \in [Kinds -> BOOLEAN]
      /\ \A k \in Kinds : flag'[k] => flag[k]
      /\ \A l \in Loops : ~flag'[l]
  <2>1. flag' = [k \in Kinds |-> k \in Crawlers /\ flag[k]]
    BY DEF StopLoops
  <2>2. flag' \in [Kinds -> BOOLEAN]
    BY <2>1, Zenon
  <2>3. \A k \in Kinds : flag'[k] => flag[k]
    BY <2>1
  <2>4. \A l \in Loops : ~flag'[l]
    BY <2>1, KindsDiffer
  <2> QED
    BY <2>2, <2>3, <2>4
<1>4. TypeOK'
  BY <1>0, <1>1, <1>3, StopMovesFit DEF TypeOK, Phases
<1>5. CountersAreExact' /\ Flagged' /\ Fresh'
  BY <1>1, <1>3 DEF CountersAreExact, Flagged, Fresh
<1>6. phase["driver"] # "done" \/ s # "driver"
  BY DEF StopLoops
<1>7. ASSUME ~MainStops' PROVE Going' /\ (\A c \in Crawlers : CrawlerFits(c)')
                               /\ (\A l \in Loops : LoopFits(l)')
  <2>1. driver \in {"idle", "stopping"} /\ ~open /\ ~MainStops
    BY <1>0, <1>7, StopMovesFit, KindsDiffer
  <2>2. /\ s = "driver" => phase["driver"] = "flags" /\ phase'["driver"] = "notify"
        /\ s # "driver" => phase'["driver"] = phase["driver"]
    BY <1>0, StopMovesFit, KindsDiffer DEF StopLoops
  <2>3. Going'
    BY <1>1, <2>1 DEF Going
  <2>4. \A c \in Crawlers : CrawlerFits(c)'
    BY <1>1, <2>1, <2>2 DEF OnlyDriverStops, CrawlerFits, Joins, Joined
  <2>5. \A l \in Loops : LoopFits(l)'
    BY <1>1, <1>3, <2>1, <2>2 DEF OnlyDriverStops, LoopFits
  <2> QED
    BY <2>3, <2>4, <2>5
<1> QED
  BY <1>0, <1>4, <1>5, <1>7, StopMovesFit DEF OnlyDriverStops

LEMMA NotifyKeeps ==
    ASSUME TasksInv, NEW s \in Stoppers, NotifyWaiters(s)
    PROVE  TasksInv'
<1> USE DEF TasksInv, market, session
<1>0. StopMoves(s, "stop")
  BY DEF StopMoves, NotifyWaiters, Phases
<1>1. UNCHANGED <<open, sessions, driver, started, flag, active, handle, holds, forced>>
  BY DEF NotifyWaiters
<1>2. task \in [Kinds -> TaskPcs] /\ at \in [Stoppers -> Crawlers]
  BY DEF TypeOK
<1>3. /\ task' \in [Kinds -> TaskPcs]
      /\ \A k \in Kinds : task'[k] = task[k] \/ (task[k] = "asleep" /\ task'[k] = "woken")
  <2>1. task' = [k \in Kinds |-> IF k \in Loops /\ task[k] = "asleep" THEN "woken" ELSE task[k]]
    BY DEF NotifyWaiters
  <2>2. \A k \in Kinds : task'[k] = task[k] \/ (task[k] = "asleep" /\ task'[k] = "woken")
    BY <2>1
  <2>3. \A k \in Kinds : task'[k] \in TaskPcs
    BY <1>2, <2>2 DEF TaskPcs
  <2> QED
    BY <2>1, <2>2, <2>3
<1>4. /\ at' \in [Stoppers -> Crawlers] /\ at'[s] = "histock"
      /\ \A r \in Stoppers : r # s => at'[r] = at[r]
  BY <1>2 DEF NotifyWaiters, Crawlers
<1>5. TypeOK'
  BY <1>0, <1>1, <1>3, <1>4, StopMovesFit DEF TypeOK, Phases
<1>6. CountersAreExact' /\ Flagged' /\ Fresh'
  <2>1. CountersAreExact'
    BY <1>1, <1>3, KindsDiffer DEF CountersAreExact
  <2>2. Flagged' /\ Fresh'
    BY <1>1, <1>3 DEF Flagged, Fresh
  <2> QED
    BY <2>1, <2>2
<1>7. ASSUME ~MainStops' PROVE Going' /\ (\A c \in Crawlers : CrawlerFits(c)')
                               /\ (\A l \in Loops : LoopFits(l)')
  <2>1. driver \in {"idle", "stopping"} /\ ~open /\ ~MainStops
    BY <1>0, <1>7, StopMovesFit, KindsDiffer
  <2>2. /\ s = "driver" => /\ phase["driver"] = "notify" /\ phase'["driver"] = "stop"
                           /\ at'["driver"] = "histock"
        /\ s # "driver" => phase'["driver"] = phase["driver"] /\ at'["driver"] = at["driver"]
    BY <1>0, <1>4, StopMovesFit, KindsDiffer DEF NotifyWaiters
  <2>3. Going'
    BY <1>1, <2>1 DEF Going
  <2>4. \A c \in Crawlers : CrawlerFits(c)'
    BY <1>1, <1>3, <2>1, <2>2, KindsDiffer DEF OnlyDriverStops, CrawlerFits, Joins, Joined
  <2>5. \A l \in Loops : LoopFits(l)'
    BY <1>1, <1>3, <2>1, <2>2, KindsDiffer DEF OnlyDriverStops, LoopFits, Lame
  <2> QED
    BY <2>3, <2>4, <2>5
<1> QED
  BY <1>0, <1>5, <1>6, <1>7, StopMovesFit DEF OnlyDriverStops

\* The driver takes the handle of a crawler that runs.
LEMMA StopCrawlerKeeps ==
    ASSUME TasksInv, NEW s \in Stoppers, StopCrawler(s)
    PROVE  TasksInv'
<1> USE DEF TasksInv, market, session
<1>0. StopMoves(s, "join")
  BY DEF StopMoves, StopCrawler, Phases
<1>1. UNCHANGED <<open, sessions, driver, started, task, active, at, forced>>
  BY DEF StopCrawler
<1>2. /\ flag \in [Kinds -> BOOLEAN] /\ handle \in [Crawlers -> BOOLEAN]
      /\ holds \in [Stoppers -> BOOLEAN] /\ at[s] \in Crawlers
  BY DEF TypeOK
<1>3. flag' \in [Kinds -> BOOLEAN] /\ \A k \in Kinds : flag'[k] => flag[k]
  BY <1>2 DEF StopCrawler
<1>4. /\ handle' \in [Crawlers -> BOOLEAN]
      /\ \A c \in Crawlers : c # at[s] => handle'[c] = handle[c]
  BY <1>2 DEF StopCrawler
<1>5. /\ holds' \in [Stoppers -> BOOLEAN] /\ holds'[s] = handle[at[s]]
      /\ \A r \in Stoppers : r # s => holds'[r] = holds[r]
  BY <1>2 DEF StopCrawler
<1>6. TypeOK'
  BY <1>0, <1>1, <1>3, <1>4, <1>5, StopMovesFit DEF TypeOK, Phases
<1>7. CountersAreExact' /\ Flagged' /\ Fresh'
  BY <1>1, <1>3 DEF CountersAreExact, Flagged, Fresh
<1>8. ASSUME ~MainStops' PROVE Going' /\ (\A c \in Crawlers : CrawlerFits(c)')
                               /\ (\A l \in Loops : LoopFits(l)')
  <2>1. driver \in {"idle", "stopping"} /\ ~open /\ ~MainStops
    BY <1>0, <1>8, StopMovesFit, KindsDiffer
  <2>2. /\ s = "driver" => phase["driver"] = "stop" /\ phase'["driver"] = "join"
        /\ s # "driver" => /\ phase'["driver"] = phase["driver"]
                           /\ holds'["driver"] = holds["driver"] /\ driver = "idle"
    BY <1>0, <1>5, <1>8, StopMovesFit, KindsDiffer DEF StopCrawler
  <2>3. Going'
    BY <1>1, <2>1 DEF Going
  <2>4. ASSUME NEW c \in Crawlers PROVE CrawlerFits(c)'
    <3>1. CrawlerFits(c)
      BY <2>1 DEF OnlyDriverStops
    <3>2. CASE s = "driver"
      BY <1>0, <1>1, <1>4, <1>5, <2>2, <3>1, <3>2, StopMovesFit, KindsDiffer
      DEF CrawlerFits, Joins, Joined
    <3>3. CASE s # "driver"
      BY <1>1, <2>2, <3>1, <3>3 DEF CrawlerFits, Joins, Joined
    <3> QED
      BY <3>2, <3>3
  <2>5. \A l \in Loops : LoopFits(l)'
    BY <1>1, <1>3, <2>1, <2>2, KindsDiffer DEF OnlyDriverStops, LoopFits
  <2> QED
    BY <2>3, <2>4, <2>5
<1> QED
  BY <1>0, <1>6, <1>7, <1>8, StopMovesFit DEF OnlyDriverStops

LEMMA JoinKeeps ==
    ASSUME TasksInv, NEW s \in Stoppers, JoinCrawler(s)
    PROVE  TasksInv'
<1> DEFINE p == IF at[s] = "yahoo" THEN "wait" ELSE "stop"
<1> USE DEF TasksInv, market, session, tasks
<1>0. StopMoves(s, p)
  BY DEF StopMoves, JoinCrawler, Phases
<1> HIDE DEF p
<1>1. UNCHANGED <<open, sessions, driver, started, flag, task, active, handle, forced>>
  BY DEF JoinCrawler
<1>2. holds \in [Stoppers -> BOOLEAN] /\ at \in [Stoppers -> Crawlers]
  BY DEF TypeOK
<1>3. /\ holds' \in [Stoppers -> BOOLEAN] /\ at' \in [Stoppers -> Crawlers]
      /\ at'[s] = "yahoo"
      /\ \A r \in Stoppers : r # s => holds'[r] = holds[r] /\ at'[r] = at[r]
  <2>1. holds' = [holds EXCEPT ![s] = FALSE] /\ at' = [at EXCEPT ![s] = "yahoo"]
    BY DEF JoinCrawler
  <2> QED
    BY <1>2, <2>1 DEF Crawlers
<1>4. TypeOK'
  BY <1>0, <1>1, <1>3, StopMovesFit DEF TypeOK, Phases
<1>5. Fresh'
  BY <1>1 DEF Fresh
<1>6. ASSUME ~MainStops' PROVE Going' /\ (\A c \in Crawlers : CrawlerFits(c)')
                               /\ (\A l \in Loops : LoopFits(l)')
  <2>1. driver \in {"idle", "stopping"} /\ ~open /\ ~MainStops
    BY <1>0, <1>6, StopMovesFit, KindsDiffer
  <2>2. /\ s = "driver" => /\ phase["driver"] = "join" /\ phase'["driver"] = p
                           /\ holds["driver"] => ~Alive(at["driver"])
                           /\ driver = "stopping"
        /\ s # "driver" => /\ phase'["driver"] = phase["driver"]
                           /\ holds'["driver"] = holds["driver"]
                           /\ at'["driver"] = at["driver"] /\ driver = "idle"
    BY <1>0, <1>3, <1>6, StopMovesFit, KindsDiffer DEF JoinCrawler
  <2>3. Going'
    BY <1>1, <2>1 DEF Going
  <2>4. ASSUME NEW c \in Crawlers PROVE CrawlerFits(c)'
    <3>1. CrawlerFits(c)
      BY <2>1 DEF OnlyDriverStops
    <3>2. CASE s = "driver"
      <4>1. at["driver"] \in Crawlers /\ c \in {"histock", "yahoo"}
        BY <1>2, KindsDiffer DEF Crawlers
      <4>2. c = at["driver"] => task[c] = "none"
        BY <2>2, <3>1, <3>2 DEF CrawlerFits, Joins, Alive
      <4>3. CASE at["driver"] = "yahoo"
        BY <1>1, <1>3, <2>2, <3>1, <3>2, <4>1, <4>2, <4>3
        DEF CrawlerFits, Joins, Joined, p
      <4>4. CASE at["driver"] = "histock"
        BY <1>1, <1>3, <2>2, <3>1, <3>2, <4>1, <4>2, <4>4
        DEF CrawlerFits, Joins, Joined, p
      <4> QED
        BY <4>1, <4>3, <4>4 DEF Crawlers
    <3>3. CASE s # "driver"
      BY <1>1, <2>2, <3>1, <3>3 DEF CrawlerFits, Joins, Joined
    <3> QED
      BY <3>2, <3>3
  <2>5. \A l \in Loops : LoopFits(l)'
    BY <1>1, <2>1, <2>2 DEF OnlyDriverStops, LoopFits, p
  <2> QED
    BY <2>3, <2>4, <2>5
<1> QED
  BY <1>0, <1>1, <1>4, <1>5, <1>6, StopMovesFit, TasksUntouched DEF OnlyDriverStops

\* Who returns without having given up has seen every loop leave.
LEMMA ReturnKeeps ==
    ASSUME TasksInv, NEW s \in Stoppers, WaitForTasks(s) \/ GiveUp(s)
    PROVE  TasksInv'
<1> DEFINE p == IF s = "closing" THEN "idle" ELSE "done"
<1> USE DEF TasksInv, market, session, tasks
<1>0. StopMoves(s, p)
  BY DEF StopMoves, WaitForTasks, GiveUp, Return, Phases
<1> HIDE DEF p
<1>1. /\ UNCHANGED <<open, sessions, driver, started, flag, task, active, handle, at, holds>>
      /\ phase[s] = "wait" /\ forced' \in BOOLEAN /\ (forced => forced')
      /\ ~forced' => AllLeft
  BY DEF WaitForTasks, GiveUp, TypeOK
<1>2. TypeOK'
  BY <1>0, <1>1, StopMovesFit DEF TypeOK, Phases
<1>3. Fresh'
  BY <1>1 DEF Fresh
<1>4. ASSUME ~MainStops' PROVE Going' /\ (\A c \in Crawlers : CrawlerFits(c)')
                               /\ (\A l \in Loops : LoopFits(l)')
  <2>1. driver \in {"idle", "stopping"} /\ ~open /\ ~MainStops
    BY <1>0, <1>4, StopMovesFit, KindsDiffer
  <2>2. /\ s = "driver" => phase["driver"] = "wait" /\ phase'["driver"] = "done"
        /\ s # "driver" => phase'["driver"] = phase["driver"] /\ driver = "idle"
    BY <1>0, <1>1, <1>4, StopMovesFit, KindsDiffer DEF p
  <2>3. Going'
    BY <1>1, <2>1 DEF Going
  <2>4. \A c \in Crawlers : CrawlerFits(c)'
    BY <1>1, <2>1, <2>2 DEF OnlyDriverStops, CrawlerFits, Joins, Joined
  <2>5. ASSUME NEW l \in Loops PROVE LoopFits(l)'
    <3>1. LoopFits(l)
      BY <2>1 DEF OnlyDriverStops
    <3>2. ~forced' => task[l] \in Lame
      BY <1>1 DEF AllLeft, CountersAreExact, Lame
    <3> QED
      BY <1>1, <2>2, <3>1, <3>2 DEF LoopFits
  <2> QED
    BY <2>3, <2>4, <2>5
<1> QED
  BY <1>0, <1>1, <1>2, <1>3, <1>4, StopMovesFit, TasksUntouched DEF OnlyDriverStops
-----------------------------------------------------------------------------
(* The invariant, and the theorems.                                        *)

LEMMA TasksStep == TasksInv /\ [Next]_vars => TasksInv'
<1> SUFFICES ASSUME TasksInv, [Next]_vars PROVE TasksInv'
  OBVIOUS
<1>1. CASE MarketOpens \/ MarketCloses
  BY <1>1, MarketKeeps
<1>2. CASE Execute \/ LoadFails \/ LoadSucceeds
  BY <1>2, LoadingKeeps
<1>3. ASSUME NEW k \in Kinds, Start(k) PROVE TasksInv'
  BY <1>3, StartKeeps
<1>4. CASE SeeMarketClosed \/ ReleaseRunning
  BY <1>4, ClosingKeeps
<1>5. ASSUME NEW k \in Kinds, TaskStep(k) PROVE TasksInv'
  BY <1>5, TaskStepKeeps
<1>6. ASSUME NEW s \in Stoppers, CallStop(s) \/ StopStep(s) \/ GiveUp(s) PROVE TasksInv'
  BY <1>6, CallStopKeeps, StopLoopsKeeps, NotifyKeeps, StopCrawlerKeeps, JoinKeeps, ReturnKeeps
  DEF StopStep
<1>7. CASE UNCHANGED vars
  BY <1>7 DEF vars, market, session, tasks, stops, TasksInv, TypeOK, CountersAreExact, Flagged,
              Fresh, StopsFit, OnlyDriverStops, MainStops, Going, CrawlerFits, LoopFits, Joins,
              Joined
<1> QED
  BY <1>1, <1>2, <1>3, <1>4, <1>5, <1>6, <1>7 DEF Next, DriverStep

LEMMA TasksAlways == Spec => []TasksInv
BY TasksInit, TasksStep, PTL DEF Spec

\* Every variable has its type, whoever stops the tasks and however often they are started.
THEOREM TasksTypeCorrect == Spec => []TypeOK
BY TasksAlways, PTL DEF TasksInv

\* The counters of the loops are exact on every way out of a loop: a stop that waits for them
\* waits neither for nobody nor too short.
THEOREM CountersStayExact == Spec => []CountersAreExact
BY TasksAlways, PTL DEF TasksInv

\* While the market is open a session that has started has all its tasks, whatever earlier
\* sessions have left behind.
THEOREM SessionsKeepTheirTasks == Spec => []SessionHasTasks
<1>1. TasksInv => SessionHasTasks
  BY DEF TasksInv, SessionHasTasks, OnlyDriverStops, Going, Fresh
<1> QED
  BY <1>1, TasksAlways, PTL

\* When the driver has released its session without giving up, no task fetches or writes.
THEOREM StoppedSessionsAreQuiet == Spec => []QuietAfterStop
<1>1. TasksInv => QuietAfterStop
  BY KindsDiffer DEF TasksInv, QuietAfterStop, OnlyDriverStops, CrawlerFits, LoopFits, Lame
<1> QED
  BY <1>1, TasksAlways, PTL
====
