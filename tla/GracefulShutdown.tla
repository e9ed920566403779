-------------------------- MODULE GracefulShutdown --------------------------
(***************************************************************************)
(* Graceful shutdown: the gates main passes after the OS signal, and the   *)
(* tracker of background operations it waits on.  Operations are runs of   *)
(* cron jobs, which register when their future is first polled, and        *)
(* backfill jobs, which a request handler registers before spawning them.  *)
(*                                                                         *)
(* Source: main.rs, core/shutdown.rs, create_job in app/scheduler.rs,      *)
(* start_job_with_timeout in interfaces/web/backfill_admin/job_runner.rs.  *)
(*                                                                         *)
(* Notify::notify_one is a stored permit: with a single waiter, waking it  *)
(* and storing a permit that it takes at once are the same.                *)
(***************************************************************************)
EXTENDS Integers, FiniteSets

CONSTANTS CronRuns,    \* triggers of cron jobs
          Calls,       \* requests that may start a backfill job
          ServerOf     \* call -> the server that accepts it

Servers == {"grpc", "web"}
Operations == CronRuns \cup Calls

ASSUME OperationsAssumption == CronRuns \cap Calls = {} /\ IsFiniteSet(Operations)
ASSUME ServerAssumption == ServerOf \in [Calls -> Servers]

VARIABLES main,      \* the gate main is at
          forced,    \* some gate was passed by its timeout
          cron,      \* the scheduler triggers jobs
          server,    \* server -> accepting, draining, stopped or aborted
          op,        \* operation -> its progress
          active,    \* BackgroundOperationTracker.active
          permit     \* the permit stored in idle_notify

gates == <<main, forced>>
tracker == <<active, permit>>
vars == <<gates, cron, server, op, tracker>>

Init ==
    /\ main = "serving"
    /\ forced = FALSE
    /\ cron = TRUE
    /\ \E grpc \in {"accepting", "stopped"} :    \* the gRPC server is optional
         server = [s \in Servers |-> IF s = "grpc" THEN grpc ELSE "accepting"]
    /\ op = [o \in Operations |-> "none"]
    /\ active = 0
    /\ permit = FALSE

Alive == main # "exited"      \* when main returns, the runtime drops its tasks

-----------------------------------------------------------------------------
(* Operations.                                                             *)

\* The scheduler puts the job's future into the runtime's queue.
Dispatch(o) ==
    /\ o \in CronRuns
    /\ Alive /\ cron
    /\ op[o] = "none"
    /\ op' = [op EXCEPT ![o] = "dispatched"]
    /\ UNCHANGED <<gates, cron, server, tracker>>

AcceptCall(o) ==
    /\ o \in Calls
    /\ Alive
    /\ server[ServerOf[o]] = "accepting"
    /\ op[o] = "none"
    /\ op' = [op EXCEPT ![o] = "handling"]
    /\ UNCHANGED <<gates, cron, server, tracker>>

\* The handler answers without starting a job.
AnswerCall(o) ==
    /\ Alive
    /\ op[o] = "handling"
    /\ op' = [op EXCEPT ![o] = "done"]
    /\ UNCHANGED <<gates, cron, server, tracker>>

\* begin: the counter first ...
Begin(o) ==
    /\ Alive
    /\ op[o] \in {"dispatched", "handling"}
    /\ active' = active + 1
    /\ op' = [op EXCEPT ![o] = "begun"]
    /\ UNCHANGED <<gates, cron, server, permit>>

\* ... then the notification.
NotifyBegun(o) ==
    /\ Alive
    /\ op[o] = "begun"
    /\ permit' = TRUE
    /\ op' = [op EXCEPT ![o] = "running"]
    /\ UNCHANGED <<gates, cron, server, active>>

\* mutant: only the end of the first of several operations notifies
EndNotifyingOthers(o) ==
    /\ Alive
    /\ op[o] = "running"
    /\ active' = active - 1
    /\ op' = [op EXCEPT ![o] = IF active > 1 THEN "notifying" ELSE "done"]
    /\ UNCHANGED <<gates, cron, server, permit>>
\* The guard is dropped when the operation returns, fails or panics; the last
\* one out notifies.
End(o) ==
    /\ Alive
    /\ op[o] = "running"
    /\ active' = active - 1
    /\ op' = [op EXCEPT ![o] = IF active = 1 THEN "notifying" ELSE "done"]
    /\ UNCHANGED <<gates, cron, server, permit>>

NotifyIdle(o) ==
    /\ Alive
    /\ op[o] = "notifying"
    /\ permit' = TRUE
    /\ op' = [op EXCEPT ![o] = "done"]
    /\ UNCHANGED <<gates, cron, server, active>>

-----------------------------------------------------------------------------
(* The gates.                                                              *)

\* Gate 1: the watch channel says that the process shuts down.
Signal ==
    /\ main = "serving"
    /\ main' = "scheduler"
    /\ UNCHANGED <<forced, cron, server, op, tracker>>

\* Gate 2: no more triggers; what was dispatched stays dispatched.
StopScheduler ==
    /\ main = "scheduler"
    /\ cron' = FALSE
    /\ main' = "grpc"
    /\ UNCHANGED <<forced, server, op, tracker>>

\* A server sees the watch channel and accepts no more ...
Drain(s) ==
    /\ Alive /\ main # "serving"
    /\ server[s] = "accepting"
    /\ server' = [server EXCEPT ![s] = "draining"]
    /\ UNCHANGED <<gates, cron, op, tracker>>

\* ... and ends when no handler of it is left.
StopServer(s) ==
    /\ Alive
    /\ server[s] = "draining"
    /\ \A o \in Calls : ServerOf[o] = s => op[o] # "handling"
    /\ server' = [server EXCEPT ![s] = "stopped"]
    /\ UNCHANGED <<gates, cron, op, tracker>>

\* Gate 3: gRPC first, then HTTP.
NextGate == IF main = "grpc" THEN "web" ELSE "check"

\* mutant: the servers are told to stop but not awaited
GoOn(s) ==
    /\ main = s
    /\ main' = NextGate
    /\ UNCHANGED <<forced, cron, server, op, tracker>>
AwaitServer(s) ==
    /\ main = s
    /\ server[s] = "stopped"
    /\ main' = NextGate
    /\ UNCHANGED <<forced, cron, server, op, tracker>>

\* After 30 seconds the server's task is aborted, or it had ended before with an error or
\* a panic; its connections are tasks of their own, whose handlers may go on.
AbortServer(s) ==
    /\ main = s
    /\ server[s] # "stopped"
    /\ server' = [server EXCEPT ![s] = "aborted"]
    /\ main' = NextGate
    /\ forced' = TRUE
    /\ UNCHANGED <<cron, op, tracker>>

\* Gate 4, wait_for_idle.
CheckIdle ==
    /\ main = "check"
    /\ main' = IF active = 0 THEN "quiet" ELSE "notified"
    /\ UNCHANGED <<forced, cron, server, op, tracker>>

\* What is assumed of the runtime: a future that was dispatched before the quiet
\* period of 100 ms has been polled when it ends.
Polled == \A o \in CronRuns : op[o] # "dispatched"

QuietPeriodEnds ==
    /\ main = "quiet"
    /\ Polled
    /\ main' = IF active = 0 THEN "priceTasks" ELSE "notified"
    /\ UNCHANGED <<forced, cron, server, op, tracker>>

Wake ==
    /\ main = "notified"
    /\ permit
    /\ permit' = FALSE
    /\ main' = "check"
    /\ UNCHANGED <<forced, cron, server, op, active>>

\* Five minutes have passed: shutdown goes on with a warning.
IdleTimeOut ==
    /\ main \in {"check", "quiet", "notified"}
    /\ main' = "priceTasks"
    /\ forced' = TRUE
    /\ UNCHANGED <<cron, server, op, tracker>>

\* Gate 5, stop_price_tasks; then main returns.
StopPriceTasks ==
    /\ main = "priceTasks"
    /\ main' = "exited"
    /\ UNCHANGED <<forced, cron, server, op, tracker>>

Work(o) == AnswerCall(o) \/ Begin(o) \/ NotifyBegun(o) \/ End(o) \/ NotifyIdle(o)
Serve(s) == Drain(s) \/ StopServer(s)
Gate ==
    \/ StopScheduler
    \/ \E s \in Servers : AwaitServer(s)
    \/ CheckIdle \/ QuietPeriodEnds \/ Wake
    \/ StopPriceTasks
TimeOut == IdleTimeOut \/ \E s \in Servers : AbortServer(s)

Next ==
    \/ Signal
    \/ \E o \in Operations : Dispatch(o) \/ AcceptCall(o) \/ Work(o)
    \/ \E s \in Servers : Serve(s)
    \/ Gate \/ TimeOut

Spec == Init /\ [][Next]_vars

\* Operations end (a cron job by the timeouts of its requests, a backfill by its
\* own), and the runtime polls what is ready.  New triggers, requests, the signal
\* itself and timeouts need not come.
FairSpec ==
    /\ Spec
    /\ WF_vars(Gate)
    /\ \A o \in Operations : WF_vars(Work(o))
    /\ \A s \in Servers : WF_vars(Serve(s))

-----------------------------------------------------------------------------
(* Properties.                                                             *)

\* Every variable has its type.
TypeOK ==
    /\ main \in {"serving", "scheduler", "grpc", "web", "check", "quiet",
                 "notified", "priceTasks", "exited"}
    /\ forced \in BOOLEAN /\ cron \in BOOLEAN /\ permit \in BOOLEAN
    /\ server \in [Servers -> {"accepting", "draining", "stopped", "aborted"}]
    /\ op \in [Operations -> {"none", "dispatched", "handling", "begun", "running",
                              "notifying", "done"}]
    /\ active \in 0..Cardinality(Operations)

Counted == {o \in Operations : op[o] \in {"begun", "running"}}

\* The counter is the number of operations between their first statement and the
\* drop of their guard, on every interleaving of counter and notification.
CounterIsExact == active = Cardinality(Counted)

InFlight(o) == op[o] \in {"dispatched", "handling", "begun", "running"}

\* When every gate was passed in time, no cron job and no backfill is in flight
\* as the process exits: nothing is cut off in the middle of its writes.
CleanExit == main = "exited" /\ ~forced => \A o \in Operations : ~InFlight(o)

\* A wait for a notification that is no longer justified has been or is about to
\* be notified, however counting and notifying interleave.
NoLostWakeup ==
    main = "notified" /\ active = 0 =>
        permit \/ \E o \in Operations : op[o] = "notifying"

\* The process exits after the signal without having to rely on a timeout:
\* operations that end let main through every gate.
ShutdownEnds == main = "scheduler" ~> main = "exited"
=============================================================================
