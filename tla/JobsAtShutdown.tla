--------------------------- MODULE JobsAtShutdown ---------------------------
(***************************************************************************)
(* The registry of backfill jobs inside the process that shuts down: a     *)
(* call that a server accepted starts a job, whose task is the background  *)
(* operation that main counts.  GracefulShutdown and BackfillJobs take     *)
(* their steps together: where one says "an operation runs", the other     *)
(* says what its task does with the table and the permits.                 *)
(*                                                                         *)
(* Source: start_job_with_timeout in                                       *)
(* interfaces/web/backfill_admin/job_runner.rs, core/shutdown.rs, main.rs. *)
(***************************************************************************)
EXTENDS GracefulShutdown

CONSTANTS Requests, NoRequest, MaxConcurrent, MaxRetained, MaxJobs,
          Asks          \* call -> the requests it may carry

ASSUME JobsAssumption ==
    /\ MaxConcurrent \in Nat \ {0} /\ MaxRetained \in Nat /\ MaxJobs \in Nat
    /\ NoRequest \notin Requests /\ Asks \in [Calls -> SUBSET Requests]

VARIABLES nextId, status, request, permits, task,    \* as in BackfillJobs
          jobOf,       \* call -> the job its handler has registered, or 0
          panicked     \* auxiliary: the jobs whose run panicked

registry == <<nextId, status, request, permits, task>>
jsVars == <<vars, registry, jobOf, panicked>>

\* The tracker counts cron runs as well; this is the jobs' part of it.
GuardedCalls == {o \in Calls : op[o] \in {"begun", "running"}}

Jobs == INSTANCE BackfillJobs WITH active <- Cardinality(GuardedCalls)

JSInit ==
    /\ Init
    /\ Jobs!Init
    /\ jobOf = [o \in Calls |-> 0]
    /\ panicked = {}

-----------------------------------------------------------------------------
(* A call and its job.                                                     *)

\* The critical section of start_job_with_timeout in the handler.
StartJob(o) ==
    /\ Alive
    /\ op[o] = "handling" /\ jobOf[o] = 0
    /\ UNCHANGED <<vars, panicked>>
    /\ \E r \in Asks[o] : Jobs!Register(r)
    /\ jobOf' = [jobOf EXCEPT ![o] = nextId]

\* A refused start, or another request.
AnswerWithoutJob(o) ==
    /\ o \in Calls /\ jobOf[o] = 0
    /\ AnswerCall(o)
    /\ UNCHANGED <<registry, jobOf, panicked>>

\* The guard is taken before the task is spawned.
BeginJob(o) ==
    /\ o \in Calls /\ jobOf[o] # 0
    /\ Begin(o)
    /\ Jobs!Spawn(jobOf[o])
    /\ UNCHANGED <<jobOf, panicked>>

\* begin goes on; the spawn follows it.
SpawnJob(o) ==
    /\ NotifyBegun(o)
    /\ UNCHANGED <<registry, jobOf, panicked>>

JobRuns(o) ==
    /\ Alive
    /\ o \in Calls /\ op[o] = "running"
    /\ UNCHANGED <<vars, jobOf, panicked>>
    /\ Jobs!RunEnds(jobOf[o]) \/ Jobs!Record(jobOf[o]) \/ Jobs!ReleasePermit(jobOf[o])

JobPanics(o) ==
    /\ Alive
    /\ o \in Calls /\ op[o] = "running"
    /\ UNCHANGED <<vars, jobOf>>
    /\ Jobs!Panic(jobOf[o])
    /\ panicked' = panicked \cup {jobOf[o]}

\* mutant: the guard is not moved into the task, and dropped by the handler
EndWithHandler(o) ==
    /\ o \in Calls
    /\ End(o)
    /\ UNCHANGED <<registry, jobOf, panicked>>
\* The guard is the last of the task's locals to be dropped.
EndJob(o) ==
    /\ o \in Calls
    /\ End(o)
    /\ Jobs!EndOperation(jobOf[o])
    /\ UNCHANGED <<jobOf, panicked>>

-----------------------------------------------------------------------------
(* Everything else leaves the registry alone.                              *)

CallStep(o) ==
    \/ AnswerWithoutJob(o) \/ StartJob(o) \/ BeginJob(o) \/ SpawnJob(o)
    \/ JobRuns(o) \/ EndJob(o)

CronStep(o) ==
    /\ o \in CronRuns
    /\ Work(o)
    /\ UNCHANGED <<registry, jobOf, panicked>>

OperationStep(o) ==
    \/ CallStep(o)
    \/ CronStep(o)
    \/ o \in Calls /\ NotifyIdle(o) /\ UNCHANGED <<registry, jobOf, panicked>>

Arrive(o) == (Dispatch(o) \/ AcceptCall(o)) /\ UNCHANGED <<registry, jobOf, panicked>>

MainStep ==
    /\ Signal \/ Gate \/ TimeOut \/ \E s \in Servers : Serve(s)
    /\ UNCHANGED <<registry, jobOf, panicked>>

JSNext ==
    \/ \E o \in Operations : Arrive(o) \/ OperationStep(o)
    \/ \E o \in Calls : JobPanics(o)
    \/ MainStep

JSSpec == JSInit /\ [][JSNext]_jsVars

\* Less than in GracefulShutdown: the runtime need not be fair to each operation,
\* as each takes finitely many steps; the steps of a job precede its end.
JSFairness ==
    /\ WF_vars(Gate)
    /\ WF_jsVars(\E o \in Operations : OperationStep(o))
    /\ WF_vars(\E s \in Servers : Serve(s))

-----------------------------------------------------------------------------
(* Properties.                                                             *)

\* An exit without a timeout leaves no job behind: each has given back its
\* permit and its guard, and none is listed as running unless its run panicked.
\* The counter, taken before the spawn, is what carries this over (job_runner.rs:398).
JobsEndBeforeExit ==
    main = "exited" /\ ~forced =>
        /\ permits = MaxConcurrent
        /\ \A i \in Jobs!Ids : task[i] \in {"none", "gone"}
        /\ \A i \in Jobs!Ids : status[i] = "running" => i \in panicked

\* Put together, the registry is still the one of BackfillJobs and the shutdown
\* the one of GracefulShutdown, whose theorems so hold here.
BothKeepTheirPromises == Jobs!Spec /\ Spec
=============================================================================
