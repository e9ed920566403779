---------------------------- MODULE BackfillJobs ----------------------------
(***************************************************************************)
(* The registry of manual backfill jobs: HTTP and gRPC handlers register a *)
(* job in a shared table under its write lock, take one of a few permits,  *)
(* and spawn a task that runs the backfill, records the outcome under the  *)
(* same lock, and gives back its permit and its operation guard.           *)
(*                                                                         *)
(* Source: interfaces/web/backfill_admin/{state,job_runner}.rs.            *)
(*                                                                         *)
(* The lock is held only between two awaits, so each critical section is   *)
(* one step.  A request stands for the pair (kind, input).  Job ids are    *)
(* numbers: both the ids and started_at are handed out under the lock, so  *)
(* their order is the order of started_at that pruning goes by.            *)
(***************************************************************************)
EXTENDS Integers, FiniteSets

CONSTANTS Requests,        \* the (kind, input) pairs callers ask for
          NoRequest,
          MaxConcurrent,   \* MAX_CONCURRENT_JOBS
          MaxRetained,     \* MAX_FINISHED_JOBS_RETAINED
          MaxJobs          \* bound on the jobs ever started

ASSUME NoRequestAssumption == NoRequest \notin Requests
ASSUME LimitsAssumption == MaxConcurrent \in Nat \ {0} /\ MaxRetained \in Nat
ASSUME MaxJobsAssumption == MaxJobs \in Nat

VARIABLES nextId,    \* BackfillWebState.next_id
          status,    \* id -> status in the job table, "absent" without an entry
          request,   \* id -> the job's (kind, input)
          permits,   \* free permits of job_slots
          active,    \* BACKGROUND_OPERATIONS' counter, as far as jobs go
          task       \* id -> the handler that starts the job, then its task

vars == <<nextId, status, request, permits, active, task>>

Ids == 1..MaxJobs

Init ==
    /\ nextId = 1
    /\ status = [i \in Ids |-> "absent"]
    /\ request = [i \in Ids |-> NoRequest]
    /\ permits = MaxConcurrent
    /\ active = 0
    /\ task = [i \in Ids |-> "none"]

FinishedIn(s) == {i \in Ids : s[i] \in {"succeeded", "failed"}}
Finished == FinishedIn(status)

\* The same (kind, input) has a running entry.
AnyActive(r) == FALSE    \* mutant: no search for duplicates
FindActive(r) == \E i \in Ids : status[i] = "running" /\ request[i] = r

\* mutant: the newest finished jobs go first
PrunedNewest(s) ==
    LET F == FinishedIn(s) IN
    [i \in Ids |-> IF i \in F /\ Cardinality({j \in F : j < i}) >= MaxRetained
                   THEN "absent" ELSE s[i]]
\* prune_finished_jobs: the oldest finished jobs beyond the limit go.
Pruned(s) ==
    LET F == FinishedIn(s) IN
    [i \in Ids |-> IF i \in F /\ Cardinality({j \in F : j > i}) >= MaxRetained
                   THEN "absent" ELSE s[i]]

-----------------------------------------------------------------------------
(* The handler.  A duplicate or a missing permit is refused before any     *)
(* change, so the refusals are no actions.                                 *)

Register(r) ==
    /\ nextId \in Ids
    /\ ~FindActive(r)
    /\ permits > 0
    /\ permits' = permits - 1
    /\ nextId' = nextId + 1
    /\ request' = [request EXCEPT ![nextId] = r]
    /\ status' = Pruned([status EXCEPT ![nextId] = "running"])
    /\ task' = [task EXCEPT ![nextId] = "registered"]
    /\ UNCHANGED active

\* After the lock is released: the operation guard, then tokio::spawn.
Spawn(i) ==
    /\ task[i] = "registered"
    /\ active' = active + 1
    /\ task' = [task EXCEPT ![i] = "running"]
    /\ UNCHANGED <<nextId, status, request, permits>>

-----------------------------------------------------------------------------
(* The job's task.                                                         *)

\* mutant: no timeout, and the run of the first job hangs
RunMayHang(i) ==
    /\ task[i] = "running" /\ i # 1
    /\ task' = [task EXCEPT ![i] = "recording"]
    /\ UNCHANGED <<nextId, status, request, permits, active>>
\* run() returned, failed, or was dropped by the timeout.
RunEnds(i) ==
    /\ task[i] = "running"
    /\ task' = [task EXCEPT ![i] = "recording"]
    /\ UNCHANGED <<nextId, status, request, permits, active>>

\* run() panicked: the task unwinds without recording anything.
Panic(i) ==
    /\ task[i] = "running"
    /\ task' = [task EXCEPT ![i] = "releasing"]
    /\ UNCHANGED <<nextId, status, request, permits, active>>

\* The outcome goes to the entry, if the table still has one.
Record(i) ==
    /\ task[i] = "recording"
    /\ IF status[i] = "absent" THEN UNCHANGED status
       ELSE \E outcome \in {"succeeded", "failed"} :
              status' = [status EXCEPT ![i] = outcome]
    /\ task' = [task EXCEPT ![i] = "releasing"]
    /\ UNCHANGED <<nextId, request, permits, active>>

\* mutant: the permit was leaked (forgotten instead of moved into the task)
LeakPermit(i) ==
    /\ task[i] = "releasing"
    /\ task' = [task EXCEPT ![i] = "ending"]
    /\ UNCHANGED <<nextId, status, request, permits, active>>
\* The task's locals are dropped in reverse order: the permit ...
ReleasePermit(i) ==
    /\ task[i] = "releasing"
    /\ permits' = permits + 1
    /\ task' = [task EXCEPT ![i] = "ending"]
    /\ UNCHANGED <<nextId, status, request, active>>

\* ... then the operation guard.
EndOperation(i) ==
    /\ task[i] = "ending"
    /\ active' = active - 1
    /\ task' = [task EXCEPT ![i] = "gone"]
    /\ UNCHANGED <<nextId, status, request, permits>>

TaskStep(i) == Spawn(i) \/ RunEnds(i) \/ Record(i) \/ ReleasePermit(i) \/ EndOperation(i)

Next ==
    \/ \E r \in Requests : Register(r)
    \/ \E i \in Ids : TaskStep(i) \/ Panic(i)

Spec == Init /\ [][Next]_vars

\* Every run is bounded by its timeout, the lock is fair (tokio's RwLock queues)
\* and the runtime polls what is ready, so a task takes its next step.
FairSpec == Spec /\ \A i \in Ids : WF_vars(TaskStep(i))

-----------------------------------------------------------------------------
(* Properties.                                                             *)

TaskPcs == {"none", "registered", "running", "recording", "releasing", "ending", "gone"}

\* Every variable has its type.
TypeOK ==
    /\ nextId \in 1..(MaxJobs + 1)
    /\ status \in [Ids -> {"absent", "running", "succeeded", "failed"}]
    /\ request \in [Ids -> Requests \cup {NoRequest}]
    /\ permits \in 0..MaxConcurrent
    /\ active \in Int
    /\ task \in [Ids -> TaskPcs]

Executing == {i \in Ids : task[i] \in {"registered", "running"}}
Unrecorded == {i \in Ids : task[i] \in {"registered", "running", "recording"}}
HoldingPermit == {i \in Ids : task[i] \in {"registered", "running", "recording", "releasing"}}
Guarded == {i \in Ids : task[i] \in {"running", "recording", "releasing", "ending"}}

\* Two backfills of the same (kind, input) never run at once: they would delete
\* and overwrite each other's rows (find_active_job in state.rs).
ExclusiveRuns ==
    \A i, j \in Executing : request[i] = request[j] => i = j

\* No permit is lost or made up on any way out of a job, so at most
\* MAX_CONCURRENT_JOBS backfills run and capacity always comes back.
PermitsAccounted ==
    permits + Cardinality(HoldingPermit) = MaxConcurrent

\* A backfill that still has to run or to be recorded is listed as running, so
\* a caller always finds the job it started (prune_finished_jobs in state.rs).
UnfinishedIsListed ==
    \A i \in Unrecorded : status[i] = "running"

\* The table holds at most the retained jobs and those that finished since the
\* last start, of which there are no more than permits.
FinishedIsBounded ==
    Cardinality(Finished) + Cardinality(Unrecorded) <= MaxRetained + MaxConcurrent

\* A job leaves the table only when it is finished and MAX_FINISHED_JOBS_RETAINED
\* finished jobs younger than it stay.
OldestLeave ==
    \A i \in Ids :
        status[i] # "absent" /\ status'[i] = "absent" =>
            /\ i \in Finished
            /\ Cardinality({j \in Finished : j > i /\ status'[j] = status[j]}) >= MaxRetained
OldestGoFirst == [][OldestLeave]_vars

\* Every task that was started gives its permit and its guard back, whatever its
\* run does, and its job is recorded unless the run panicked.
EveryJobEnds ==
    \A i \in Ids : task[i] = "registered" ~> task[i] = "gone"

\* The counter the shutdown waits on is the number of tasks holding a guard.
GuardsCounted == active = Cardinality(Guarded)

\* BackfillJobStatus::Running is documented as "registered, and the background
\* task is executing".
RunningHasTask ==
    \A i \in Ids : status[i] = "running" => i \in HoldingPermit
=============================================================================
