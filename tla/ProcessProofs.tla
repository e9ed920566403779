--------------------------- MODULE ProcessProofs ----------------------------
(***************************************************************************)
(* The process: its shutdown, the jobs it may leave behind and its event   *)
(* dispatcher, for any number of cron runs, calls, jobs and events.        *)
(***************************************************************************)
EXTENDS MCProcess, FiniteSetTheorems, SequenceTheorems, TLAPS

-----------------------------------------------------------------------------
(* Types, except for the upper bound of the counter, which follows from it *)
(* being exact.                                                            *)

Mains == {"serving", "scheduler", "grpc", "web", "check", "quiet",
          "notified", "priceTasks", "exited"}
OpPcs == {"none", "dispatched", "handling", "begun", "running", "notifying", "done"}
ServerStates == {"accepting", "draining", "stopped", "aborted"}

ShutdownTypes ==
    /\ main \in Mains
    /\ forced \in BOOLEAN /\ cron \in BOOLEAN /\ permit \in BOOLEAN
    /\ server \in [Servers -> ServerStates]
    /\ op \in [Operations -> OpPcs]
    /\ active \in Int

LEMMA ShutdownTypesStart == Init => ShutdownTypes
<1> SUFFICES ASSUME Init PROVE ShutdownTypes
  OBVIOUS
<1>1. PICK grpc \in {"accepting", "stopped"} :
        server = [s \in Servers |-> IF s = "grpc" THEN grpc ELSE "accepting"]
  BY DEF Init
<1>2. server \in [Servers -> ServerStates]
  BY <1>1 DEF ServerStates
<1>3. op \in [Operations -> OpPcs]
  BY DEF Init, OpPcs
<1>4. main \in Mains /\ active \in Int
  BY DEF Init, Mains
<1>5. forced \in BOOLEAN /\ cron \in BOOLEAN /\ permit \in BOOLEAN
  BY DEF Init
<1> QED
  BY <1>2, <1>3, <1>4, <1>5 DEF ShutdownTypes

LEMMA ShutdownTypesKeep == ShutdownTypes /\ [Next]_vars => ShutdownTypes'
<1> SUFFICES ASSUME ShutdownTypes, [Next]_vars PROVE ShutdownTypes'
  OBVIOUS
<1> USE DEF ShutdownTypes, Mains, OpPcs, ServerStates
<1>1. CASE Signal
  BY <1>1 DEF Signal, tracker
<1>2. ASSUME NEW o \in Operations, Dispatch(o) \/ AcceptCall(o) PROVE ShutdownTypes'
  BY <1>2 DEF Dispatch, AcceptCall, gates, tracker
<1>3. ASSUME NEW o \in Operations, Work(o) PROVE ShutdownTypes'
  <2>1. op' \in [Operations -> OpPcs]
    <3>1. CASE End(o)
      <4>1. (IF active = 1 THEN "notifying" ELSE "done") \in OpPcs
        OBVIOUS
      <4> QED
        BY <3>1, <4>1 DEF End
    <3>2. CASE AnswerCall(o) \/ Begin(o) \/ NotifyBegun(o) \/ NotifyIdle(o)
      BY <3>2 DEF AnswerCall, Begin, NotifyBegun, NotifyIdle
    <3> QED
      BY <1>3, <3>1, <3>2 DEF Work
  <2>2. active' \in Int
    BY <1>3 DEF Work, AnswerCall, Begin, NotifyBegun, End, NotifyIdle, tracker
  <2>3. permit' = permit \/ permit' = TRUE
    BY <1>3, Zenon DEF Work, AnswerCall, Begin, NotifyBegun, End, NotifyIdle, tracker
  <2>4. UNCHANGED <<gates, cron, server>>
    BY <1>3 DEF Work, AnswerCall, Begin, NotifyBegun, End, NotifyIdle
  <2> QED
    BY <2>1, <2>2, <2>3, <2>4 DEF gates
<1>4. ASSUME NEW s \in Servers, Serve(s) PROVE ShutdownTypes'
  BY <1>4 DEF Serve, Drain, StopServer, gates, tracker
<1>5. CASE Gate
  BY <1>5 DEF Gate, StopScheduler, AwaitServer, NextGate, CheckIdle, QuietPeriodEnds, Wake,
              StopPriceTasks, tracker
<1>6. CASE TimeOut
  BY <1>6 DEF TimeOut, IdleTimeOut, AbortServer, NextGate, tracker
<1>7. CASE UNCHANGED vars
  BY <1>7 DEF vars, gates, tracker
<1> QED
  BY <1>1, <1>2, <1>3, <1>4, <1>5, <1>6, <1>7 DEF Next

-----------------------------------------------------------------------------
(* The counter.                                                            *)

LEMMA CountedIsFinite ==
  ASSUME NEW S \in SUBSET Operations
  PROVE  IsFiniteSet(S) /\ Cardinality(S) \in Nat /\ Cardinality(S) <= Cardinality(Operations)
BY OperationsAssumption, FS_Subset, FS_CardinalityType

LEMMA CounterInit == Init => CounterIsExact
<1> SUFFICES ASSUME Init PROVE CounterIsExact
  OBVIOUS
<1>1. Counted = {}
  BY DEF Init, Counted
<1> QED
  BY <1>1, FS_EmptySet DEF Init, CounterIsExact

LEMMA CounterStep == ShutdownTypes /\ CounterIsExact /\ [Next]_vars => CounterIsExact'
<1> SUFFICES ASSUME ShutdownTypes, CounterIsExact, [Next]_vars PROVE CounterIsExact'
  OBVIOUS
<1> USE DEF CounterIsExact
<1>0. IsFiniteSet(Counted)
  <2>1. Counted \in SUBSET Operations
    BY DEF Counted
  <2> QED
    BY <2>1, CountedIsFinite
<1>1. ASSUME NEW o \in Operations, Begin(o) PROVE CounterIsExact'
  <2>1. Counted' = Counted \cup {o} /\ o \notin Counted /\ active' = active + 1
    BY <1>1 DEF Begin, Counted, ShutdownTypes
  <2> QED
    BY <1>0, <2>1, FS_AddElement
<1>2. ASSUME NEW o \in Operations, End(o) PROVE CounterIsExact'
  <2>1. Counted' = Counted \ {o} /\ o \in Counted /\ active' = active - 1
    BY <1>2 DEF End, Counted, ShutdownTypes
  <2> QED
    BY <1>0, <2>1, FS_RemoveElement
<1>3. ASSUME NEW o \in Operations,
             Dispatch(o) \/ AcceptCall(o) \/ AnswerCall(o) \/ NotifyBegun(o) \/ NotifyIdle(o)
      PROVE  CounterIsExact'
  <2>1. Counted' = Counted /\ active' = active
    BY <1>3 DEF Dispatch, AcceptCall, AnswerCall, NotifyBegun, NotifyIdle, Counted, ShutdownTypes, tracker
  <2> QED
    BY <2>1
<1>4. CASE op' = op /\ active' = active
  BY <1>4 DEF Counted
<1>5. CASE Signal \/ Gate \/ TimeOut \/ \E s \in Servers : Serve(s)
  BY <1>4, <1>5 DEF Signal, Gate, StopScheduler, AwaitServer, CheckIdle, QuietPeriodEnds, Wake,
     StopPriceTasks, TimeOut, IdleTimeOut, AbortServer, Serve, Drain, StopServer, tracker
<1>6. CASE UNCHANGED vars
  BY <1>4, <1>6 DEF vars, tracker
<1> QED
  BY <1>1, <1>2, <1>3, <1>5, <1>6 DEF Next, Work

-----------------------------------------------------------------------------
(* The gates.                                                              *)

\* What main has behind it when it got there without a timeout.
Passed ==
    /\ cron => main \in {"serving", "scheduler"}
    /\ \A o \in CronRuns : op[o] # "handling"
    /\ \A o \in Calls : op[o] # "dispatched"
    /\ \A o \in Calls : server[ServerOf[o]] = "stopped" => op[o] # "handling"
    /\ ~forced =>
         /\ main \in {"web", "check", "quiet", "notified", "priceTasks", "exited"} =>
              server["grpc"] = "stopped"
         /\ main \in {"check", "quiet", "notified", "priceTasks", "exited"} =>
              server["web"] = "stopped"
         /\ main \in {"priceTasks", "exited"} => \A o \in Operations : ~InFlight(o)

LEMMA PassedInit == Init => Passed
BY OperationsAssumption DEF Init, Passed, Operations

LEMMA PassedStep == ShutdownTypes /\ CounterIsExact /\ Passed /\ [Next]_vars => Passed'
<1> SUFFICES ASSUME ShutdownTypes, CounterIsExact, Passed, [Next]_vars PROVE Passed'
  OBVIOUS
<1>0. \A o \in Calls : o \in Operations /\ o \notin CronRuns /\ ServerOf[o] \in Servers
  BY OperationsAssumption, ServerAssumption DEF Operations
<1>1. CASE Signal
  BY <1>1 DEF Signal, Passed, InFlight, tracker
<1>2. ASSUME NEW o \in Operations, Dispatch(o) PROVE Passed'
  BY <1>0, <1>2 DEF Dispatch, Passed, InFlight, ShutdownTypes, gates, tracker
<1>3. ASSUME NEW o \in Operations, AcceptCall(o) PROVE Passed'
  BY <1>0, <1>3 DEF AcceptCall, Passed, InFlight, ShutdownTypes, gates, tracker, Servers
<1>4. ASSUME NEW o \in Operations, Work(o) PROVE Passed'
  <2>1. /\ UNCHANGED <<gates, cron, server>>
        /\ \A k \in Operations : op'[k] \in {"dispatched", "handling"} => op'[k] = op[k]
    BY <1>4 DEF Work, AnswerCall, Begin, NotifyBegun, End, NotifyIdle, ShutdownTypes, gates
  <2>2. \A k \in Operations : ~InFlight(k) => ~InFlight(k)'
    BY <1>4 DEF Work, AnswerCall, Begin, NotifyBegun, End, NotifyIdle, ShutdownTypes, InFlight
  <2>3. \A k \in CronRuns : k \in Operations
    BY DEF Operations
  <2> QED
    BY <1>0, <2>1, <2>2, <2>3 DEF Passed, gates
<1>5. ASSUME NEW s \in Servers, Serve(s) PROVE Passed'
  BY <1>0, <1>5 DEF Serve, Drain, StopServer, Passed, InFlight, ShutdownTypes, gates, tracker, Servers
<1>6. CASE QuietPeriodEnds
  <2>1. CASE active = 0 /\ ~forced
    <3>1. Counted \in SUBSET Operations
      BY DEF Counted
    <3>2. Counted = {}
      BY <2>1, <3>1, CountedIsFinite, FS_EmptySet DEF CounterIsExact
    <3>3. server["grpc"] = "stopped" /\ server["web"] = "stopped"
      BY <1>6, <2>1 DEF QuietPeriodEnds, Passed
    <3>4. \A o \in Operations : ~InFlight(o)
      BY <1>0, <1>6, <3>2, <3>3
         DEF QuietPeriodEnds, Polled, Passed, InFlight, Counted, Operations, Servers
    <3> QED
      BY <1>6, <3>3, <3>4 DEF QuietPeriodEnds, Passed, InFlight, tracker
  <2>2. CASE ~(active = 0 /\ ~forced)
    BY <1>6, <2>2 DEF QuietPeriodEnds, Passed, InFlight, tracker
  <2> QED
    BY <2>1, <2>2
<1>7. CASE StopScheduler \/ CheckIdle \/ Wake \/ StopPriceTasks
  BY <1>7 DEF StopScheduler, CheckIdle, Wake, StopPriceTasks, Passed, InFlight, tracker
<1>8. ASSUME NEW s \in Servers, AwaitServer(s) PROVE Passed'
  BY <1>8 DEF AwaitServer, NextGate, Passed, InFlight, tracker, Servers
<1>9. CASE TimeOut
  BY <1>0, <1>9 DEF TimeOut, IdleTimeOut, AbortServer, NextGate, Passed, InFlight, ShutdownTypes,
                    tracker, Servers
<1>10. CASE UNCHANGED vars
  BY <1>10 DEF vars, gates, tracker, Passed, InFlight
<1> QED
  BY <1>1, <1>2, <1>3, <1>4, <1>5, <1>6, <1>7, <1>8, <1>9, <1>10 DEF Next, Gate

-----------------------------------------------------------------------------
(* The notification.                                                       *)

LEMMA WakeupInit == Init => NoLostWakeup
BY DEF Init, NoLostWakeup

LEMMA WakeupStep ==
  ShutdownTypes /\ CounterIsExact /\ NoLostWakeup /\ [Next]_vars => NoLostWakeup'
<1> SUFFICES ASSUME ShutdownTypes, CounterIsExact, NoLostWakeup, [Next]_vars PROVE NoLostWakeup'
  OBVIOUS
<1> USE DEF NoLostWakeup
<1>0. active >= 0
  <2>1. Counted \in SUBSET Operations
    BY DEF Counted
  <2> QED
    BY <2>1, CountedIsFinite DEF CounterIsExact
<1>1. CASE Signal
  BY <1>1 DEF Signal
<1>2. ASSUME NEW o \in Operations, Dispatch(o) \/ AcceptCall(o) \/ AnswerCall(o)
      PROVE  NoLostWakeup'
  BY <1>2 DEF Dispatch, AcceptCall, AnswerCall, ShutdownTypes, gates, tracker
<1>3. ASSUME NEW o \in Operations, Begin(o) PROVE NoLostWakeup'
  BY <1>0, <1>3 DEF Begin, ShutdownTypes
<1>4. ASSUME NEW o \in Operations, NotifyBegun(o) \/ NotifyIdle(o) PROVE NoLostWakeup'
  BY <1>4 DEF NotifyBegun, NotifyIdle
<1>5. ASSUME NEW o \in Operations, End(o) PROVE NoLostWakeup'
  BY <1>5 DEF End, ShutdownTypes
<1>6. CASE \E s \in Servers : Serve(s)
  BY <1>6 DEF Serve, Drain, StopServer, gates, tracker
<1>7. CASE Gate
  BY <1>7 DEF Gate, StopScheduler, AwaitServer, NextGate, CheckIdle, QuietPeriodEnds, Wake,
              StopPriceTasks, tracker
<1>8. CASE TimeOut
  BY <1>8 DEF TimeOut, IdleTimeOut, AbortServer, NextGate, tracker
<1>9. CASE UNCHANGED vars
  BY <1>9 DEF vars, gates, tracker
<1> QED
  BY <1>1, <1>2, <1>3, <1>4, <1>5, <1>6, <1>7, <1>8, <1>9 DEF Next, Work

-----------------------------------------------------------------------------
(* The theorems.                                                           *)

ShutdownInv == ShutdownTypes /\ CounterIsExact /\ Passed /\ NoLostWakeup

LEMMA ShutdownInvAlways == Spec => []ShutdownInv
<1>1. Init => ShutdownInv
  BY ShutdownTypesStart, CounterInit, PassedInit, WakeupInit DEF ShutdownInv
<1>2. ShutdownInv /\ [Next]_vars => ShutdownInv'
  BY ShutdownTypesKeep, CounterStep, PassedStep, WakeupStep DEF ShutdownInv
<1> QED
  BY <1>1, <1>2, PTL DEF Spec

\* Every variable has its type; the counter is bounded because it is exact.
THEOREM ShutdownTypeCorrect == Spec => []TypeOK
<1>1. ShutdownInv => TypeOK
  <2> SUFFICES ASSUME ShutdownInv PROVE TypeOK
    OBVIOUS
  <2>1. Counted \in SUBSET Operations
    BY DEF Counted
  <2>2. active \in 0..Cardinality(Operations)
    BY <2>1, CountedIsFinite, OperationsAssumption, FS_CardinalityType
       DEF ShutdownInv, CounterIsExact
  <2> QED
    BY <2>2 DEF ShutdownInv, ShutdownTypes, TypeOK, Mains, OpPcs, ServerStates
<1> QED
  BY <1>1, ShutdownInvAlways, PTL

\* The counter is the number of operations between their first statement and the
\* drop of their guard.
THEOREM CounterStaysExact == Spec => []CounterIsExact
<1>1. ShutdownInv => CounterIsExact
  BY DEF ShutdownInv
<1> QED
  BY <1>1, ShutdownInvAlways, PTL

\* An exit without any timeout leaves no cron job and no backfill in flight.
THEOREM ExitIsClean == Spec => []CleanExit
<1>1. ShutdownInv => CleanExit
  BY DEF ShutdownInv, Passed, CleanExit
<1> QED
  BY <1>1, ShutdownInvAlways, PTL

\* The wait for idle misses no notification.
THEOREM WakeupsAreKept == Spec => []NoLostWakeup
<1>1. ShutdownInv => NoLostWakeup
  BY DEF ShutdownInv
<1> QED
  BY <1>1, ShutdownInvAlways, PTL

-----------------------------------------------------------------------------
(* Order and completeness of the debouncer's batches, for any channel      *)
(* capacity and any number of events.                                      *)

USE CapacityAssumption, MaxEventsAssumption

\* What the variables of the consumer and the timers have to do with each other:
\* the handled event is in hand, there are no more epochs than handled events,
\* a timer has the number of its epoch, and the timer that sends holds the lock.
Bookkeeping ==
    /\ hand = 0 <=> handler = "recv"
    /\ epoch + Len(queue) + (IF hand = 0 THEN 0 ELSE 1) < next
    /\ \A e \in Events : e > epoch => timer[e] = "none"
    /\ \A e \in Events : lock = e <=> timer[e] = "sending"

DebouncerTypes == EDTypeOK /\ Bookkeeping

LEMMA DebouncerTypesStart == EDInit => DebouncerTypes
BY DEF EDInit, DebouncerTypes, EDTypeOK, Bookkeeping, Events

LEMMA DebouncerTypesKeep == DebouncerTypes /\ [EDNext]_edVars => DebouncerTypes'
<1> SUFFICES ASSUME DebouncerTypes, [EDNext]_edVars PROVE DebouncerTypes'
  OBVIOUS
<1> USE DEF DebouncerTypes, EDTypeOK, Bookkeeping, Events, channel, consumer, timers
<1>1. CASE DispatchAsync
  <2>1. /\ queue' \in Seq(Events) /\ Len(queue') = Len(queue) + 1
        /\ next' \in 1..(MaxEvents + 1) /\ Len(queue') <= Capacity
    BY <1>1 DEF DispatchAsync
  <2>2. EDTypeOK'
    BY <1>1, <2>1 DEF DispatchAsync
  <2>3. Bookkeeping'
    BY <1>1, <2>1 DEF DispatchAsync
  <2> QED
    BY <2>2, <2>3
<1>2. CASE Receive
  <2>1. queue \in Seq(Events) /\ queue # <<>> /\ queue' = Tail(queue)
    BY <1>2 DEF Receive
  <2>2. Head(queue) \in Events /\ queue' \in Seq(Events)
    BY <2>1, HeadTailProperties
  <2>3. Len(queue) \in Nat /\ Len(queue') = Len(queue) - 1
    BY <2>1, HeadTailProperties
  <2>4. messages' \in Seq(Events)
    <3>1. messages \in Seq(Events)
      OBVIOUS
    <3>2. messages' = messages \/ messages' = Append(messages, Head(queue))
      BY <1>2 DEF Receive
    <3>3. Append(messages, Head(queue)) \in Seq(Events)
      BY <2>2, <3>1, AppendProperties
    <3> QED
      BY <3>1, <3>2, <3>3
  <2>5. hand' = Head(queue) /\ hand = 0 /\ hand' # 0 /\ handler' \in {"push", "other"}
    <3>1. handler = "recv" /\ hand' = Head(queue) /\ handler' \in {"push", "other"}
      BY <1>2 DEF Receive
    <3>2. hand = 0
      BY <3>1
    <3>3. hand' # 0
      BY <2>2, <3>1
    <3> QED
      BY <3>1, <3>2, <3>3
  <2>6. EDTypeOK'
    <3>1. UNCHANGED <<next, buffer, lock, timers, batch, sent>>
      BY <1>2 DEF Receive
    <3>2. queue' \in Seq(Events) /\ Len(queue') <= Capacity
      BY <2>2, <2>3
    <3>3. \A e \in Events : timer'[e] = "sending" <=> batch'[e] # <<>>
      BY <3>1
    <3> QED
      BY <2>2, <2>4, <2>5, <3>1, <3>2, <3>3
  <2>7. Bookkeeping'
    BY <1>2, <2>3, <2>5 DEF Receive
  <2> QED
    BY <2>6, <2>7
<1>3. CASE HandleOther
  BY <1>3 DEF HandleOther
<1>4. CASE Push
  <2>1. buffer' \in Seq(Events)
    BY <1>4 DEF Push
  <2> QED
    BY <1>4, <2>1 DEF Push
<1>5. CASE StartTimer
  <2>1. hand # 0 /\ epoch + 1 \in Events
    BY <1>5 DEF StartTimer
  <2>2. timer[epoch + 1] = "none"
    BY <2>1
  <2>3. timer' = [timer EXCEPT ![epoch + 1] = "sleeping"] /\ epoch' = epoch + 1
    BY <1>5 DEF StartTimer
  <2>4. \A e \in Events : timer'[e] = "sending" <=> timer[e] = "sending"
    BY <2>2, <2>3
  <2>5. /\ handler' = "recv" /\ hand' = 0
        /\ UNCHANGED <<next, queue, messages, buffer, lock, batch, sent>>
    BY <1>5 DEF StartTimer
  <2>6. timer' \in [Events -> {"none", "sleeping", "locking", "sending", "done"}]
    BY <2>1, <2>3
  <2>7. epoch' \in 0..MaxEvents
    BY <2>1, <2>3
  <2>8. \A e \in Events : timer'[e] = "sending" <=> batch'[e] # <<>>
    BY <2>4, <2>5
  <2>9. EDTypeOK'
    BY <2>5, <2>6, <2>7, <2>8
  <2>10. \A e \in Events : e > epoch' => timer'[e] = "none"
    BY <2>1, <2>3
  <2>11. \A e \in Events : lock' = e <=> timer'[e] = "sending"
    BY <2>4, <2>5
  <2>12. epoch' + Len(queue') + 0 < next'
    <3>1. epoch + Len(queue) + 1 < next
      BY <2>1
    <3>2. epoch \in Int /\ Len(queue) \in Int /\ next \in Int
      OBVIOUS
    <3> QED
      BY <2>3, <2>5, <3>1, <3>2
  <2> QED
    BY <2>5, <2>9, <2>10, <2>11, <2>12
<1>6. ASSUME NEW e \in Events, Fire(e) PROVE DebouncerTypes'
  BY <1>6 DEF Fire
<1>7. ASSUME NEW e \in Events, FindEmpty(e) PROVE DebouncerTypes'
  BY <1>7 DEF FindEmpty
<1>8. ASSUME NEW e \in Events, TakeBatch(e) PROVE DebouncerTypes'
  <2>1. /\ timer' = [timer EXCEPT ![e] = "sending"]
        /\ batch' = [batch EXCEPT ![e] = buffer]
        /\ timer[e] = "locking" /\ lock = 0 /\ lock' = e /\ buffer # <<>>
    BY <1>8 DEF TakeBatch
  <2>2. UNCHANGED <<next, queue, handler, hand, messages, epoch, sent>> /\ buffer' = <<>>
    BY <1>8 DEF TakeBatch
  <2>3. \A d \in Events \ {e} : timer'[d] = timer[d] /\ batch'[d] = batch[d]
    BY <2>1
  <2>4. timer'[e] = "sending" /\ batch'[e] = buffer
    BY <2>1
  <2>5. /\ timer' \in [Events -> {"none", "sleeping", "locking", "sending", "done"}]
        /\ batch' \in [Events -> Seq(Events)]
    BY <2>1
  <2>6. \A d \in Events : timer'[d] = "sending" <=> batch'[d] # <<>>
    BY <2>1, <2>3, <2>4
  <2>7. EDTypeOK'
    <3>1. buffer' \in Seq(Events) /\ lock' \in Events \cup {0}
      BY <2>1, <2>2
    <3>2. UNCHANGED <<next, queue, handler, hand, messages, epoch, sent>>
      BY <2>2
    <3> QED
      BY <2>5, <2>6, <3>1, <3>2
  <2>8. \A d \in Events : timer[d] # "sending"
    BY <2>1
  <2>9. \A d \in Events : lock' = d <=> timer'[d] = "sending"
    BY <2>1, <2>3, <2>4, <2>8
  <2>10. \A d \in Events : d > epoch' => timer'[d] = "none"
    <3>1. ~(e > epoch)
      BY <2>1
    <3> QED
      BY <2>2, <2>3, <3>1
  <2>11. epoch' + Len(queue') + (IF hand' = 0 THEN 0 ELSE 1) < next'
    BY <2>2
  <2> QED
    BY <2>2, <2>7, <2>9, <2>10, <2>11
<1>9. ASSUME NEW e \in Events, Send(e) PROVE DebouncerTypes'
  <2>1. sent' \in Seq(Events)
    BY <1>9, ConcatProperties DEF Send
  <2> QED
    BY <1>9, <2>1 DEF Send
<1>10. CASE UNCHANGED edVars
  BY <1>10 DEF edVars
<1> QED
  BY <1>1, <1>2, <1>3, <1>4, <1>5, <1>6, <1>7, <1>8, <1>9, <1>10
     DEF EDNext, Consume, Timer

\* The channel, the buffer, the timers and the batches keep to their types.
THEOREM DispatcherTypeCorrect == EDSpec => []EDTypeOK
<1>1. DebouncerTypes => EDTypeOK
  BY DEF DebouncerTypes
<1> QED
  BY <1>1, DebouncerTypesStart, DebouncerTypesKeep, PTL DEF EDSpec

-----------------------------------------------------------------------------
(* No message is left behind.                                              *)

LEMMA BufferHasTimerStep == DebouncerTypes /\ BufferHasTimer /\ [EDNext]_edVars => BufferHasTimer'
<1> SUFFICES ASSUME DebouncerTypes, BufferHasTimer, [EDNext]_edVars PROVE BufferHasTimer'
  OBVIOUS
<1> USE DEF DebouncerTypes, EDTypeOK, Bookkeeping, Events, BufferHasTimer, channel, consumer, timers
<1>1. CASE UNCHANGED <<buffer, handler, epoch, timer>>
  BY <1>1
<1>2. CASE Receive
  BY <1>2 DEF Receive
<1>3. CASE HandleOther
  BY <1>3 DEF HandleOther
<1>4. CASE Push
  BY <1>4 DEF Push
<1>5. CASE StartTimer
  <2>1. epoch + 1 \in Events
    BY <1>5 DEF StartTimer
  <2> QED
    BY <1>5, <2>1 DEF StartTimer
<1>6. ASSUME NEW e \in Events, Fire(e) PROVE BufferHasTimer'
  BY <1>6 DEF Fire
<1>7. ASSUME NEW e \in Events, FindEmpty(e) PROVE BufferHasTimer'
  BY <1>7 DEF FindEmpty
<1>8. ASSUME NEW e \in Events, TakeBatch(e) PROVE BufferHasTimer'
  BY <1>8 DEF TakeBatch
<1>9. ASSUME NEW e \in Events, Send(e) PROVE BufferHasTimer'
  <2>1. /\ timer[e] = "sending" /\ timer' = [timer EXCEPT ![e] = "done"]
        /\ UNCHANGED <<buffer, handler, epoch>>
    BY <1>9 DEF Send
  <2>2. timer \in [Events -> {"none", "sleeping", "locking", "sending", "done"}]
    OBVIOUS
  <2>3. epoch # e => timer'[epoch] = timer[epoch]
    BY <2>1, <2>2
  <2> QED
    BY <2>1, <2>3
<1> QED
  BY <1>1, <1>2, <1>3, <1>4, <1>5, <1>6, <1>7, <1>8, <1>9
     DEF EDNext, edVars, Consume, Timer, DispatchAsync

\* A message in the buffer always has a timer that will flush it, or is about to
\* get one: the epochs cannot make every timer believe another one is newer.
THEOREM MessagesHaveTimers == EDSpec => []BufferHasTimer
<1>1. EDInit => BufferHasTimer
  BY DEF EDInit, BufferHasTimer
<1> QED
  BY <1>1, DebouncerTypesStart, DebouncerTypesKeep, BufferHasTimerStep, PTL DEF EDSpec

-----------------------------------------------------------------------------
(* Nothing is lost, doubled or overtaken.                                  *)

\* Messages that wait: the batch that is being sent, the buffer, and the message
\* about to be pushed.
InBatch == IF lock = 0 THEN <<>> ELSE batch[lock]
InHand == IF handler = "push" THEN <<hand>> ELSE <<>>
Waiting == InBatch \o (buffer \o InHand)

NothingLost == messages = sent \o Waiting

LEMMA Associative ==
    \A s, t, u \in Seq(Events) : (s \o t) \o u = s \o (t \o u)
BY ConcatAssociative

LEMMA WaitingType ==
    ASSUME DebouncerTypes
    PROVE  /\ InBatch \in Seq(Events) /\ InHand \in Seq(Events)
           /\ buffer \o InHand \in Seq(Events) /\ Waiting \in Seq(Events)
<1>1. InBatch \in Seq(Events)
  BY DEF DebouncerTypes, EDTypeOK, InBatch
<1>2. InHand \in Seq(Events)
  BY DEF DebouncerTypes, EDTypeOK, Bookkeeping, InHand
<1>3. buffer \o InHand \in Seq(Events)
  BY <1>2, ConcatProperties DEF DebouncerTypes, EDTypeOK
<1> QED
  BY <1>1, <1>2, <1>3, ConcatProperties DEF Waiting

\* What is sent or pushed moves the borders between the parts, not the messages.
LEMMA SentMoves ==
    ASSUME DebouncerTypes
    PROVE  sent \o Waiting = (sent \o InBatch) \o (buffer \o InHand)
<1>1. /\ sent \in Seq(Events) /\ InBatch \in Seq(Events)
      /\ buffer \o InHand \in Seq(Events)
  BY WaitingType DEF DebouncerTypes, EDTypeOK
<1> QED
  BY <1>1, Associative DEF Waiting

LEMMA PushedMoves ==
    ASSUME DebouncerTypes, NEW h \in Events
    PROVE  (sent \o (InBatch \o buffer)) \o <<h>> = sent \o (InBatch \o (buffer \o <<h>>))
<1>1. /\ sent \in Seq(Events) /\ InBatch \in Seq(Events) /\ buffer \in Seq(Events)
      /\ <<h>> \in Seq(Events)
  BY WaitingType DEF DebouncerTypes, EDTypeOK
<1>2. InBatch \o buffer \in Seq(Events)
  BY <1>1, ConcatProperties
<1>3. (sent \o (InBatch \o buffer)) \o <<h>> = sent \o ((InBatch \o buffer) \o <<h>>)
  BY <1>1, <1>2, Associative
<1>4. (InBatch \o buffer) \o <<h>> = InBatch \o (buffer \o <<h>>)
  BY <1>1, Associative
<1> QED
  BY <1>3, <1>4

LEMMA NothingLostStep == DebouncerTypes /\ DebouncerTypes' /\ NothingLost /\ [EDNext]_edVars => NothingLost'
<1> SUFFICES ASSUME DebouncerTypes, DebouncerTypes', NothingLost, [EDNext]_edVars PROVE NothingLost'
  OBVIOUS
<1> USE DEF channel, consumer, timers
<1>0. /\ sent \in Seq(Events) /\ buffer \in Seq(Events) /\ <<>> \in Seq(Events)
      /\ InBatch \in Seq(Events) /\ InHand \in Seq(Events)
      /\ buffer \o InHand \in Seq(Events) /\ Waiting \in Seq(Events)
  BY WaitingType DEF DebouncerTypes, EDTypeOK
<1>1. CASE UNCHANGED <<messages, sent, lock, batch, buffer, hand>>
           /\ (handler = "push" <=> handler' = "push")
  BY <1>1 DEF NothingLost, Waiting, InBatch, InHand
<1>2. CASE Receive
  <2>1. CASE handler' = "other"
    BY <1>2, <2>1 DEF Receive, NothingLost, Waiting, InBatch, InHand
  <2>2. CASE handler' = "push"
    <3> DEFINE h == Head(queue)
    <3>1. h \in Events /\ <<h>> \in Seq(Events)
      BY <1>2 DEF Receive, DebouncerTypes, EDTypeOK
    <3>2. /\ messages' = Append(messages, h)
          /\ UNCHANGED <<sent, lock, batch, buffer>>
          /\ InHand = <<>> /\ InHand' = <<h>>
      BY <1>2, <2>2 DEF Receive, InHand
    <3>3. messages = sent \o (InBatch \o buffer)
      BY <1>0, <3>2, ConcatEmptySeq DEF NothingLost, Waiting
    <3>4. messages' = messages \o <<h>>
      BY <3>1, <3>2, AppendIsConcat DEF DebouncerTypes, EDTypeOK
    <3>5. (sent \o (InBatch \o buffer)) \o <<h>> = sent \o (InBatch \o (buffer \o <<h>>))
      BY <3>1, PushedMoves
    <3>6. Waiting' = InBatch \o (buffer \o <<h>>)
      BY <3>2 DEF Waiting, InBatch
    <3> QED
      BY <3>2, <3>3, <3>4, <3>5, <3>6 DEF NothingLost
  <2> QED
    BY <1>2, <2>1, <2>2 DEF Receive
<1>3. CASE Push
  <2>1. hand \in Events /\ InHand = <<hand>> /\ InHand' = <<>>
    BY <1>3 DEF Push, InHand, DebouncerTypes, EDTypeOK, Bookkeeping
  <2>2. buffer' = buffer \o InHand
    BY <1>0, <1>3, <2>1, AppendIsConcat DEF Push
  <2>3. buffer' \o InHand' = buffer'
    BY <1>0, <2>1, <2>2, ConcatEmptySeq
  <2> QED
    BY <1>3, <2>2, <2>3 DEF Push, NothingLost, Waiting, InBatch
<1>4. ASSUME NEW e \in Events, TakeBatch(e) PROVE NothingLost'
  <2>1. InBatch = <<>> /\ buffer' = <<>> /\ UNCHANGED <<InHand, messages, sent>>
    BY <1>4 DEF TakeBatch, InBatch, InHand
  <2>2. InBatch' = buffer
    BY <1>4 DEF TakeBatch, InBatch, DebouncerTypes, EDTypeOK, Events
  <2>3. Waiting = buffer \o InHand
    BY <1>0, <2>1, ConcatEmptySeq DEF Waiting
  <2>4. Waiting' = buffer \o InHand
    BY <1>0, <2>1, <2>2, ConcatEmptySeq DEF Waiting
  <2> QED
    BY <2>1, <2>3, <2>4 DEF NothingLost
<1>5. ASSUME NEW e \in Events, Send(e) PROVE NothingLost'
  <2>1. lock = e /\ InBatch = batch[e]
    BY <1>5 DEF Send, InBatch, DebouncerTypes, Bookkeeping, Events
  <2>2. /\ sent' = sent \o InBatch
        /\ InBatch' = <<>>
        /\ UNCHANGED <<messages, buffer, InHand>>
    BY <1>5, <2>1 DEF Send, InBatch, InHand
  <2>3. sent \o Waiting = (sent \o InBatch) \o (buffer \o InHand)
    BY SentMoves
  <2>4. Waiting' = buffer \o InHand
    BY <1>0, <2>2, ConcatEmptySeq DEF Waiting
  <2> QED
    BY <2>2, <2>3, <2>4 DEF NothingLost
<1>6. CASE HandleOther \/ StartTimer \/ DispatchAsync \/ UNCHANGED edVars
  BY <1>6 DEF HandleOther, StartTimer, DispatchAsync, edVars, NothingLost, Waiting, InBatch, InHand
<1>7. ASSUME NEW e \in Events, Fire(e) \/ FindEmpty(e) PROVE NothingLost'
  BY <1>1, <1>7 DEF Fire, FindEmpty
<1> QED
  BY <1>2, <1>3, <1>4, <1>5, <1>6, <1>7 DEF EDNext, Consume, Timer

-----------------------------------------------------------------------------
(* The dispatcher implements MessageFeed.                                  *)

\* Events are queued in the order they were dispatched, and every message was
\* dispatched before them.
QueueIsOrdered ==
    /\ \A i \in 1 .. Len(queue) : queue[i] < next
    /\ \A i, j \in 1 .. Len(queue) : i < j => queue[i] < queue[j]

MessagesComeFirst ==
    /\ \A i \in 1 .. Len(messages) : messages[i] < next
    /\ \A i \in 1 .. Len(messages), j \in 1 .. Len(queue) : messages[i] < queue[j]

FeedInvariant == DebouncerTypes /\ NothingLost /\ QueueIsOrdered /\ MessagesComeFirst

LEMMA FeedStarts == EDInit => FeedInvariant
<1>1. EDInit => NothingLost
  BY DEF EDInit, NothingLost, Waiting, InBatch, InHand
<1>2. EDInit => QueueIsOrdered /\ MessagesComeFirst
  BY DEF EDInit, QueueIsOrdered, MessagesComeFirst
<1> QED
  BY <1>1, <1>2, DebouncerTypesStart DEF FeedInvariant

\* What is dispatched is later than all that came before, and what is received is
\* earlier than all that stays in the channel.
LEMMA OrderKeeps ==
    DebouncerTypes /\ QueueIsOrdered /\ MessagesComeFirst /\ [EDNext]_edVars
        => QueueIsOrdered' /\ MessagesComeFirst'
<1> SUFFICES ASSUME DebouncerTypes, QueueIsOrdered, MessagesComeFirst, [EDNext]_edVars
             PROVE  QueueIsOrdered' /\ MessagesComeFirst'
  OBVIOUS
<1> USE DEF channel, consumer, timers
<1>t. /\ next \in 1 .. MaxEvents + 1 /\ MaxEvents \in Nat
      /\ queue \in Seq(Events) /\ messages \in Seq(Events)
      /\ Len(queue) \in Nat /\ Len(messages) \in Nat
  BY DEF DebouncerTypes, EDTypeOK
<1>n. /\ \A i \in 1 .. Len(queue) : queue[i] \in Nat
      /\ \A i \in 1 .. Len(messages) : messages[i] \in Nat
  BY <1>t DEF Events
<1>1. CASE DispatchAsync
  <2>1. /\ queue' = Append(queue, next) /\ next' = next + 1 /\ UNCHANGED messages
        /\ next \in Events
    BY <1>1 DEF DispatchAsync
  <2>2. /\ Len(queue') = Len(queue) + 1
        /\ queue'[Len(queue) + 1] = next
        /\ \A i \in 1 .. Len(queue) : queue'[i] = queue[i]
    BY <1>t, <2>1
  <2>3. ASSUME NEW i \in 1 .. Len(queue') PROVE queue'[i] < next'
    <3>1. CASE i \in 1 .. Len(queue)
      BY <1>t, <1>n, <2>1, <2>2, <3>1 DEF QueueIsOrdered
    <3>2. CASE i = Len(queue) + 1
      BY <1>t, <2>1, <2>2, <3>2
    <3> QED
      BY <1>t, <2>2, <2>3, <3>1, <3>2
  <2>4. ASSUME NEW i \in 1 .. Len(queue'), NEW j \in 1 .. Len(queue'), i < j
        PROVE  queue'[i] < queue'[j]
    <3>1. i \in 1 .. Len(queue)
      BY <1>t, <2>2, <2>4
    <3>2. CASE j \in 1 .. Len(queue)
      BY <2>2, <2>4, <3>1, <3>2 DEF QueueIsOrdered
    <3>3. CASE j = Len(queue) + 1
      BY <2>2, <3>1, <3>3 DEF QueueIsOrdered
    <3> QED
      BY <1>t, <2>2, <2>4, <3>2, <3>3
  <2>5. ASSUME NEW i \in 1 .. Len(messages)
        PROVE  messages[i] < next' /\ \A j \in 1 .. Len(queue') : messages[i] < queue'[j]
    <3>1. messages[i] \in Nat /\ messages[i] < next
      BY <1>n, <2>5 DEF MessagesComeFirst
    <3>2. ASSUME NEW j \in 1 .. Len(queue') PROVE messages[i] < queue'[j]
      <4>1. CASE j \in 1 .. Len(queue)
        BY <2>2, <2>5, <4>1 DEF MessagesComeFirst
      <4>2. CASE j = Len(queue) + 1
        BY <2>2, <3>1, <4>2
      <4> QED
        BY <1>t, <2>2, <3>2, <4>1, <4>2
    <3> QED
      BY <1>t, <2>1, <3>1, <3>2
  <2> QED
    BY <2>1, <2>3, <2>4, <2>5 DEF QueueIsOrdered, MessagesComeFirst
<1>2. CASE Receive
  <2>1. /\ queue # <<>> /\ queue' = Tail(queue) /\ UNCHANGED next
        /\ messages' = messages \/ messages' = Append(messages, Head(queue))
    BY <1>2 DEF Receive
  <2>2. /\ Len(queue) # 0 /\ Len(queue') = Len(queue) - 1
        /\ \A i \in 1 .. Len(queue') : queue'[i] = queue[i + 1]
        /\ Head(queue) = queue[1]
    BY <1>t, <2>1
  <2>3. ASSUME NEW i \in 1 .. Len(queue')
        PROVE  /\ i + 1 \in 1 .. Len(queue) /\ queue'[i] = queue[i + 1]
               /\ queue'[i] < next /\ Head(queue) < queue'[i]
    <3>1. /\ i + 1 \in 1 .. Len(queue) /\ queue'[i] = queue[i + 1]
          /\ 1 \in 1 .. Len(queue) /\ 1 < i + 1
      BY <1>t, <2>2, <2>3
    <3> QED
      BY <2>2, <3>1 DEF QueueIsOrdered
  <2>4. ASSUME NEW i \in 1 .. Len(queue'), NEW j \in 1 .. Len(queue'), i < j
        PROVE  queue'[i] < queue'[j]
    <3>1. /\ i + 1 \in 1 .. Len(queue) /\ queue'[i] = queue[i + 1]
          /\ j + 1 \in 1 .. Len(queue) /\ queue'[j] = queue[j + 1]
      BY <2>3, <2>4
    <3>2. i + 1 < j + 1
      BY <1>t, <2>2, <2>4
    <3> QED
      BY <3>1, <3>2 DEF QueueIsOrdered
  <2>5. QueueIsOrdered'
    BY <2>1, <2>3, <2>4 DEF QueueIsOrdered
  <2>6. ASSUME NEW i \in 1 .. Len(messages)
        PROVE  messages[i] < next /\ \A j \in 1 .. Len(queue') : messages[i] < queue'[j]
    BY <2>3, <2>6 DEF MessagesComeFirst
  <2>7. CASE messages' = messages
    BY <2>1, <2>5, <2>6, <2>7 DEF MessagesComeFirst
  <2>8. CASE messages' = Append(messages, Head(queue))
    <3>1. /\ Len(messages') = Len(messages) + 1
          /\ \A i \in 1 .. Len(messages) : messages'[i] = messages[i]
          /\ messages'[Len(messages) + 1] = Head(queue)
      BY <1>t, <2>8
    <3>2. Head(queue) < next
      BY <1>t, <2>2 DEF QueueIsOrdered
    <3>3. ASSUME NEW i \in 1 .. Len(messages')
          PROVE  messages'[i] < next /\ \A j \in 1 .. Len(queue') : messages'[i] < queue'[j]
      <4>1. CASE i \in 1 .. Len(messages)
        BY <2>6, <3>1, <4>1
      <4>2. CASE i = Len(messages) + 1
        BY <2>3, <3>1, <3>2, <4>2
      <4> QED
        BY <1>t, <3>1, <3>3, <4>1, <4>2
    <3> QED
      BY <2>1, <2>5, <3>3 DEF MessagesComeFirst
  <2> QED
    BY <2>1, <2>7, <2>8
<1>3. CASE HandleOther \/ Push \/ StartTimer \/ (\E e \in Events : Timer(e)) \/ UNCHANGED edVars
  <2>1. UNCHANGED <<next, queue, messages>>
    BY <1>3 DEF HandleOther, Push, StartTimer, Timer, Fire, FindEmpty, TakeBatch, Send, edVars
  <2> QED
    BY <2>1 DEF QueueIsOrdered, MessagesComeFirst
<1> QED
  BY <1>1, <1>2, <1>3 DEF EDNext, Consume

LEMMA FeedKeeps == FeedInvariant /\ [EDNext]_edVars => FeedInvariant'
BY DebouncerTypesKeep, NothingLostStep, OrderKeeps DEF FeedInvariant

\* What is appended to a sequence has that sequence as its beginning.
LEMMA WholeIsLonger ==
    ASSUME NEW s \in Seq(Events), NEW t \in Seq(Events)
    PROVE  /\ Feed!IsPrefix(s, s \o t)
           /\ t # <<>> => s # s \o t
<1> DEFINE whole == s \o t
<1>1. /\ whole \in Seq(Events) /\ Len(whole) = Len(s) + Len(t)
      /\ \A i \in 1 .. Len(s) : whole[i] = s[i]
      /\ Len(s) \in Nat /\ Len(t) \in Nat
  BY ConcatProperties
<1>2. SubSeq(s, 1, Len(s)) = SubSeq(whole, 1, Len(s))
  BY <1>1
<1>3. t # <<>> => Len(t) # 0
  BY EmptySeq
<1> QED
  BY <1>1, <1>2, <1>3 DEF Feed!IsPrefix

SentIsBeginning == Feed!IsPrefix(sent, messages)

LEMMA SentBegins == FeedInvariant => SentIsBeginning
<1> SUFFICES ASSUME FeedInvariant PROVE SentIsBeginning
  OBVIOUS
<1>1. sent \in Seq(Events) /\ Waiting \in Seq(Events) /\ messages = sent \o Waiting
  BY WaitingType DEF FeedInvariant, DebouncerTypes, EDTypeOK, NothingLost
<1> QED
  BY <1>1, WholeIsLonger DEF SentIsBeginning

\* A message is announced as its event is received, and messages arrive as a batch has
\* been sent; no other step is seen from outside.
LEMMA StepsOfFeed ==
    FeedInvariant /\ SentIsBeginning' /\ [EDNext]_edVars => [Feed!Next]_(Feed!vars)
<1> SUFFICES ASSUME FeedInvariant, SentIsBeginning', [EDNext]_edVars
             PROVE  Feed!Next \/ UNCHANGED Feed!vars
  OBVIOUS
<1> USE DEF channel, consumer, timers
<1>1. CASE Receive
  <2>1. CASE handler' = "other"
    BY <1>1, <2>1 DEF Receive, Feed!vars
  <2>2. CASE handler' = "push"
    <3> DEFINE h == Head(queue)
    <3>1. h \in Events /\ 1 \in DOMAIN queue /\ h = queue[1]
      BY <1>1 DEF Receive, FeedInvariant, DebouncerTypes, EDTypeOK
    <3>2. messages' = Append(messages, h) /\ UNCHANGED sent
      BY <1>1, <2>2 DEF Receive
    <3>3. \A i \in DOMAIN messages : messages[i] < h
      BY <3>1 DEF FeedInvariant, MessagesComeFirst
    <3>4. Feed!Announce(h)
      BY <3>2, <3>3 DEF Feed!Announce
    <3> QED
      BY <3>1, <3>4 DEF Feed!Next
  <2> QED
    BY <1>1, <2>1, <2>2 DEF Receive
<1>2. ASSUME NEW e \in Events, Send(e) PROVE Feed!Deliver
  <2>1. /\ batch[e] \in Seq(Events) /\ batch[e] # <<>> /\ sent \in Seq(Events)
        /\ sent' = sent \o batch[e] /\ UNCHANGED messages
    BY <1>2 DEF Send, FeedInvariant, DebouncerTypes, EDTypeOK
  <2>2. Feed!IsStrictPrefix(sent, sent')
    BY <2>1, WholeIsLonger DEF Feed!IsStrictPrefix
  <2> QED
    BY <2>1, <2>2 DEF Feed!Deliver, SentIsBeginning
<1>3. CASE DispatchAsync \/ HandleOther \/ Push \/ StartTimer \/ UNCHANGED edVars
  BY <1>3 DEF DispatchAsync, HandleOther, Push, StartTimer, edVars, Feed!vars
<1>4. ASSUME NEW e \in Events, Fire(e) \/ FindEmpty(e) \/ TakeBatch(e) PROVE UNCHANGED Feed!vars
  BY <1>4 DEF Fire, FindEmpty, TakeBatch, Feed!vars
<1> QED
  BY <1>1, <1>2, <1>3, <1>4 DEF EDNext, Consume, Timer, Feed!Next

\* Whatever the capacity of the channel, the number of events and the order in which
\* timers wake up, overtake each other and send: seen from Telegram, dispatcher and
\* debouncer are a feed of messages in the order of their events.
THEOREM DispatcherImplementsFeed == EDSpec => ImplementsFeed
<1>1. EDInit => Feed!Init
  BY DEF EDInit, Feed!Init
<1> QED
  BY <1>1, FeedStarts, FeedKeeps, SentBegins, StepsOfFeed, PTL DEF EDSpec, ImplementsFeed, Feed!Spec

-----------------------------------------------------------------------------
(* The jobs inside the process, for any calls, requests and permits.       *)

LEMMA JobLimits ==
  /\ MaxConcurrent \in Nat /\ MaxRetained \in Nat /\ MaxJobs \in Nat
  /\ Asks \in [Calls -> SUBSET Requests]
  /\ CronRuns \cap Calls = {} /\ Calls \subseteq Operations /\ CronRuns \subseteq Operations
  /\ Jobs!Ids = 1 .. MaxJobs
BY JobsAssumption, OperationsAssumption DEF Operations, Jobs!Ids

LEMMA SameCardinality ==
  ASSUME NEW S
  PROVE  Jobs!Cardinality(S) = Cardinality(S)
BY DEF Jobs!Cardinality, Cardinality

RegistryTyped ==
    /\ nextId \in 1 .. MaxJobs + 1
    /\ status = [i \in Jobs!Ids |-> status[i]]
    /\ permits \in Int
    /\ task \in [Jobs!Ids -> Jobs!TaskPcs]
    /\ jobOf \in [Calls -> 0 .. MaxJobs]
    /\ \A i \in Jobs!Ids : i >= nextId <=> task[i] = "none"

\* A call has at most one job, and each job was started by a call.
JobsHaveCalls ==
    /\ \A o \in Calls : jobOf[o] < nextId
    /\ \A o, p \in Calls : jobOf[o] # 0 /\ jobOf[o] = jobOf[p] => o = p
    /\ \A i \in Jobs!Ids : i < nextId => \E o \in Calls : jobOf[o] = i
    /\ \A o \in CronRuns : op[o] # "handling"

\* Where the task of a call's job is while the call is in a stage.
TaskOfCall(stage, pc) ==
    \/ stage = "handling" /\ pc = "registered"
    \/ stage = "begun" /\ pc = "running"
    \/ stage = "running" /\ pc \in {"running", "recording", "releasing", "ending"}
    \/ stage \in {"notifying", "done"} /\ pc = "gone"

CallsFit ==
    \A o \in Calls :
        IF jobOf[o] = 0 THEN op[o] \in {"none", "handling", "done"}
        ELSE TaskOfCall(op[o], task[jobOf[o]])

RunningFits ==
    \A i \in Jobs!Ids : status[i] = "running" => i \in Jobs!Unrecorded \/ i \in panicked

JobsFit ==
    RegistryTyped /\ JobsHaveCalls /\ CallsFit /\ RunningFits /\ Jobs!PermitsAccounted

\* The calls and cron runs as a step sees them that is none of the registry's.
CallsGoOn ==
    /\ UNCHANGED <<registry, jobOf, panicked>>
    /\ \A o \in Calls :
        \/ op'[o] = op[o]
        \/ jobOf[o] = 0 /\ op'[o] \in {"none", "handling", "done"}
        \/ op[o] = "begun" /\ op'[o] = "running"
        \/ op[o] = "notifying" /\ op'[o] = "done"
    /\ \A o \in CronRuns : op'[o] = op[o] \/ op'[o] # "handling"

LEMMA CompositionStarts == JSInit => JobsFit
<1> SUFFICES ASSUME JSInit PROVE JobsFit
  OBVIOUS
<1> USE JobLimits DEF JSInit
<1>1. RegistryTyped
  BY DEF RegistryTyped, Jobs!Init, Jobs!TaskPcs, Jobs!Ids
<1>2. JobsHaveCalls /\ CallsFit /\ RunningFits
  BY DEF Init, Jobs!Init, JobsHaveCalls, CallsFit, RunningFits
<1>3. Jobs!HoldingPermit = {}
  BY DEF Jobs!Init, Jobs!HoldingPermit
<1>4. permits = MaxConcurrent /\ Cardinality(Jobs!HoldingPermit) = 0
  BY <1>3, FS_EmptySet DEF Jobs!Init
<1>5. Jobs!PermitsAccounted
  BY <1>4, SameCardinality DEF Jobs!PermitsAccounted
<1> QED
  BY <1>1, <1>2, <1>5 DEF JobsFit

\* What the steps of the composition are.
LEMMA OtherSteps ==
  ASSUME ShutdownTypes, JobsHaveCalls, CallsFit, JSNext
  PROVE  \/ CallsGoOn
         \/ \E o \in Calls : StartJob(o) \/ BeginJob(o) \/ JobRuns(o) \/ JobPanics(o) \/ EndJob(o)
<1> USE JobLimits
<1>0. op \in [Operations -> OpPcs]
  BY DEF ShutdownTypes
<1>1. CASE MainStep
  <2>1. UNCHANGED op
    BY <1>1 DEF MainStep, Signal, Gate, StopScheduler, AwaitServer, CheckIdle, QuietPeriodEnds,
       Wake, StopPriceTasks, TimeOut, IdleTimeOut, AbortServer, Serve, Drain, StopServer
  <2> QED
    BY <1>1, <2>1 DEF MainStep, CallsGoOn
<1>2. ASSUME NEW o \in Operations, Arrive(o) PROVE CallsGoOn
  <2>1. CASE Dispatch(o)
    BY <1>0, <1>2, <2>1 DEF Arrive, Dispatch, CallsGoOn
  <2>2. CASE AcceptCall(o)
    <3>1. o \in Calls /\ op[o] = "none" /\ op' = [op EXCEPT ![o] = "handling"]
      BY <2>2 DEF AcceptCall
    <3>2. jobOf[o] = 0
      BY <3>1 DEF CallsFit, TaskOfCall
    <3> QED
      BY <1>0, <1>2, <3>1, <3>2 DEF Arrive, CallsGoOn
  <2> QED
    BY <1>2, <2>1, <2>2 DEF Arrive
<1>3. ASSUME NEW o \in Operations, CronStep(o) PROVE CallsGoOn
  BY <1>0, <1>3 DEF CronStep, Work, AnswerCall, Begin, NotifyBegun, End, NotifyIdle, CallsGoOn
<1>4. ASSUME NEW o \in Calls, AnswerWithoutJob(o) PROVE CallsGoOn
  BY <1>0, <1>4 DEF AnswerWithoutJob, AnswerCall, CallsGoOn
<1>5. ASSUME NEW o \in Operations, SpawnJob(o) PROVE CallsGoOn
  BY <1>0, <1>5 DEF SpawnJob, NotifyBegun, CallsGoOn
<1>6. ASSUME NEW o \in Calls, NotifyIdle(o), UNCHANGED <<registry, jobOf, panicked>>
      PROVE  CallsGoOn
  BY <1>0, <1>6 DEF NotifyIdle, CallsGoOn
<1>7. ASSUME NEW o \in Operations, StartJob(o) PROVE o \in Calls
  BY <1>7 DEF StartJob, JobsHaveCalls, Operations
<1> QED
  BY <1>1, <1>2, <1>3, <1>4, <1>5, <1>6, <1>7
  DEF JSNext, OperationStep, CallStep, AnswerWithoutJob, BeginJob, JobRuns, EndJob

\* Steps of the task of job i, as far as they concern the registry.
JobMoves(i) ==
    /\ i \in Jobs!Ids /\ task[i] # "none"
    /\ UNCHANGED <<nextId, jobOf>>
    /\ \E pc \in Jobs!TaskPcs \ {"none"} : task' = [task EXCEPT ![i] = pc]
    /\ permits' \in Int
    /\ status' = [j \in Jobs!Ids |-> status'[j]]
    /\ \A j \in Jobs!Ids \ {i} : status'[j] = status[j]

LEMMA JobMovesFit ==
  ASSUME RegistryTyped, NEW i \in Jobs!Ids, NEW o \in Calls, jobOf[o] = i, task[i] # "none",
         BeginJob(o) \/ JobRuns(o) \/ JobPanics(o) \/ EndJob(o)
  PROVE  JobMoves(i)
<1> USE JobLimits DEF RegistryTyped, JobMoves
<1>1. UNCHANGED <<nextId, jobOf>>
  BY DEF BeginJob, JobRuns, JobPanics, EndJob, Jobs!Spawn, Jobs!RunEnds, Jobs!Record,
         Jobs!ReleasePermit, Jobs!Panic, Jobs!EndOperation
<1>2. \E pc \in Jobs!TaskPcs \ {"none"} : task' = [task EXCEPT ![i] = pc]
  BY DEF BeginJob, JobRuns, JobPanics, EndJob, Jobs!Spawn, Jobs!RunEnds, Jobs!Record,
         Jobs!ReleasePermit, Jobs!Panic, Jobs!EndOperation, Jobs!TaskPcs
<1>3. permits' \in Int
  BY DEF BeginJob, JobRuns, JobPanics, EndJob, Jobs!Spawn, Jobs!RunEnds, Jobs!Record,
         Jobs!ReleasePermit, Jobs!Panic, Jobs!EndOperation
<1>4. /\ status' = [j \in Jobs!Ids |-> status'[j]]
      /\ \A j \in Jobs!Ids \ {i} : status'[j] = status[j]
  BY DEF BeginJob, JobRuns, JobPanics, EndJob, Jobs!Spawn, Jobs!RunEnds, Jobs!Record,
         Jobs!ReleasePermit, Jobs!Panic, Jobs!EndOperation
<1> QED
  BY <1>1, <1>2, <1>3, <1>4

LEMMA TypedMoves ==
  ASSUME RegistryTyped, NEW i, JobMoves(i)
  PROVE  RegistryTyped'
<1> USE JobLimits
<1>1. PICK pc \in Jobs!TaskPcs \ {"none"} : task' = [task EXCEPT ![i] = pc]
  BY DEF JobMoves
<1>2. task' \in [Jobs!Ids -> Jobs!TaskPcs] /\ \A j \in Jobs!Ids : task'[j] = "none" <=> task[j] = "none"
  BY <1>1 DEF RegistryTyped, JobMoves
<1> QED
  BY <1>2 DEF RegistryTyped, JobMoves

LEMMA CallsMove ==
  ASSUME ShutdownTypes, JobsFit, NEW o \in Calls, NEW i \in Jobs!Ids, jobOf[o] = i,
         JobMoves(i), op' \in {op, [op EXCEPT ![o] = op'[o]]}, TaskOfCall(op'[o], task'[i]),
         panicked \subseteq panicked', op'[o] # "handling",
         status'[i] = "running" => i \in Jobs!Unrecorded' \/ i \in panicked'
  PROVE  JobsHaveCalls' /\ CallsFit' /\ RunningFits'
<1> USE JobLimits
<1>1. PICK pc \in Jobs!TaskPcs \ {"none"} : task' = [task EXCEPT ![i] = pc]
  BY DEF JobMoves
<1>2. UNCHANGED <<nextId, jobOf>> /\ \A j \in Jobs!Ids \ {i} : status'[j] = status[j]
  BY DEF JobMoves
<1>3. \A p \in Operations \ {o} : op'[p] = op[p]
  BY DEF ShutdownTypes
<1>4. \A j \in Jobs!Ids \ {i} : task'[j] = task[j]
  BY <1>1 DEF JobsFit, RegistryTyped
<1>5. \A p \in Calls \ {o} : jobOf[p] # i
  BY DEF JobsFit, JobsHaveCalls, Jobs!Ids
<1>6. JobsHaveCalls'
  BY <1>2, <1>3 DEF JobsFit, JobsHaveCalls
<1>7. CallsFit'
  <2> SUFFICES ASSUME NEW p \in Calls
               PROVE  IF jobOf[p] = 0 THEN op'[p] \in {"none", "handling", "done"}
                      ELSE TaskOfCall(op'[p], task'[jobOf[p]])
    BY <1>2 DEF CallsFit
  <2>1. CASE p = o
    BY <2>1, <1>2, i # 0 DEF Jobs!Ids
  <2>2. CASE p # o
    <3>1. jobOf[p] # 0 => jobOf[p] \in Jobs!Ids \ {i}
      BY <2>2, <1>5 DEF JobsFit, RegistryTyped, Jobs!Ids
    <3> QED
      BY <2>2, <3>1, <1>3, <1>4 DEF JobsFit, CallsFit
  <2> QED
    BY <2>1, <2>2
<1>8. RunningFits'
  <2> SUFFICES ASSUME NEW j \in Jobs!Ids, status'[j] = "running", j # i
               PROVE  j \in Jobs!Unrecorded' \/ j \in panicked'
    BY DEF RunningFits
  <2>1. j \in Jobs!Unrecorded \/ j \in panicked
    BY <1>2 DEF JobsFit, RunningFits
  <2> QED
    BY <2>1, <1>4 DEF Jobs!Unrecorded
<1> QED
  BY <1>6, <1>7, <1>8

\* The permits are counted by who holds them.
LEMMA PermitsMove ==
  ASSUME RegistryTyped, Jobs!PermitsAccounted, RegistryTyped',
         \/ Jobs!HoldingPermit' = Jobs!HoldingPermit /\ permits' = permits
         \/ \E i \in Jobs!Ids \ Jobs!HoldingPermit :
                Jobs!HoldingPermit' = Jobs!HoldingPermit \cup {i} /\ permits' = permits - 1
         \/ \E i \in Jobs!HoldingPermit :
                Jobs!HoldingPermit' = Jobs!HoldingPermit \ {i} /\ permits' = permits + 1
  PROVE  Jobs!PermitsAccounted'
<1> USE JobLimits
<1>1. permits + Cardinality(Jobs!HoldingPermit) = MaxConcurrent
  BY SameCardinality DEF Jobs!PermitsAccounted
<1>2. IsFiniteSet(Jobs!HoldingPermit) /\ Cardinality(Jobs!HoldingPermit) \in Nat
  <2>1. Jobs!HoldingPermit \subseteq 1 .. MaxJobs
    BY DEF Jobs!HoldingPermit
  <2>2. IsFiniteSet(1 .. MaxJobs)
    BY FS_Interval
  <2>3. IsFiniteSet(Jobs!HoldingPermit)
    BY <2>1, <2>2, FS_Subset
  <2> QED
    BY <2>3, FS_CardinalityType
<1>3. permits \in Int
  BY DEF RegistryTyped
<1>4. permits' + Cardinality(Jobs!HoldingPermit') = MaxConcurrent
  <2>1. CASE Jobs!HoldingPermit' = Jobs!HoldingPermit /\ permits' = permits
    BY <1>1, <2>1
  <2>2. ASSUME NEW i \in Jobs!Ids \ Jobs!HoldingPermit,
               Jobs!HoldingPermit' = Jobs!HoldingPermit \cup {i}, permits' = permits - 1
        PROVE  permits' + Cardinality(Jobs!HoldingPermit') = MaxConcurrent
    <3>1. Cardinality(Jobs!HoldingPermit') = Cardinality(Jobs!HoldingPermit) + 1
      BY <1>2, <2>2, FS_AddElement
    <3> QED
      BY <1>1, <1>2, <1>3, <2>2, <3>1
  <2>3. ASSUME NEW i \in Jobs!HoldingPermit,
               Jobs!HoldingPermit' = Jobs!HoldingPermit \ {i}, permits' = permits + 1
        PROVE  permits' + Cardinality(Jobs!HoldingPermit') = MaxConcurrent
    <3>1. Cardinality(Jobs!HoldingPermit') = Cardinality(Jobs!HoldingPermit) - 1
      BY <1>2, <2>3, FS_RemoveElement
    <3> QED
      BY <1>1, <1>2, <1>3, <2>3, <3>1
  <2> QED
    BY <2>1, <2>2, <2>3
<1> QED
  BY <1>4, SameCardinality DEF Jobs!PermitsAccounted

LEMMA JobStarts ==
  ASSUME ShutdownTypes, JobsFit, NEW o \in Calls, StartJob(o)
  PROVE  JobsFit'
<1> USE JobLimits
<1>1. PICK r \in Asks[o] : Jobs!Register(r)
  BY DEF StartJob
<1>2. /\ nextId \in Jobs!Ids /\ nextId' = nextId + 1 /\ permits' = permits - 1
      /\ task' = [task EXCEPT ![nextId] = "registered"]
      /\ status' = Jobs!Pruned([status EXCEPT ![nextId] = "running"])
      /\ jobOf' = [jobOf EXCEPT ![o] = nextId] /\ jobOf[o] = 0 /\ op[o] = "handling"
      /\ UNCHANGED <<op, panicked>>
  BY <1>1 DEF StartJob, Jobs!Register, vars
<1>3. status' = [i \in Jobs!Ids |-> status'[i]]
  BY <1>2 DEF Jobs!Pruned
<1>4. \A i \in Jobs!Ids \ {nextId} : status'[i] = "running" => status[i] = "running"
  BY <1>2 DEF Jobs!Pruned, JobsFit, RegistryTyped
<1>5. /\ task' \in [Jobs!Ids -> Jobs!TaskPcs] /\ task'[nextId] = "registered"
      /\ \A i \in Jobs!Ids \ {nextId} : task'[i] = task[i]
  BY <1>2 DEF JobsFit, RegistryTyped, Jobs!TaskPcs
<1>6. /\ jobOf' \in [Calls -> 0 .. MaxJobs] /\ jobOf'[o] = nextId
      /\ \A p \in Calls \ {o} : jobOf'[p] = jobOf[p]
  BY <1>2 DEF JobsFit, RegistryTyped
<1>7. /\ nextId \in Nat /\ nextId # 0 /\ task[nextId] = "none"
      /\ \A i \in Jobs!Ids : i < nextId' <=> i < nextId \/ i = nextId
      /\ \A p \in Calls : jobOf[p] \in Nat /\ jobOf[p] < nextId
  BY <1>2 DEF JobsFit, RegistryTyped, JobsHaveCalls
<1>8. RegistryTyped'
  BY <1>2, <1>3, <1>5, <1>6, <1>7 DEF JobsFit, RegistryTyped
<1>9. JobsHaveCalls'
  <2>1. \A p \in Calls : jobOf'[p] < nextId'
    BY <1>2, <1>6, <1>7
  <2>2. \A p, q \in Calls : jobOf'[p] # 0 /\ jobOf'[p] = jobOf'[q] => p = q
    BY <1>6, <1>7 DEF JobsFit, JobsHaveCalls
  <2>3. ASSUME NEW i \in Jobs!Ids, i < nextId' PROVE \E p \in Calls : jobOf'[p] = i
    <3>1. CASE i = nextId
      BY <3>1, <1>6
    <3>2. CASE i < nextId
      <4>1. PICK p \in Calls : jobOf[p] = i
        BY <3>2 DEF JobsFit, JobsHaveCalls
      <4>2. p # o
        BY <4>1, <1>2
      <4> QED
        BY <4>1, <4>2, <1>6
    <3> QED
      BY <2>3, <3>1, <3>2, <1>7
  <2> QED
    BY <2>1, <2>2, <2>3, <1>2 DEF JobsFit, JobsHaveCalls
<1>10. CallsFit'
  <2> SUFFICES ASSUME NEW p \in Calls
               PROVE  IF jobOf'[p] = 0 THEN op[p] \in {"none", "handling", "done"}
                      ELSE TaskOfCall(op[p], task'[jobOf'[p]])
    BY <1>2 DEF CallsFit
  <2>1. CASE p = o
    BY <2>1, <1>2, <1>5, <1>6, <1>7 DEF TaskOfCall
  <2>2. CASE p # o
    <3>1. jobOf[p] # 0 => jobOf[p] \in Jobs!Ids \ {nextId}
      BY <1>7 DEF JobsFit, RegistryTyped
    <3> QED
      BY <2>2, <3>1, <1>5, <1>6 DEF JobsFit, CallsFit
  <2> QED
    BY <2>1, <2>2
<1>11. RunningFits'
  BY <1>2, <1>4, <1>5 DEF JobsFit, RunningFits, Jobs!Unrecorded
<1>12. Jobs!PermitsAccounted'
  <2>1. /\ nextId \in Jobs!Ids \ Jobs!HoldingPermit
        /\ Jobs!HoldingPermit' = Jobs!HoldingPermit \cup {nextId}
    BY <1>2, <1>5, <1>7 DEF Jobs!HoldingPermit
  <2> QED
    BY <2>1, <1>2, <1>8, PermitsMove DEF JobsFit
<1> QED
  BY <1>8, <1>9, <1>10, <1>11, <1>12 DEF JobsFit

LEMMA JobBegins ==
  ASSUME ShutdownTypes, JobsFit, NEW o \in Calls, BeginJob(o)
  PROVE  JobsFit'
<1> USE JobLimits
<1> DEFINE i == jobOf[o]
<1>1. /\ i \in Jobs!Ids /\ task[i] = "registered" /\ op[o] = "handling"
      /\ task' = [task EXCEPT ![i] = "running"] /\ op' = [op EXCEPT ![o] = "begun"]
      /\ UNCHANGED <<permits, status, panicked>>
  <2>1. /\ i # 0 /\ i \in 0 .. MaxJobs /\ TaskOfCall(op[o], task[i])
    BY DEF BeginJob, JobsFit, RegistryTyped, CallsFit
  <2>2. op[o] = "handling" /\ op' = [op EXCEPT ![o] = "begun"]
    BY <2>1 DEF BeginJob, Begin, TaskOfCall
  <2> QED
    BY <2>1, <2>2 DEF BeginJob, Jobs!Spawn
<1>2. JobMoves(i)
  BY <1>1, JobMovesFit DEF JobsFit
<1>3. op'[o] = "begun" /\ task'[i] = "running"
  BY <1>1 DEF ShutdownTypes, JobsFit, RegistryTyped
<1>4. \A j \in Jobs!Ids \ {i} : task'[j] = task[j]
  BY <1>1 DEF JobsFit, RegistryTyped
<1>5. RegistryTyped'
  BY <1>2, TypedMoves DEF JobsFit
<1>6. JobsHaveCalls' /\ CallsFit' /\ RunningFits'
  <2>1. i \in Jobs!Unrecorded'
    BY <1>1, <1>3 DEF Jobs!Unrecorded
  <2>2. TaskOfCall(op'[o], task'[i]) /\ op' = [op EXCEPT ![o] = op'[o]]
    BY <1>1, <1>3 DEF TaskOfCall
  <2> QED
    BY <1>1, <1>2, <1>3, <2>1, <2>2, CallsMove
<1>7. Jobs!HoldingPermit' = Jobs!HoldingPermit
  BY <1>1, <1>3, <1>4 DEF Jobs!HoldingPermit
<1>8. Jobs!PermitsAccounted'
  BY <1>1, <1>5, <1>7, PermitsMove DEF JobsFit
<1> QED
  BY <1>5, <1>6, <1>8 DEF JobsFit

LEMMA JobGoesOn ==
  ASSUME ShutdownTypes, JobsFit, NEW o \in Calls, JobRuns(o) \/ JobPanics(o)
  PROVE  JobsFit'
<1> USE JobLimits
<1> DEFINE i == jobOf[o]
<1>1. /\ op[o] = "running" /\ op' = op
      /\ i \in Jobs!Ids /\ task[i] \in {"running", "recording", "releasing", "ending"}
  <2>1. op[o] = "running" /\ op' = op
    BY DEF JobRuns, JobPanics, vars
  <2>2. i # 0 /\ i \in 0 .. MaxJobs /\ TaskOfCall(op[o], task[i])
    BY <2>1 DEF JobsFit, RegistryTyped, CallsFit
  <2> QED
    BY <2>1, <2>2 DEF TaskOfCall
<1>2. JobMoves(i)
  BY <1>1, JobMovesFit DEF JobsFit
<1>3. \A j \in Jobs!Ids \ {i} : task'[j] = task[j]
  BY <1>2 DEF JobMoves, JobsFit, RegistryTyped
<1>4. RegistryTyped'
  BY <1>2, TypedMoves DEF JobsFit
<1>5. /\ task'[i] \in {"recording", "releasing", "ending"}
      /\ status'[i] = "running" => i \in Jobs!Unrecorded' \/ i \in panicked'
      /\ panicked \subseteq panicked'
      /\ \/ Jobs!HoldingPermit' = Jobs!HoldingPermit /\ permits' = permits
         \/ Jobs!HoldingPermit' = Jobs!HoldingPermit \ {i} /\ permits' = permits + 1
                /\ i \in Jobs!HoldingPermit
  <2>1. CASE JobPanics(o)
    <3>1. /\ task[i] = "running" /\ task' = [task EXCEPT ![i] = "releasing"]
          /\ permits' = permits /\ panicked' = panicked \cup {i}
      BY <2>1 DEF JobPanics, Jobs!Panic
    <3>2. task'[i] = "releasing"
      BY <1>1, <3>1 DEF JobsFit, RegistryTyped
    <3> QED
      BY <1>1, <1>3, <3>1, <3>2 DEF Jobs!HoldingPermit
  <2>2. CASE JobRuns(o) /\ Jobs!RunEnds(i)
    <3>1. /\ task[i] = "running" /\ task' = [task EXCEPT ![i] = "recording"]
          /\ permits' = permits /\ panicked' = panicked
      BY <2>2 DEF JobRuns, Jobs!RunEnds
    <3>2. task'[i] = "recording"
      BY <1>1, <3>1 DEF JobsFit, RegistryTyped
    <3> QED
      BY <1>1, <1>3, <3>1, <3>2 DEF Jobs!HoldingPermit, Jobs!Unrecorded
  <2>3. CASE JobRuns(o) /\ Jobs!Record(i)
    <3>1. /\ task[i] = "recording" /\ task' = [task EXCEPT ![i] = "releasing"]
          /\ permits' = permits /\ panicked' = panicked
      BY <2>3 DEF JobRuns, Jobs!Record
    <3>2. task'[i] = "releasing"
      BY <1>1, <3>1 DEF JobsFit, RegistryTyped
    <3>3. status'[i] # "running"
      BY <1>1, <2>3 DEF Jobs!Record, JobsFit, RegistryTyped
    <3> QED
      BY <1>1, <1>3, <3>1, <3>2, <3>3 DEF Jobs!HoldingPermit
  <2>4. CASE JobRuns(o) /\ Jobs!ReleasePermit(i)
    <3>1. /\ task[i] = "releasing" /\ task' = [task EXCEPT ![i] = "ending"]
          /\ permits' = permits + 1 /\ panicked' = panicked /\ status' = status
      BY <2>4 DEF JobRuns, Jobs!ReleasePermit
    <3>2. task'[i] = "ending"
      BY <1>1, <3>1 DEF JobsFit, RegistryTyped
    <3>3. status[i] = "running" => i \in panicked
      BY <1>1, <3>1 DEF JobsFit, RunningFits, Jobs!Unrecorded
    <3> QED
      BY <1>1, <1>3, <3>1, <3>2, <3>3 DEF Jobs!HoldingPermit
  <2> QED
    BY <2>1, <2>2, <2>3, <2>4 DEF JobRuns
<1>6. JobsHaveCalls' /\ CallsFit' /\ RunningFits'
  <2>1. TaskOfCall(op'[o], task'[i]) /\ op'[o] # "handling"
    BY <1>1, <1>5 DEF TaskOfCall
  <2> QED
    BY <1>1, <1>2, <1>5, <2>1, CallsMove
<1>7. Jobs!PermitsAccounted'
  BY <1>4, <1>5, PermitsMove DEF JobsFit
<1> QED
  BY <1>4, <1>6, <1>7 DEF JobsFit

LEMMA JobEnds ==
  ASSUME ShutdownTypes, JobsFit, NEW o \in Calls, EndJob(o)
  PROVE  JobsFit'
<1> USE JobLimits
<1> DEFINE i == jobOf[o]
<1>1. /\ op[o] = "running" /\ op'[o] \in {"notifying", "done"}
      /\ op' = [op EXCEPT ![o] = op'[o]]
      /\ UNCHANGED <<permits, status, panicked>>
      /\ task[i] = "ending" /\ task' = [task EXCEPT ![i] = "gone"]
  BY DEF EndJob, End, Jobs!EndOperation, ShutdownTypes
<1>2. i \in Jobs!Ids
  <2>1. i \in 0 .. MaxJobs
    BY DEF JobsFit, RegistryTyped
  <2>2. i # 0
    BY <1>1 DEF JobsFit, CallsFit
  <2> QED
    BY <2>1, <2>2
<1>3. JobMoves(i)
  BY <1>1, <1>2, JobMovesFit DEF JobsFit
<1>4. RegistryTyped'
  BY <1>3, TypedMoves DEF JobsFit
<1>5. task'[i] = "gone" /\ \A j \in Jobs!Ids \ {i} : task'[j] = task[j]
  BY <1>1, <1>2 DEF JobsFit, RegistryTyped
<1>6. JobsHaveCalls' /\ CallsFit' /\ RunningFits'
  <2>1. status'[i] = "running" => i \in panicked'
    BY <1>1, <1>2 DEF JobsFit, RunningFits, Jobs!Unrecorded
  <2>2. TaskOfCall(op'[o], task'[i]) /\ op'[o] # "handling"
    BY <1>1, <1>5 DEF TaskOfCall
  <2> QED
    BY <1>1, <1>2, <1>3, <2>1, <2>2, CallsMove
<1>7. Jobs!HoldingPermit' = Jobs!HoldingPermit
  BY <1>1, <1>5 DEF Jobs!HoldingPermit
<1>8. Jobs!PermitsAccounted'
  BY <1>1, <1>4, <1>7, PermitsMove DEF JobsFit
<1> QED
  BY <1>4, <1>6, <1>8 DEF JobsFit

LEMMA CallsGoOnFit ==
  ASSUME ShutdownTypes, JobsFit, CallsGoOn
  PROVE  JobsFit'
<1>1. UNCHANGED <<nextId, status, request, permits, task, jobOf, panicked>>
  BY DEF CallsGoOn, registry
<1>2. RegistryTyped' /\ RunningFits'
  BY <1>1 DEF JobsFit, RegistryTyped, RunningFits, Jobs!Unrecorded
<1>3. JobsHaveCalls'
  BY <1>1 DEF JobsFit, JobsHaveCalls, CallsGoOn
<1>4. CallsFit'
  BY <1>1 DEF JobsFit, CallsFit, CallsGoOn, TaskOfCall
<1>5. Jobs!HoldingPermit' = Jobs!HoldingPermit
  BY <1>1 DEF Jobs!HoldingPermit
<1>6. Jobs!PermitsAccounted'
  BY <1>1, <1>2, <1>5, PermitsMove DEF JobsFit
<1> QED
  BY <1>2, <1>3, <1>4, <1>6 DEF JobsFit

LEMMA JobsStayFit == ShutdownTypes /\ JobsFit /\ [JSNext]_jsVars => JobsFit'
<1>1. ASSUME ShutdownTypes, JobsFit, JSNext PROVE JobsFit'
  BY <1>1, OtherSteps, CallsGoOnFit, JobStarts, JobBegins, JobGoesOn, JobEnds DEF JobsFit
<1>2. ASSUME ShutdownTypes, JobsFit, UNCHANGED jsVars PROVE JobsFit'
  <2>1. CallsGoOn
    BY <1>2 DEF jsVars, vars, CallsGoOn
  <2> QED
    BY <1>2, <2>1, CallsGoOnFit
<1> QED
  BY <1>1, <1>2

\* The composition takes the steps of the shutdown ...
LEMMA StepsOfShutdown == [JSNext]_jsVars => [Next]_vars
<1>1. ASSUME JSNext PROVE [Next]_vars
  BY <1>1 DEF JSNext, Arrive, OperationStep, CallStep, CronStep, MainStep, AnswerWithoutJob,
     StartJob, BeginJob, SpawnJob, JobRuns, JobPanics, EndJob, Work, Next, Operations
<1>2. ASSUME UNCHANGED jsVars PROVE [Next]_vars
  BY <1>2 DEF jsVars
<1> QED
  BY <1>1, <1>2

\* ... and those of the registry.
LEMMA StepsOfRegistry ==
  ShutdownTypes /\ JobsFit /\ [JSNext]_jsVars => [Jobs!Next]_(Jobs!vars)
<1>1. ASSUME ShutdownTypes, JobsFit, CallsGoOn PROVE UNCHANGED Jobs!vars
  <2>1. GuardedCalls' = GuardedCalls
    BY <1>1 DEF CallsGoOn, GuardedCalls, JobsFit, CallsFit
  <2> QED
    BY <1>1, <2>1 DEF CallsGoOn, registry, Jobs!vars
<1>2. ASSUME JobsFit, NEW o \in Calls, StartJob(o) PROVE Jobs!Next
  BY <1>2, JobLimits DEF StartJob, Jobs!Next
<1>3. ASSUME JobsFit, NEW o \in Calls, BeginJob(o) \/ JobRuns(o) \/ JobPanics(o) \/ EndJob(o)
      PROVE  Jobs!Next
  <2>1. jobOf[o] # 0
    BY <1>3 DEF BeginJob, JobRuns, JobPanics, EndJob, End, JobsFit, CallsFit
  <2>2. jobOf[o] \in 0 .. MaxJobs
    BY <1>3 DEF JobsFit, RegistryTyped
  <2>3. jobOf[o] \in Jobs!Ids
    BY <2>1, <2>2, JobLimits
  <2> QED
    BY <1>3, <2>3 DEF BeginJob, JobRuns, JobPanics, EndJob, Jobs!Next, Jobs!TaskStep
<1>4. ASSUME ShutdownTypes, JobsFit, JSNext PROVE [Jobs!Next]_(Jobs!vars)
  <2>1. CallsFit /\ JobsHaveCalls
    BY <1>4 DEF JobsFit
  <2> QED
    BY <1>1, <1>2, <1>3, <1>4, <2>1, OtherSteps
<1>5. ASSUME UNCHANGED jsVars PROVE UNCHANGED Jobs!vars
  BY <1>5 DEF jsVars, vars, registry, Jobs!vars, GuardedCalls
<1> QED
  BY <1>4, <1>5

LEMMA JobsAlwaysFit == JSSpec => Spec /\ []ShutdownInv /\ []JobsFit
<1>1. JSInit => Init
  BY DEF JSInit
<1>2. ShutdownInv => ShutdownTypes
  BY DEF ShutdownInv
<1> QED
  BY <1>1, <1>2, CompositionStarts, JobsStayFit, StepsOfShutdown, ShutdownInvAlways, PTL
     DEF JSSpec, Spec

\* The composition keeps what both of its parts promise, for any calls, requests and limits.
THEOREM PartsKeepTheirPromises == JSSpec => BothKeepTheirPromises
<1>1. JSInit => Jobs!Init
  BY DEF JSInit
<1>2. ShutdownInv => ShutdownTypes
  BY DEF ShutdownInv
<1> QED
  BY <1>1, <1>2, JobsAlwaysFit, StepsOfRegistry, PTL
     DEF JSSpec, BothKeepTheirPromises, Jobs!Spec

\* JobsEndBeforeExit, for any calls, requests and limits.
THEOREM NoJobIsLeftBehind == JSSpec => []JobsEndBeforeExit
<1>1. ShutdownInv /\ JobsFit => JobsEndBeforeExit
  <2> SUFFICES ASSUME ShutdownInv, JobsFit, main = "exited", ~forced
               PROVE  /\ permits = MaxConcurrent
                      /\ \A i \in Jobs!Ids : task[i] \in {"none", "gone"}
                      /\ \A i \in Jobs!Ids : status[i] = "running" => i \in panicked
    BY DEF JobsEndBeforeExit
  <2>1. \A o \in Operations : ~InFlight(o)
    BY DEF ShutdownInv, Passed, CleanExit
  <2>2. \A i \in Jobs!Ids : task[i] \in {"none", "gone"}
    <3> SUFFICES ASSUME NEW i \in Jobs!Ids, task[i] # "none" PROVE task[i] = "gone"
      OBVIOUS
    <3>1. i \in Nat \ {0} /\ i < nextId
      BY JobLimits DEF JobsFit, RegistryTyped
    <3>2. PICK o \in Calls : jobOf[o] = i
      BY <3>1 DEF JobsFit, JobsHaveCalls
    <3> QED
      BY <2>1, <3>1, <3>2, JobLimits DEF JobsFit, CallsFit, TaskOfCall, InFlight
  <2>3. Jobs!HoldingPermit = {} /\ Jobs!Unrecorded = {}
    BY <2>2 DEF Jobs!HoldingPermit, Jobs!Unrecorded
  <2>4. permits + Cardinality(Jobs!HoldingPermit) = MaxConcurrent /\ permits \in Int
    BY SameCardinality DEF JobsFit, Jobs!PermitsAccounted, RegistryTyped
  <2>5. permits = MaxConcurrent
    BY <2>3, <2>4, FS_EmptySet, JobLimits
  <2> QED
    BY <2>2, <2>3, <2>5 DEF JobsFit, RunningFits
<1> QED
  BY <1>1, JobsAlwaysFit, PTL

-----------------------------------------------------------------------------
(* The process and the dispatcher side by side, as the run has them.       *)

\* The dispatcher keeps its invariant while it runs, and rests otherwise.
DispatcherFits ==
    /\ part \in Parts
    /\ part = "dispatcher" => FeedInvariant

\* What has arrived, seen from outside.
ArrivalsFit == part = "dispatcher" => SentIsBeginning

LEMMA DispatcherStaysFit ==
    DispatcherFits /\ [MCNext]_<<part, jsVars, edVars>> => DispatcherFits'
<1>1. [MCNext]_<<part, jsVars, edVars>> => part' = part /\ (part = "dispatcher" => [EDNext]_edVars)
  BY DEF MCNext
<1> QED
  BY <1>1, FeedKeeps DEF DispatcherFits

\* Whichever of the two runs, the process goes by its specification, and the dispatcher,
\* which may rest as it is after its last event, is still a feed of messages.
THEOREM ProcessRun == MCSpec => JSSpec /\ ImplementsFeed
<1>1. MCInit => JSInit /\ Feed!Init /\ DispatcherFits
  BY FeedStarts DEF MCInit, EDInit, Feed!Init, DispatcherFits
<1>2. [MCNext]_<<part, jsVars, edVars>> => [JSNext]_jsVars
  BY DEF MCNext
<1>3. DispatcherFits /\ ArrivalsFit' /\ [MCNext]_<<part, jsVars, edVars>>
        => [Feed!Next]_(Feed!vars)
  <2> SUFFICES ASSUME DispatcherFits, ArrivalsFit', [MCNext]_<<part, jsVars, edVars>>
               PROVE  [Feed!Next]_(Feed!vars)
    OBVIOUS
  <2>1. CASE UNCHANGED edVars
    BY <2>1 DEF edVars, consumer, Feed!vars
  <2>2. CASE part = "dispatcher" /\ part' = part /\ EDNext
    <3>1. FeedInvariant /\ SentIsBeginning'
      BY <2>2 DEF DispatcherFits, ArrivalsFit
    <3> QED
      BY <2>2, <3>1, StepsOfFeed
  <2> QED
    BY <2>1, <2>2 DEF MCNext
<1>4. DispatcherFits => ArrivalsFit
  BY SentBegins DEF DispatcherFits, ArrivalsFit
<1> QED
  BY <1>1, <1>2, <1>3, <1>4, DispatcherStaysFit, PTL DEF MCSpec, JSSpec, ImplementsFeed, Feed!Spec

\* All that the run checks but for what must eventually happen: a clean exit without jobs
\* left behind, parts that keep their promises, and messages in order.
THEOREM ProcessIsSound ==
    MCSpec => /\ [](CleanExit /\ JobsEndBeforeExit)
              /\ BothKeepTheirPromises
              /\ ImplementsFeed
BY ProcessRun, JobsAlwaysFit, ExitIsClean, NoJobIsLeftBehind, PartsKeepTheirPromises, PTL
=============================================================================
