-------------------------- MODULE EventDispatcher --------------------------
(***************************************************************************)
(* Domain events go through a bounded channel to one consumer; the handler *)
(* turns most of them into Telegram messages, which a debouncer collects   *)
(* and sends as one batch after half a second without a new one.           *)
(*                                                                         *)
(* Source: app/event/handlers.rs and app/event/handlers/debounce.rs.       *)
(*                                                                         *)
(* Events are numbered in the order the channel accepts them.  Timer e is  *)
(* the task that add_message spawns with epoch e; half a second passes at  *)
(* any moment.                                                             *)
(***************************************************************************)
EXTENDS Integers, Sequences, SequencesExt

CONSTANTS Capacity,    \* of the event channel
          MaxEvents    \* bound on the events dispatched

ASSUME CapacityAssumption == Capacity \in Nat \ {0}
ASSUME MaxEventsAssumption == MaxEvents \in Nat

VARIABLES next,        \* the next event to dispatch
          queue,       \* the event channel
          handler,     \* the consumer: "recv", "other", "push" or "count"
          hand,        \* the event it handles, or 0
          buffer,      \* TelegramDebouncer.buffer
          lock,        \* the timer that holds the buffer's lock, or 0
          epoch,       \* TelegramDebouncer.epoch
          timer,       \* timer -> its progress
          batch,       \* the messages taken by the timer that sends
          messages,    \* auxiliary: the messages so far, in handling order
          sent         \* auxiliary: the messages given to the alert sink

channel == <<next, queue>>
consumer == <<handler, hand, messages>>
timers == <<epoch, timer>>
edVars == <<channel, consumer, buffer, lock, timers, batch, sent>>

Events == 1..MaxEvents

EDInit ==
    /\ next = 1
    /\ queue = <<>>
    /\ handler = "recv"
    /\ hand = 0
    /\ buffer = <<>>
    /\ lock = 0
    /\ epoch = 0
    /\ timer = [e \in Events |-> "none"]
    /\ batch = [e \in Events |-> <<>>]
    /\ messages = <<>>
    /\ sent = <<>>

-----------------------------------------------------------------------------
(* The channel and its consumer.                                           *)

\* dispatch_async: send().await waits for room.
DispatchAsync ==
    /\ next \in Events
    /\ Len(queue) < Capacity
    /\ queue' = Append(queue, next)
    /\ next' = next + 1
    /\ UNCHANGED <<consumer, buffer, lock, timers, batch, sent>>

\* An event is a message for the debouncer or is handled in another way.
Receive ==
    /\ handler = "recv"
    /\ queue # <<>>
    /\ hand' = Head(queue)
    /\ queue' = Tail(queue)
    /\ \/ handler' = "push" /\ messages' = Append(messages, Head(queue))
       \/ handler' = "other" /\ UNCHANGED messages
    /\ UNCHANGED <<next, buffer, lock, timers, batch, sent>>

HandleOther ==
    /\ handler = "other"
    /\ handler' = "recv"
    /\ hand' = 0
    /\ UNCHANGED <<channel, buffer, lock, timers, batch, messages, sent>>

\* add_message, under the lock ...
Push ==
    /\ handler = "push"
    /\ lock = 0
    /\ buffer' = Append(buffer, hand)
    /\ handler' = "count"
    /\ UNCHANGED <<channel, hand, lock, timers, batch, messages, sent>>

\* ... and after it: the epoch is advanced and its timer spawned.
StartTimer ==
    /\ handler = "count"
    /\ epoch' = epoch + 1
    /\ timer' = [timer EXCEPT ![epoch + 1] = "sleeping"]
    /\ handler' = "recv"
    /\ hand' = 0
    /\ UNCHANGED <<channel, buffer, lock, batch, messages, sent>>

-----------------------------------------------------------------------------
(* Timers.                                                                 *)

\* Half a second later: only the timer of the newest message goes on.
Fire(e) ==
    /\ timer[e] = "sleeping"
    /\ timer' = [timer EXCEPT ![e] = IF epoch = e THEN "locking" ELSE "done"]
    /\ UNCHANGED <<channel, consumer, buffer, lock, epoch, batch, sent>>

\* Nothing to flush: another timer was faster.
FindEmpty(e) ==
    /\ timer[e] = "locking"
    /\ lock = 0
    /\ buffer = <<>>
    /\ timer' = [timer EXCEPT ![e] = "done"]
    /\ UNCHANGED <<channel, consumer, buffer, lock, epoch, batch, sent>>

\* mutant: the length of a batch is limited, the rest waits
TakeBatchLimited(e) ==
    /\ timer[e] = "locking"
    /\ lock = 0
    /\ buffer # <<>>
    /\ batch' = [batch EXCEPT ![e] = <<Head(buffer)>>]
    /\ buffer' = Tail(buffer)
    /\ lock' = e
    /\ timer' = [timer EXCEPT ![e] = "sending"]
    /\ UNCHANGED <<channel, consumer, epoch, sent>>
\* mutant: the lock is released before the batch is sent
TakeBatchUnlocked(e) ==
    /\ timer[e] = "locking"
    /\ lock = 0
    /\ buffer # <<>>
    /\ batch' = [batch EXCEPT ![e] = buffer]
    /\ buffer' = <<>>
    /\ timer' = [timer EXCEPT ![e] = "sending"]
    /\ UNCHANGED <<channel, consumer, lock, epoch, sent>>
\* The buffer is merged and cleared, and the lock kept while it is sent.
TakeBatch(e) ==
    /\ timer[e] = "locking"
    /\ lock = 0
    /\ buffer # <<>>
    /\ batch' = [batch EXCEPT ![e] = buffer]
    /\ buffer' = <<>>
    /\ lock' = e
    /\ timer' = [timer EXCEPT ![e] = "sending"]
    /\ UNCHANGED <<channel, consumer, epoch, sent>>

\* send_message returns, and the lock is dropped.
Send(e) ==
    /\ timer[e] = "sending"
    /\ sent' = sent \o batch[e]
    /\ batch' = [batch EXCEPT ![e] = <<>>]
    /\ lock' = 0
    /\ timer' = [timer EXCEPT ![e] = "done"]
    /\ UNCHANGED <<channel, consumer, buffer, epoch>>

Consume == Receive \/ HandleOther \/ Push \/ StartTimer
Timer(e) == Fire(e) \/ FindEmpty(e) \/ TakeBatch(e) \/ Send(e)

EDNext == DispatchAsync \/ Consume \/ \E e \in Events : Timer(e)

EDSpec == EDInit /\ [][EDNext]_edVars

\* The runtime goes on as long as a task is ready.  It need not be fair to each
\* timer, as each takes at most three steps.
EDFairness ==
    /\ WF_edVars(DispatchAsync)
    /\ WF_edVars(Consume)
    /\ WF_edVars(\E e \in Events : Timer(e))

-----------------------------------------------------------------------------
(* Properties.                                                             *)

\* Every variable has its type, and only a timer that sends has a batch.
EDTypeOK ==
    /\ next \in 1..(MaxEvents + 1)
    /\ queue \in Seq(Events) /\ Len(queue) <= Capacity
    /\ handler \in {"recv", "other", "push", "count"}
    /\ hand \in Events \cup {0}
    /\ buffer \in Seq(Events)
    /\ lock \in Events \cup {0}
    /\ epoch \in 0..MaxEvents
    /\ timer \in [Events -> {"none", "sleeping", "locking", "sending", "done"}]
    /\ batch \in [Events -> Seq(Events)]
    /\ messages \in Seq(Events)
    /\ sent \in Seq(Events)
    /\ \A e \in Events : timer[e] = "sending" <=> batch[e] # <<>>

\* Messages reach Telegram in the order their events were dispatched, each once and
\* without gaps, although every batch is sent by a task of its own (debounce.rs).
Feed == INSTANCE MessageFeed WITH
            Messages <- Events, due <- messages, delivered <- sent
ImplementsFeed == Feed!Spec

\* The timer of the newest epoch is under way whenever a message waits in the
\* buffer, or is about to be spawned: no message is left behind.
BufferHasTimer ==
    buffer # <<>> =>
        handler = "count" \/ (epoch > 0 /\ timer[epoch] \in {"sleeping", "locking"})

\* Every event that is dispatched is handled and, if it is a message, sent, even
\* when the channel is full while a slow send holds the buffer's lock.
EverythingIsSent == <>[](next = MaxEvents + 1 /\ queue = <<>> /\ sent = messages)
=============================================================================
