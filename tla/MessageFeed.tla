---------------------------- MODULE MessageFeed -----------------------------
(***************************************************************************)
(* What the dispatcher promises whoever reads the Telegram channel: events *)
(* become messages in the order they were dispatched, and what arrives is  *)
(* a growing beginning of them, without gaps, repetitions or overtaking.   *)
(* How it is done (a bounded channel, a buffer, a timer per message) is    *)
(* the subject of EventDispatcher, which implements this module.           *)
(***************************************************************************)
EXTENDS Integers, Sequences, SequencesExt

CONSTANT Messages    \* numbered in the order of their events

VARIABLES due,         \* the messages so far
          delivered    \* those that have arrived

vars == <<due, delivered>>

Init == due = <<>> /\ delivered = <<>>

\* A later event becomes a message.
Announce(m) ==
    /\ \A i \in DOMAIN due : due[i] < m
    /\ due' = Append(due, m)
    /\ UNCHANGED delivered

\* One or several of those that wait arrive, the oldest first.
Deliver ==
    /\ IsStrictPrefix(delivered, delivered')
    /\ IsPrefix(delivered', due)
    /\ UNCHANGED due

Next == (\E m \in Messages : Announce(m)) \/ Deliver

Spec == Init /\ [][Next]_vars
=============================================================================
