----------------------------- MODULE MCProcess ------------------------------
(* Instances of JobsAtShutdown (with GracefulShutdown and BackfillJobs) and *)
(* EventDispatcher for TLC.  One of them runs, chosen by the initial state; *)
(* the other one rests: the process serves, respectively the last event has *)
(* been handled.                                                            *)
EXTENDS JobsAtShutdown, EventDispatcher

CONSTANTS k1, b1, b2, r1, r2, none

OneCallEach == [o \in Calls |-> IF o = b1 THEN "grpc" ELSE "web"]
SameOrOther == [o \in Calls |-> IF o = b1 THEN {r1} ELSE {r1, r2}]

VARIABLE part

Parts == {"shutdown", "dispatcher"}

MCInit ==
    /\ part \in Parts
    /\ IF part = "shutdown" THEN JSInit
       ELSE JSInit /\ server = [s \in Servers |-> "accepting"]
    /\ IF part = "dispatcher" THEN EDInit
       ELSE /\ next = MaxEvents + 1 /\ queue = <<>> /\ handler = "recv" /\ hand = 0
            /\ buffer = <<>> /\ lock = 0 /\ epoch = 0
            /\ timer = [e \in Events |-> "none"]
            /\ batch = [e \in Events |-> <<>>]
            /\ messages = <<>> /\ sent = <<>>

MCNext ==
    \/ part = "shutdown" /\ JSNext /\ UNCHANGED <<part, edVars>>
    \/ part = "dispatcher" /\ EDNext /\ UNCHANGED <<part, jsVars>>

MCSpec == MCInit /\ [][MCNext]_<<part, jsVars, edVars>> /\ JSFairness /\ EDFairness
=============================================================================
