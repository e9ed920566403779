---------------------------- MODULE MCInfrastructure ----------------------------
(***************************************************************************)
(* Six components that share nothing, checked side by side: the initial    *)
(* state chooses which of them runs, the others rest in one initial state. *)
(***************************************************************************)
EXTENDS SitePool, SnapshotCache, StockRegistry, LogWriter, HttpClient,
        CagrRanking, TLC

VARIABLE part   \* the part that runs

\* Requests for a market with two of the three stocks.
SomeFilters == {{1, 3}}

Parts == {"sites", "snapshots", "registry", "log", "http", "ranking"}
vars == <<part, spVars, scVars, srVars, lwVars, hcVars, crVars>>

\* The parts that rest do so in one state.
Init ==
    /\ part \in Parts
    /\ SPInit
    /\ IF part = "snapshots" THEN SCInit ELSE closes = [s \in Symbols |-> 0] /\ SCInit
    /\ IF part = "registry" THEN SRInit
       ELSE listing = [s \in Securities |-> 1] /\ table = [s \in Securities |-> NoRow] /\ SRInit
    /\ LWInit /\ HCInit
    /\ IF part = "ranking" THEN CRInit
       ELSE /\ results = [d \in RankDates |-> [s \in Ranked |-> IF d = 1 THEN 0 ELSE NoReturn]]
            /\ CRInit

Next ==
    /\ UNCHANGED part
    /\ \/ part = "sites" /\ SPNext /\ UNCHANGED <<scVars, srVars, lwVars, hcVars, crVars>>
       \/ part = "snapshots" /\ SCNext /\ UNCHANGED <<spVars, srVars, lwVars, hcVars, crVars>>
       \/ part = "registry" /\ SRNext /\ UNCHANGED <<spVars, scVars, lwVars, hcVars, crVars>>
       \/ part = "log" /\ LWNext /\ UNCHANGED <<spVars, scVars, srVars, hcVars, crVars>>
       \/ part = "http" /\ HCNext /\ UNCHANGED <<spVars, scVars, srVars, lwVars, crVars>>
       \/ part = "ranking" /\ CRNext /\ UNCHANGED <<spVars, scVars, srVars, lwVars, hcVars>>

Spec == Init /\ [][Next]_vars

(* Type correctness of the part that runs; the others keep their first state. *)
InfrastructureTypes ==
    /\ part = "sites" => SPTypeOK
    /\ part = "snapshots" => SCTypeOK
    /\ part = "registry" => SRTypeOK
    /\ part = "log" => LWTypeOK
    /\ part = "http" => HCTypeOK
    /\ part = "ranking" => CRTypeOK

(* The state of the part that runs stands for the whole state: the others rest. *)
View ==
    CASE part = "sites" -> <<part, spVars>>
      [] part = "snapshots" -> <<part, scVars>>
      [] part = "registry" -> <<part, srVars>>
      [] part = "log" -> <<part, lwVars>>
      [] part = "http" -> <<part, hcVars>>
      [] part = "ranking" -> <<part, crVars>>

Symmetry == Permutations(Symbols) \cup Permutations(Categories)
=============================================================================
