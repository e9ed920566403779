----------------------------- MODULE MCCalculations -----------------------------
(***************************************************************************)
(* Six calculations that share nothing, checked side by side: the initial  *)
(* state chooses which of them runs, the others rest in one initial state. *)
(***************************************************************************)
EXTENDS ClosingPipeline, DividendRecords, CagrBackfill, CagrSimulator, DividendBackfill,
        FinancialStatements, TLC

VARIABLE part   \* the part that runs

\* Dividend events of cash 1 or none and stock dividends of 5 per share or none.
SomeEvents ==
    {e \in [cashDay : 0 .. 4, stockDay : 0 .. 4, cash : {0, 1}, stock : {0, 5}] :
        /\ e.cash = 0 <=> e.cashDay = 0
        /\ e.stock = 0 <=> e.stockDay = 0
        /\ e.cash + e.stock > 0}

\* Splits of one into two and reductions of two into one.
SomeSplits == [day : 1 .. 4, num : {2}, den : {1}] \cup [day : 1 .. 4, num : {1}, den : {2}]

\* A stock dividend adds a half, a split or a price of 2 halves.
SomeGrain == [n \in 0 .. 6 |-> 64 \div 2 ^ n]

Parts == {"closing", "dividends", "cagr", "simulator", "backfill", "statements"}
vars == <<part, cpVars, drVars, cbVars, csVars, dbVars, fsVars>>

\* The parts that rest do so in one state.
Init ==
    /\ part \in Parts
    /\ CPInit
    /\ IF part = "dividends" THEN DRInit
       ELSE DRInit /\ dividend = [d \in Dividends |-> [year |-> Max(Years), pay |-> 0]]
    /\ IF part = "cagr" THEN CBInit ELSE quoted = {} /\ unpriced = {} /\ CBInit
    /\ IF part = "simulator" THEN CSInit
       ELSE events = {} /\ splits = {} /\ price = [d \in Window |-> Max(Prices)] /\ CSInit
    /\ IF part = "backfill" THEN DBInit
       ELSE /\ page = [d \in YearsOfDividend \X Terms |->
                        IF d = <<1, WholeYear>> THEN Unpublished ELSE NotAnnounced]
            /\ table = [k \in RowKeys |-> NoDividend]
            /\ DBInit
    /\ IF part = "statements" THEN FSInit
       ELSE own = [q \in QuartersOfYear |-> 1] /\ ended = 0 /\ FSInit

Next ==
    /\ UNCHANGED part
    /\ \/ /\ part = "closing" /\ CPNext
          /\ UNCHANGED <<drVars, cbVars, csVars, dbVars, fsVars>>
       \/ /\ part = "dividends" /\ DRNext
          /\ UNCHANGED <<cpVars, cbVars, csVars, dbVars, fsVars>>
       \/ /\ part = "cagr" /\ CBNext
          /\ UNCHANGED <<cpVars, drVars, csVars, dbVars, fsVars>>
       \/ /\ part = "simulator" /\ CSNext
          /\ UNCHANGED <<cpVars, drVars, cbVars, dbVars, fsVars>>
       \/ /\ part = "backfill" /\ DBNext
          /\ UNCHANGED <<cpVars, drVars, cbVars, csVars, fsVars>>
       \/ /\ part = "statements" /\ FSNext
          /\ UNCHANGED <<cpVars, drVars, cbVars, csVars, dbVars>>

Spec == Init /\ [][Next]_vars

(* Type correctness of the part that runs; the others keep their first state.   *)
CalculationTypes ==
    /\ part = "closing" => CPTypeOK
    /\ part = "dividends" => DRTypeOK
    /\ part = "cagr" => CBTypeOK
    /\ part = "simulator" => CSTypeOK
    /\ part = "backfill" => DBTypeOK
    /\ part = "statements" => FSTypeOK

(* The state of the part that runs stands for the whole state: the others rest.  *)
View ==
    CASE part = "closing" -> <<part, cpVars>>
      [] part = "dividends" -> <<part, drVars>>
      [] part = "cagr" -> <<part, cbVars>>
      [] part = "simulator" -> <<part, csVars>>
      [] part = "backfill" -> <<part, dbVars>>
      [] part = "statements" -> <<part, fsVars>>

Symmetry == Permutations(Stocks) \cup Permutations(Closers)
=============================================================================
