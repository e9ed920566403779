----------------------------- MODULE MCNotices ------------------------------
(***************************************************************************)
(* What the users are told, from prices to alerts and the daily notices:   *)
(* six components checked side by side.  The initial state chooses which   *)
(* of them runs, the others rest in one initial state.                     *)
(***************************************************************************)
EXTENDS TracePriceEvents, TraceAlertDedup, ExDividendReminder, PublicOfferings,
        LastQuoteCache, MarketIndex, TLC

CONSTANTS c1, c2, t1, t2, i1, i2

VARIABLE part   \* the part that runs

OneEach == [t \in Tasks |-> IF t = t1 THEN i1 ELSE i2]

\* Days 2 and 3, or 5 and 6: New Year's Day, the fourth, is a Monday or a Friday.
SomeWeekends == {{2, 3}, {5, 6}}

Parts == {"events", "alerts", "reminder", "offerings", "index", "quotes"}
mcVars == <<part, vars, adVars, xrVars, poVars, lqVars, miVars>>

MCInit ==
    /\ part \in Parts
    /\ Init /\ ADInit /\ LQInit /\ MIInit
    /\ IF part = "reminder" THEN XRInit
       ELSE weekend = {2, 3} /\ closed = {NewYear} /\ XRInit
    /\ IF part = "offerings" THEN POInit ELSE period = [o \in Offerings |-> <<1, 1>>] /\ POInit

MCNext ==
    /\ UNCHANGED part
    /\ \/ part = "events" /\ Next /\ UNCHANGED <<adVars, xrVars, poVars, lqVars, miVars>>
       \/ part = "alerts" /\ ADNext /\ UNCHANGED <<vars, xrVars, poVars, lqVars, miVars>>
       \/ part = "reminder" /\ XRNext /\ UNCHANGED <<vars, adVars, poVars, lqVars, miVars>>
       \/ part = "offerings" /\ PONext /\ UNCHANGED <<vars, adVars, xrVars, lqVars, miVars>>
       \/ part = "quotes" /\ LQNext /\ UNCHANGED <<vars, adVars, xrVars, poVars, miVars>>
       \/ part = "index" /\ MINext /\ UNCHANGED <<vars, adVars, xrVars, poVars, lqVars>>

MCSpec == MCInit /\ [][MCNext]_mcVars

\* The state of the part that runs stands for the whole state: the others rest.
View ==
    CASE part = "events" -> <<part, vars>>
      [] part = "alerts" -> <<part, adVars>>
      [] part = "reminder" -> <<part, xrVars>>
      [] part = "offerings" -> <<part, poVars>>
      [] part = "quotes" -> <<part, lqVars>>
      [] part = "index" -> <<part, miVars>>

\* Exchanging the two instances together with their tasks.
Exchange == {t1 :> t2 @@ t2 :> t1 @@ i1 :> i2 @@ i2 :> i1}
Symmetry == Permutations({c1, c2}) \cup Exchange
=============================================================================
