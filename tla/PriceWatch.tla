---------------------------- MODULE PriceWatch ----------------------------
(***************************************************************************)
(* What the price pipeline promises: prices change at any time, a symbol's *)
(* boundaries are only ever evaluated at the price the cache holds at that *)
(* moment, and a watched symbol whose price has not been evaluated does    *)
(* not stay so.  How it is done (events, pending marks, channels, passes)  *)
(* is the subject of TracePriceEvents, which implements this module.       *)
(***************************************************************************)
CONSTANTS Symbols, Prices, NoPrice

VARIABLES price,    \* symbol -> the cached price
          watched,  \* symbols whose changes must not be missed
          seen      \* symbol -> the price it was last evaluated at

vars == <<price, watched, seen>>

Init ==
    /\ price = [s \in Symbols |-> NoPrice]
    /\ watched = {}
    /\ seen = [s \in Symbols |-> NoPrice]

\* Quotes arrive, are dropped, or the whole cache is cleared.
Change ==
    /\ price' \in [Symbols -> Prices \cup {NoPrice}]
    /\ UNCHANGED <<watched, seen>>

\* The set of watched symbols is replaced; a symbol that was forgotten counts
\* as not evaluated.
Rewatch ==
    /\ watched' \in SUBSET Symbols
    /\ \E forgotten \in SUBSET Symbols :
          seen' = [s \in Symbols |-> IF s \in forgotten THEN NoPrice ELSE seen[s]]
    /\ UNCHANGED price

Evaluate(s) ==
    /\ price[s] # NoPrice
    /\ seen' = [seen EXCEPT ![s] = price[s]]
    /\ UNCHANGED <<price, watched>>

\* The caches of a session are cleared together.
Next == Change \/ Rewatch \/ \E s \in Symbols : Evaluate(s)

EvaluateWatched(s) == s \in watched /\ Evaluate(s)

Spec == Init /\ [][Next]_vars
FairSpec == Spec /\ \A s \in Symbols : WF_vars(EvaluateWatched(s))
=============================================================================
