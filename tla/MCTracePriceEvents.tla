------------------------ MODULE MCTracePriceEvents ------------------------
(* The instance of TracePriceEvents for the liveness properties.           *)
EXTENDS TracePriceEvents
===========================================================================
