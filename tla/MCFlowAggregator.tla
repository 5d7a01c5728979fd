--------------------------- MODULE MCFlowAggregator ---------------------------
(* A small instance of FlowAggregator.  Events are named; two of them belong *)
(* to one minute, three have one key and a minute each, so rows merge,       *)
(* buckets advance and late events occur in every arrival order.             *)
EXTENDS FlowAggregator, TLC

CONSTANTS p1, p2, ticker, stopper, e1, e2, e3, e4, k1, k2

MCProducers == {p1, p2}
MCEvents == {e1, e2, e3, e4}
MCKey == e1 :> k1 @@ e2 :> k2 @@ e3 :> k1 @@ e4 :> k1
MCMinute == e1 :> 1 @@ e2 :> 1 @@ e3 :> 2 @@ e4 :> 3
===============================================================================
