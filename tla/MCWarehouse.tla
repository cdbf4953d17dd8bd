---------------------------- MODULE MCWarehouse -----------------------------
(* Instances of WarehouseOverwrite for TLC.                                 *)
EXTENDS WarehouseRefinement

\* Any two of the calls meet.
MCPairs == {S \in SUBSET Writers : Cardinality(S) = 2}

\* How often each kind of trouble may happen in a run.
LimitNone == [k \in Trouble |-> 0]
LimitAll == [k \in Trouble |-> 1]
=============================================================================
