------------------------------ MODULE MCPCache ------------------------------
(* Instances of the aggregation cache for TLC. *)
EXTENDS PCache

MCHash(k) == k.src % 2

MCFlows == {<<1, 0>>, <<2, 0>>}
MCFlowsPair == {<<1, 2>>, <<2, 1>>}
MCStamps == -1 .. 1
=============================================================================
