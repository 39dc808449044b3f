----------------------------- MODULE MCSqlCache -----------------------------
(* An instance of the SQL cache for TLC. *)
EXTENDS SqlCache

MCConfs == {[db |-> "mysql", recover |-> TRUE, delay |-> 1],
            [db |-> "pgsql", recover |-> TRUE, delay |-> 0],
            [db |-> "pgsql", recover |-> FALSE, delay |-> 2]}
MCFlows == {<<1, 0>>, <<3, 0>>, <<2, 0>>, <<2, 2>>}
=============================================================================
