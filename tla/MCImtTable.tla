----------------------------- MODULE MCImtTable -----------------------------
(* An instance of the memory table for TLC. *)
EXTENDS ImtTable

MCHash == [k \in Keys |-> IF k <= 2 THEN 1 ELSE 2]
Exact(k) == [exact |-> TRUE, all |-> FALSE, keys |-> {k}]
Masked(ks) == [exact |-> FALSE, all |-> FALSE, keys |-> ks]
Stats == [exact |-> FALSE, all |-> TRUE, keys |-> Keys]
Query(requests, reset, locked, erase) ==
  [requests |-> requests, reset |-> reset, lock |-> locked, erase |-> erase]
MCQueries ==
  {Query(<<Exact(1)>>, TRUE, FALSE, FALSE),
   Query(<<Exact(2), Exact(3)>>, TRUE, FALSE, FALSE),
   Query(<<Masked({1, 2, 3})>>, TRUE, FALSE, FALSE),
   Query(<<Stats>>, FALSE, FALSE, FALSE),
   Query(<<Masked(Keys)>>, FALSE, TRUE, FALSE),
   Query(<<Masked({1, 4})>>, TRUE, FALSE, TRUE),
   Query(<< >>, FALSE, FALSE, TRUE)}
MCFlows == {<<1, 1>>, <<2, 1>>, <<3, 1>>, <<4, 1>>}
=============================================================================
