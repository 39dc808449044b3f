---------------------------- MODULE Subsequences -----------------------------
(***************************************************************************)
(* What is left of a list or a queue when a loop over it passes elements   *)
(* over.  Written with positions, and not as a fold or with SelectSeq(),   *)
(* so that it can be reasoned about.                                       *)
(***************************************************************************)
EXTENDS Integers, FiniteSets

\* the n-th of the positions I, from 1
Nth(I, n) == CHOOSE i \in I : Cardinality({j \in I : j < i}) = n - 1

\* the positions of s at which there is a member of T
Positions(s, T) == {i \in DOMAIN s : s[i] \in T}

\* the members of T in s, in their order
Kept(s, T) ==
  LET I == Positions(s, T) IN [n \in 1 .. Cardinality(I) |-> s[Nth(I, n)]]
=============================================================================
