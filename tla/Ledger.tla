------------------------------- MODULE Ledger -------------------------------
(***************************************************************************)
(* What an accounting cache promises, seen from outside: bytes accounted   *)
(* to a row stay with that row until the whole row is settled, and a row   *)
(* is settled once, either by handing it to a writer or by dropping it.    *)
(***************************************************************************)
EXTENDS Integers

CONSTANT Rows

VARIABLES
  held,     \* bytes accounted to a row and not settled yet
  written,  \* bytes handed to a writer
  lost      \* bytes dropped

vars == <<held, written, lost>>

Init ==
  /\ held = [r \in Rows |-> 0]
  /\ written = [r \in Rows |-> 0]
  /\ lost = [r \in Rows |-> 0]

\* the rows that are settled
Settled == {r \in Rows : held'[r] # held[r]}

Clear(f) == [r \in Rows |-> IF r \in Settled THEN 0 ELSE f[r]]
AddHeld(f) == [r \in Rows |-> IF r \in Settled THEN f[r] + held[r] ELSE f[r]]

Account(r) ==
  /\ held'[r] > held[r]
  /\ held' = [held EXCEPT ![r] = held'[r]]
  /\ UNCHANGED <<written, lost>>

Write ==
  /\ held' = Clear(held)
  /\ written' = AddHeld(written)
  /\ UNCHANGED lost

Drop ==
  /\ held' = Clear(held)
  /\ lost' = AddHeld(lost)
  /\ UNCHANGED written

Next == (\E r \in Rows : Account(r)) \/ Write \/ Drop

Spec == Init /\ [][Next]_vars
=============================================================================
