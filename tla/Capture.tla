------------------------------ MODULE Capture -------------------------------
(***************************************************************************)
(* What the tables of the packet daemons share: the clock, in seconds, and *)
(* an allocator that may fail.                                             *)
(***************************************************************************)
EXTENDS Integers, Sequences, FiniteSetsExt, Functions, Subsequences

CONSTANTS
  StartTime,     \* time(NULL) at start, long after the epoch
  MaxTime,       \* bound: last second
  MallocFails    \* malloc() of a node may return NULL

ASSUME CaptureAssumption ==
  /\ StartTime \in Nat \ {0} /\ MaxTime \in Nat
  /\ MallocFails \in BOOLEAN

VARIABLE now     \* time(NULL)

ClockInit == now = StartTime

Tick == now < MaxTime /\ now' = now + 1
=============================================================================
