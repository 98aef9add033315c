---------------------------- MODULE CountedLoop ----------------------------
(***************************************************************************)
(* A loop as it was written: its body runs trips times, at least once, and *)
(* the loop ends; a body with another way out may leave the loop in any    *)
(* iteration.                                                              *)
(***************************************************************************)
EXTENDS Naturals

CONSTANT Loops

VARIABLES loop, done, left

vars == <<loop, done, left>>

Init ==
  /\ loop \in Loops
  /\ done = 0
  /\ left = FALSE

Iterate ==
  /\ ~left /\ done < loop.trips
  /\ done' = done + 1
  /\ left' = (done + 1 = loop.trips)
  /\ UNCHANGED loop

Break ==
  /\ ~left /\ loop.early
  /\ left' = TRUE
  /\ UNCHANGED <<loop, done>>

Next == Iterate \/ Break

Spec == Init /\ [][Next]_vars
=============================================================================
