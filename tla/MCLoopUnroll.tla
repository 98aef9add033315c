---------------------------- MODULE MCLoopUnroll ----------------------------
(***************************************************************************)
(* Loops to unroll: up to 15 iterations, counted in 4 bits, by a factor of *)
(* at most 8, and 16 iterations where the trip count is not used; profile  *)
(* counts are words of 5 bits. The profiles leave out some counts and have *)
(* others of 0, next to powers of two, above the largest shift that is     *)
(* defined (16), and above the largest word (31).                          *)
(***************************************************************************)
EXTENDS LoopUnroll

NoFlag == [f \in Flags |-> FALSE]

Shape(flags, k, b, c) ==
  [f \in Flags \cup {"trips", "blocks", "calls"} |->
     CASE f = "trips" -> k [] f = "blocks" -> b [] f = "calls" -> c [] OTHER -> f \in flags]

Profiles == {{Missing}, {0}, {1, 3}, {4}, {5, 9}, {Missing, 8}, {15}, {16}, {17, 31}, {33}, {7, 40}}
Calls == {Missing, 0, 1, 3, 33}

Countable == {Shape({"countable", "clonable"}, k, b, c) : k \in 1 .. 15, b \in Profiles, c \in Calls}

Static ==
  {Shape({"countable", "static"} \cup s, k, {k, 1}, 1) :
     k \in 1 .. 5, s \in SUBSET {"clonable", "inlinable", "large"}}

Uncountable ==
  {Shape({"clonable"} \cup s, k, {3, 6}, 2) : k \in {1, 4, 16}, s \in {{}, {"early"}}}
    \cup {Shape({"countable"}, k, {12}, 2) : k \in {3, 16}}

\* A loop of as many iterations as its count has values
WrappingLoop == {Shape({"countable", "clonable"}, 16, {8}, 1)}

SmallLoops == Countable \cup Static \cup Uncountable
=============================================================================
