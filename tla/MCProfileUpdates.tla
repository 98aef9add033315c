-------------------------- MODULE MCProfileUpdates --------------------------
(***************************************************************************)
(* Small functions whose profile is updated, with their blocks at          *)
(* addresses in block order, and some in the opposite order too.           *)
(***************************************************************************)
EXTENDS ProfileUpdates

Shapes == {
  << <<2, 3>>, <<3>>, <<>> >>,               \* a branch with a critical edge
  << <<2>>, <<3, 4>>, <<2>>, <<>> >>,        \* a loop tested at its top
  << <<2>>, <<3>>, <<2, 4>>, <<>> >>,        \* a loop tested at its bottom
  << <<2, 3>>, <<3>>, <<>>, <<3>> >> }       \* a block that is not reached

MoreShapes == {
  << <<3, 3, 2>>, <<3>>, <<>> >>,            \* a switch with parallel edges
  << <<2, 3>>, <<2, 3>>, <<>> >>,            \* a loop of one block, guarded
  << <<2>>, <<2, 3, 3>>, <<>> >>,            \* one with parallel edges to its exit
  << <<2>>, <<3>>, <<2, 4>>, <<>>, <<3>> >>, \* a dead block leads into a loop
  << <<2>>, <<2, 3>>, <<2, 4>>, <<>> >>,     \* a loop with two back edges
  << <<2>>, <<3, 4>>, <<2, 4>>, <<>> >> }    \* a loop with two exiting blocks

InOrder(f) == [entry |-> 1, succ |-> f]

Reversed(f) ==
  LET At(b) == MaxBlock + 1 - b
  IN [entry |-> MaxBlock,
      succ |-> [a \in {At(b) : b \in DOMAIN f} |->
                  [t \in DOMAIN f[MaxBlock + 1 - a] |-> At(f[MaxBlock + 1 - a][t])]]]

SmallFunctions ==
  {InOrder(f) : f \in Shapes \cup MoreShapes} \cup {Reversed(f) : f \in Shapes}
=============================================================================
