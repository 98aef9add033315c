----------------------- MODULE MCOptimalEdgeProfiling -----------------------
(***************************************************************************)
(* Small functions for optimal edge profiling: every function of three     *)
(* reachable blocks with at most two successors each (parallel edges lead  *)
(* from blocks 1 and 2 to block 2); a branch that joins again; a function  *)
(* with a cycle that is not reached, and one with a block nothing leads    *)
(* to.                                                                     *)
(***************************************************************************)
EXTENDS OptimalEdgeProfiling

Targets == {<<>>, <<2>>, <<3>>, <<2, 2>>, <<2, 3>>}

Reachable(f) == f[1] # <<>> /\ \A b \in {2, 3} : PredsOf(f, b) \ {b} # {}

ThreeBlocks ==
  {f \in {<<a, b, c>> : a, b \in Targets, c \in Targets \ {<<2, 2>>}} : Reachable(f)}

Others == {<< <<>>, <<3>>, <<2, 3>> >>, << <<2, 3>>, <<4>>, <<4>>, <<>> >>}

\* Block 3 was left behind by an earlier pass: nothing leads to it, and it
\* branches to block 2.
DeadBlock == {<< <<2>>, <<>>, <<2>> >>}

SmallFunctions == ThreeBlocks \cup Others \cup DeadBlock
=============================================================================
