-------------------------- MODULE MCPathProfiling ---------------------------
(***************************************************************************)
(* Small functions for path profiling: the functions of three blocks with  *)
(* at most two successors each whose blocks are reached, and one with a    *)
(* block that is not; a chain of branches with more paths than   *)
(* SplitThreshold, in front of a loop or not; a switch in a loop with two  *)
(* ways back; and a function with more paths than PathLimit.               *)
(***************************************************************************)
EXTENDS PathProfiling

Targets == {<<>>, <<2>>, <<3>>, <<2, 2>>, <<2, 3>>, <<3, 2>>}

ThreeBlocks ==
  {f \in {<<a, b, c>> : a \in Targets \ {<<>>}, b \in Targets, c \in Targets} :
     /\ \/ Range(f[1]) = {2, 3}
        \/ Range(f[1]) = {2} /\ 3 \in Range(f[2])
        \/ Range(f[1]) = {3} /\ 2 \in Range(f[3])}
  \cup { << <<3>>, <<2, 3>>, <<3>> >> }

Larger == {
  << <<2>>, <<3, 4>>, <<4>>, <<5, 6>>, <<6>>, <<>> >>,
  << <<2>>, <<3, 3, 4>>, <<4>>, <<2, 5>>, <<>> >>,
  << <<2>>, <<3, 3>>, <<4, 2, 4>>, <<>> >>,
  << <<2, 3>>, <<4>>, <<4>>, <<5, 2>>, <<>> >>,
  << <<2>>, <<3, 4>>, <<2, 2, 4>>, <<>> >>,
  << <<2, 2, 2>>, <<3, 3, 3>>, <<>> >> }

SmallFunctions == ThreeBlocks \cup Larger
=============================================================================
