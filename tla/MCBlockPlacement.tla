-------------------------- MODULE MCBlockPlacement --------------------------
(***************************************************************************)
(* Small functions for the block placement pass: every function of three   *)
(* blocks with at most two successors each, parallel edges and unreachable *)
(* blocks included, and functions of four blocks under fewer profiles.     *)
(***************************************************************************)
EXTENDS BlockPlacement

Missing == -1

\* Successor lists in functions of n blocks, and those of distinct blocks
SuccLists(n) == UNION {[1 .. m -> 2 .. n] : m \in 0 .. 2}
DistinctSuccs(n) ==
  {<< >>} \cup {<<b>> : b \in 2 .. n} \cup {l \in (2 .. n) \X (2 .. n) : l[1] < l[2]}

\* The edges of the CFG g
CFGEdges(g) ==
  UNION {{<<a, g[a][t]>> : t \in DOMAIN g[a]} : a \in DOMAIN g}

\* No profile, or any complete one with two weights
Profiles(g) == UNION {[E -> {0, 1}] : E \in {{}, CFGEdges(g)}}

\* Profiles that rank the edges differently
Rankings(n) == {[e \in (1 .. n) \X (2 .. n) |-> e[1]],
                [e \in (1 .. n) \X (2 .. n) |-> n - e[1]],
                [e \in (1 .. n) \X (2 .. n) |-> (e[1] * e[2]) % n]}

AllFunctions(n) ==
  UNION {{[n |-> n, succ |-> g, weight |-> w] : w \in Profiles(g)} :
           g \in [1 .. n -> SuccLists(n)]}

RankedFunctions(n) ==
  {[n |-> n, succ |-> g, weight |-> w] :
     g \in {h \in [1 .. n -> DistinctSuccs(n)] : h[n] = << >>}, w \in Rankings(n)}

SmallFunctions == AllFunctions(3) \cup RankedFunctions(4)
=============================================================================
