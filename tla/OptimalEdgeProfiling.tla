------------------------ MODULE OptimalEdgeProfiling ------------------------
(***************************************************************************)
(* Optimal edge profiling from end to end: OptimalEdgeProfiler::runOnModule*)
(* computes a maximum spanning tree of the edges of a function and puts    *)
(* counters on the edges outside of it only, the program runs, and         *)
(* LoaderPass::runOnModule works out the counts of the other edges from    *)
(* what flows into a block and out of it.                                  *)
(*                                                                         *)
(* A module of one function, given by succ[b], the successors of block b   *)
(* in terminator order; block 1 is the entry, the block list is 1, 2, ...  *)
(* An edge is a pair of blocks. Node 0 stands for the outside, as the null *)
(* pointer does in ProfileInfo: (0, 1) is a call, (b, 0) a return from b.  *)
(* There is a function main, there are no landing pads, and no critical    *)
(* edge leaves an indirect branch (BreakCriticalEdges.cpp:180).            *)
(***************************************************************************)
EXTENDS Integers, Sequences, FiniteSets, SequencesExt, FiniteSetsExt

CONSTANTS Functions,  \* the functions that may be profiled
          Uncounted,  \* ~0U: the largest value of a counter, and "not counted"
          MaxTaken    \* bound: edges taken in a run

WellFormed(f) == f \in [1 .. Len(f) -> Seq(2 .. Len(f))] /\ f # <<>>

ASSUME FunctionsAssumption == \A f \in Functions : WellFormed(f)
ASSUME BoundsAssumption == Uncounted \in Nat \ {0} /\ MaxTaken \in Nat

VARIABLES
  function,  \* the function before instrumentation (never changes)
  pc,        \* "tree", "count", "run", "rebuild", "round", "done" or "stuck"
  edges,     \* EdgeVector: estimated edges that Kruskal has not looked at
  forest,    \* Forest: the sets of nodes that are joined
  MST,       \* the edges chosen so far
  succ,      \* the successors, as instrumentation changes them
  layout,    \* the block list, as instrumentation changes it
  head,      \* head[b]: counters incremented at the start of block b
  bi, s,     \* the place in the block list, the successor
  i,         \* the next counter
  counters,  \* OptEdgeProfCounters
  at,        \* the block the program is in, or Idle
  taken,     \* history: taken[c], how often the edge of counter c was taken
  lost,      \* history: a call ended without a return
  weight,    \* EdgeInformation, once loaded
  SpanningTree, BBisUnvisited, \* the loader's sets
  size,      \* the size of SpanningTree when the round began
  stack      \* the blocks recurseBasicBlock is in, innermost first

treeVars    == <<edges, forest, MST>>
countVars   == <<succ, layout, head, bi, s, i>>
runVars     == <<counters, at, taken, lost>>
rebuildVars == <<weight, SpanningTree, BBisUnvisited, size, stack>>
vars == <<function, pc, treeVars, countVars, runVars, rebuildVars>>

Idle == 0
Blocks == DOMAIN function
Nodes == Blocks \cup {0}

SuccsOf(f, b) == Range(f[b])
PredsOf(f, b) == {p \in DOMAIN f : b \in SuccsOf(f, p)}

\* Edges of the block, the missing end being 0
InEdges(b)  == {<<p, b>> : p \in IF PredsOf(function, b) = {} THEN {0} ELSE PredsOf(function, b)}
OutEdges(b) == {<<b, t>> : t \in IF function[b] = <<>> THEN {0} ELSE SuccsOf(function, b)}

\* The edges of a block in the order in which they get counters
EdgesOf(f, b) ==
  IF f[b] = <<>> THEN << <<b, 0>> >> ELSE [t \in DOMAIN f[b] |-> <<b, f[b][t]>>]

OwnEdges(f) == {<<0, 1>>} \cup UNION {Range(EdgesOf(f, b)) : b \in DOMAIN f}

\* EdgeOf[c]: the edge of counter c, for the pass and for the loader
EdgeOf == << <<0, 1>> >> \o FlattenSeq([b \in Blocks |-> EdgesOf(function, b)])

Bug_NumEdges == 1 + FoldFunction(+, 0, [b \in Blocks |-> Len(function[b])])

NumEdges == 1 + FoldFunction(+, 0, [b \in Blocks |-> Max({1, Len(function[b])})])

\* The counter of edge t of block b (of its return, when t is 1 and it has no successor)
CounterOf(b, t) ==
  1 + t + FoldFunction(+, 0, [c \in 1 .. b - 1 |-> Max({1, Len(function[c])})])

-----------------------------------------------------------------------------
(* The maximum spanning tree *)

OnCycle(f, b) ==
  \A X \in SUBSET DOMAIN f :
    SuccsOf(f, b) \subseteq X /\ (\A c \in X : SuccsOf(f, c) \subseteq X) => b \in X

\* The edges ProfileEstimatorPass gives a weight to: the edges of the function;
\* for a loop all of whose exits have a weight already a return from its
\* latch; and, when it gave up on a cycle that is not a loop and set everything
\* to 0, a call of each block without predecessors, and each edge to a
\* successor once more, the wrong way round. (Any block on a cycle is taken
\* for a latch here, and any cycle for one it gives up on.)
EstimatedEdges(f) ==
  LET cycle == {b \in DOMAIN f : OnCycle(f, b)}
      roots == {b \in DOMAIN f : PredsOf(f, b) = {}}
      reversed == UNION {{<<t, b>> : t \in SuccsOf(f, b)} : b \in DOMAIN f}
  IN {OwnEdges(f) \cup {<<l, 0>> : l \in latches} : latches \in SUBSET cycle}
       \cup {OwnEdges(f) \cup {<<0, b>> : b \in roots} \cup reversed : c \in cycle}

Init ==
  /\ function \in Functions
  /\ pc = "tree"
  /\ edges \in EstimatedEdges(function)
  /\ forest = {{n} : n \in UNION {{e[1], e[2]} : e \in edges}}
  /\ MST = {}
  /\ succ = function
  /\ layout = [b \in Blocks |-> b]
  /\ head = [b \in Blocks |-> {}]
  /\ bi = 0 /\ s = 1 /\ i = 1
  /\ counters = [c \in 1 .. NumEdges |-> 0]
  /\ at = Idle
  /\ taken = [c \in 1 .. NumEdges |-> 0]
  /\ lost = FALSE
  /\ weight = <<>>
  /\ SpanningTree = {} /\ BBisUnvisited = {} /\ size = 0 /\ stack = <<>>

\* findLeader
Leader(n) == CHOOSE T \in forest : n \in T

Bug_Unite(e) ==
  (forest \ {Leader(e[1]), Leader(e[2])}) \cup {Leader(e[1]) \cup {e[2]}, Leader(e[2]) \ {e[2]}}

\* unionSets
Unite(e) == (forest \ {Leader(e[1]), Leader(e[2])}) \cup {Leader(e[1]) \cup Leader(e[2])}

\* The edges come by falling weight, which may be any order here.
LookAtEdge(e) ==
  /\ pc = "tree" /\ e \in edges
  /\ edges' = edges \ {e}
  /\ IF Leader(e[1]) # Leader(e[2])
     THEN forest' = Unite(e) /\ MST' = MST \cup {e}
     ELSE UNCHANGED <<forest, MST>>
  /\ UNCHANGED <<function, pc, countVars, runVars, rebuildVars>>

EndTree ==
  /\ pc = "tree" /\ edges = {}
  /\ pc' = "count"
  /\ UNCHANGED <<function, treeVars, countVars, runVars, rebuildVars>>

-----------------------------------------------------------------------------
(* Instrumentation *)

\* The counter i of an edge: in the tree it starts as Uncounted and nothing
\* counts it, otherwise it starts at 0 and is counted at the start of b.
InitCounter(e) == counters' = [counters EXCEPT ![i] = IF e \in MST THEN Uncounted ELSE 0]

InstrumentAt(e, b) ==
  head' = [c \in DOMAIN succ' |-> (IF c \in DOMAIN head THEN head[c] ELSE {})
                                    \cup (IF c = b /\ e \notin MST THEN {i} ELSE {})]

\* The edge (0, entry)
InstrumentEntry ==
  /\ pc = "count" /\ bi = 0
  /\ InitCounter(<<0, 1>>)
  /\ UNCHANGED succ
  /\ InstrumentAt(<<0, 1>>, 1)
  /\ i' = i + 1
  /\ bi' = 1
  /\ UNCHANGED <<function, pc, treeVars, layout, s, at, taken, lost, rebuildVars>>

Counting == pc = "count" /\ bi \in DOMAIN layout
BB == layout[bi]

\* A block without successors: the edge (BB, 0)
InstrumentReturn ==
  /\ Counting /\ BB \in Blocks
  /\ function[BB] = <<>> /\ s = 1
  /\ InitCounter(<<BB, 0>>)
  /\ UNCHANGED succ
  /\ InstrumentAt(<<BB, 0>>, BB)
  /\ i' = i + 1
  /\ s' = 2
  /\ UNCHANGED <<function, pc, treeVars, layout, bi, at, taken, lost, rebuildVars>>

PredEdges(d) == UNION {{<<b, t>> : t \in {x \in DOMAIN succ[b] : succ[b][x] = d}} : b \in DOMAIN succ}

IsCriticalEdge(b, t) == Len(succ[b]) > 1 /\ Cardinality(PredEdges(succ[b][t])) > 1

NewBlock == Len(succ) + 1

Bug_CounterPlace(b, t) == IF Len(succ[b]) = 1 THEN b ELSE succ[b][t]

\* Where the counter goes, after the edge was split
CounterPlace(b, t) == IF Len(succ[b]) = 1 THEN b ELSE succ'[b][t]

\* One successor of a terminator. Edges that need a counter are split when
\* they are critical.
InstrumentEdge ==
  /\ Counting /\ BB \in Blocks
  /\ s \in DOMAIN function[BB]
  /\ LET e == <<BB, function[BB][s]>>
     IN /\ InitCounter(e)
        /\ IF e \notin MST /\ IsCriticalEdge(BB, s)
           THEN /\ succ' = Append([succ EXCEPT ![BB][s] = NewBlock], <<succ[BB][s]>>)
                /\ layout' = InsertAt(layout, bi + 1, NewBlock)
           ELSE UNCHANGED <<succ, layout>>
        /\ InstrumentAt(e, CounterPlace(BB, s))
  /\ i' = i + 1
  /\ s' = s + 1
  /\ UNCHANGED <<function, pc, treeVars, bi, at, taken, lost, rebuildVars>>

\* The block is one of InsertedBlocks, or has no edge left.
NextBlock ==
  /\ Counting
  /\ BB \in Blocks => s > Max({1, Len(function[BB])})
  /\ bi' = bi + 1
  /\ s' = 1
  /\ UNCHANGED <<function, pc, treeVars, succ, layout, head, i, runVars, rebuildVars>>

FinishInstrumentation ==
  /\ pc = "count" /\ bi > Len(layout)
  /\ pc' = "run"
  /\ UNCHANGED <<function, treeVars, countVars, runVars, rebuildVars>>

-----------------------------------------------------------------------------
(* The instrumented program runs *)

\* IncrementCounterInBlock, for all counters of a block that is entered
Bump(set) ==
  counters' = [c \in DOMAIN counters |->
                 IF c \in set THEN (counters[c] + 1) % (Uncounted + 1) ELSE counters[c]]

MayTake == FoldFunction(+, 0, taken) < MaxTaken

Call ==
  /\ pc = "run" /\ at = Idle /\ MayTake
  /\ at' = 1
  /\ Bump(head[1])
  /\ taken' = [taken EXCEPT ![1] = @ + 1]
  /\ UNCHANGED <<function, pc, treeVars, countVars, lost, rebuildVars>>

Take(t) ==
  /\ pc = "run" /\ at # Idle /\ t \in DOMAIN succ[at]
  /\ at \in Blocks => MayTake
  /\ at' = succ[at][t]
  /\ Bump(head[at'])
  /\ taken' = IF at \in Blocks THEN [taken EXCEPT ![CounterOf(at, t)] = @ + 1] ELSE taken
  /\ UNCHANGED <<function, pc, treeVars, countVars, lost, rebuildVars>>

Return ==
  /\ pc = "run" /\ at \in Blocks /\ function[at] = <<>>
  /\ at' = Idle
  /\ taken' = [taken EXCEPT ![CounterOf(at, 1)] = @ + 1]
  /\ UNCHANGED <<function, pc, treeVars, countVars, counters, lost, rebuildVars>>

\* The block calls exit(), which does not come back.
Exit ==
  /\ pc = "run" /\ at \in Blocks /\ ~lost
  /\ at' = Idle
  /\ lost' = TRUE
  /\ UNCHANGED <<function, pc, treeVars, countVars, counters, taken, rebuildVars>>

-----------------------------------------------------------------------------
(* The loader *)

Bug_Counted(c) == counters[c] \notin {0, Uncounted}

Counted(c) == counters[c] # Uncounted

\* readEdge for every edge, in the order of the pass
Load ==
  /\ pc = "run" /\ at = Idle
  /\ LET read == {c \in DOMAIN EdgeOf : Counted(c)}
     IN /\ weight' = [e \in {EdgeOf[c] : c \in read} |->
                        MapThenSumSet(LAMBDA c : counters[c], {c \in read : EdgeOf[c] = e})]
        /\ SpanningTree' = {EdgeOf[c] : c \in DOMAIN EdgeOf \ read}
  /\ pc' = "rebuild"
  /\ UNCHANGED <<function, treeVars, countVars, runVars, BBisUnvisited, size, stack>>

BeginRound ==
  /\ pc = "rebuild" /\ SpanningTree # {}
  /\ size' = Cardinality(SpanningTree)
  /\ BBisUnvisited' = UNION {{e[1], e[2]} : e \in SpanningTree}
  /\ pc' = "round"
  /\ UNCHANGED <<function, treeVars, countVars, runVars, weight, SpanningTree, stack>>

Enter(b) ==
  /\ BBisUnvisited' = BBisUnvisited \ {b}
  /\ stack' = IF b = 0 THEN stack ELSE <<b>> \o stack

Neighbours(b) == SuccsOf(function, b) \cup PredsOf(function, b)

\* recurseBasicBlock begins with the first unvisited block, in the order of
\* the pointers, and goes on with the neighbours of the block it is in.
RecurseBasicBlock(b) ==
  /\ pc = "round" /\ b \in BBisUnvisited
  /\ stack # <<>> => b \in Neighbours(Head(stack))
  /\ Enter(b)
  /\ UNCHANGED <<function, pc, treeVars, countVars, runVars, weight, SpanningTree, size>>

SumWeights(es) == MapThenSumSet(LAMBDA e : weight[e], es \cap DOMAIN weight)

Abs(x) == IF x < 0 THEN -x ELSE x

MissingWeight(b) == Abs(SumWeights(InEdges(b)) - SumWeights(OutEdges(b)))

\* All neighbours were visited: if one edge of the block is missing, its weight
\* is what the others leave. (The count of a block without successors that
\* lines 531-537 read is the sum of its incoming edges as well.)
CalculateMissingEdge ==
  /\ pc = "round" /\ stack # <<>>
  /\ LET b == Head(stack)
         missingIn == InEdges(b) \ DOMAIN weight
         missingOut == OutEdges(b) \ DOMAIN weight
     IN /\ Neighbours(b) \cap BBisUnvisited = {}
        /\ IF Cardinality(missingIn) + Cardinality(missingOut) = 1
           THEN /\ weight' = [e \in DOMAIN weight \cup missingIn \cup missingOut |->
                                IF e \in DOMAIN weight THEN weight[e] ELSE MissingWeight(b)]
                /\ SpanningTree' = SpanningTree \ (missingIn \cup missingOut)
           ELSE UNCHANGED <<weight, SpanningTree>>
  /\ stack' = Tail(stack)
  /\ UNCHANGED <<function, pc, treeVars, countVars, runVars, BBisUnvisited, size>>

\* A round that calculated no edge fails the assertion of line 215.
EndRound ==
  /\ pc = "round" /\ stack = <<>> /\ BBisUnvisited = {}
  /\ pc' = IF Cardinality(SpanningTree) = size THEN "stuck" ELSE "rebuild"
  /\ UNCHANGED <<function, treeVars, countVars, runVars, rebuildVars>>

EndLoad ==
  /\ pc = "rebuild" /\ SpanningTree = {}
  /\ pc' = "done"
  /\ UNCHANGED <<function, treeVars, countVars, runVars, rebuildVars>>

-----------------------------------------------------------------------------
Instrument ==
  \/ \E e \in edges : LookAtEdge(e)
  \/ EndTree \/ InstrumentEntry \/ InstrumentReturn \/ InstrumentEdge \/ NextBlock
  \/ FinishInstrumentation

Execute == Call \/ (at # Idle /\ \E t \in DOMAIN succ[at] : Take(t)) \/ Return \/ Exit

Rebuild ==
  \/ BeginRound \/ CalculateMissingEdge \/ EndRound \/ EndLoad
  \/ \E b \in BBisUnvisited : RecurseBasicBlock(b)

Next == Instrument \/ Execute \/ Load \/ Rebuild

Spec == Init /\ [][Next]_vars /\ WF_vars(Instrument) /\ WF_vars(Rebuild)

-----------------------------------------------------------------------------
(* Properties *)

\* The types; every counter that was reserved is given to an edge (the
\* assertion of OptimalEdgeProfiling.cpp:215).
TypeOK ==
  /\ function \in Functions
  /\ pc \in {"tree", "count", "run", "rebuild", "round", "done", "stuck"}
  /\ MST \cup edges \subseteq Nodes \X Nodes
  /\ Range(layout) = DOMAIN succ /\ DOMAIN head = DOMAIN succ
  /\ i \in 1 .. NumEdges + 1 /\ (pc \notin {"tree", "count"} => i = NumEdges + 1)
  /\ counters \in [1 .. NumEdges -> 0 .. Uncounted]
  /\ at \in DOMAIN succ \cup {Idle}
  /\ SpanningTree \cup DOMAIN weight \subseteq Nodes \X Nodes

Closed(X, es) == \A e \in es : e[1] \in X <=> e[2] \in X

\* a and b are joined by the edges es, in whatever direction: no set of nodes
\* that es does not leave separates them.
JoinedBy(N, es, a, b) == \A X \in SUBSET N : Closed(X, es) /\ a \in X => b \in X
Connected(es, a, b) == JoinedBy(Nodes, es, a, b)

\* The edges of the function that get no counter: the tree may hold estimated
\* edges that the function does not have as well.
LeftOut == MST \cap OwnEdges(function)

\* The edges without a counter form no cycle, whatever else the tree holds
\* (those of a cycle could not be worked out from the others). When the tree
\* holds edges of the function only, none of the counters can be spared: every
\* edge that gets one would close a cycle of edges without.
SpanningForest ==
  /\ \A e \in LeftOut : ~ Connected(LeftOut \ {e}, e[1], e[2])
  /\ pc # "tree" /\ MST \subseteq OwnEdges(function) =>
       \A e \in OwnEdges(function) \ LeftOut : Connected(LeftOut, e[1], e[2])

\* A call that was lost may have been counted in edges it did not take any more.
NoCounterSaturated ==
  \A c \in DOMAIN taken : EdgeOf[c] \in MST \/ taken[c] + (IF lost THEN 1 ELSE 0) < Uncounted

\* A block other than the entry that nothing leads to. ProfileInfo expects an
\* edge (0, b) of it, which nobody ever counts.
DeadRoots == {b \in Blocks \ {1} : PredsOf(function, b) = {}}

\* If every call returned and no counter came up to ~0U, the weight of every
\* edge, counted or worked out, is the number of times it was taken.
LoadedExact ==
  pc \in {"rebuild", "round", "done"} /\ ~lost /\ NoCounterSaturated /\ DeadRoots = {} =>
    /\ \A e \in DOMAIN weight :
         weight[e] = MapThenSumSet(LAMBDA c : taken[c], {c \in DOMAIN EdgeOf : EdgeOf[c] = e})
    /\ pc = "done" => DOMAIN weight = OwnEdges(function)

\* The loop of the loader ends, whatever the counters say and whichever edges
\* were counted, unless a counter came up to ~0U or nothing leads to some block.
RebuildEnds ==
  pc = "rebuild" /\ NoCounterSaturated /\ DeadRoots = {} ~> pc = "done"

-----------------------------------------------------------------------------
(* What an assertion says, and the code does not do *)

\* Every round calculates an edge (ProfileInfoLoaderPass.cpp:215
\* "No edge calculated!").
EdgeCalculated == pc # "stuck"
=============================================================================
