# Profile-guided optimization in llvm-pgo: specifications, checks and proofs

The repository is a copy of LLVM 3.3 with profile-guided passes added by a
course project: basic block placement, loop unrolling, inlining and partial
redundancy elimination, on top of LLVM's old profiling libraries. This
directory holds TLA+ specifications of the parts in which the project's own
logic lies, from the counter in an instrumented program to the pass that acts
on it, with what TLC checks of them on small instances and what TLAPS proves
of them for all instances.

## 1. The system

    clang -emit-llvm --> opt -insert-edge-profiling --> the program runs
       module            a counter on every edge        counters, traces
                                                           |
                                   llvmprof.out <---- atexit handlers
                                        |
                        opt -profile-loader (LoaderPass: ProfileInfo)
                                        |
           -block-placement   -pgo-loop-unroll   -simple-pgo-loop-unroll
                       the inliner         partial redundancy elimination

Paths are below `src/llvm/` unless they say otherwise.

| component | where | state | operations | what is hard | what makes it correct |
|---|---|---|---|---|---|
| Edge profiling | `lib/Transforms/Instrumentation/EdgeProfiling.cpp`, `ProfilingUtils.cpp`, `lib/Transforms/Utils/BreakCriticalEdges.cpp` | the CFG of each function, a counter per edge | put a counter on each edge, split critical edges, call the start function in main | blocks are inserted into the list that is walked; parallel edges; landing pads | the instrumented program runs as the original, each counter counts one edge |
| Profile runtime | `runtime/libprofile/*.c` | saved arguments, descriptor, trace buffer, atexit handlers | start, trace a block, flush, write packets at exit | several runs and several kinds of profiling share one file; crashes, short and failing writes; exit() inside exit() | what a run wrote to its end is in the file, and stays there |
| Profile file loader | `lib/Analysis/ProfileInfoLoader.cpp` | position in the file, sums per kind | read and sum packets, refuse a broken file | packets carry no checksum; sizes differ; 32-bit sums; ~0U means uncounted | loaded = sum of what was written, or refused |
| Loader pass | `lib/Analysis/ProfileInfoLoaderPass.cpp` | weights per edge | assign counters to edges by position; rebuild uncounted edges | the module must be the one that was counted | each edge has its own count; flow is conserved |
| ProfileInfo | `lib/Analysis/ProfileInfo.cpp` | weights of edges, blocks, functions | lookups with caching, updates when the CFG changes | missing values, stale caches | updates keep the flow |
| Block placement | `lib/Transforms/Scalar/BasicBlockPlacement.cpp` | arcs, chains, block list | collect arcs, merge chains, lay them out | containers change while they are indexed | no block lost, entry first, each chain behind that of the entry in one piece |
| Loop unrolling | `lib/Transforms/PgoLoopUnroll/*.cpp`, `lib/Transforms/Utils/LoopUnroll*.cpp` | the loop's blocks | choose a factor, make a prolog, copy the body, connect the latches | trip counts at the limit of their type, profile counts at the limit of unsigned | the body runs as often as before |
| Passes that keep the profile up to date | `lib/Transforms/Utils/{BreakCriticalEdges,Local,LoopSimplify,BasicBlockUtils}.cpp`, `Scalar/CodeGenPrepare.cpp`, `lib/CodeGen/UnreachableBlockElim.cpp` | the CFG and the profile of it | split, merge and remove blocks, each with the calls into ProfileInfo it makes or forgets | blocks are known by address, and addresses come back; parallel edges | counts of blocks that stay do not change, flow is conserved |
| Optimal edge profiling | `OptimalEdgeProfiling.cpp`, `MaximumSpanningTree.h`, `ProfileEstimatorPass.cpp` | counters off a spanning tree | as edge profiling; rebuild by flow equations | the rebuild must end | every edge can be rebuilt |
| Path profiling | `PathProfiling.cpp`, `PathNumbering.cpp`, `PathProfileInfo.cpp`, `runtime/libprofile/PathProfiling.c` | path numbers, arrays or hash tables of counters | number, count, write, read paths | back edges become two phony edges, large DAGs are split; headers are filled in by seeking back | each path has its own number and count; a run writes only behind what is in the file |
| Inlining | `lib/Analysis/PgoInlineAnalysis.cpp`, `IPA/InlineCost.cpp` | total and maximum block count | a bonus on the threshold | 0/0, members that are not reset | the bonus grows with the heat of the call |
| PRE | `lib/Transforms/Scalar/PRE.cpp` | value numbers | GVN with a profile check | size | semantics kept |
| Scripts | `src/scripts/*.sh` | files | the tool chain over input sizes | stale `llvmprof.out` | each measurement uses its own profile |

The components talk through three things: the module (the passes change it, so
the pass that loads a profile must see the module that was instrumented), the
file `llvmprof.out` (shared by all runs of all programs in a directory), and
ProfileInfo (shared by the passes of one `opt`). Nothing in the compiler runs
concurrently; processes do, and they can die between any two system calls.

## 2. Modules

| module | models | abstract specification |
|---|---|---|
| `BlockPlacement` | `BlockPlacement::runOnFunction`, every loop an action | |
| `BlockPlacementProofs` | theorems on it: the merge, the walk and the layout | |
| `ProfileFile` | the atexit handlers, `getOutFile`, `write_profiling_data`, `ProfileInfoLoader` | `ProfileStore` |
| `ProfileFileProofs` | theorems on it: who writes where, what is loaded | |
| `LibraryFacts` | lemmas on induction, sums over finite sets, sequences of sequences, words, and walks over a list of blocks that grows | |
| `EdgeProfiling` | `EdgeProfiler::runOnModule`, the instrumented program, the edge part of `LoaderPass::runOnModule` | `ProgramRun` |
| `EdgeProfilingProofs`, `EdgeRunProofs` | theorems on it: the types; what the counters count and what is loaded | |
| `OptimalEdgeProfiling` | `MaximumSpanningTree`, `OptimalEdgeProfiler::runOnModule`, the instrumented program, the optimal edge part of `LoaderPass::runOnModule` with `CalculateMissingEdge` | |
| `OptimalEdgeProofs` | theorems on it: the spanning tree, the types, what is loaded | |
| `ProfileUpdates` | ProfileInfo while blocks are split, merged and removed | |
| `PathProfiling` | `BallLarusDag`, `BLInstrumentationDag`, `PathProfiler`, the instrumented program, the decoding in `PathProfileInfo.cpp` | |
| `PathFile` | the atexit handler of `PathProfiling.c` and `PathProfileLoaderPass::runOnModule` | |
| `PathFileProofs` | theorems on it: whose words a run changes, what is loaded | |
| `LoopUnroll` | `staticUnroll`, both `runOnLoop`, `PgoUnrollLoop`, `UnrollLoop`, `UnrollRuntimeLoopProlog`, and the code they leave | `CountedLoop` |
| `LoopUnrollProofs` | theorems on it | |
| `MC...` | constants of the runs | |

Definitions carry the names of the source. A definition `Bug_D` is `D` with a
plausible mistake in it; substituted for `D` it breaks a property, which shows
that the property depends on `D`. No specification uses it.

### BlockPlacement

A function is a number of blocks and the successors of each; the blocks are
numbered in the order of the block list, from 1, so that block 1 is the entry.
`weight` is what the profile says of each edge, missing values included.
`pc` follows the code: `walk`/`succ` (lines 137-190, one successor a step),
the assertion of line 193 (in a build with assertions, `asserts`), `merge`/`append` (lines
196-233: arc by arc and pair of chains by pair of chains, one moved block a
step), the search for the entry chain (243-264), `choose`/`move` (265-323: one
block a step). `pos[b]` is the place of block b in the function's block list,
which `moveAfter` changes. `arcs`, `visited`, `chains`, `visitedChains`,
`chainIndex` and `newChain` are the code's variables.

Left out: the traces, `PlaceBlocks` (never called) and the statistics beyond
`NumMovedBlocks`.

### ProfileFile and ProfileStore

Processes are runs of one instrumented program. Each registers one to three
atexit handlers (edge, optimal edge, trace), runs, may flush its trace buffer,
and exits; the handlers write packets. The file is a sequence of words, each
`write()` one step with the words it writes, so that a run may be killed, a
write may fail (the code calls `exit(0)`, inside `exit()`), or be short, between and
inside packets; `Faults` selects what may happen. The positions are those of
the code: one `lseek` to the end when the file is opened, then each descriptor
its own. The loader reads the file packet by packet and sums up. It starts
when no run is active, as `opt` is called after the program in every script.
The padding of the argument packet is written with it.

History variables `deposited` and `torn` say which packets were written to
their end and where incomplete ones end. `ProfileStore` has three actions:
`Deposit` a complete packet, `Answer` a query with the sums over what was
deposited, `Refuse` it.

### EdgeProfiling and ProgramRun

A module has functions, each a list of blocks, with successors in terminator
order. `Begin`, `InstrumentEntry`, `InstrumentEdge`, `NextBlock`,
`NextFunction`, `FinishInstrumentation` are the loops of
`EdgeProfiler::runOnModule`; `layout` is the block list as blocks are inserted
into it while it is walked; `head[b]` and `foot[b]` are the increments put at the start
and before the terminator of a block. Then `Call`, `Take` and `End` run the
instrumented program, a step per block, and `Load` is the loader pass.
Calls run one after the other: counters cannot tell. `ProgramRun` is the
original program with a counter modulo 2^w per slot, a slot being one
successor of one terminator. A block that split an edge maps to the
destination of that edge. The
module that is given to `opt` with the profile is the original one.

### OptimalEdgeProfiling

`LookAtEdge` is an iteration of Kruskal's algorithm over the edges that are
left, in any order: that covers every order the estimated weights and the
sizes of blocks can give. `forest` is the code's equivalence classes, `MST`
what is chosen. `EstimatedEdges` says which edges the estimator gives a weight;
the weights are left out. Among them are edges that the function does not
have: a return from the latch of a loop all of whose exits have a weight
already (ProfileEstimatorPass.cpp:205), and, when the estimate gives up on a
cycle that is not a loop, calls of blocks without predecessors and every edge
the wrong way round (`getEdge(*succi, BB)`, line 419). Kruskal's algorithm
does not tell them from the others, so that one may join what a real edge
would have joined, which then gets a counter. `LeftOut` are the real edges
without one. Then as in `EdgeProfiling`: counters on the other
edges, with the critical ones split (`InstrumentEntry`, `InstrumentReturn`,
`InstrumentEdge`, `NextBlock`), and the program (`Call`, `Take`, `Return`, or
`Exit` in the middle of a function). `Load` reads the counters, and a round of
the loader is `BeginRound`, a `RecurseBasicBlock` or `CalculateMissingEdge`
for each block it comes through (the recursion is `stack`; where it begins
depends on addresses: any block), and `EndRound`; `stuck` is the failing
assertion of line 215. One function, whose calls come one after the other.

### ProfileUpdates

A function with its profile; a block is the number that stands for its
address, since sets of edges are visited in the order of addresses and a new
block may get the address of one that was removed. `ECs` and
`BlockInformation` are the weights and the cached counts. The actions are what
passes do: `SplitCriticalEdge`, `MergeIntoOnlyPred`, `EliminateEmptyBlock`,
`EliminateUnreachable` and `LoopSimplify`, with the calls each makes of
`splitEdge`, `replaceAllUses` and `removeBlock`, and `Query`, a lookup that
fills the cache. A step of `LoopSimplify` is one change that `ProcessLoop`
makes to a natural loop (`LoopInfo`), in the order it makes them: the edges
from dead blocks into the loop go (`DeleteDeadEdges`), a preheader
(`InsertPreheader`), exits that are reached from the loop only
(`RewriteLoopExit`), an inner loop with a latch of its own
(`SeparateNestedLoop`) or one latch for all back edges
(`InsertUniqueBackedge`), and an exiting block that is folded into its
predecessor (`FoldExitingBlock`, by `FoldBranchToCommonDest`). ProfileInfo
hears of none of them, nor of the other exits that `SplitCriticalEdge` splits
off when it has to preserve the form of a loop (`SharedExits`). The history variable `flow` is the truth they are compared
with. Three more say that something happened that the code cannot undo:
`mistaken` (an address that came back is taken for the old block, or
`replaceAllUses` keeps the wrong one of two edges), `shared` (parallel edges
were split by proportion) and `unseen` (LoopSimplify, or SplitCriticalEdge for
it, changed the function without telling). When a pass finds a block to merge
or to fold, and which back edges are those of an inner loop, depends on
instructions; here they may be any that the CFG allows.

### PathProfiling

`BuildNode` is the search that makes the DAG, with a back edge and its two
phony edges for each branch to a block on the stack; `NumberNode` numbers the
paths backwards from Exit and splits nodes with more than `SplitThreshold`;
`PushInitialization` and `PushCounters` move the code along chains of edges.
The DAG's edges are records in order of creation. `CodeOn` is the code that
ends up on each edge, and `Call`, `Take`, `Return`, `ExitProgram` run it with
a register and counters. `Walk` decodes a number; `DerivedCount` is the edge
profile that PathProfileVerifier makes of the paths, in numbers of 32 bits. The spanning tree of
`BLInstrumentationDag` is not modelled further than that it is always empty
(every node is white when the search begins), so that every edge is a chord.
`ThreeBlocks` and `Larger` in the MC module are the functions.

### PathFile

The tables of a run (`table`), and the file as words, written a `write()` a
step at a position that moves back and forth: `WriteArgs` (`getOutFile`, and
the seek over the header), `BeginFunction`, `WriteEntry`, `EndFunction` (the
seek back to the header of an array, and forth), `Finish` (the seek back to
the header of the packet). A `write()` behind the end leaves zeros before it.
`Kill` and `WriteFails` come between any two. `Load` is the loader a packet
header, a function or an argument block a step; reading `_functions` behind
its end is state `undefined`. History: `packets`, what each run had in its
tables, complete or not; `base`, the end of the file when the run opened it.

### LoopUnroll and CountedLoop

One loop in simplified form, whose body runs `trips` times, goes through one
of the two passes: complete unrolling if the trip count is a constant; then a
factor from the profile; then (complex pass) the prolog for left over iterations
(`BeginProlog`, `CloneExtra` for each copy from the last to the first,
`ConnectProlog`), the copies of the body and the latches, one a step. `code`
is the graph of blocks that results, with the test at the end of each. Then it
runs (`Step`, `Break`). `CountedLoop` is the loop as written. Undefined
behaviour (a shift by the width of unsigned, a conversion of a double that
does not fit) is any value; the division by a function count of 0 is state
`trap`. Left out: the values the body computes, with the PHI nodes; merging
of blocks; options other than the defaults.

## 3. Runs

| run | instance | shows | states |
|---|---|---|---|
| `placement` | all CFGs of 3 blocks, at most 2 successors, weights 0, 1, missing; CFGs of 4 blocks with edges ranked by weight; with and without assertions | `TypeOK`, `ArcsSorted`, `WalkComplete`, `ChainsPartition`, `ChainsArePaths`, `EntryHeadsChain`, `LayoutValid`, `AllChainsPlaced`, `ChainsContiguous`, `Termination` | 373,861 |
| `profile_file` | 2 runs, 3 handlers, open may fail | `TypeOK`, refinement `StoreSpec`, `ExitEnds` | 52,700 |
| `profile_faults` | 2 runs, 2 handlers, all faults but overlap | `LoadedExact`, `RefusedForCause`, `AppendOnly` | 2,700,660 |
| `edge_profile` | all functions of 3 blocks, 2 functions, switch, invoke, no main; at most 5 edges taken, 2-bit counters | `TypeOK`, `LoadedExact`, refinement `RunsOriginal`, `InstrumentationEnds` | 65,263 |
| `unroll` | trips 1-15 in 4 bits, 16 where no prolog is made, factor at most 8, counts of 5 bits | `TypeOK`, `EnoughCopies`, refinement `RunsOriginal`, `LoopEnds` | 70,553 |
| `optimal` | functions of 3 reachable blocks, at most 2 successors, a join of 4, a cycle and a block that are not reached; every order of weights; at most 4 edges taken | `TypeOK`, `SpanningForest`, `LoadedExact`, `RebuildEnds` | 420,737 |
| `updates` | 10 functions of 3-5 blocks, 4 of them with addresses in both orders, 5 addresses, every flow with at most 2 through an edge, 3 changes | `TypeOK`, `WeightsTrue`, `FlowBalanced`, `CountsStay` | 124,248 |
| `path` | all functions of 3 reached blocks, at most 2 successors, and 6 larger ones; at most 10 edges taken | `TypeOK`, `NumbersUnique`, `PathsCounted`, `EdgesFromPaths`, `InstrumentationEnds` | 202,435 |
| `path_file` | 2 runs of 2 functions, one with an array and one with a hash table; killed and failing writes | `TypeOK`, `LoadedLatest`, `OwnHolesOnly` | 3,782,377 |

Three more runs show that the code does not do what a text of the repository
says (the text and the line are in PROJECT.json, "findings"):

| run | the text | what the run shows |
|---|---|---|
| `append_whole` | "append chains[i] to chains[j]" | only half of the chain is moved |
| `optimal_assert` | assert "No edge calculated!" | a block that nothing leads to, or a counter at ~0U: a round calculates nothing |
| `unroll_wrap` | the original loop is branched around "if the trip count is less than the unroll factor" | a loop of 2^w iterations, whose count has w bits, is branched around: its trip count is 0 in that type |

Other disagreements between texts and code were met while modelling and have
no run of their own; the models have the code's behaviour. The layout compares
with a maximum that is never updated, and so takes the last connected chain
("Set the new max chain", BasicBlockPlacement.cpp:301). Runs that overlap
overwrite each other in the profile file ("open the output file for
appending", CommonProfiling.c:120). A torn packet swallows the words of the
next run and loads (the loader is to exit if the file is broken). A module that
was instrumented gets the weights of other edges, without the warning that
profile and program are inconsistent (the models load into the original module
only). LoopSimplify declares ProfileInfo preserved (LoopSimplify.cpp:98) and loses
counts: they go missing, or, when it folds an exiting block away
(LoopSimplify.cpp:327), the block that this block and its predecessor both
branched to keeps only what came from the others (`CountsStay` allows these
two, and nothing else). The tree of optimal edge profiling is "truly optimal"
(OptimalEdgeProfiling.cpp:87) only if it holds no edge that the function does
not have: when two blocks branch into each other and the entry into both, the
estimator gives up, and the tree may hold three edges of which only two are
real, so that one counter more than necessary is used. The total
of a function in a path profile is that of its last run, while the counts of
its paths come from all of them (`LastTotal` and `LastCount` in
`LoadedLatest`).

The half-moved chain does not break the properties of `placement`: it is
worse code, not wrong code. That is the point of `ChainsPartition`,
`ChainsArePaths` and `LayoutValid`, and why they are proved.

Two more facts the runs go through. The assertion of line 193 fails for
functions with unreachable blocks (action `AssertFails`; without assertions
they become chains of their own, `AllChainsPlaced`). And a trace whose length
is a multiple of the buffer leaves an empty packet, with which the loader
refuses the file (`RefusedForCause`, `Unreadable` in `ProfileStore`).

### Bounds, and why they are enough

- Three blocks are the least with a join, a loop, parallel edges, an
  unreachable block and a chain of two that is appended to a chain; all CFGs of this size are
  gone through. Four blocks and ranked weights give three chains besides the
  entry chain, which choices of the layout need. The theorems of section 5
  remove the bound for every property but `Termination`.
- Two runs suffice for everything one run leaves to the next; words up to 15
  stand for 32 bits, 15 for ~0U, so that sums wrap around and hit it. The
  trace buffer has 2 entries and 3 blocks are traced: one flush and a rest.
  `MaxTorn` bounds the torn packets. Section 5 removes all of these bounds but
  for `ExitEnds`.
- Counters of 2 bits (`Uncounted` = 3) and 5 edges taken (`MaxTaken`) let a counter
  reach ~0U, wrap around, and go on.
- In `optimal` counters stop at 3, which is ~0U, and 4 edges are taken: enough
  for a loop and a second call, and for a counter that comes up to ~0U. Three
  blocks in all shapes have every spanning tree of a function with a loop, a
  critical edge and parallel edges; a fourth gives two ways around.
- In `updates` three changes are enough for a block to be removed, its address
  to be used again, and the new block to be changed. Of five addresses a
  function of three blocks has two for new blocks, as many as one split that
  has to preserve the form of a loop takes; one of four blocks has one, and one
  of five gets one when a block is removed. The functions have a loop tested at
  its top and at its bottom, one that a branch goes around, one with two back
  edges, one with two exiting blocks, one with parallel edges to its exit, and
  one that a dead block leads into: every change of `LoopSimplify` happens. A flow of 2 through an
  edge is split into equal and unequal parts. `Infinity` stands for w / 0.
- In `path` a node with more than 3 paths is split and more than 8 wrap around;
  six functions have that many or several ways back. Counters stay at 3; 10
  edges are three times through a loop, with a call before or after.
- In `path_file` a word is at most 7: a path run six times in a row twice
  comes up to it. Two paths in each of two functions give every kind of
  packet (no function, one, two; one entry, two). Five bytes of arguments are
  padded. That more runs
  leave each other's words alone is proved.
- With a factor of at most 8 and 15 iterations there are loops shorter than,
  equal to and longer than the factor, with every number of left over
  iterations. `done` is bounded in the guard of `Step`, beyond any correct count.
  Section 5 has every factor and trip count.

### Fairness

`BlockPlacement`, the instrumentation and the unrolling passes are sequential code: weak
fairness of the next step says that the compiler is not stopped. In
`ProfileFile` the steps of a run that is exiting and of a load that has
started are weakly fair; that a program starts, traces or is killed is never
required. In `LoopUnroll` the program's steps are weakly fair too: the body of the
loop ends. `EdgeProfiling` assumes nothing of the program.
`OptimalEdgeProfiling` has weak fairness of the instrumentation and of the
loader's rounds, `PathProfiling` of the instrumentation only. `ProfileUpdates`
and `PathFile` have none: nothing in them has to happen.

## 4. What each property guards

The hazards are listed in PROJECT.json with their lines. In short: the walk of
the CFG against duplicates in the queue (`WalkComplete`, `Termination`), the
merge against containers that shrink while they are indexed
(`ChainsPartition`, `ChainsArePaths`, `EntryHeadsChain`), the layout against
moves relative to a moved block (`LayoutValid`, `ChainsContiguous`,
`AllChainsPlaced`), the file against crashes, faults and
re-entered exit (`StoreSpec`, `LoadedExact`, `RefusedForCause`, `AppendOnly`,
`ExitEnds`), the counters against critical and parallel edges and
wrap-around (`RunsOriginal`, `LoadedExact`), and unrolling
against boundary counts and mislinked copies (`RunsOriginal`, `EnoughCopies`,
`LoopEnds`). Optimal edge profiling guards against a cycle of edges without counters, and a
tree of real edges that does not span (`SpanningForest`), a reconstruction that goes wrong or on for ever
(`LoadedExact`, `RebuildEnds`); the updates against counts that drift from what
they counted (`WeightsTrue`, `FlowBalanced`, `CountsStay`); path profiling
against two paths with one number, code pushed past other code, and a wrong
decoding (`NumbersUnique`, `PathsCounted`, `EdgesFromPaths`); and its file
against runs that die between a hole and its header (`LoadedLatest`,
`OwnHolesOnly`).

## 5. Proofs

`BlockPlacementProofs` proves `Spec => []IInv`, for every set of functions
that satisfies `FunctionsAssumption` (any number of blocks, any successors but
the entry, which LLVM forbids), all weights, with and without assertions. The
properties are not inductive one by one. `ChainsArePaths` needs to know, in
the middle of an append, that the first block of the rest of the chain that
shrinks can follow the last block of the one that grows (`AppendInv`); that
needs every arc to be an edge (`ArcsAreEdges`) and the move of a block to take
it from the head and put it at the end. `EntryHeadsChain` follows from the entry
having no predecessor, hence never being the tail of an arc: its chain is
never the one that is appended. `LayoutValid` needs a moved block never to be
the entry, which is in the entry chain and so, by `ChainsPartition`, in no
chain that is laid out, because the entry chain is visited from the start
(`LayoutInv`). From `IInv` follow TypeCorrect, ArcsStaySorted, NoBlockLost,
ChainsStayPaths, EntryChainFound and LayoutStaysValid.

It also proves what the first and the last loops of the pass do.
*The walk* (`WalkIsComplete`) marks a block when it takes it off the queue, so
a block may be queued and walked many times. `WalkInv` says that every
successor of a visited block is `Found` (visited or queued) and its arc
`Recorded`, but for the slots of the current block that are still to be
walked, and that what is found can be reached. When the queue is empty the
visited blocks are closed under successors, and `Reachable` is the least such
set: reachability is said by closed sets, so that no induction is needed.
*The layout* (`EveryChainPlaced`, `ChainsInOnePiece`) places at most one chain
in an iteration and never the one with the index of the iteration, so that it
is not plain that as many iterations as there are chains suffice. The
invariant `EnoughRounds` counts: more iterations are left than chains that
are not placed, or one chain is left, and the loop has passed its index.
That a chain stays in one piece needs that a block is moved behind the last
one that has its place (`AtCurr`), and that its successor in the list is of
another chain: the moves leave neighbours of placed chains neighbours
(`MoveKeepsFollows`). `moved` is the cardinality of the blocks moved, which is
the sum of the lengths of the chains because no block is in two.

`LoopUnrollProofs` proves all three safety properties of unrolling, for every
width of words, every maximum that is a power of two below the trip counts,
all loops and profiles. `IInv` has three parts: `Control` (the variables of
the pass), `CodeShape` (what blocks there are at every step of the passes and
where each goes: `IsProlog`, `IsUnrolled`), and `Position`, which relates the
block the program is in with the number of bodies run: at copy k of the
prolog k left over iterations are still to be done, behind it all of them are;
at the first body the iterations left are a multiple of the factor, and at
body k they are one with the k bodies run since (`Whole`).
From it follow `TypeCorrect` (no branch leads nowhere) and `Implementation`:
`LoopUnroll` implements `CountedLoop`. The latter has the hypothesis
`TripCountFits`: a loop that may get a prolog has fewer than 2^w iterations.
It is sharp: `unroll_wrap` is the loop that it leaves out, and the run shows
that it fails. `Copies` (`EnoughCopies`) needs that the shifts of
`getNextHighestPowerOf2` give the least power of two that is no less, that
the maximum is one, and that the value for a missing count is no natural
number (it is -1.0 in the code).

`ProfileFileProofs` proves `TypeCorrect`, types and `BufferRoom` (the cursor
is inside the trace buffer whenever a block is traced), for any number of
runs and all faults together; and `FileOnlyGrows`: if runs do not overlap, no
step changes a word already in the file. The invariant behind it is
`SingleWriter`: a run that may write has its position at the end of the
file, because it is the only one that is active since it opened the file; and
a run that is about to open takes the end as its position.

It also proves what the loader makes of the file: `LoadIsExact`
and `RefusalHasCause`, for any number of runs that do not overlap and every
other fault, and `ImplementsStore`, that runs implement `ProfileStore` if
nothing but an `open()` fails. The properties speak of the history variable
`deposited` and the loader of words, so the invariant (`LoadInv`) has to say
where each packet is. `Pending` says that the `write()` calls a run has still
to make are the last of those of its packet. `FileInv` holds while nothing was
written behind a torn packet (`Position`): the packets lie one behind the
other from the beginning of the file (`Laid`); the file ends (`Ends`) with the
words of the next packet that its writer has written (`Begun`), or, if a
packet was torn, with something the loader can tell is no packet
(`Incomplete`), or with nothing of it, in which case only packets without
counters were deposited since (the write that completes one adds no word); the
loader stands at the end of a packet and has the sums of the packets before
it (`Loaded`). `LoaderInv`: the loader reads when all runs are over, ends at
the end of the file, and fails for a cause. For `ImplementsStore` one more
invariant is needed, `OpenedInv`: a file that was created has a packet, or its
creator has still to write its arguments. All three theorems assume
`ArgBytes > 0`. This is sharp: with no bytes of arguments, a run that is
killed between the length of its arguments and the (empty) write of their
bytes has left a whole argument packet, and the loader counts a run that the
history does not. CommonProfiling.c:89 says that this case is unlikely to
happen in practice (the name of the program is among the arguments).

The counts of the store are sums over the set of packets, those of the loader
grow packet by packet, with 32-bit words and the value for uncounted. That
they agree needs induction over the packets, and the library's induction
theorems take operators, which the provers cannot instantiate. `LibraryFacts`
does it with sets in place of operators: a set of naturals that has 0 and is
closed under successor is Nat (`NatInd`), a set of subsets that has the empty
one and is closed under adding an element has all finite ones (`SizeInd`);
from these, that the recursive function of the community modules' sums exists
(`SumExists`), does not depend on the order of the elements (`AnyOrder`), and
that one element more adds its value (`SumAdd`).

`EdgeProfilingProofs` and `EdgeRunProofs` prove all three safety properties of
edge profiling, for every set of modules that satisfies `WellFormed`: any
number of functions, blocks and successors, any counter width. `TypeCorrect`
has no other hypothesis. It says, among the types, that instrumentation has
used all the counters it reserved and no more when the program runs, although
it walks lists into which it inserts blocks. The reserved counters are
numbered by a nested fold over functions and blocks (`EdgeList`,
`FlattenSeq`), so the proof first works out which slot each place of that list
has (`TwoLevels` of `LibraryFacts`, `SlotsNumbered`, `EdgesInOrder`), by
induction over the sequences. Then the invariant `Shape` says where the walk
is (`Here`): from its place on, the list of the function has some new blocks
and behind them the old ones that are left, in their order, and the next
counter is that of the next slot. `Graph` says that the old edges lead where
they did, or through one new block, and `Layouts` that no block is lost.

`RunsAsWritten` (the instrumented program implements `ProgramRun`) and
`WeightsAreExact` (`LoadedExact`) need where the counters are: `Wired` says
that between a block and the one its slot leads to, counting the end of the
first, a new block on the way and the beginning of the second, there is the
counter of that slot, if the pass was there, and no other. `CountsTrue` says
that each counter has the number of times its slot was taken, modulo 2^w.
`EdgeInv` is all of this; a step then maps to a call, an edge or the end of
the original, or to none (the way out of a new block, instrumentation, the
loader). What is loaded is the sum over the places of an edge in the list,
which is the sum over its slots (`SumListed`). Both theorems assume
`PadsUnshared`: an edge from a block that branches to a landing pad is the
only edge to that pad. `SplitCriticalEdge` does not split such an edge, and
the code does not look at what it returns (`EdgeProfiling.cpp:97`). This is
sharp: in the module with the blocks 1 to 4, of which 1 branches to 2 and 4, and
2 to 3 and 4, where 4 is a landing pad, TLC finds both properties false.

`OptimalEdgeProofs` proves `SpanningForest` for functions of any size and
edges in any order, whatever edges that the function does not have come with
them: the real edges without a counter form no cycle, and if the tree holds
real edges only, every edge with a counter closes a cycle of edges without.
The second half needs its condition: an edge that is not there may take the
place of a real one. The invariant `KruskalInv` says that the sets of `forest`
are disjoint, cover the nodes, are left by no chosen edge and are each joined
by the chosen edges; that removing a chosen edge separates its ends; and that
the ends of every edge already looked at are joined. That two nodes are joined is said by
sets (no set that the edges do not leave separates them) and not by paths, so
that no induction is needed: the union of two sets that an edge joins is
joined, and an edge between two different sets closes no cycle.

It also proves the other two properties, for the same functions, any counter
width and any number of calls. `TypeCorrect` (`TypeOK`): as in edge profiling
the counters reserved are those used, one for each edge (`Profiled`), although
the walk inserts blocks into the list that it walks (`Shape`, with `Here` of
`LibraryFacts`). `WeightsExact` (`LoadedExact`): from the counters off the tree
the loader works out every edge. The invariant `LoadInv` has four parts more.
`Wiring`: the counter of an edge off the tree is at a block that is entered
whenever the edge is taken (`Spot`), and no other edge leads there (`Alone`: an
edge of a block that branches was split, or is the only one into its block).
`Counts`: hence that counter has what was taken, modulo 2^w, but for the last
edge out of a block with one successor or none, which is counted at the start
of that block (`Early`), when the program is in it; the counters of the tree
have ~0U. `Flow`: the edges into a block were taken as often as those out of
it, or once more when the program is in it (`Pos`); a call that ends in
`exit()` breaks this, hence `~lost` in the property. `Rebuilt`: so, between
calls, when one edge of a block is missing, its weight is what the others
leave, whichever side it is on (`OneMissing`), and an edge is in
`SpanningTree` exactly as long as it has no weight. The sum over the edges of
a block is the sum over their counters (`SumGroups`), parallel edges together.
That the counted edges are enough for every round to find an edge is the
liveness property `RebuildEnds`, which TLC checks; the theorem says that what
is found is right, whatever the order of the blocks.

`PathFileProofs` proves `OwnHolesOnly` for any tables, any number of runs and
all faults: seeking back is safe because the places a run seeks back to are at
or behind the end of the file as it was when the run opened it (`base <= header`,
`base <= fnHeader`), and unless a `write()` failed they are holes (`Hole`)
behind which everything else was written. `PlacesInv` says that; it needs the
position to be at the end of the file or behind it, which a killed run does not
disturb because the next takes the end anew.

It also proves `LatestLoaded` (`LoadedLatest`): the loader has of every path
the count of the last run in which it was run in front of the first unfinished
packet, and reports an error exactly if there is such a packet, wherever runs
die except in their arguments (`broken` says that one did, or that a `write()`
failed). `TablesInv` relates the tables of a run to what it still has to write.
`FileInv` says what the file is: a sequence of items, each the arguments of a
run or its packet, with the functions of the packet and the entries of each
function in the order in which they were written. Behind the last whole item
there is what the active run has written of its packet so far, with a hole
where the header will be, and behind a hole that stays one packets may follow that the loader never comes
to (`Clean` or stuck). `LoaderInv` says that the loader is at an item (`AtItem`), or at a
function of one, and `Progress` that what it has is what the packets in front
of it say; a step of the loader is then one item or one function further. That
entries are found where they were written needs the length of sequences of
sequences, which is in `LibraryFacts`.

The assumptions are the named ASSUMEs on the constants, which every
run evaluates.

Only model-checked: the liveness properties (`Termination`, `ExitEnds`,
`LoopEnds`, `RebuildEnds`, `InstrumentationEnds`), which are beyond the
prover, and everything of `ProfileUpdates` and `PathProfiling`. Those speak of
recursive definitions over the CFG (the numbers of paths, decoding a number,
the weights that are pushed through a DAG), or of what several nested folds
over sets of edges do to a profile, in the order of addresses; `LibraryFacts`
has induction over numbers and finite sets, and not over either of them.

## 6. Plan

Done: the specifications above, in this order: placement, file, edges,
unrolling, optimal edges, updates, paths, the path file.

Next, modelling: the inliner's bonus, with an order in place of logarithms
(0/0 when nothing was executed, PgoInlineAnalysis.cpp:46); landing pads shared
by several invokes; the block and function counters of the loader pass.

Proved: block placement, the profile file, edge profiling, optimal edge
profiling, unrolling and the path file, all but liveness.

## 7. Not modelled

The inliner's bonus (floating point), PRE (a copy of GVN with a profile check), the static estimator (but for which edges
it gives a weight) and verifier,
the second profile reader and llvm-prof, the scripts, the measured programs,
and LLVM at large. The reasons are with the components in PROJECT.json. Of
landing pads only those with one unwinding edge are in the checked modules:
`SplitCriticalEdge` returns 0 for a shared one (its result is ignored at
`EdgeProfiling.cpp:97`), and its counters then count each other's edges.
Indirect branches, whose critical edges cannot be split (the assertion of
BreakCriticalEdges.cpp:180), are in no module.
Of path profiling: early termination with `llvm_decrement_path_count`,
`getPathBlocks`, and the numbers that tell parallel edges apart in what is
printed. Of the path file: a failing `open()`, overlapping runs (`ProfileFile`
has both, in the same `getOutFile`), and the order in which the bins of a hash
table are written, which is any order.
