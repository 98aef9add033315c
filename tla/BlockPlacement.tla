--------------------------- MODULE BlockPlacement ---------------------------
(***************************************************************************)
(* The profile guided basic block placement pass,                          *)
(* BlockPlacement::runOnFunction of BasicBlockPlacement.cpp: "Algo1" of    *)
(* Pettis and Hansen, "Profile Guided Code Positioning".                   *)
(*                                                                         *)
(*   1. every block is put in a chain of its own;                          *)
(*   2. a breadth-first walk of the CFG collects the arcs, heaviest first; *)
(*   3. each arc joins the chain that ends in its source to the chain that *)
(*      starts with its destination;                                       *)
(*   4. the chains are laid out after the entry chain, one at a time.      *)
(*                                                                         *)
(* A function of the compiled module is a record: n blocks, named by their *)
(* position in the function's block list (1 is the entry block), the       *)
(* successors of each block in the order of its terminator, and the edge   *)
(* weights the loaded profile knows (a function on some of the edges).     *)
(* Every step below is one loop iteration of the code.                     *)
(*                                                                         *)
(* A definition named Bug_D... is a plausible mistake in D, which follows  *)
(* it. No specification uses it; PROJECT.json names the property it breaks.*)
(***************************************************************************)
EXTENDS Integers, Sequences, FiniteSets, SequencesExt

CONSTANTS Functions,    \* the functions the pass may be run on
          MissingValue  \* ProfileInfo::MissingValue, the weight of an edge
                        \* the profile does not know

(***************************************************************************)
(* What the IR verifier promises about a function: the entry block has no  *)
(* predecessor, so no successor list names it.                             *)
(***************************************************************************)
WellFormed(f) ==
  /\ f.n \in Nat \ {0}
  /\ f.succ \in [1 .. f.n -> Seq(2 .. f.n)]
  /\ DOMAIN f.weight \subseteq (1 .. f.n) \X (1 .. f.n)
  /\ \A e \in DOMAIN f.weight : f.weight[e] \in Int

ASSUME FunctionsAssumption == \A f \in Functions : WellFormed(f)
ASSUME MissingValueAssumption == MissingValue \in Int

VARIABLES
  fn,             \* the function the pass runs on (never changes)
  asserts,        \* TRUE in a build that keeps assert() (never changes)
  pc,             \* where runOnFunction is
  queue,          \* bfsQueue
  visited,        \* the blocks the walk has popped
  block,          \* curr, the block whose successors are walked
  s,              \* the next successor of block to walk
  arcs,           \* the arcs, heaviest first
  ai,             \* the arc being merged
  chains,         \* chains[c] is a vector of blocks
  src, dst, k,    \* an append in progress: dst gets the front of src, k times
  chainIndex,     \* the chain laid out last
  visitedChains,  \* the chains laid out
  i,              \* outer loop of the layout
  newChain,       \* newChainIndex, the chain being laid out
  j,              \* the next block of newChain to move
  curr,           \* the block the next one is moved after
  pos,            \* the function's block list: pos[b] is the place of b
  moved           \* NumMovedBlocks

input     == <<fn, asserts>>
bfsVars   == <<queue, visited, block, s, arcs>>
mergeVars == <<ai, chains, src, dst, k>>
placeVars == <<chainIndex, visitedChains, i, newChain, j, curr, pos, moved>>
vars == <<input, pc, bfsVars, mergeVars, placeVars>>

Block == 1 .. fn.n
Entry == 1

\* Vectors are indexed from 0 in the code and from 1 here; 0 stands for -1,
\* "no chain", and for variables that are not live yet.
None == 0

Arc == [head : Block, tail : Block, weight : Int]

Edge(a, b) == \E t \in 1 .. Len(fn.succ[a]) : fn.succ[a][t] = b

-----------------------------------------------------------------------------
(* Helpers *)

\* The weight of an edge the profile knows, MissingValue otherwise.
GetEdgeWeight(e) == IF e \in DOMAIN fn.weight THEN fn.weight[e] ELSE MissingValue

\* The comparison turned around.
Bug_InsertionPoint(p, w) ==
  /\ p \in 1 .. Len(arcs) + 1
  /\ \A q \in 1 .. p - 1 : w > arcs[q].weight
  /\ p <= Len(arcs) => arcs[p].weight >= w

\* p is where the code inserts an arc of weight w: in front of the first arc
\* that is not heavier, else at the end.
InsertionPoint(p, w) ==
  /\ p \in 1 .. Len(arcs) + 1
  /\ \A q \in 1 .. p - 1 : w < arcs[q].weight
  /\ p <= Len(arcs) => arcs[p].weight <= w

\* A successor is skipped once an arc to it is known, although the arc of the
\* current edge was recorded just before.
Bug_Enqueue(next) ==
  IF \E q \in 1 .. Len(arcs') : arcs'[q].tail = next THEN queue ELSE Append(queue, next)

\* A successor joins the queue unless the walk popped it before.
Enqueue(next) == IF next \in visited THEN queue ELSE Append(queue, next)

\* Head and tail of the arc swapped.
Bug_Connects_swapped(a, c, d) ==
  /\ c # d
  /\ chains[c] # << >>
  /\ chains[d] # << >>
  /\ chains[c][1] = a.head
  /\ Last(chains[d]) = a.tail

\* Any block of the growing chain will do as the source of the arc.
Bug_Connects_inside(a, c, d) ==
  /\ c # d
  /\ chains[c] # << >>
  /\ chains[c][1] = a.tail
  /\ \E x \in 1 .. Len(chains[d]) : chains[d][x] = a.head

\* Arc a leads from the last block of chain d to the first block of chain c.
Connects(a, c, d) ==
  /\ c # d
  /\ chains[c] # << >>
  /\ chains[d] # << >>
  /\ chains[c][1] = a.tail
  /\ Last(chains[d]) = a.head

\* The block is copied and not erased.
Bug_MoveHead(ch, c, d) == [ch EXCEPT ![d] = Append(ch[d], Head(ch[c]))]

\* One iteration of an append loop: the first block of chain c becomes the
\* last block of chain d.
MoveHead(ch, c, d) ==
  [ch EXCEPT ![d] = Append(ch[d], Head(ch[c])), ![c] = Tail(ch[c])]

\* Moving backwards through the list forgets that the block itself leaves a gap.
Bug_NewPlace(q, from, to) ==
  CASE q = from               -> to + 1
    [] to < q /\ q < from     -> q + 1
    [] from < q /\ q <= to    -> q - 1
    [] OTHER                  -> q

\* BasicBlock::moveAfter unlinks a block from the block list and links it in
\* again behind another one. NewPlace is where the block at place q ends up
\* when the block at place from is moved behind the one at place to: the
\* blocks in between close the gap.
NewPlace(q, from, to) ==
  CASE from < to -> IF q = from THEN to
                    ELSE IF from < q /\ q <= to THEN q - 1 ELSE q
    [] to < from -> IF q = from THEN to + 1
                    ELSE IF to < q /\ q < from THEN q + 1 ELSE q
    [] OTHER     -> q

MoveAfter(p, b, c) == [x \in DOMAIN p |-> NewPlace(p[x], p[b], p[c])]

\* The successors of the blocks of chain c, one per slot of a terminator.
SuccSlots(c) ==
  UNION {{x} \X (1 .. Len(fn.succ[chains[c][x]])) : x \in 1 .. Len(chains[c])}
SuccAt(c, slot) == fn.succ[chains[c][slot[1]]][slot[2]]

\* The number of connections the code counts between two chains: pairs of
\* equal successors, one of a block of each chain.
Connections(c, d) ==
  Cardinality({slots \in SuccSlots(c) \X SuccSlots(d) :
                 SuccAt(c, slots[1]) = SuccAt(d, slots[2])})

\* visitedChains is not consulted.
Bug_Candidates_visited == {c \in Block : c # i /\ chains[c] # << >>}

\* The inner loop starts after i.
Bug_Candidates_after == {c \in Block : c > i /\ chains[c] # << >> /\ c \notin visitedChains}

\* The chains iteration i of the layout chooses from.
Candidates ==
  {c \in Block : c # i /\ chains[c] # << >> /\ c \notin visitedChains}

\* The candidates that are connected to the chain laid out last.
Linked == {c \in Candidates : Connections(chainIndex, c) > 0}

\* c is the chain iteration i settles on. The first candidate is the default;
\* maxConnections stays 0, so each linked candidate replaces an earlier one.
NextChain(c) ==
  \/ /\ Candidates = {}
     /\ c = None
  \/ /\ c \in Linked
     /\ \A d \in Linked : d <= c
  \/ /\ Linked = {}
     /\ c \in Candidates
     /\ \A d \in Candidates : c <= d

-----------------------------------------------------------------------------
(* The pass *)

Init ==
  /\ fn \in Functions
  /\ asserts \in BOOLEAN
  /\ pc = "walk"
  /\ queue = <<Entry>>
  /\ visited = {}
  /\ block = None
  /\ s = 1
  /\ arcs = << >>
  /\ ai = 1
  /\ chains = [b \in Block |-> <<b>>]
  /\ src = None
  /\ dst = None
  /\ k = 0
  /\ chainIndex = None
  /\ visitedChains = {}
  /\ i = 1
  /\ newChain = None
  /\ j = 1
  /\ curr = None
  /\ pos = [b \in Block |-> b]
  /\ moved = 0

\* The walk takes the next block off the queue and marks it visited.
PopBlock ==
  /\ pc = "walk"
  /\ queue # << >>
  /\ block' = Head(queue)
  /\ queue' = Tail(queue)
  /\ visited' = visited \cup {Head(queue)}
  /\ s' = 1
  /\ pc' = "succ"
  /\ UNCHANGED <<input, arcs, mergeVars, placeVars>>

\* One successor: its arc is inserted by weight, and it joins the queue unless
\* it was popped before.
WalkSuccessor ==
  /\ pc = "succ"
  /\ s <= Len(fn.succ[block])
  /\ LET next == fn.succ[block][s]
         w    == GetEdgeWeight(<<block, next>>)
     IN  /\ \E p \in 1 .. Len(arcs) + 1 :
              /\ InsertionPoint(p, w)
              /\ arcs' = InsertAt(arcs, p, [head |-> block, tail |-> next, weight |-> w])
         /\ queue' = Enqueue(next)
  /\ s' = s + 1
  /\ UNCHANGED <<input, pc, visited, block, mergeVars, placeVars>>

EndSuccessors ==
  /\ pc = "succ"
  /\ s > Len(fn.succ[block])
  /\ pc' = "walk"
  /\ UNCHANGED <<input, bfsVars, mergeVars, placeVars>>

\* assert(visited.size() == chains.size()), if the build keeps it.
AssertHolds == Cardinality(visited) = fn.n

EndWalk ==
  /\ pc = "walk"
  /\ queue = << >>
  /\ asserts => AssertHolds
  /\ pc' = "merge"
  /\ UNCHANGED <<input, bfsVars, mergeVars, placeVars>>

AssertFails ==
  /\ pc = "walk"
  /\ queue = << >>
  /\ asserts /\ ~AssertHolds
  /\ pc' = "abort"
  /\ UNCHANGED <<input, bfsVars, mergeVars, placeVars>>

\* The scan over all pairs of chains finds a pair the arc connects. Either
\* branch of the code appends the chain that starts with the arc's tail to
\* the chain that ends in its head; no two chains share a block, so there is
\* one such pair at most, and none after the append.
BeginAppend ==
  /\ pc = "merge"
  /\ ai <= Len(arcs)
  /\ \E c, d \in Block :
       /\ Connects(arcs[ai], c, d)
       /\ src' = c
       /\ dst' = d
  /\ k' = 0
  /\ pc' = "append"
  /\ UNCHANGED <<input, bfsVars, ai, chains, placeVars>>

NextArc ==
  /\ pc = "merge"
  /\ ai <= Len(arcs)
  /\ \A c, d \in Block : ~Connects(arcs[ai], c, d)
  /\ ai' = ai + 1
  /\ UNCHANGED <<input, pc, bfsVars, chains, src, dst, k, placeVars>>

\* The append loop compares k with the size of the chain it is shortening, so
\* it stops halfway.
MoreToAppend == k < Len(chains[src])

AppendBlock ==
  /\ pc = "append"
  /\ MoreToAppend
  /\ chains' = MoveHead(chains, src, dst)
  /\ k' = k + 1
  /\ UNCHANGED <<input, pc, bfsVars, ai, src, dst, placeVars>>

EndAppend ==
  /\ pc = "append"
  /\ ~MoreToAppend
  /\ pc' = "merge"
  /\ UNCHANGED <<input, bfsVars, mergeVars, placeVars>>

\* Find the chain that starts with the entry block; the layout starts after
\* its last block. EntryHeadsChain says that the search succeeds: chains[-1] is
\* never read.
FindEntryChain ==
  /\ pc = "merge"
  /\ ai > Len(arcs)
  /\ \E c \in Block :
       /\ chains[c] # << >>
       /\ chains[c][1] = Entry
       /\ chainIndex' = c
       /\ visitedChains' = {c}
       /\ curr' = Last(chains[c])
  /\ i' = 1
  /\ pc' = "choose"
  /\ UNCHANGED <<input, bfsVars, mergeVars, newChain, j, pos, moved>>

\* Iteration i of the layout chooses a chain, if its own is not empty.
ChooseChain ==
  /\ pc = "choose"
  /\ i <= fn.n
  /\ chains[i] # << >>
  /\ \E c \in Block :
       /\ NextChain(c)
       /\ newChain' = c
  /\ j' = 1
  /\ pc' = "move"
  /\ UNCHANGED <<input, bfsVars, mergeVars, chainIndex, visitedChains, i, curr, pos, moved>>

\* An iteration without a chain to place leaves the loop index alone.
Bug_SkipIteration ==
  /\ pc = "choose"
  /\ i <= fn.n
  /\ chains[i] = << >> \/ NextChain(None)
  /\ UNCHANGED vars

SkipIteration ==
  /\ pc = "choose"
  /\ i <= fn.n
  /\ chains[i] = << >> \/ NextChain(None)
  /\ i' = i + 1
  /\ UNCHANGED <<input, pc, bfsVars, mergeVars, chainIndex, visitedChains, newChain, j,
                 curr, pos, moved>>

\* The insertion point does not follow the moved block.
Bug_MoveBlock ==
  /\ pc = "move"
  /\ j <= Len(chains[newChain])
  /\ pos' = MoveAfter(pos, chains[newChain][j], curr)
  /\ j' = j + 1
  /\ moved' = moved + 1
  /\ UNCHANGED <<input, pc, bfsVars, mergeVars, chainIndex, visitedChains, i, newChain, curr>>

MoveBlock ==
  /\ pc = "move"
  /\ j <= Len(chains[newChain])
  /\ LET b == chains[newChain][j]
     IN  /\ pos' = MoveAfter(pos, b, curr)
         /\ curr' = b
  /\ j' = j + 1
  /\ moved' = moved + 1
  /\ UNCHANGED <<input, pc, bfsVars, mergeVars, chainIndex, visitedChains, i, newChain>>

EndChain ==
  /\ pc = "move"
  /\ j > Len(chains[newChain])
  /\ chainIndex' = newChain
  /\ visitedChains' = visitedChains \cup {newChain}
  /\ i' = i + 1
  /\ pc' = "choose"
  /\ UNCHANGED <<input, bfsVars, mergeVars, newChain, j, curr, pos, moved>>

\* return NumMovedBlocks != 0
Return ==
  /\ pc = "choose"
  /\ i > fn.n
  /\ pc' = "return"
  /\ UNCHANGED <<input, bfsVars, mergeVars, placeVars>>

Finished == pc \in {"return", "abort"}

Terminated == Finished /\ UNCHANGED vars

Next ==
  \/ PopBlock \/ WalkSuccessor \/ EndSuccessors \/ EndWalk \/ AssertFails
  \/ BeginAppend \/ NextArc \/ AppendBlock \/ EndAppend
  \/ FindEntryChain
  \/ ChooseChain \/ SkipIteration \/ MoveBlock \/ EndChain \/ Return
  \/ Terminated

\* The pass is one thread of the compiler: it keeps running.
Spec == Init /\ [][Next]_vars /\ WF_vars(Next)

-----------------------------------------------------------------------------
(* Properties *)

PCs == {"walk", "succ", "merge", "append", "choose", "move", "return", "abort"}

\* Type invariant. Block indices stay within the function: no chain, queue or
\* arc vector of runOnFunction ever holds anything but blocks of F, and every
\* chain index used to subscript "chains" is in range.
TypeOK ==
  /\ WellFormed(fn)
  /\ asserts \in BOOLEAN
  /\ pc \in PCs
  /\ queue \in Seq(Block)
  /\ visited \in SUBSET Block
  /\ block \in Block \cup {None}
  /\ pc = "succ" => block \in Block
  /\ s \in Nat \ {0}
  /\ arcs \in Seq(Arc)
  /\ ai \in Nat \ {0}
  /\ chains \in [Block -> Seq(Block)]
  /\ src \in Block \cup {None}
  /\ dst \in Block \cup {None}
  /\ pc = "append" => src \in Block /\ dst \in Block /\ src # dst
  /\ k \in Nat
  /\ chainIndex \in Block \cup {None}
  /\ visitedChains \in SUBSET Block
  /\ i \in Nat \ {0}
  /\ newChain \in Block \cup {None}
  /\ j \in Nat \ {0}
  /\ curr \in Block \cup {None}
  /\ pc \in {"choose", "move"} => chainIndex \in Block /\ curr \in Block
  /\ pc = "move" => newChain \in Block
  /\ pos \in [Block -> Block]
  /\ moved \in Nat

\* The insertion loop of the walk (lines 150-178) keeps the arcs ordered from
\* heaviest to lightest, edges without a profile among them.
ArcsSorted ==
  \A p, q \in 1 .. Len(arcs) : p < q => arcs[q].weight <= arcs[p].weight

\* The blocks on some path from the entry block: the smallest set that holds
\* the entry block and is closed under successors.
Reachable ==
  {b \in Block : \A S \in SUBSET Block :
     (Entry \in S /\ \A x \in S, y \in Block : Edge(x, y) => y \in S) => b \in S}

\* When the walk (lines 137-190) ends it has visited the reachable blocks and
\* no others, and has recorded every edge that leaves one of them, although it
\* marks blocks when it pops them and so may queue a block several times.
WalkComplete ==
  pc \notin {"walk", "succ"} =>
    /\ visited = Reachable
    /\ {<<arcs[p].head, arcs[p].tail>> : p \in 1 .. Len(arcs)}
         = {e \in visited \X Block : Edge(e[1], e[2])}

\* No block is in two places of the chains, at any moment of the merge loops
\* (lines 196-233), in the middle of an append included.
ChainsDisjoint ==
  \A c, d \in Block : \A x \in 1 .. Len(chains[c]), y \in 1 .. Len(chains[d]) :
     chains[c][x] = chains[d][y] => c = d /\ x = y

\* Merging (lines 196-233) loses no block.
ChainsCover ==
  \A b \in Block : \E c \in Block : \E x \in 1 .. Len(chains[c]) : chains[c][x] = b

ChainsPartition == ChainsDisjoint /\ ChainsCover

\* Neighbours in a chain are joined by an edge of the CFG, so laying the chain
\* out makes each of them a possible fall-through (lines 209-229): also while
\* an append is under way, and although it leaves a remainder behind.
ChainsArePaths ==
  \A c \in Block : \A x \in 1 .. Len(chains[c]) - 1 :
     Edge(chains[c][x], chains[c][x + 1])

\* The entry block is never appended to another chain: the search of lines
\* 243-257 finds its chain, and line 260 does not read chains[-1].
EntryHeadsChain == chains[Entry] # << >> /\ chains[Entry][1] = Entry

\* p is a permutation of the places 1 to n.
IsPermutation(p, n) ==
  /\ p \in [1 .. n -> 1 .. n]
  /\ \A a, b \in 1 .. n : p[a] = p[b] => a = b

\* moveAfter (line 315) keeps the function's block list a permutation of its
\* blocks, with the entry block first: moving another block to the front
\* would change what the program does.
LayoutValid == IsPermutation(pos, fn.n) /\ pos[Entry] = 1

\* When the pass returns, the layout loop (lines 265-323) has placed every
\* chain, although an iteration never chooses the chain of its own index, and
\* NumMovedBlocks counts every block outside the entry chain once.
AllChainsPlaced ==
  pc = "return" =>
    /\ visitedChains = {c \in Block : chains[c] # << >>}
    /\ moved = fn.n - Len(chains[Entry])

\* When the pass returns, the blocks of each chain other than the entry chain
\* are contiguous and in chain order (lines 313-318).
ChainsContiguous ==
  pc = "return" =>
    \A c \in Block \ {Entry} : \A x \in 1 .. Len(chains[c]) - 1 :
       pos[chains[c][x + 1]] = pos[chains[c][x]] + 1

\* The pass ends: the walk does, although it queues blocks more than once, and
\* so do the merge and the layout loops.
Termination == <>Finished

-----------------------------------------------------------------------------
(* Parts of the inductive invariant; BlockPlacementProofs proves them. *)

\* Every arc is an edge of the CFG; in particular none leads to the entry block.
ArcsAreEdges ==
  \A p \in 1 .. Len(arcs) : Edge(arcs[p].head, arcs[p].tail)

\* While a chain is appended, its first block can follow the last block of the
\* chain that grows, and it is not the chain of the entry block.
AppendInv ==
  pc = "append" =>
    /\ src # Entry
    /\ chains[dst] # << >>
    /\ chains[src] # << >> => Edge(Last(chains[dst]), chains[src][1])

\* The layout never lays out a chain twice, nor the chain of the entry block.
LayoutInv ==
  /\ pc \in {"choose", "move"} => Entry \in visitedChains
  /\ pc = "move" => newChain \notin visitedChains

IInv ==
  /\ TypeOK
  /\ ArcsSorted
  /\ ArcsAreEdges
  /\ ChainsPartition
  /\ ChainsArePaths
  /\ EntryHeadsChain
  /\ AppendInv
  /\ LayoutInv
  /\ LayoutValid

-----------------------------------------------------------------------------
(* What comments of BasicBlockPlacement.cpp say and the code does not do *)

\* Lines 209-210, 215 and 224: "append target/tail chain to source/head
\* chain": once the append loop ends, nothing of the appended chain is left.
AppendMovesWholeChain ==
  pc = "append" /\ ~MoreToAppend => chains[src] = << >>
=============================================================================
