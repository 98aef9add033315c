--------------------------- MODULE ProfileUpdates ---------------------------
(***************************************************************************)
(* A loaded profile while the function it is about is changed: the passes  *)
(* that split, merge and remove blocks keep ProfileInfo up to date through *)
(* splitEdge, replaceAllUses and removeBlock, and LoopSimplify, which      *)
(* declares that it preserves the profile, changes blocks without a word   *)
(* to it.                                                                  *)
(*                                                                         *)
(* A block is a positive number that stands for its address: edges are     *)
(* visited in the order of the numbers, and a new block may get the number *)
(* of one that was removed. 0 is the null pointer, as in the edge          *)
(* (0, entry) of the calls. The function has no landing pads and no        *)
(* indirect branches.                                                      *)
(*                                                                         *)
(* The history variable flow says how often each successor was taken in    *)
(* the run the profile is from (changed code counts as if it had run).     *)
(***************************************************************************)
EXTENDS Integers, Sequences, FiniteSets, SequencesExt, FiniteSetsExt

CONSTANTS Functions,    \* what may be profiled: records of entry and succ
          MaxBlock,     \* the largest address
          MaxFlow,      \* bound: how often a successor was taken
          MaxUpdates,   \* bound: changes of the function
          Infinity      \* stands for w / 0

ASSUME UpdatesAssumption ==
  /\ \A f \in Functions : f.entry \in DOMAIN f.succ /\ DOMAIN f.succ \subseteq 1 .. MaxBlock
  /\ MaxFlow \in Nat /\ MaxUpdates \in Nat /\ Infinity \in Nat

VARIABLES
  entry, succ,      \* the function: succ[b], the successors of b in order
  flow,             \* history: flow[b][t], how often successor t was taken
  ECs,              \* EdgeInformation: the weights that are known
  BlockInformation, \* the counts of blocks that are known or cached
  updates,          \* the number of changes so far
  shared,           \* history: parallel edges were split by proportion
  mistaken,         \* history: one of the two accidents described below
  unseen            \* history: the function was changed and ProfileInfo not told

vars == <<entry, succ, flow, ECs, BlockInformation, updates, shared, mistaken, unseen>>

MissingValue == -1
Blocks == DOMAIN succ

\* The edges into d: pairs of a block and the place of a successor
PredEdges(d) == UNION {{<<b, t>> : t \in {x \in DOMAIN succ[b] : succ[b][x] = d}} : b \in Blocks}
Succs(b) == Range(succ[b])
Preds(d) == {b \in Blocks : \E t \in DOMAIN succ[b] : succ[b][t] = d}

SumOf(g, S) == MapThenSumSet(LAMBDA e : g[e], S)

-----------------------------------------------------------------------------
(* ProfileInfo *)

getEdgeWeight(e) == IF e \in DOMAIN ECs THEN ECs[e] ELSE MissingValue

SumOrMissing(es) == IF es \subseteq DOMAIN ECs THEN SumOf(ECs, es) ELSE MissingValue

InEdges(b)  == IF Preds(b) = {} THEN {<<0, b>>} ELSE {<<p, b>> : p \in Preds(b)}
OutEdges(b) == IF Succs(b) = {} THEN {<<b, 0>>} ELSE {<<b, t>> : t \in Succs(b)}

Bug_getExecutionCount(b) ==
  IF b \in DOMAIN BlockInformation THEN BlockInformation[b]
  ELSE IF Succs(b) # {} /\ OutEdges(b) \subseteq DOMAIN ECs
    THEN FoldFunction(+, 0, [t \in DOMAIN succ[b] |-> ECs[<<b, succ[b][t]>>]])
    ELSE SumOrMissing(InEdges(b))

\* The count of a block: cached, or the sum of the edges into it, or, if some
\* of these are missing, of the edges out of it.
getExecutionCount(b) ==
  IF b \in DOMAIN BlockInformation THEN BlockInformation[b]
  ELSE IF InEdges(b) \subseteq DOMAIN ECs THEN SumOf(ECs, InEdges(b))
  ELSE SumOrMissing(OutEdges(b))

\* What a call of getExecutionCount leaves in the cache
Cached(b) ==
  IF getExecutionCount(b) = MissingValue THEN BlockInformation
  ELSE (b :> getExecutionCount(b)) @@ BlockInformation

Without(g, S) == [x \in DOMAIN g \ S |-> g[x]]

Bug_ReplaceEdge_adds(ecs, old, new) ==
  Without((new :> (IF new \in DOMAIN ecs THEN ecs[new] ELSE MissingValue) + ecs[old]) @@ ecs, {old})
Bug_ReplaceEdge_sets(ecs, old, new) == Without((new :> ecs[old]) @@ ecs, {old})

ReplaceEdge(ecs, old, new) ==
  Without((new :> (IF new \in DOMAIN ecs THEN ecs[new] ELSE 0) + ecs[old]) @@ ecs, {old})

Touching(b) == {e \in DOMAIN ECs : b \in {e[1], e[2]}}

\* Of the edges between rm and dest the first one visited is erased; the other,
\* if there is one, becomes (dest, dest).
ErasedEdge(rm, dest) ==
  LET between == {<<rm, dest>>, <<dest, rm>>} \cap DOMAIN ECs
  IN IF Cardinality(between) < 2 THEN between
     ELSE {IF dest < rm THEN <<dest, rm>> ELSE <<rm, dest>>}

\* replaceAllUses(rm, dest) and removeEdge(rm, dest). The counts of blocks stay.
ReplaceAllUses(rm, dest) ==
  LET To(x) == IF x = rm THEN dest ELSE x
      erased == ErasedEdge(rm, dest)
  IN FoldSet(LAMBDA e, ecs : ReplaceEdge(ecs, e, <<To(e[1]), To(e[2])>>),
             Without(ECs, erased), Touching(rm) \ erased)

\* The back edge of a loop of two blocks is to become (dest, dest), and it is
\* the one that was erased.
WrongEdgeErased(rm, dest) == {<<rm, dest>>, <<dest, rm>>} \subseteq DOMAIN ECs /\ dest < rm

Bug_Rest(w, neww) == w

\* What stays on an edge that was sliced
Rest(w, neww) == w - neww

\* splitEdge(first, second, new, merge), after succ was changed. A weight that
\* is missing becomes 0 by being read (line 380).
SplitEdge(first, second, new, merge) ==
  LET e == <<first, second>>
      w == IF e \in DOMAIN ECs THEN ECs[e] ELSE 0
      parallel == Cardinality({t \in DOMAIN succ'[first] : succ'[first][t] = second})
      unknown == /\ new \notin DOMAIN BlockInformation
                 /\ {<<first, new>>, <<new, second>>} \cap DOMAIN ECs = {}
      succ_count == IF merge THEN 1 ELSE parallel + (IF unknown THEN 1 ELSE 0)
      neww == IF succ_count = 0 THEN Infinity ELSE w \div succ_count
      Add(g, x) == (x :> (IF x \in DOMAIN g THEN g[x] ELSE 0) + neww) @@ g
      sliced == IF succ_count = 1 THEN Without(ECs, {e}) ELSE (e :> Rest(w, neww)) @@ ECs
  IN /\ ECs' = Add(Add(sliced, <<first, new>>), <<new, second>>)
     /\ BlockInformation' = Add(BlockInformation, new)

-----------------------------------------------------------------------------
(* The function and its run *)

\* The blocks within n steps of the blocks S along next
Within(S, next(_), n) ==
  LET reach[k \in 0 .. n] ==
        IF k = 0 THEN S ELSE LET r == reach[k - 1] IN r \cup UNION {next(c) : c \in r}
  IN reach[n]

\* Every function with every flow that comes from the entry block and leaves each
\* other block as it enters it. The loader of edge counters leaves the weights of returns
\* missing, the loader of optimal edge counters works them out.
TrueCount(f, w, calls, b) ==
  (IF b = f.entry THEN calls ELSE 0)
    + MapThenSumSet(LAMBDA p : SumOf(w[p], {t \in DOMAIN f.succ[p] : f.succ[p][t] = b}), DOMAIN f.succ)

EdgeFlow(s, w, e) == SumOf(w[e[1]], {t \in DOMAIN s[e[1]] : s[e[1]][t] = e[2]})

Flows(f) == LET slots == UNION {{<<b, t>> : t \in DOMAIN f.succ[b]} : b \in DOMAIN f.succ}
            IN {[b \in DOMAIN f.succ |-> [t \in DOMAIN f.succ[b] |-> g[<<b, t>>]]] :
                  g \in [slots -> 0 .. MaxFlow]}

Init ==
  \E f \in Functions, calls \in 0 .. MaxFlow, withReturns \in BOOLEAN :
    \E w \in Flows(f) :
      LET inner == UNION {{<<b, c>> : c \in Range(f.succ[b])} : b \in DOMAIN f.succ}
          returns == {<<b, 0>> : b \in {c \in DOMAIN f.succ : withReturns /\ f.succ[c] = <<>>}}
      IN /\ \A b \in DOMAIN f.succ :
              f.succ[b] # <<>> => SumOf(w[b], DOMAIN w[b]) = TrueCount(f, w, calls, b)
         /\ \A b \in DOMAIN f.succ : TrueCount(f, w, calls, b) > 0 =>
              b \in Within({f.entry}, LAMBDA c : {f.succ[c][t] : t \in {x \in DOMAIN w[c] : w[c][x] > 0}}, MaxBlock)
         /\ entry = f.entry /\ succ = f.succ /\ flow = w
         /\ ECs = [e \in {<<0, f.entry>>} \cup inner \cup returns |->
                     IF e[1] = 0 THEN calls
                     ELSE IF e[2] = 0 THEN TrueCount(f, w, calls, e[1])
                     ELSE EdgeFlow(f.succ, w, e)]
         /\ BlockInformation = <<>>
         /\ updates = 0 /\ shared = FALSE /\ mistaken = FALSE /\ unseen = FALSE

\* A pass asks for the count of a block, and it is cached.
Query(b) ==
  /\ b \in Blocks
  /\ BlockInformation' = Cached(b)
  /\ UNCHANGED <<entry, succ, flow, ECs, updates, shared, mistaken, unseen>>

\* bound: nothing is claimed about what follows an accident
Update == updates < MaxUpdates /\ ~mistaken /\ updates' = updates + 1

FreeAddresses == (1 .. MaxBlock) \ Blocks

\* New blocks take over edges: via[<<b, t>>] is the new block on successor t of b.
Redirect(via) ==
  LET Of(n) == {p \in DOMAIN via : via[p] = n}
  IN /\ succ' = [n \in Range(via) |-> <<LET p == CHOOSE p \in Of(n) : TRUE IN succ[p[1]][p[2]]>>]
                  @@ [b \in Blocks |-> [t \in DOMAIN succ[b] |->
                        IF <<b, t>> \in DOMAIN via THEN via[<<b, t>>] ELSE succ[b][t]]]
     /\ flow' = [n \in Range(via) |-> <<MapThenSumSet(LAMBDA p : flow[p[1]][p[2]], Of(n))>>] @@ flow

\* Something is still recorded about a block that had the address of n.
Remembered(n) == n \in DOMAIN BlockInformation \/ Touching(n) # {}

-----------------------------------------------------------------------------
(* Loops *)

ReachedWithout(avoided) ==
  Within({entry} \ avoided, LAMBDA c : Succs(c) \ avoided, MaxBlock)

\* The natural loops by their headers: a header h and what reaches, without
\* passing through h, a predecessor of h that is only reached through h
LoopInfo ==
  LET reached == ReachedWithout({})
      Latches(h) == Preds(h) \cap (reached \ ReachedWithout({h}))
  IN [h \in {b \in reached : Latches(b) # {}} |->
        {h} \cup Within(Latches(h), LAMBDA c : IF c = h THEN {} ELSE Preds(c) \cap reached, MaxBlock)]

Innermost(b) ==
  LET around == {L \in Range(LoopInfo) : b \in L}
  IN IF around = {} THEN {} ELSE CHOOSE L \in around : \A M \in around : L \subseteq M

Exits(L) == UNION {Succs(b) : b \in L} \ L
EdgesFrom(L, d) == {p \in PredEdges(d) : p[1] \in L}

-----------------------------------------------------------------------------
(* The passes *)

\* An edge is critical if it leaves a block with several successors and enters
\* one with several predecessors; parallel edges do not count if they are merged.
IsCriticalEdge(b, t, merge) ==
  /\ Len(succ[b]) > 1
  /\ IF merge THEN Preds(succ[b][t]) # {b} ELSE Cardinality(PredEdges(succ[b][t])) > 1

\* The exits of loop L that must be split to be reached from L only, when the
\* edges of slots out of L, which lead to d, go through a new block instead
\* (lines 343-379)
SharedExits(L, slots, d) ==
  {x \in Exits(L) : EdgesFrom(L, x) \ slots # {} /\ (x = d \/ ~ Preds(x) \subseteq L)}

\* SplitCriticalEdge. With merge the later parallel edges go through the new
\* block too; every caller passes the first one. If LoopSimplify is to be
\* preserved, other exits of the loop may get new blocks, of which ProfileInfo is
\* not told.
SplitCriticalEdge(b, t, n, merge) ==
  LET d == succ[b][t]
      parallel == {<<b, x>> : x \in {y \in DOMAIN succ[b] : succ[b][y] = d}}
      slots == IF merge THEN parallel ELSE {<<b, t>>}
      L == Innermost(b)
  IN /\ Update /\ IsCriticalEdge(b, t, merge)
     /\ merge => \A x \in 1 .. t - 1 : succ[b][x] # d
     /\ \E exits \in {{}, IF d \in L THEN {} ELSE SharedExits(L, slots, d)} :
          \E new \in [exits -> FreeAddresses \ {n}] :
            /\ IsInjective(new)
            /\ Redirect([p \in slots \cup UNION {EdgesFrom(L, x) : x \in exits} |->
                           IF p \in slots THEN n ELSE new[succ[p[1]][p[2]]]])
            /\ unseen' = (unseen \/ exits # {})
            /\ mistaken' = \E m \in Range(new) \cup {n} : Remembered(m)
     /\ SplitEdge(b, d, n, merge)
     /\ shared' = (shared \/ (~merge /\ Cardinality(parallel) > 1))
     /\ UNCHANGED entry

\* What led to rm leads to dest; rm is erased.
Fold(rm, dest) ==
  /\ succ' = [b \in Blocks \ {rm} |-> [t \in DOMAIN succ[b] |-> IF succ[b][t] = rm THEN dest ELSE succ[b][t]]]
  /\ flow' = Without(flow, {rm})
  /\ ECs' = ReplaceAllUses(rm, dest)
  /\ mistaken' = WrongEdgeErased(rm, dest)
  /\ UNCHANGED <<BlockInformation, shared, unseen>>

\* MergeBasicBlockIntoOnlyPred: the predecessor, which does nothing but go on to
\* dest, becomes a part of dest.
MergeIntoOnlyPred(dest) ==
  /\ Update /\ Cardinality(PredEdges(dest)) = 1
  /\ \E pred \in Preds(dest) \ {dest} :
       /\ Len(succ[pred]) = 1
       /\ Fold(pred, dest)
       /\ entry' = IF pred = entry THEN dest ELSE entry

\* EliminateMostlyEmptyBlock, of a block whose successor has other predecessors
EliminateEmptyBlock(b) ==
  /\ Update /\ b # entry /\ Len(succ[b]) = 1
  /\ LET dest == succ[b][1]
     IN /\ dest # b /\ Cardinality(PredEdges(dest)) # 1
        /\ Fold(b, dest)
  /\ UNCHANGED entry

\* UnreachableBlockElim: the blocks are forgotten, their edges are not.
EliminateUnreachable ==
  LET dead == Blocks \ ReachedWithout({})
  IN /\ Update /\ dead # {}
     /\ succ' = Without(succ, dead) /\ flow' = Without(flow, dead)
     /\ BlockInformation' = Without(BlockInformation, dead)
     /\ UNCHANGED <<entry, ECs, shared, mistaken, unseen>>

\* LoopSimplify moves edges to a new block and leaves ProfileInfo as it is.
SplitBlockPredecessors(d, preds, n) ==
  /\ Redirect([p \in EdgesFrom(preds, d) |-> n])
  /\ mistaken' = Remembered(n)

\* Blocks outside of the loop that lead to a block of it other than its header;
\* they cannot be reached, and get to end the function.
DeadPreds(h, L) == UNION {Preds(b) : b \in L \ {h}} \ L

DeleteDeadEdges(h, L) ==
  LET Delete(g) == [b \in Blocks |-> IF b \in DeadPreds(h, L) THEN <<>> ELSE g[b]]
  IN /\ DeadPreds(h, L) # {}
     /\ succ' = Delete(succ) /\ flow' = Delete(flow)
     /\ UNCHANGED mistaken

HasPreheader(h, L) ==
  LET outside == Preds(h) \ L
  IN Cardinality(outside) = 1 /\ \A p \in outside : Len(succ[p]) = 1

InsertPreheader(h, L, n) ==
  /\ DeadPreds(h, L) = {} /\ ~ HasPreheader(h, L) /\ Preds(h) \ L # {}
  /\ SplitBlockPredecessors(h, Preds(h) \ L, n)

DedicatedExits(L) == \A x \in Exits(L) : Preds(x) \subseteq L

\* Every exit gets to be reached from the loop only, once there is a preheader.
RewriteLoopExit(h, L, n) ==
  /\ DeadPreds(h, L) = {} /\ HasPreheader(h, L)
  /\ \E x \in Exits(L) :
       /\ ~ Preds(x) \subseteq L
       /\ SplitBlockPredecessors(x, Preds(x) \cap L, n)

BackEdges(h, L) == EdgesFrom(L, h)

\* What is done about several back edges comes after the exits.
ReadyForLatch(h, L) == DeadPreds(h, L) = {} /\ HasPreheader(h, L) /\ DedicatedExits(L)

\* Some latches become those of an inner loop: where the values say so.
SeparateNestedLoop(h, L, n) ==
  /\ ReadyForLatch(h, L) /\ Cardinality(BackEdges(h, L)) \in 2 .. 7
  /\ \E outer \in SUBSET (Preds(h) \cap L) \ {{}, Preds(h) \cap L} :
       SplitBlockPredecessors(h, outer \cup (Preds(h) \ L), n)

InsertUniqueBackedge(h, L, n) ==
  /\ ReadyForLatch(h, L) /\ Cardinality(BackEdges(h, L)) > 1
  /\ SplitBlockPredecessors(h, Preds(h) \cap L, n)

\* When all exits are one block, an exiting block b whose predecessor branches to
\* b or where b branches becomes a part of the predecessor
\* (FoldBranchToCommonDest), which then branches as b did.
FoldExitingBlock(h, L) ==
  /\ ReadyForLatch(h, L) /\ Cardinality(BackEdges(h, L)) = 1
  /\ Cardinality(Exits(L)) = 1
  /\ \E b \in L, pred \in L :
       /\ Succs(b) \cap Exits(L) # {} /\ Len(succ[b]) = 2 /\ b \notin Succs(b)
       /\ Preds(b) = {pred} /\ Len(succ[pred]) = 2
       /\ \E o, k \in {1, 2} :
            /\ succ[pred][3 - o] = b /\ succ[pred][o] = succ[b][k]
            /\ succ' = [x \in Blocks \ {b} |-> succ[IF x = pred THEN b ELSE x]]
            /\ flow' = [x \in Blocks \ {b} |->
                          IF x = pred THEN [flow[b] EXCEPT ![k] = @ + flow[pred][o]] ELSE flow[x]]
  /\ UNCHANGED mistaken

\* ProcessLoop, one of its changes of the CFG at a time
LoopSimplify ==
  /\ Update
  /\ unseen' = TRUE
  /\ LET loops == LoopInfo IN \E h \in DOMAIN loops :
       \/ DeleteDeadEdges(h, loops[h]) \/ FoldExitingBlock(h, loops[h])
       \/ \E n \in FreeAddresses :
            \/ InsertPreheader(h, loops[h], n) \/ RewriteLoopExit(h, loops[h], n)
            \/ SeparateNestedLoop(h, loops[h], n) \/ InsertUniqueBackedge(h, loops[h], n)
  /\ UNCHANGED <<entry, ECs, BlockInformation, shared>>

Next ==
  \/ \E b \in Blocks : Query(b) \/ MergeIntoOnlyPred(b) \/ EliminateEmptyBlock(b)
  \/ \E b \in Blocks, n \in FreeAddresses, merge \in BOOLEAN :
       \E t \in DOMAIN succ[b] : SplitCriticalEdge(b, t, n, merge)
  \/ EliminateUnreachable
  \/ LoopSimplify

Spec == Init /\ [][Next]_vars

-----------------------------------------------------------------------------
(* Properties *)

\* The types; no weight is negative.
TypeOK ==
  /\ entry \in Blocks /\ Blocks \subseteq 1 .. MaxBlock
  /\ \A b \in Blocks : Succs(b) \subseteq Blocks /\ DOMAIN flow[b] = DOMAIN succ[b]
  /\ DOMAIN flow = Blocks
  /\ DOMAIN ECs \subseteq (0 .. MaxBlock) \X (0 .. MaxBlock)
  /\ ~mistaken => /\ \A e \in DOMAIN ECs : ECs[e] \in Nat
                  /\ \A b \in DOMAIN BlockInformation : BlockInformation[b] \in Nat

\* What was recorded in the profile, or the profile was told
Told == ~mistaken /\ ~unseen

\* As long as no parallel edges were split by proportion, every edge of the
\* changed function has a weight, and it is how often the edge was taken.
WeightsTrue ==
  Told /\ ~shared =>
    \A b \in Blocks : \A c \in Succs(b) : getEdgeWeight(<<b, c>>) = EdgeFlow(succ, flow, <<b, c>>)

\* However blocks are split, merged and removed: as much flows into a block as
\* out of it, and a count that is cached says the same.
FlowBalanced ==
  Told =>
    \A b \in ReachedWithout({}) :
      /\ SumOrMissing(InEdges(b)) # MissingValue
      /\ Succs(b) # {} => SumOrMissing(InEdges(b)) = SumOrMissing(OutEdges(b))
      /\ b \in DOMAIN BlockInformation => BlockInformation[b] = SumOrMissing(InEdges(b))

\* No update that ProfileInfo is told of changes what a pass is told of the count
\* of a block that stays. What LoopSimplify, and SplitCriticalEdge for it, does
\* without telling may make a count missing; and where LoopSimplify folds an
\* exiting block into its predecessor, the block both branched to has lost
\* exactly what came from the folded block.
CountsStay ==
  [][Told /\ ~mistaken' =>
       \A b \in Blocks \cap Blocks' : getExecutionCount(b) # MissingValue =>
         \/ getExecutionCount(b)' = getExecutionCount(b)
         \/ unseen' /\ getExecutionCount(b)' = MissingValue
         \/ \E x \in Preds(b) \ Blocks' :
              unseen' /\ getExecutionCount(b)' = getExecutionCount(b) - ECs[<<x, b>>]]_vars
=============================================================================
