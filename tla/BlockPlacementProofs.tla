------------------------ MODULE BlockPlacementProofs ------------------------
(***************************************************************************)
(* Theorems about the block placement pass, for every function, profile    *)
(* and kind of build.                                                      *)
(*                                                                         *)
(* IInv of BlockPlacement is the inductive invariant of the chains that    *)
(* the pass builds, and of the order of the blocks.                        *)
(*                                                                         *)
(* The first and the last loops of the pass do all of their work. The walk *)
(* of the CFG is complete: although it marks a block when it takes it off  *)
(* the queue, not when it puts it there, and may so walk a block more than *)
(* once, it has in the end visited what can be reached and recorded every  *)
(* edge from there. The layout loops place every chain, once and in one    *)
(* piece. Iteration i places one chain at most, and never the chain with   *)
(* index i; the proof counts the iterations that are left.                 *)
(***************************************************************************)
EXTENDS BlockPlacement, LibraryFacts

-----------------------------------------------------------------------------
(* Lemmas about the operators of the model *)

\* Inserting an arc keeps the others in order and makes room at place p.
LEMMA InsertAtProperties ==
  ASSUME NEW S, NEW q \in Seq(S), NEW p \in 1 .. Len(q) + 1, NEW e \in S
  PROVE  /\ InsertAt(q, p, e) \in Seq(S)
         /\ Len(InsertAt(q, p, e)) = Len(q) + 1
         /\ \A x \in 1 .. Len(q) + 1 :
              InsertAt(q, p, e)[x] = IF x < p THEN q[x] ELSE IF x = p THEN e ELSE q[x - 1]
<1>1. PICK L, r : L = Len(q) /\ r = InsertAt(q, p, e)
  OBVIOUS
<1>2. L \in Nat /\ p \in 1 .. L + 1
  BY <1>1
<1>3. r \in Seq(S) /\ Inserted(r, q, L, p, e)
  BY <1>1, <1>2, InsertAtFacts
<1>4. ASSUME NEW x \in 1 .. L + 1
      PROVE  r[x] = IF x < p THEN q[x] ELSE IF x = p THEN e ELSE q[x - 1]
  <2>1. CASE x < p
    <3>1. x \in 1 .. p - 1
      BY <1>2, <2>1
    <3> QED
      BY <1>3, <2>1, <3>1 DEF Inserted
  <2>2. CASE x = p
    BY <1>2, <1>3, <2>2 DEF Inserted
  <2>3. CASE x > p
    <3>1. PICK y : y = x - 1 /\ y \in p .. L /\ y + 1 = x /\ ~(x < p) /\ x # p
      BY <1>2, <2>3
    <3> QED
      BY <1>3, <3>1 DEF Inserted
  <2> QED
    BY <1>2, <2>1, <2>2, <2>3
<1> QED
  BY <1>1, <1>3, <1>4 DEF Inserted

\* Moving one block of a list keeps every block on one of the places 1 to n.
LEMMA NewPlaceInRange ==
  ASSUME NEW n \in Nat \ {0}, NEW from \in 1 .. n, NEW to \in 1 .. n, NEW q \in 1 .. n
  PROVE  NewPlace(q, from, to) \in 1 .. n
<1>1. CASE from < to
  BY <1>1 DEF NewPlace
<1>2. CASE to < from
  BY <1>2 DEF NewPlace
<1>3. CASE from = to
  BY <1>3 DEF NewPlace
<1> QED
  BY <1>1, <1>2, <1>3

\* Moving one block of a list puts no two blocks on one place.
LEMMA NewPlaceInjective ==
  ASSUME NEW q \in Int, NEW r \in Int, NEW from \in Int, NEW to \in Int,
         NewPlace(q, from, to) = NewPlace(r, from, to)
  PROVE  q = r
<1>1. CASE from < to
  BY <1>1 DEF NewPlace
<1>2. CASE to < from
  BY <1>2 DEF NewPlace
<1>3. CASE from = to
  BY <1>3 DEF NewPlace
<1> QED
  BY <1>1, <1>2, <1>3

\* The first block stays first when another one is moved.
LEMMA NewPlaceOfFirst ==
  ASSUME NEW from \in Int, NEW to \in Int, from > 1, to >= 1
  PROVE  NewPlace(1, from, to) = 1
BY DEF NewPlace

\* moveAfter keeps a permutation a permutation.
LEMMA MoveAfterPermutes ==
  ASSUME NEW n \in Nat \ {0}, NEW p, IsPermutation(p, n),
         NEW b \in 1 .. n, NEW c \in 1 .. n
  PROVE  IsPermutation(MoveAfter(p, b, c), n)
<1> DEFINE place(x) == NewPlace(p[x], p[b], p[c])
<1>1. MoveAfter(p, b, c) = [x \in 1 .. n |-> place(x)]
  BY DEF MoveAfter, IsPermutation
<1>2. ASSUME NEW x \in 1 .. n
      PROVE  p[x] \in 1 .. n /\ p[x] \in Int
  BY DEF IsPermutation
<1>3. \A x \in 1 .. n : place(x) \in 1 .. n
  BY <1>2, NewPlaceInRange, Zenon
<1>4. \A x, y \in 1 .. n : place(x) = place(y) => x = y
  <2> SUFFICES ASSUME NEW x \in 1 .. n, NEW y \in 1 .. n, place(x) = place(y)
               PROVE  p[x] = p[y]
    BY DEF IsPermutation
  <2> QED
    BY <1>2, NewPlaceInjective, Zenon
<1> HIDE DEF place
<1>5. \A x \in 1 .. n : MoveAfter(p, b, c)[x] = place(x)
  BY <1>1
<1>6. MoveAfter(p, b, c) \in [1 .. n -> 1 .. n]
  BY <1>1, <1>3
<1>7. \A x, y \in 1 .. n : MoveAfter(p, b, c)[x] = MoveAfter(p, b, c)[y] => x = y
  BY <1>4, <1>5
<1> QED
  BY <1>6, <1>7 DEF IsPermutation

\* moveAfter of another block leaves the first block first.
LEMMA MoveAfterKeepsFirst ==
  ASSUME NEW n \in Nat \ {0}, NEW p, IsPermutation(p, n),
         NEW b \in 1 .. n, NEW c \in 1 .. n, NEW x \in 1 .. n, p[x] = 1, x # b
  PROVE  MoveAfter(p, b, c)[x] = 1
<1>1. MoveAfter(p, b, c)[x] = NewPlace(1, p[b], p[c])
  BY DEF MoveAfter, IsPermutation
<1>2. p[b] \in Int /\ p[c] \in Int /\ p[b] > 1 /\ p[c] >= 1
  BY DEF IsPermutation
<1> QED
  BY <1>1, <1>2, NewPlaceOfFirst

\* A successor is a block of the function, and never the entry block.
LEMMA SuccessorIsBlock ==
  ASSUME WellFormed(fn), NEW b \in Block, NEW t \in 1 .. Len(fn.succ[b])
  PROVE  fn.succ[b][t] \in Block \ {Entry}
<1> DEFINE S == 2 .. fn.n
           l == fn.succ[b]
<1>1. fn.n \in Nat \ {0} /\ fn.succ \in [Block -> Seq(S)]
  BY DEF WellFormed, Block
<1> HIDE DEF S
<1>2. l \in Seq(S)
  BY <1>1
<1> HIDE DEF l
<1>3. ASSUME NEW q \in Seq(S), NEW x \in 1 .. Len(q)
      PROVE  q[x] \in S
  OBVIOUS
<1>4. l[t] \in S
  BY <1>2, <1>3 DEF l
<1>5. S \subseteq Block \ {Entry}
  BY <1>1 DEF S, Block, Entry
<1> QED
  BY <1>4, <1>5 DEF l

-----------------------------------------------------------------------------
(* The inductive invariant *)

LEMMA InitIInv == Init => IInv
<1> SUFFICES ASSUME Init
             PROVE  IInv
  OBVIOUS
<1> USE DEF Init
<1>1. WellFormed(fn)
  BY FunctionsAssumption
<1>2. /\ fn.n \in Nat \ {0}
      /\ Entry \in Block
      /\ Block \subseteq Nat
      /\ None \notin Block
  BY <1>1 DEF WellFormed, Block, Entry, None
<1>3. TypeOK
  BY <1>1, <1>2 DEF TypeOK, PCs, Arc, Block
<1>4. ArcsSorted /\ ArcsAreEdges
  BY DEF ArcsSorted, ArcsAreEdges
<1>5. \A c \in Block : chains[c] = <<c>> /\ Len(chains[c]) = 1 /\ chains[c][1] = c
  OBVIOUS
<1>6. ChainsDisjoint
  BY <1>5 DEF ChainsDisjoint
<1>7. ChainsCover
  <2> SUFFICES ASSUME NEW b \in Block
               PROVE  \E x \in 1 .. Len(chains[b]) : chains[b][x] = b
    BY DEF ChainsCover
  <2> QED
    BY <1>5
<1>8. ChainsArePaths /\ EntryHeadsChain
  <2>1. ChainsArePaths
    BY <1>5 DEF ChainsArePaths
  <2>2. EntryHeadsChain
    BY <1>2 DEF EntryHeadsChain
  <2> QED
    BY <2>1, <2>2
<1>9. AppendInv /\ LayoutInv
  BY DEF AppendInv, LayoutInv
<1>10. LayoutValid
  <2>1. \A b \in Block : pos[b] = b
    OBVIOUS
  <2>2. pos[Entry] = 1
    BY <1>2, <2>1 DEF Entry
  <2> QED
    BY <2>1, <2>2 DEF LayoutValid, IsPermutation, Block
<1> QED
  BY <1>3, <1>4, <1>6, <1>7, <1>8, <1>9, <1>10 DEF IInv, ChainsPartition

\* The function under compilation, its set of blocks and the build never change.
LEMMA Frame == [Next]_vars => fn' = fn /\ Block' = Block /\ asserts' = asserts
BY DEF Next, vars, input, Block, PopBlock, WalkSuccessor, EndSuccessors, EndWalk, AssertFails,
       BeginAppend, NextArc, AppendBlock, EndAppend, FindEntryChain, ChooseChain,
       SkipIteration, MoveBlock, EndChain, Return, Terminated

LEMMA TypeStep == IInv /\ [Next]_vars => TypeOK'
<1> SUFFICES ASSUME IInv, [Next]_vars
             PROVE  TypeOK'
  OBVIOUS
<1>1. TypeOK
  BY DEF IInv
<1>2. fn' = fn /\ Block' = Block /\ asserts' = asserts
  BY Frame
<1>3. /\ fn.n \in Nat \ {0}
      /\ fn.succ \in [Block -> Seq(2 .. fn.n)]
      /\ Entry \in Block
  BY <1>1 DEF TypeOK, WellFormed, Block, Entry
<1>4. /\ WellFormed(fn)'
      /\ Arc' = Arc
  BY <1>1, <1>2 DEF TypeOK, WellFormed, Arc
<1> USE DEF input, mergeVars, bfsVars, placeVars, PCs
<1>5. CASE PopBlock
  BY <1>1, <1>2, <1>4, <1>5 DEF TypeOK, PopBlock
<1>6. CASE WalkSuccessor
  <2> DEFINE next == fn.succ[block][s]
             w    == GetEdgeWeight(<<block, next>>)
             arc  == [head |-> block, tail |-> next, weight |-> w]
  <2>1. block \in Block /\ s \in 1 .. Len(fn.succ[block])
    BY <1>1, <1>6 DEF TypeOK, WalkSuccessor
  <2>2. next \in Block
    BY <1>1, <2>1, SuccessorIsBlock DEF TypeOK
  <2>3. w \in Int
    BY <1>1, MissingValueAssumption DEF TypeOK, WellFormed, GetEdgeWeight
  <2>4. arc \in Arc
    BY <2>1, <2>2, <2>3 DEF Arc
  <2>5. PICK p \in 1 .. Len(arcs) + 1 : arcs' = InsertAt(arcs, p, arc)
    BY <1>6 DEF WalkSuccessor
  <2>6. arcs' \in Seq(Arc)
    BY <1>1, <2>4, <2>5, InsertAtProperties DEF TypeOK
  <2>7. queue' \in Seq(Block)
    BY <1>1, <1>6, <2>2 DEF TypeOK, WalkSuccessor, Enqueue
  <2>8. s' \in Nat \ {0}
    BY <1>1, <1>6 DEF TypeOK, WalkSuccessor
  <2> QED
    BY <1>1, <1>2, <1>4, <1>6, <2>6, <2>7, <2>8 DEF TypeOK, WalkSuccessor
<1>7. CASE EndSuccessors
  BY <1>1, <1>2, <1>4, <1>7 DEF TypeOK, EndSuccessors
<1>8. CASE EndWalk
  BY <1>1, <1>2, <1>4, <1>8 DEF TypeOK, EndWalk
<1>9. CASE AssertFails
  BY <1>1, <1>2, <1>4, <1>9 DEF TypeOK, AssertFails
<1>10. CASE BeginAppend
  <2>1. src' \in Block /\ dst' \in Block /\ src' # dst'
    BY <1>10 DEF BeginAppend, Connects
  <2> QED
    BY <1>1, <1>2, <1>4, <1>10, <2>1 DEF TypeOK, BeginAppend
<1>11. CASE NextArc
  BY <1>1, <1>2, <1>4, <1>11 DEF TypeOK, NextArc
<1>12. CASE AppendBlock
  <2>1. src \in Block /\ dst \in Block /\ src # dst /\ chains[src] # << >>
    BY <1>1, <1>12 DEF TypeOK, AppendBlock, MoreToAppend
  <2>2. chains' \in [Block -> Seq(Block)]
    <3>1. chains \in [Block -> Seq(Block)] /\ chains' = MoveHead(chains, src, dst)
      BY <1>1, <1>12 DEF TypeOK, AppendBlock
    <3>2. /\ Tail(chains[src]) \in Seq(Block)
          /\ Append(chains[dst], Head(chains[src])) \in Seq(Block)
      BY <2>1, <3>1
    <3> QED
      BY <2>1, <3>1, <3>2 DEF MoveHead
  <2>3. k' \in Nat
    BY <1>1, <1>12 DEF TypeOK, AppendBlock
  <2> QED
    BY <1>1, <1>2, <1>4, <1>12, <2>2, <2>3 DEF TypeOK, AppendBlock
<1>13. CASE EndAppend
  BY <1>1, <1>2, <1>4, <1>13 DEF TypeOK, EndAppend
<1>14. CASE FindEntryChain
  <2>1. PICK c \in Block : /\ chains[c] # << >>
                           /\ chainIndex' = c
                           /\ visitedChains' = {c}
                           /\ curr' = Last(chains[c])
    BY <1>14 DEF FindEntryChain
  <2>2. curr' \in Block
    BY <1>1, <2>1 DEF TypeOK, Last
  <2> QED
    BY <1>1, <1>2, <1>4, <1>14, <2>1, <2>2 DEF TypeOK, FindEntryChain
<1>15. CASE ChooseChain
  <2>1. newChain' \in Block
    BY <1>15 DEF ChooseChain
  <2> QED
    BY <1>1, <1>2, <1>4, <1>15, <2>1 DEF TypeOK, ChooseChain
<1>16. CASE SkipIteration
  BY <1>1, <1>2, <1>4, <1>16 DEF TypeOK, SkipIteration
<1>17. CASE MoveBlock
  <2> DEFINE b == chains[newChain][j]
  <2>1. b \in Block /\ curr \in Block
    BY <1>1, <1>17 DEF TypeOK, MoveBlock
  <2>2. IsPermutation(pos, fn.n)
    BY DEF IInv, LayoutValid
  <2>3. MoveAfter(pos, b, curr) \in [Block -> Block]
    <3>1. IsPermutation(MoveAfter(pos, b, curr), fn.n)
      BY <1>3, <2>1, <2>2, MoveAfterPermutes DEF Block
    <3> QED
      BY <3>1 DEF IsPermutation, Block
  <2>4. pos' \in [Block -> Block] /\ curr' \in Block
    BY <1>17, <2>1, <2>3 DEF MoveBlock
  <2>5. j' \in Nat \ {0} /\ moved' \in Nat
    BY <1>1, <1>17 DEF TypeOK, MoveBlock
  <2> QED
    BY <1>1, <1>2, <1>4, <1>17, <2>4, <2>5 DEF TypeOK, MoveBlock
<1>18. CASE EndChain
  BY <1>1, <1>2, <1>4, <1>18 DEF TypeOK, EndChain
<1>19. CASE Return
  BY <1>1, <1>2, <1>4, <1>19 DEF TypeOK, Return
<1>20. CASE UNCHANGED vars
  BY <1>1, <1>2, <1>4, <1>20 DEF TypeOK, vars
<1> QED
  BY <1>5, <1>6, <1>7, <1>8, <1>9, <1>10, <1>11, <1>12, <1>13, <1>14, <1>15, <1>16,
     <1>17, <1>18, <1>19, <1>20 DEF Next, Terminated

\* Only the walk adds arcs, each in its place.
LEMMA ArcsStep == IInv /\ [Next]_vars => ArcsSorted' /\ ArcsAreEdges'
<1> SUFFICES ASSUME IInv, [Next]_vars
             PROVE  ArcsSorted' /\ ArcsAreEdges'
  OBVIOUS
<1>1. TypeOK /\ ArcsSorted /\ ArcsAreEdges
  BY DEF IInv
<1>2. fn' = fn
  BY Frame
<1>3. CASE WalkSuccessor
  <2> DEFINE next == fn.succ[block][s]
             w    == GetEdgeWeight(<<block, next>>)
             arc  == [head |-> block, tail |-> next, weight |-> w]
  <2>1. block \in Block /\ s \in 1 .. Len(fn.succ[block])
    BY <1>1, <1>3 DEF TypeOK, WalkSuccessor
  <2>2. next \in Block
    BY <1>1, <2>1, SuccessorIsBlock DEF TypeOK
  <2>3. w \in Int
    BY <1>1, MissingValueAssumption DEF TypeOK, WellFormed, GetEdgeWeight
  <2>4. arc \in Arc
    BY <2>1, <2>2, <2>3 DEF Arc
  <2>5. PICK p \in 1 .. Len(arcs) + 1 : InsertionPoint(p, w) /\ arcs' = InsertAt(arcs, p, arc)
    BY <1>3 DEF WalkSuccessor
  <2>6. /\ Len(arcs') = Len(arcs) + 1
        /\ \A x \in 1 .. Len(arcs) + 1 :
             arcs'[x] = IF x < p THEN arcs[x] ELSE IF x = p THEN arc ELSE arcs[x - 1]
    BY <1>1, <2>4, <2>5, InsertAtProperties DEF TypeOK
  <2>7. Edge(arc.head, arc.tail)
    BY <2>1 DEF Edge
  <2>8. /\ arc.weight = w
        /\ Len(arcs) \in Nat
        /\ \A x \in 1 .. Len(arcs) : arcs[x].weight \in Int
    <3>1. arcs \in Seq(Arc)
      BY <1>1 DEF TypeOK
    <3>2. \A x \in 1 .. Len(arcs) : arcs[x] \in Arc
      BY <3>1
    <3>3. \A a \in Arc : a.weight \in Int
      BY DEF Arc
    <3> QED
      BY <3>1, <3>2, <3>3
  <2> HIDE DEF arc, w, next
  <2>9. ArcsAreEdges'
    <3> SUFFICES ASSUME NEW x \in 1 .. Len(arcs')
                 PROVE  Edge(arcs'[x].head, arcs'[x].tail)
      BY <1>2 DEF ArcsAreEdges, Edge
    <3>1. CASE x < p
      BY <1>1, <2>5, <2>6, <2>8, <3>1 DEF ArcsAreEdges
    <3>2. CASE x = p
      BY <2>6, <2>7, <2>8, <3>2
    <3>3. CASE x > p
      BY <1>1, <2>5, <2>6, <2>8, <3>3 DEF ArcsAreEdges
    <3> QED
      BY <2>5, <2>6, <2>8, <3>1, <3>2, <3>3
  <2>10. \A x \in 1 .. Len(arcs) : x < p => w < arcs[x].weight
    BY <2>5, <2>8 DEF InsertionPoint
  <2>11. \A x \in 1 .. Len(arcs) : p <= x => arcs[x].weight <= w
    <3> SUFFICES ASSUME NEW x \in 1 .. Len(arcs), p <= x
                 PROVE  arcs[x].weight <= w
      OBVIOUS
    <3>1. p \in 1 .. Len(arcs) /\ arcs[p].weight <= w
      BY <2>5, <2>8 DEF InsertionPoint
    <3>2. arcs[x].weight <= arcs[p].weight
      BY <1>1, <2>8, <3>1 DEF ArcsSorted
    <3> QED
      BY <2>3, <2>8, <3>1, <3>2
  <2>12. ArcsSorted'
    <3> SUFFICES ASSUME NEW x \in 1 .. Len(arcs'), NEW y \in 1 .. Len(arcs'), x < y
                 PROVE  arcs'[y].weight <= arcs'[x].weight
      BY DEF ArcsSorted
    <3>1. CASE y < p
      BY <1>1, <2>5, <2>6, <2>8, <3>1 DEF ArcsSorted
    <3>2. CASE y = p
      BY <2>3, <2>5, <2>6, <2>8, <2>10, <3>2
    <3>3. CASE x < p /\ y > p
      <4>1. arcs'[x] = arcs[x] /\ arcs'[y] = arcs[y - 1]
        BY <2>5, <2>6, <2>8, <3>3
      <4>2. x \in 1 .. Len(arcs) /\ y - 1 \in 1 .. Len(arcs) /\ p <= y - 1
        BY <2>5, <2>6, <2>8, <3>3
      <4>3. w < arcs[x].weight /\ arcs[y - 1].weight <= w
        BY <2>10, <2>11, <3>3, <4>2
      <4> QED
        BY <2>3, <2>8, <4>1, <4>2, <4>3
    <3>4. CASE x = p /\ y > p
      BY <2>3, <2>5, <2>6, <2>8, <2>11, <3>4
    <3>5. CASE x > p
      BY <1>1, <2>5, <2>6, <2>8, <3>5 DEF ArcsSorted
    <3> QED
      BY <2>5, <2>6, <2>8, <3>1, <3>2, <3>3, <3>4, <3>5
  <2> QED
    BY <2>9, <2>12
<1>4. CASE arcs' = arcs
  BY <1>1, <1>2, <1>4 DEF ArcsSorted, ArcsAreEdges, Edge
<1>5. arcs' = arcs \/ WalkSuccessor
  BY DEF Next, vars, bfsVars, PopBlock, EndSuccessors, EndWalk, AssertFails,
         BeginAppend, NextArc, AppendBlock, EndAppend, FindEntryChain, ChooseChain,
         SkipIteration, MoveBlock, EndChain, Return, Terminated
<1> QED
  BY <1>3, <1>4, <1>5

\* An append takes the first block of one chain to the end of another: this
\* keeps the chains a partition of the blocks and paths of the CFG.
LEMMA AppendBlockStep ==
  ASSUME IInv, AppendBlock
  PROVE  ChainsPartition' /\ ChainsArePaths' /\ EntryHeadsChain' /\ AppendInv'
<1>1. /\ TypeOK
      /\ ChainsDisjoint
      /\ ChainsCover
      /\ ChainsArePaths
      /\ EntryHeadsChain
      /\ AppendInv
  BY DEF IInv, ChainsPartition
<1>2. fn' = fn /\ Block' = Block /\ pc' = pc /\ src' = src /\ dst' = dst
  BY DEF AppendBlock, input, Block
<1>3. /\ src \in Block /\ dst \in Block
      /\ src # dst
      /\ src # Entry
      /\ chains[src] # << >>
      /\ chains[dst] # << >>
      /\ chains \in [Block -> Seq(Block)]
  BY <1>1 DEF TypeOK, AppendInv, AppendBlock, MoreToAppend
<1>4. /\ chains' \in [Block -> Seq(Block)]
      /\ chains'[dst] = Append(chains[dst], Head(chains[src]))
      /\ chains'[src] = Tail(chains[src])
      /\ \A e \in Block : e # src /\ e # dst => chains'[e] = chains[e]
  <2>1. chains' = MoveHead(chains, src, dst)
    BY DEF AppendBlock
  <2>2. /\ chains[src] \in Seq(Block) /\ chains[dst] \in Seq(Block)
        /\ Head(chains[src]) \in Block
        /\ Tail(chains[src]) \in Seq(Block)
        /\ Append(chains[dst], Head(chains[src])) \in Seq(Block)
    BY <1>3
  <2> QED
    BY <1>3, <2>1, <2>2 DEF MoveHead
<1> DEFINE ls == Len(chains[src])
           ld == Len(chains[dst])
<1>5. /\ \A c \in Block : chains[c] \in Seq(Block) /\ chains'[c] \in Seq(Block)
      /\ chains[src] \in Seq(Block)
      /\ chains[dst] \in Seq(Block)
      /\ chains'[src] \in Seq(Block)
      /\ chains'[dst] \in Seq(Block)
  BY <1>3, <1>4
<1>6. ls \in Nat \ {0} /\ ld \in Nat \ {0}
  BY <1>3, <1>5
<1>7. Head(chains[src]) = chains[src][1] /\ chains[src][1] \in Block
  BY <1>5, <1>6
<1>8. Len(chains'[dst]) = ld + 1 /\ Len(chains'[src]) = ls - 1
  BY <1>3, <1>4, <1>5, <1>7
<1>9. chains'[dst][ld + 1] = chains[src][1]
  BY <1>4, <1>5, <1>6, <1>7
<1>10. \A x \in 1 .. ld : chains'[dst][x] = chains[dst][x]
  BY <1>4, <1>5, <1>6, <1>7
<1>11. \A x \in 1 .. ls - 1 : chains'[src][x] = chains[src][x + 1]
  BY <1>4, <1>5, <1>6
<1>12. \A x \in 2 .. ls : chains'[src][x - 1] = chains[src][x]
  BY <1>4, <1>5, <1>6
<1> HIDE DEF ls, ld
\* Where the block at place x of chain c came from.
<1> DEFINE chainOf(c, x) == IF c = dst /\ x = ld + 1 THEN src ELSE c
           placeOf(c, x) == IF c = dst /\ x = ld + 1 THEN 1
                            ELSE IF c = src THEN x + 1 ELSE x
<1>13. ASSUME NEW c \in Block, NEW x \in 1 .. Len(chains'[c])
       PROVE  /\ chainOf(c, x) \in Block
              /\ placeOf(c, x) \in 1 .. Len(chains[chainOf(c, x)])
              /\ chains'[c][x] = chains[chainOf(c, x)][placeOf(c, x)]
  <2>1. CASE c = dst /\ x = ld + 1
    <3>1. 1 \in 1 .. Len(chains[src])
      BY <1>6 DEF ls
    <3> QED
      BY <1>3, <1>9, <2>1, <3>1
  <2>2. CASE c = dst /\ x # ld + 1
    <3>1. x \in 1 .. ld
      BY <1>6, <1>8, <2>2
    <3>2. chainOf(c, x) = c /\ placeOf(c, x) = x
      BY <1>3, <2>2
    <3> QED
      BY <1>10, <2>2, <3>1, <3>2 DEF ld
  <2>4. CASE c = src
    <3>1. x \in 1 .. ls - 1 /\ x + 1 \in 1 .. ls
      BY <1>6, <1>8, <2>4
    <3>2. chainOf(c, x) = c /\ placeOf(c, x) = x + 1
      BY <1>3, <2>4
    <3> QED
      BY <1>11, <2>4, <3>1, <3>2 DEF ls
  <2>3. CASE c # src /\ c # dst
    BY <1>4, <2>3
  <2> QED
    BY <2>1, <2>2, <2>3, <2>4
<1>14. ChainsDisjoint'
  <2> HIDE DEF chainOf, placeOf
  <2> SUFFICES ASSUME NEW c \in Block, NEW d \in Block,
                      NEW x \in 1 .. Len(chains'[c]), NEW y \in 1 .. Len(chains'[d]),
                      chains'[c][x] = chains'[d][y]
               PROVE  c = d /\ x = y
    BY <1>2 DEF ChainsDisjoint
  <2>1. /\ chainOf(c, x) \in Block
        /\ placeOf(c, x) \in 1 .. Len(chains[chainOf(c, x)])
        /\ chains'[c][x] = chains[chainOf(c, x)][placeOf(c, x)]
    BY <1>13
  <2>2. /\ chainOf(d, y) \in Block
        /\ placeOf(d, y) \in 1 .. Len(chains[chainOf(d, y)])
        /\ chains'[d][y] = chains[chainOf(d, y)][placeOf(d, y)]
    BY <1>13
  <2>3. chainOf(c, x) = chainOf(d, y) /\ placeOf(c, x) = placeOf(d, y)
    <3> DEFINE c0 == chainOf(c, x)  x0 == placeOf(c, x)
               d0 == chainOf(d, y)  y0 == placeOf(d, y)
    <3>1. /\ c0 \in Block /\ x0 \in 1 .. Len(chains[c0])
          /\ d0 \in Block /\ y0 \in 1 .. Len(chains[d0])
          /\ chains[c0][x0] = chains[d0][y0]
      BY <2>1, <2>2
    <3> HIDE DEF c0, x0, d0, y0
    <3>2. c0 = d0 /\ x0 = y0
      BY <1>1, <3>1 DEF ChainsDisjoint
    <3> QED
      BY <3>2 DEF c0, x0, d0, y0
  <2>4. /\ x \in Nat \ {0}
        /\ y \in Nat \ {0}
    OBVIOUS
  <2>5. CASE c = src /\ d = src
    BY <1>3, <2>3, <2>4, <2>5 DEF placeOf
  <2>6. CASE c # src /\ d = src
    <3>1. chainOf(d, y) = src /\ placeOf(d, y) = y + 1
      BY <1>3, <2>6 DEF chainOf, placeOf
    <3>2. placeOf(c, x) = 1
      BY <2>3, <2>6, <3>1 DEF chainOf, placeOf
    <3>3. y + 1 = 1
      BY <2>3, <3>1, <3>2
    <3> QED
      BY <2>4, <3>3
  <2>7. CASE c = src /\ d # src
    <3>1. chainOf(c, x) = src /\ placeOf(c, x) = x + 1
      BY <1>3, <2>7 DEF chainOf, placeOf
    <3>2. placeOf(d, y) = 1
      BY <2>3, <2>7, <3>1 DEF chainOf, placeOf
    <3>3. x + 1 = 1
      BY <2>3, <3>1, <3>2
    <3> QED
      BY <2>4, <3>3
  <2>8. CASE c # src /\ d # src
    <3>1. CASE chainOf(c, x) = src
      BY <1>3, <2>3, <2>8, <3>1 DEF chainOf
    <3>2. CASE chainOf(c, x) # src
      <4>1. chainOf(c, x) = c /\ placeOf(c, x) = x
        BY <2>8, <3>2 DEF chainOf, placeOf
      <4>2. chainOf(d, y) = d /\ placeOf(d, y) = y
        BY <2>3, <2>8, <3>2 DEF chainOf, placeOf
      <4> QED
        BY <2>3, <4>1, <4>2
    <3> QED
      BY <3>1, <3>2
  <2> QED
    BY <2>5, <2>6, <2>7, <2>8
<1>15. ChainsCover'
  <2> SUFFICES ASSUME NEW b \in Block
               PROVE  \E c \in Block : \E x \in 1 .. Len(chains'[c]) : chains'[c][x] = b
    BY <1>2 DEF ChainsCover
  <2>1. PICK c \in Block : \E x \in 1 .. Len(chains[c]) : chains[c][x] = b
    BY <1>1 DEF ChainsCover
  <2>2. PICK x \in 1 .. Len(chains[c]) : chains[c][x] = b
    BY <2>1
  <2>3. CASE c = src /\ x = 1
    <3>1. ld + 1 \in 1 .. Len(chains'[dst])
      BY <1>6, <1>8
    <3> QED
      BY <1>3, <1>9, <2>2, <2>3, <3>1
  <2>4. CASE c = src /\ x # 1
    <3>1. x \in 2 .. ls /\ x - 1 \in 1 .. Len(chains'[src])
      BY <1>6, <1>8, <2>4 DEF ls
    <3>2. chains'[src][x - 1] = b
      BY <1>12, <2>2, <2>4, <3>1
    <3> QED
      BY <1>3, <3>1, <3>2
  <2>5. CASE c = dst
    <3>1. x \in 1 .. ld /\ x \in 1 .. Len(chains'[dst])
      BY <1>6, <1>8, <2>5 DEF ld
    <3>2. chains'[dst][x] = b
      BY <1>10, <2>2, <2>5, <3>1
    <3> QED
      BY <1>3, <3>1, <3>2
  <2>6. CASE c # src /\ c # dst
    BY <1>4, <2>2, <2>6
  <2> QED
    BY <2>3, <2>4, <2>5, <2>6
<1>16. ChainsArePaths'
  <2> SUFFICES ASSUME NEW c \in Block, NEW x \in 1 .. Len(chains'[c]) - 1
               PROVE  Edge(chains'[c][x], chains'[c][x + 1])
    BY <1>2 DEF ChainsArePaths, Edge
  <2>1. CASE c = dst /\ x = ld
    <3>1. chains'[c][x] = Last(chains[dst]) /\ chains'[c][x + 1] = chains[src][1]
      BY <1>6, <1>9, <1>10, <2>1 DEF Last, ld
    <3>2. Edge(Last(chains[dst]), chains[src][1])
      BY <1>1, <1>3 DEF AppendInv, AppendBlock
    <3> QED
      BY <3>1, <3>2
  <2>2. CASE c = dst /\ x # ld
    <3>1. x \in 1 .. ld - 1 /\ x \in 1 .. ld /\ x + 1 \in 1 .. ld
      BY <1>6, <1>8, <2>2
    <3>2. chains'[c][x] = chains[c][x] /\ chains'[c][x + 1] = chains[c][x + 1]
      BY <1>10, <2>2, <3>1
    <3>3. Edge(chains[dst][x], chains[dst][x + 1])
      BY <1>1, <1>3, <3>1 DEF ChainsArePaths, ld
    <3> QED
      BY <2>2, <3>2, <3>3
  <2>3. CASE c = src
    <3>1. x \in 1 .. ls - 1 /\ x + 1 \in 1 .. ls - 1
      BY <1>6, <1>8, <2>3
    <3>2. chains'[c][x] = chains[c][x + 1] /\ chains'[c][x + 1] = chains[c][(x + 1) + 1]
      BY <1>11, <2>3, <3>1
    <3>3. Edge(chains[src][x + 1], chains[src][(x + 1) + 1])
      BY <1>1, <1>3, <3>1 DEF ChainsArePaths, ls
    <3> QED
      BY <2>3, <3>2, <3>3
  <2>4. CASE c # src /\ c # dst
    BY <1>1, <1>4, <2>4 DEF ChainsArePaths
  <2> QED
    BY <2>1, <2>2, <2>3, <2>4
<1>17. EntryHeadsChain'
  <2>1. Entry \in Block
    BY <1>1 DEF TypeOK, WellFormed, Block, Entry
  <2>2. CASE dst = Entry
    <3>1. chains'[dst][1] = chains[dst][1]
      BY <1>6, <1>10
    <3>2. chains'[dst] # << >>
      BY <1>6, <1>8
    <3> QED
      BY <1>1, <2>2, <3>1, <3>2 DEF EntryHeadsChain
  <2>3. CASE dst # Entry
    BY <1>1, <1>3, <1>4, <2>1, <2>3 DEF EntryHeadsChain
  <2> QED
    BY <2>2, <2>3
<1>18. AppendInv'
  <2>1. chains'[dst] # << >>
    BY <1>6, <1>8
  <2>2. ASSUME chains'[src] # << >>
        PROVE  Edge(Last(chains'[dst]), chains'[src][1])
    <3>1. ls - 1 # 0
      BY <1>5, <1>8, <2>2
    <3>2. 1 \in 1 .. ls - 1
      BY <1>6, <3>1
    <3>3. Last(chains'[dst]) = chains[src][1] /\ chains'[src][1] = chains[src][1 + 1]
      BY <1>8, <1>9, <1>11, <3>2 DEF Last
    <3>4. Edge(chains[src][1], chains[src][1 + 1])
      BY <1>1, <1>3, <3>2 DEF ChainsArePaths, ls
    <3> QED
      BY <3>3, <3>4
  <2> QED
    BY <1>2, <1>3, <2>1, <2>2 DEF AppendInv, Edge
<1> QED
  BY <1>14, <1>15, <1>16, <1>17, <1>18 DEF ChainsPartition

\* Merging keeps the chains a partition of the blocks and paths of the CFG.
LEMMA ChainsStep ==
  IInv /\ [Next]_vars =>
    ChainsPartition' /\ ChainsArePaths' /\ EntryHeadsChain' /\ AppendInv'
<1> SUFFICES ASSUME IInv, [Next]_vars
             PROVE  ChainsPartition' /\ ChainsArePaths' /\ EntryHeadsChain' /\ AppendInv'
  OBVIOUS
<1>1. /\ TypeOK
      /\ ArcsAreEdges
      /\ ChainsPartition
      /\ ChainsArePaths
      /\ EntryHeadsChain
      /\ AppendInv
  BY DEF IInv
<1>2. fn' = fn /\ Block' = Block
  BY Frame
<1>3. ASSUME chains' = chains
      PROVE  ChainsPartition' /\ ChainsArePaths' /\ EntryHeadsChain'
  <2>1. ChainsDisjoint'
    BY <1>1, <1>2, <1>3 DEF ChainsPartition, ChainsDisjoint
  <2>2. ChainsCover'
    BY <1>1, <1>2, <1>3 DEF ChainsPartition, ChainsCover
  <2>3. ChainsArePaths'
    <3>1. \A a, b : Edge(a, b)' = Edge(a, b)
      BY <1>2 DEF Edge
    <3> QED
      BY <1>1, <1>2, <1>3, <3>1, Zenon DEF ChainsArePaths
  <2>4. EntryHeadsChain'
    BY <1>1, <1>3 DEF EntryHeadsChain, Entry
  <2> QED
    BY <2>1, <2>2, <2>3, <2>4 DEF ChainsPartition
<1>4. CASE AppendBlock
  BY <1>4, AppendBlockStep
<1>5. CASE BeginAppend
  <2>1. PICK c \in Block, d \in Block :
          /\ Connects(arcs[ai], c, d)
          /\ src' = c
          /\ dst' = d
    BY <1>5 DEF BeginAppend
  <2>2. chains' = chains /\ ai \in 1 .. Len(arcs)
    BY <1>1, <1>5 DEF BeginAppend, TypeOK
  <2>3. Edge(arcs[ai].head, arcs[ai].tail)
    BY <1>1, <2>2 DEF ArcsAreEdges
  <2>4. Edge(Last(chains[d]), chains[c][1]) /\ chains[c][1] = arcs[ai].tail
    BY <2>1, <2>3 DEF Connects
  <2>5. arcs[ai].tail # Entry
    <3>1. arcs[ai] \in Arc
      BY <1>1, <2>2 DEF TypeOK
    <3>2. arcs[ai].head \in Block
      BY <3>1 DEF Arc
    <3>3. WellFormed(fn)
      BY <1>1 DEF TypeOK
    <3>4. PICK t \in 1 .. Len(fn.succ[arcs[ai].head]) : fn.succ[arcs[ai].head][t] = arcs[ai].tail
      BY <2>3 DEF Edge
    <3>5. fn.succ[arcs[ai].head][t] # Entry
      BY <3>2, <3>3, SuccessorIsBlock
    <3> QED
      BY <3>4, <3>5
  <2>6. c # Entry
    BY <1>1, <2>4, <2>5 DEF EntryHeadsChain
  <2>7. AppendInv'
    BY <1>2, <2>1, <2>2, <2>4, <2>6 DEF AppendInv, Connects, Edge
  <2> QED
    BY <1>3, <2>2, <2>7
<1>6. CASE UNCHANGED <<chains, src, dst>> /\ (pc' = "append" => pc = "append")
  BY <1>1, <1>2, <1>3, <1>6 DEF AppendInv, Edge
<1>7. \/ AppendBlock
      \/ BeginAppend
      \/ UNCHANGED <<chains, src, dst>> /\ (pc' = "append" => pc = "append")
  BY DEF Next, vars, mergeVars, PopBlock, WalkSuccessor, EndSuccessors, EndWalk,
         AssertFails, NextArc, EndAppend, FindEntryChain, ChooseChain, SkipIteration,
         MoveBlock, EndChain, Return, Terminated
<1> QED
  BY <1>4, <1>5, <1>6, <1>7

\* The layout moves no block of the entry chain, so the entry block stays first.
LEMMA LayoutStep == IInv /\ [Next]_vars => LayoutInv' /\ LayoutValid'
<1> SUFFICES ASSUME IInv, [Next]_vars
             PROVE  LayoutInv' /\ LayoutValid'
  OBVIOUS
<1>1. /\ TypeOK
      /\ ChainsDisjoint
      /\ EntryHeadsChain
      /\ LayoutInv
      /\ LayoutValid
  BY DEF IInv, ChainsPartition
<1>2. fn' = fn /\ Block' = Block
  BY Frame
<1>3. ASSUME pos' = pos
      PROVE  LayoutValid'
  BY <1>1, <1>2, <1>3 DEF LayoutValid
<1>4. CASE FindEntryChain
  <2>1. PICK c \in Block : /\ chains[c] # << >>
                           /\ chains[c][1] = Entry
                           /\ visitedChains' = {c}
    BY <1>4 DEF FindEntryChain
  <2>2. Entry \in Block
    BY <1>1 DEF TypeOK, WellFormed, Block, Entry
  <2>3. 1 \in 1 .. Len(chains[c]) /\ 1 \in 1 .. Len(chains[Entry])
    <3>1. chains[c] \in Seq(Block) /\ chains[Entry] \in Seq(Block)
      BY <1>1, <2>2 DEF TypeOK
    <3> QED
      BY <1>1, <2>1, <3>1 DEF EntryHeadsChain
  <2>4. c = Entry
    BY <1>1, <2>1, <2>2, <2>3 DEF ChainsDisjoint, EntryHeadsChain
  <2>5. LayoutInv'
    BY <1>4, <2>1, <2>4 DEF LayoutInv, FindEntryChain
  <2> QED
    BY <1>3, <1>4, <2>5 DEF FindEntryChain
<1>5. CASE ChooseChain
  <2>1. newChain' \in Candidates
    <3>1. PICK c \in Block : NextChain(c) /\ newChain' = c
      BY <1>5 DEF ChooseChain
    <3>2. c # None
      BY <1>1 DEF Block, None, TypeOK, WellFormed
    <3> QED
      BY <3>1, <3>2 DEF NextChain, Linked
  <2>2. LayoutInv'
    BY <1>1, <1>5, <2>1 DEF LayoutInv, ChooseChain, Candidates
  <2> QED
    BY <1>3, <1>5, <2>2 DEF ChooseChain
<1>6. CASE MoveBlock
  <2> DEFINE b == chains[newChain][j]
  <2>1. /\ newChain \in Block
        /\ newChain # Entry
        /\ j \in 1 .. Len(chains[newChain])
    BY <1>1, <1>6 DEF TypeOK, LayoutInv, MoveBlock
  <2>2. Entry \in Block /\ fn.n \in Nat \ {0}
    BY <1>1 DEF TypeOK, WellFormed, Block, Entry
  <2>3. b \in Block /\ curr \in Block
    BY <1>1, <1>6, <2>1 DEF TypeOK, MoveBlock
  <2>4. 1 \in 1 .. Len(chains[Entry])
    <3>1. chains[Entry] \in Seq(Block)
      BY <1>1, <2>2 DEF TypeOK
    <3> QED
      BY <1>1, <3>1 DEF EntryHeadsChain
  <2>5. b # Entry
    BY <1>1, <2>1, <2>2, <2>4 DEF ChainsDisjoint, EntryHeadsChain
  <2>6. pos' = MoveAfter(pos, b, curr)
    BY <1>6 DEF MoveBlock
  <2>7. /\ IsPermutation(pos, fn.n)
        /\ b \in 1 .. fn.n
        /\ curr \in 1 .. fn.n
        /\ Entry \in 1 .. fn.n
        /\ pos[Entry] = 1
    BY <1>1, <2>2, <2>3 DEF LayoutValid, Block
  <2> HIDE DEF b
  <2>8. IsPermutation(pos', fn.n) /\ pos'[Entry] = 1
    BY <2>2, <2>5, <2>6, <2>7, MoveAfterPermutes, MoveAfterKeepsFirst
  <2>9. LayoutValid'
    BY <1>2, <2>8 DEF LayoutValid
  <2> QED
    BY <1>1, <1>6, <2>9 DEF LayoutInv, MoveBlock
<1>7. CASE EndChain
  BY <1>1, <1>3, <1>7 DEF LayoutInv, EndChain
<1>8. CASE SkipIteration
  BY <1>1, <1>3, <1>8 DEF LayoutInv, SkipIteration
<1>9. CASE pos' = pos /\ pc' \notin {"choose", "move"}
  BY <1>3, <1>9 DEF LayoutInv
<1>10. CASE UNCHANGED vars
  BY <1>1, <1>3, <1>10 DEF LayoutInv, vars, placeVars
<1>11. \/ FindEntryChain \/ ChooseChain \/ MoveBlock \/ EndChain \/ SkipIteration
       \/ pos' = pos /\ pc' \notin {"choose", "move"}
       \/ UNCHANGED vars
  BY DEF Next, placeVars, PopBlock, WalkSuccessor, EndSuccessors, EndWalk, AssertFails,
         BeginAppend, NextArc, AppendBlock, EndAppend, Return, Terminated
<1> QED
  BY <1>4, <1>5, <1>6, <1>7, <1>8, <1>9, <1>10, <1>11

-----------------------------------------------------------------------------
(* The theorems *)

\* The inductive invariant holds in every state of the pass.
THEOREM InvariantHolds == Spec => []IInv
<1>1. Init => IInv
  BY InitIInv
<1>2. IInv /\ [Next]_vars => IInv'
  BY TypeStep, ArcsStep, ChainsStep, LayoutStep DEF IInv
<1> QED
  BY <1>1, <1>2, PTL DEF Spec

\* Every subscript of "chains" and every block the pass handles is in range.
THEOREM TypeCorrect == Spec => []TypeOK
BY InvariantHolds, PTL DEF IInv

\* The arcs are merged from the heaviest to the lightest.
THEOREM ArcsStaySorted == Spec => []ArcsSorted
<1>1. IInv => ArcsSorted
  BY DEF IInv
<1> QED
  BY <1>1, InvariantHolds, PTL

\* Merging neither loses nor duplicates a block.
THEOREM NoBlockLost == Spec => []ChainsPartition
<1>1. IInv => ChainsPartition
  BY DEF IInv
<1> QED
  BY <1>1, InvariantHolds, PTL

\* Neighbours in a chain are joined by an edge, however appends split chains.
THEOREM ChainsStayPaths == Spec => []ChainsArePaths
<1>1. IInv => ChainsArePaths
  BY DEF IInv
<1> QED
  BY <1>1, InvariantHolds, PTL

\* The search for the chain of the entry block always succeeds.
THEOREM EntryChainFound == Spec => []EntryHeadsChain
<1>1. IInv => EntryHeadsChain
  BY DEF IInv
<1> QED
  BY <1>1, InvariantHolds, PTL

\* The pass permutes the blocks of the function and keeps the entry block first.
THEOREM LayoutStaysValid == Spec => []LayoutValid
<1>1. IInv => LayoutValid
  BY DEF IInv
<1> QED
  BY <1>1, InvariantHolds, PTL

-----------------------------------------------------------------------------
(* The walk: the inductive invariant *)

Elements(q) == {q[x] : x \in 1 .. Len(q)}

\* The blocks the walk knows of
Found == visited \cup Elements(queue)

\* Slot t of the terminator of block x has been walked since x was popped.
Walked(x, t) == pc = "succ" /\ x = block => t < s

\* The successor in a slot has been found, and the arc to it recorded.
Recorded(x, t) ==
  /\ fn.succ[x][t] \in Found
  /\ \E a \in Elements(arcs) : a.head = x /\ a.tail = fn.succ[x][t]

WalkInv ==
  /\ Entry \in Found /\ Found \subseteq Reachable
  /\ pc = "succ" => block \in visited
  /\ pc \notin {"walk", "succ"} => queue = << >>
  /\ \A a \in Elements(arcs) : a.head \in visited
  /\ \A x \in visited : \A t \in 1 .. Len(fn.succ[x]) : Walked(x, t) => Recorded(x, t)

-----------------------------------------------------------------------------
(* Lemmas *)

\* The elements of a queue that grows and shrinks, and of the arcs
LEMMA QueueElements ==
  ASSUME NEW S, NEW q \in Seq(S)
  PROVE  /\ \A e \in S : Elements(Append(q, e)) = Elements(q) \cup {e}
         /\ q # << >> => Elements(q) = {Head(q)} \cup Elements(Tail(q))
<1>1. ASSUME NEW e \in S
      PROVE  Elements(Append(q, e)) = Elements(q) \cup {e}
  <2>1. /\ Len(Append(q, e)) = Len(q) + 1 /\ Len(q) \in Nat
        /\ \A x \in 1 .. Len(q) : Append(q, e)[x] = q[x]
        /\ Append(q, e)[Len(q) + 1] = e
    OBVIOUS
  <2>2. 1 .. Len(q) + 1 = (1 .. Len(q)) \cup {Len(q) + 1}
    BY <2>1
  <2> QED
    BY <2>1, <2>2 DEF Elements
<1>2. ASSUME q # << >>
      PROVE  Elements(q) = {Head(q)} \cup Elements(Tail(q))
  <2>1. /\ Len(q) \in Nat \ {0} /\ Len(Tail(q)) = Len(q) - 1
        /\ Head(q) = q[1] /\ \A x \in 1 .. Len(q) - 1 : Tail(q)[x] = q[x + 1]
    BY <1>2
  <2>2. \A x \in 2 .. Len(q) : q[x] = Tail(q)[x - 1] /\ x - 1 \in 1 .. Len(Tail(q))
    BY <2>1
  <2>3. \A x \in 1 .. Len(Tail(q)) : Tail(q)[x] = q[x + 1] /\ x + 1 \in 1 .. Len(q)
    BY <2>1
  <2>4. 1 .. Len(q) = {1} \cup (2 .. Len(q))
    BY <2>1
  <2>5. ASSUME NEW x \in 1 .. Len(q)
        PROVE  q[x] \in {Head(q)} \cup Elements(Tail(q))
    BY <2>1, <2>2, <2>4 DEF Elements
  <2>6. Head(q) \in Elements(q)
    BY <2>1, <2>4 DEF Elements
  <2>7. ASSUME NEW x \in 1 .. Len(Tail(q))
        PROVE  Tail(q)[x] \in Elements(q)
    BY <2>3 DEF Elements
  <2> QED
    BY <2>5, <2>6, <2>7 DEF Elements
<1> QED
  BY <1>1, <1>2

\* Inserting an arc adds it to the arcs, wherever it goes.
LEMMA InsertedElements ==
  ASSUME NEW S, NEW q \in Seq(S), NEW p \in 1 .. Len(q) + 1, NEW e \in S
  PROVE  Elements(InsertAt(q, p, e)) = Elements(q) \cup {e}
<1>1. PICK L, r : L = Len(q) /\ r = InsertAt(q, p, e)
  OBVIOUS
<1>2. L \in Nat /\ p \in 1 .. L + 1
  BY <1>1
<1>3. Inserted(r, q, L, p, e)
  BY <1>1, <1>2, InsertAtFacts
<1>4. Len(r) = L + 1 /\ p \in 1 .. Len(r) /\ r[p] = e
  BY <1>2, <1>3 DEF Inserted
<1>5. \A x \in 1 .. Len(r) : r[x] = e \/ \E y \in 1 .. L : r[x] = q[y]
  <2> SUFFICES ASSUME NEW x \in 1 .. Len(r)
               PROVE  r[x] = e \/ \E y \in 1 .. L : r[x] = q[y]
    OBVIOUS
  <2>1. CASE x < p
    <3>1. x \in 1 .. p - 1 /\ x \in 1 .. L
      BY <1>2, <1>4, <2>1
    <3> QED
      BY <1>3, <3>1 DEF Inserted
  <2>2. CASE x = p
    BY <1>4, <2>2
  <2>3. CASE x > p
    <3>1. PICK y : y = x - 1 /\ y \in p .. L /\ y \in 1 .. L /\ y + 1 = x
      BY <1>2, <1>4, <2>3
    <3> QED
      BY <1>3, <3>1 DEF Inserted
  <2> QED
    BY <1>2, <1>4, <2>1, <2>2, <2>3
<1>6. \A y \in 1 .. L : \E x \in 1 .. Len(r) : r[x] = q[y]
  <2> SUFFICES ASSUME NEW y \in 1 .. L
               PROVE  \E x \in 1 .. Len(r) : r[x] = q[y]
    OBVIOUS
  <2>1. CASE y < p
    <3>1. y \in 1 .. p - 1 /\ y \in 1 .. Len(r)
      BY <1>2, <1>4, <2>1
    <3> QED
      BY <1>3, <3>1 DEF Inserted
  <2>2. CASE y >= p
    <3>1. PICK x : x = y + 1 /\ y \in p .. L /\ x \in 1 .. Len(r)
      BY <1>2, <1>4, <2>2
    <3>2. r[x] = q[y]
      BY <1>3, <3>1 DEF Inserted
    <3> QED
      BY <3>1, <3>2
  <2> QED
    BY <1>2, <2>1, <2>2
<1>7. Elements(r) = Elements(q) \cup {e}
  BY <1>1, <1>4, <1>5, <1>6 DEF Elements
<1> QED
  BY <1>1, <1>7

\* What can be reached is a set of blocks that has the entry block and the
\* successors of its blocks.
LEMMA ReachableClosed ==
  ASSUME TypeOK
  PROVE  /\ Entry \in Reachable /\ Reachable \subseteq Block
         /\ \A x \in Reachable, y \in Block : Edge(x, y) => y \in Reachable
<1>1. Entry \in Block
  BY DEF TypeOK, WellFormed, Block, Entry
<1>2. Entry \in Reachable /\ Reachable \subseteq Block
  BY <1>1 DEF Reachable
<1>3. ASSUME NEW x \in Reachable, NEW y \in Block, Edge(x, y)
      PROVE  y \in Reachable
  BY <1>3 DEF Reachable
<1> QED
  BY <1>2, <1>3

-----------------------------------------------------------------------------
(* The walk keeps the invariant *)

\* The walk begins with the entry block in the queue and nothing visited.
LEMMA InitWalkInv == Init => WalkInv
<1> SUFFICES ASSUME Init
             PROVE  WalkInv
  OBVIOUS
<1>1. TypeOK
  BY InitIInv DEF IInv
<1>2. Elements(queue) = {Entry} /\ Elements(arcs) = {} /\ visited = {} /\ pc = "walk"
  BY DEF Init, Elements
<1>3. Found = {Entry} /\ Entry \in Reachable
  BY <1>1, <1>2, ReachableClosed DEF Found
<1> QED
  BY <1>2, <1>3 DEF WalkInv

\* A step that leaves the walk as it is, between two blocks or behind it
LEMMA WalkKept ==
  ASSUME IInv, WalkInv, [Next]_vars, UNCHANGED bfsVars, pc' # "succ",
         pc' \notin {"walk", "succ"} => queue = << >>,
         pc = "succ" => s > Len(fn.succ[block])
  PROVE  WalkInv'
<1>1. /\ queue' = queue /\ visited' = visited /\ block' = block /\ s' = s /\ arcs' = arcs
      /\ fn' = fn /\ Block' = Block
  BY Frame DEF bfsVars
<1>2. Found' = Found /\ Reachable' = Reachable /\ Elements(arcs') = Elements(arcs)
  BY <1>1 DEF Found, Reachable, Edge
<1>3. \A x \in visited : \A t \in 1 .. Len(fn.succ[x]) : Recorded(x, t)
  <2> SUFFICES ASSUME NEW x \in visited, NEW t \in 1 .. Len(fn.succ[x])
               PROVE  Recorded(x, t)
    OBVIOUS
  <2>1. Walked(x, t)
    <3> SUFFICES ASSUME pc = "succ", x = block
                 PROVE  t < s
      BY DEF Walked
    <3>1. s > Len(fn.succ[block]) /\ s \in Nat /\ Len(fn.succ[block]) \in Nat
      <4>1. s \in Nat /\ block \in Block /\ fn.succ \in [Block -> Seq(2 .. fn.n)]
        BY DEF IInv, TypeOK, WellFormed, Block
      <4> QED
        BY <4>1
    <3> QED
      BY <3>1
  <2> QED
    BY <2>1 DEF WalkInv
<1>4. \A x \in visited : \A t \in 1 .. Len(fn.succ[x]) : Recorded(x, t)'
  BY <1>1, <1>2, <1>3 DEF Recorded
<1> QED
  BY <1>1, <1>2, <1>4 DEF WalkInv

\* A block that is popped again has all its slots to be walked again.
LEMMA PopBlockStep ==
  ASSUME IInv, WalkInv, PopBlock
  PROVE  WalkInv'
<1>1. /\ pc = "walk" /\ pc' = "succ" /\ fn' = fn /\ Block' = Block /\ arcs' = arcs
      /\ queue # << >> /\ block' = Head(queue) /\ queue' = Tail(queue)
      /\ visited' = visited \cup {block'} /\ s' = 1
  BY DEF PopBlock, input, Block
<1>2. Elements(queue) = {block'} \cup Elements(queue')
  <2>1. queue \in Seq(Block)
    BY DEF IInv, TypeOK
  <2> QED
    BY <1>1, <2>1, QueueElements
<1>3. Found' = Found /\ Reachable' = Reachable
  BY <1>1, <1>2 DEF Found, Reachable, Edge
<1>4. ASSUME NEW x \in visited', NEW t \in 1 .. Len(fn'.succ[x]), Walked(x, t)'
      PROVE  Recorded(x, t)'
  <2>1. x # block'
    <3> SUFFICES ASSUME x = block' PROVE FALSE
      OBVIOUS
    <3>1. t < 1
      BY <1>1, <1>4 DEF Walked
    <3> QED
      BY <3>1
  <2>2. x \in visited /\ Walked(x, t) /\ t \in 1 .. Len(fn.succ[x])
    BY <1>1, <1>4, <2>1 DEF Walked
  <2>3. Recorded(x, t)
    BY <2>2 DEF WalkInv
  <2> QED
    BY <1>1, <1>3, <2>3 DEF Recorded
<1> QED
  BY <1>1, <1>3, <1>4 DEF WalkInv

\* A successor that was not popped before is queued, and its arc recorded.
LEMMA WalkSuccessorStep ==
  ASSUME IInv, WalkInv, WalkSuccessor
  PROVE  WalkInv'
<1> DEFINE next == fn.succ[block][s]
           w    == GetEdgeWeight(<<block, next>>)
           arc  == [head |-> block, tail |-> next, weight |-> w]
<1>1. /\ pc = "succ" /\ pc' = pc /\ fn' = fn /\ Block' = Block /\ s' = s + 1
      /\ visited' = visited /\ block' = block /\ queue' = Enqueue(next)
  BY DEF WalkSuccessor, input, Block
<1>2. /\ TypeOK /\ block \in Block /\ s \in 1 .. Len(fn.succ[block]) /\ queue \in Seq(Block)
      /\ block \in visited
  BY <1>1 DEF IInv, TypeOK, WalkInv, WalkSuccessor
<1>3. next \in Block
  BY <1>2, SuccessorIsBlock DEF TypeOK
<1>4. Elements(arcs') = Elements(arcs) \cup {arc}
  <2>1. w \in Int
    BY <1>2, MissingValueAssumption DEF TypeOK, WellFormed, GetEdgeWeight
  <2>2. arc \in Arc
    BY <1>2, <1>3, <2>1 DEF Arc
  <2>3. PICK p \in 1 .. Len(arcs) + 1 : arcs' = InsertAt(arcs, p, arc)
    BY DEF WalkSuccessor
  <2>4. arcs \in Seq(Arc)
    BY <1>2 DEF TypeOK
  <2> HIDE DEF arc
  <2> QED
    BY <2>2, <2>3, <2>4, InsertedElements
<1>5. Found' = Found \cup {next}
  <2>1. CASE next \in visited
    BY <1>1, <2>1 DEF Found, Enqueue
  <2>2. CASE next \notin visited
    <3>1. queue' = Append(queue, next)
      BY <1>1, <2>2 DEF Enqueue
    <3> HIDE DEF next
    <3>2. Elements(queue') = Elements(queue) \cup {next}
      BY <1>2, <1>3, <3>1, QueueElements
    <3> QED
      BY <1>1, <3>2 DEF Found
  <2> QED
    BY <2>1, <2>2
<1>6. arc.head = block /\ arc.tail = next
  OBVIOUS
<1>7. Reachable' = Reachable
  BY <1>1 DEF Reachable, Edge
<1>8. next \in Reachable
  <2>1. Edge(block, next)
    BY <1>2 DEF Edge
  <2>2. block \in Reachable
    BY <1>2 DEF WalkInv, Found
  <2> HIDE DEF next
  <2> QED
    BY <1>2, <1>3, <2>1, <2>2, ReachableClosed
<1>9. ASSUME NEW x \in visited', NEW t \in 1 .. Len(fn'.succ[x]), Walked(x, t)'
      PROVE  Recorded(x, t)'
  <2>1. CASE x = block /\ t = s
    BY <1>1, <1>4, <1>5, <1>6, <2>1 DEF Recorded
  <2>2. CASE ~(x = block /\ t = s)
    <3>1. Walked(x, t)
      BY <1>1, <1>2, <1>9, <2>2 DEF Walked
    <3>2. Recorded(x, t)
      BY <1>1, <1>9, <3>1 DEF WalkInv
    <3> HIDE DEF arc, next
    <3> QED
      BY <1>1, <1>4, <1>5, <3>2 DEF Recorded
  <2> QED
    BY <2>1, <2>2
<1> HIDE DEF arc, next
<1>10. \A a \in Elements(arcs') : a.head \in visited'
  BY <1>1, <1>2, <1>4, <1>6 DEF WalkInv
<1> QED
  BY <1>1, <1>2, <1>5, <1>7, <1>8, <1>9, <1>10 DEF WalkInv

\* Every step of the pass keeps the invariant.
LEMMA NextWalkInv == IInv /\ WalkInv /\ [Next]_vars => WalkInv'
<1> SUFFICES ASSUME IInv, WalkInv, [Next]_vars
             PROVE  WalkInv'
  OBVIOUS
<1>1. CASE PopBlock
  BY <1>1, PopBlockStep
<1>2. CASE WalkSuccessor
  BY <1>2, WalkSuccessorStep
<1>3. CASE EndSuccessors
  BY <1>3, WalkKept DEF EndSuccessors
<1>4. CASE EndWalk \/ AssertFails
  BY <1>4, WalkKept DEF EndWalk, AssertFails
<1>5. CASE UNCHANGED bfsVars /\ {pc, pc'} \cap {"walk", "succ"} = {}
  BY <1>5, WalkKept DEF WalkInv
<1>6. CASE UNCHANGED vars
  <2>1. UNCHANGED <<fn, pc, queue, visited, block, s, arcs>>
    BY <1>6 DEF vars, input, bfsVars
  <2>2. Found' = Found /\ Block' = Block
    BY <2>1 DEF Found, Block
  <2>3. Reachable' = Reachable
    BY <2>1, <2>2 DEF Reachable, Edge
  <2>4. \A x, t : (Walked(x, t)' <=> Walked(x, t)) /\ (Recorded(x, t)' <=> Recorded(x, t))
    BY <2>1, <2>2 DEF Walked, Recorded
  <2> QED
    BY <2>1, <2>2, <2>3, <2>4 DEF WalkInv
<1>7. BeginAppend \/ NextArc \/ AppendBlock \/ EndAppend =>
        UNCHANGED bfsVars /\ {pc, pc'} \cap {"walk", "succ"} = {}
  BY DEF BeginAppend, NextArc, AppendBlock, EndAppend
<1>8. FindEntryChain \/ ChooseChain \/ SkipIteration \/ MoveBlock \/ EndChain \/ Return =>
        UNCHANGED bfsVars /\ {pc, pc'} \cap {"walk", "succ"} = {}
  BY DEF FindEntryChain, ChooseChain, SkipIteration, MoveBlock, EndChain, Return
<1> QED
  BY <1>1, <1>2, <1>3, <1>4, <1>5, <1>6, <1>7, <1>8 DEF Next, Terminated

-----------------------------------------------------------------------------
(* The theorems *)

\* What the walk knows of can be reached, and what it has walked is recorded.
THEOREM WalkInvHolds == Spec => []WalkInv
<1>1. Init => WalkInv
  BY InitWalkInv
<1>2. IInv /\ WalkInv /\ [Next]_vars => WalkInv'
  BY NextWalkInv
<1> QED
  BY <1>1, <1>2, InvariantHolds, PTL DEF Spec

\* When the walk ends it has visited the blocks that can be reached, and no
\* others, and recorded every edge that leaves one of them: for functions of
\* any size, with loops, parallel edges and unreachable blocks.
THEOREM WalkIsComplete == Spec => []WalkComplete
<1>1. IInv /\ WalkInv => WalkComplete
  <2> SUFFICES ASSUME IInv, WalkInv, pc \notin {"walk", "succ"}
               PROVE  /\ visited = Reachable
                      /\ {<<arcs[p].head, arcs[p].tail>> : p \in 1 .. Len(arcs)}
                           = {e \in visited \X Block : Edge(e[1], e[2])}
    BY DEF WalkComplete
  <2>1. TypeOK /\ ArcsAreEdges /\ visited \in SUBSET Block
    BY DEF IInv, TypeOK
  <2>2. visited = Found
    <3>1. Elements(queue) = {}
      BY DEF WalkInv, Elements
    <3> QED
      BY <3>1 DEF Found
  <2>3. \A x \in visited : \A t \in 1 .. Len(fn.succ[x]) : Recorded(x, t)
    BY DEF WalkInv, Walked
  <2>4. \A x \in visited, y \in Block : Edge(x, y) => y \in visited
    BY <2>2, <2>3 DEF Edge, Recorded
  <2>5. Reachable \subseteq visited
    BY <2>1, <2>2, <2>4 DEF Reachable, WalkInv
  <2>6. visited = Reachable
    BY <2>2, <2>5 DEF WalkInv
  <2>7. ASSUME NEW p \in 1 .. Len(arcs)
        PROVE  <<arcs[p].head, arcs[p].tail>> \in {e \in visited \X Block : Edge(e[1], e[2])}
    <3>1. arcs[p].head \in visited
      BY DEF WalkInv, Elements
    <3>2. Edge(arcs[p].head, arcs[p].tail)
      BY <2>1 DEF ArcsAreEdges
    <3>3. arcs[p] \in Arc
      BY <2>1 DEF TypeOK
    <3>4. arcs[p].tail \in Block
      BY <3>3 DEF Arc
    <3> QED
      BY <3>1, <3>2, <3>4
  <2>8. ASSUME NEW x \in visited, NEW y \in Block, Edge(x, y)
        PROVE  \E p \in 1 .. Len(arcs) : arcs[p].head = x /\ arcs[p].tail = y
    <3>1. PICK t \in 1 .. Len(fn.succ[x]) : fn.succ[x][t] = y
      BY <2>8 DEF Edge
    <3>2. Recorded(x, t)
      BY <2>3, <3>1
    <3> QED
      BY <3>1, <3>2 DEF Recorded, Elements
  <2>9. {<<arcs[p].head, arcs[p].tail>> : p \in 1 .. Len(arcs)}
          = {e \in visited \X Block : Edge(e[1], e[2])}
    <3>1. ASSUME NEW e \in {f \in visited \X Block : Edge(f[1], f[2])}
          PROVE  e \in {<<arcs[p].head, arcs[p].tail>> : p \in 1 .. Len(arcs)}
      <4>1. e[1] \in visited /\ e[2] \in Block /\ Edge(e[1], e[2]) /\ e = <<e[1], e[2]>>
        OBVIOUS
      <4>2. PICK p \in 1 .. Len(arcs) : arcs[p].head = e[1] /\ arcs[p].tail = e[2]
        BY <2>8, <4>1
      <4> QED
        BY <4>1, <4>2
    <3> QED
      BY <2>7, <3>1
  <2> QED
    BY <2>6, <2>9
<1> QED
  BY <1>1, WalkInvHolds, InvariantHolds, PTL

-----------------------------------------------------------------------------
(* The layout: the inductive invariant *)

Layout == {"choose", "move", "return"}

Filled == {c \in Block : chains[c] # << >>}

\* The chains that are left to place, and the iterations that can place one
Unplaced == Filled \ visitedChains
Rounds   == {r \in Filled : i <= r}

\* There are more iterations left than chains, or one chain whose own index
\* the loop has passed: no iteration that is left refuses it.
EnoughRounds ==
  \/ Unplaced = {}
  \/ Cardinality(Unplaced) < Cardinality(Rounds)
  \/ Rounds # {} /\ \E u \in Block : Unplaced = {u} /\ u < i

\* The chains that have been placed, and the blocks that have been moved
PlacedChains == visitedChains \ {Entry}
FirstOf(c, m) == {chains[c][x] : x \in 1 .. m}
Moved(b) ==
  \/ \E c \in PlacedChains : b \in FirstOf(c, Len(chains[c]))
  \/ pc = "move" /\ b \in FirstOf(newChain, j - 1)
MovedBlocks == {b \in Block : Moved(b)}

\* The first m blocks of chain c follow one another.
Follows(p, a, b) == p[b] = p[a] + 1
InOnePiece(c, m) == \A x \in 1 .. m - 1 : Follows(pos, chains[c][x], chains[c][x + 1])

ChainsPlaced ==
  /\ visitedChains \subseteq Filled /\ Entry \in visitedChains /\ chainIndex \in visitedChains
  /\ \A c \in PlacedChains : InOnePiece(c, Len(chains[c]))
  /\ moved = Cardinality(MovedBlocks)

\* curr is the last block that has its place.
AtCurr ==
  /\ pc = "choose" \/ (pc = "move" /\ j = 1) => curr = Last(chains[chainIndex])
  /\ pc = "move" /\ j > 1 => curr = chains[newChain][j - 1]

PlacingChain ==
  pc = "move" =>
    /\ i \in Filled /\ newChain \in Candidates
    /\ j <= Len(chains[newChain]) + 1
    /\ InOnePiece(newChain, j - 1)

PlaceInv ==
  /\ pc \notin Layout => moved = 0
  /\ pc \in Layout => EnoughRounds /\ ChainsPlaced /\ AtCurr /\ PlacingChain
  /\ pc = "return" => i > fn.n

-----------------------------------------------------------------------------
(* Lemmas *)

\* Moving a block leaves two other neighbours neighbours, unless it goes
\* behind the first of them.
LEMMA NeighboursStay ==
  ASSUME NEW q \in Int, NEW from \in Int, NEW to \in Int,
         from # q, from # q + 1, to # q
  PROVE  NewPlace(q + 1, from, to) = NewPlace(q, from, to) + 1
<1>1. CASE from < to
  BY <1>1 DEF NewPlace
<1>2. CASE to < from
  BY <1>2 DEF NewPlace
<1>3. CASE from = to
  BY <1>3 DEF NewPlace
<1> QED
  BY <1>1, <1>2, <1>3

\* The same, said of the blocks of a list
LEMMA MoveKeepsFollows ==
  ASSUME NEW n \in Nat \ {0}, NEW p, IsPermutation(p, n),
         NEW b \in 1 .. n, NEW c \in 1 .. n, NEW u \in 1 .. n, NEW v \in 1 .. n,
         Follows(p, u, v), b # u, b # v, c # u
  PROVE  Follows(MoveAfter(p, b, c), u, v)
<1>1. /\ MoveAfter(p, b, c)[u] = NewPlace(p[u], p[b], p[c])
      /\ MoveAfter(p, b, c)[v] = NewPlace(p[v], p[b], p[c])
  BY DEF MoveAfter, IsPermutation
<1>2. p[u] \in Int /\ p[b] \in Int /\ p[c] \in Int
  <2>1. p \in [1 .. n -> 1 .. n]
    BY Zenon DEF IsPermutation
  <2>2. p[u] \in 1 .. n /\ p[b] \in 1 .. n /\ p[c] \in 1 .. n
    BY <2>1, Zenon
  <2> QED
    BY <2>2
<1>3. p[v] = p[u] + 1 /\ p[b] # p[u] /\ p[b] # p[u] + 1 /\ p[c] # p[u]
  BY DEF IsPermutation, Follows
<1>4. NewPlace(p[u] + 1, p[b], p[c]) = NewPlace(p[u], p[b], p[c]) + 1
  BY <1>2, <1>3, NeighboursStay
<1> QED
  BY <1>1, <1>3, <1>4 DEF Follows

\* A block that is moved follows the block it goes behind.
LEMMA MoveJoins ==
  ASSUME NEW n \in Nat \ {0}, NEW p, IsPermutation(p, n),
         NEW b \in 1 .. n, NEW c \in 1 .. n, b # c
  PROVE  Follows(MoveAfter(p, b, c), c, b)
<1>1. /\ MoveAfter(p, b, c)[b] = NewPlace(p[b], p[b], p[c])
      /\ MoveAfter(p, b, c)[c] = NewPlace(p[c], p[b], p[c])
  BY DEF MoveAfter, IsPermutation
<1>2. p[b] \in Int /\ p[c] \in Int /\ p[b] # p[c]
  BY DEF IsPermutation
<1>3. NewPlace(p[b], p[b], p[c]) = NewPlace(p[c], p[b], p[c]) + 1
  BY <1>2 DEF NewPlace
<1> QED
  BY <1>1, <1>3 DEF Follows

\* The blocks of the function are finitely many.
LEMMA BlocksFinite ==
  ASSUME TypeOK
  PROVE  /\ IsFiniteSet(Block) /\ Cardinality(Block) = fn.n
         /\ \A S \in SUBSET Block : IsFiniteSet(S) /\ Cardinality(S) \in Nat
<1>1. fn.n \in Nat \ {0}
  BY DEF TypeOK, WellFormed
<1>2. IsFiniteSet(1 .. fn.n) /\ Cardinality(1 .. fn.n) = fn.n
  <2>1. Cardinality(1 .. fn.n) = IF 1 > fn.n THEN 0 ELSE fn.n - 1 + 1
    BY <1>1, FS_Interval
  <2> QED
    BY <1>1, <2>1, FS_Interval
<1>3. ASSUME NEW S \in SUBSET Block
      PROVE  IsFiniteSet(S) /\ Cardinality(S) \in Nat
  <2>1. IsFiniteSet(S)
    BY <1>2, FS_Subset DEF Block
  <2> QED
    BY <2>1, FS_CardinalityType
<1> QED
  BY <1>2, <1>3 DEF Block

\* One block more of a chain
LEMMA FirstOfNext ==
  ASSUME NEW c, NEW m \in Nat
  PROVE  FirstOf(c, m + 1) = FirstOf(c, m) \cup {chains[c][m + 1]}
<1>1. 1 .. m + 1 = (1 .. m) \cup {m + 1}
  OBVIOUS
<1> QED
  BY <1>1 DEF FirstOf

\* A filled chain has a first and a last block.
LEMMA FilledChain ==
  ASSUME TypeOK, NEW c \in Filled
  PROVE  /\ c \in Block /\ chains[c] \in Seq(Block) /\ Len(chains[c]) \in Nat \ {0}
         /\ Last(chains[c]) = chains[c][Len(chains[c])]
         /\ \A x \in 1 .. Len(chains[c]) : chains[c][x] \in Block
<1>1. c \in Block /\ chains[c] # << >> /\ chains[c] \in Seq(Block)
  BY DEF Filled, TypeOK
<1> DEFINE ch == chains[c]
<1>2. ch \in Seq(Block) /\ ch # << >>
  BY <1>1
<1> HIDE DEF ch
<1>3. /\ Len(ch) \in Nat \ {0}
      /\ Last(ch) = ch[Len(ch)]
      /\ \A x \in 1 .. Len(ch) : ch[x] \in Block
  BY <1>2 DEF Last
<1> QED
  BY <1>1, <1>3 DEF ch

\* A chain has as many blocks as it is long, for no block is in it twice.
LEMMA ChainCounted ==
  ASSUME TypeOK, ChainsDisjoint, NEW c \in Block
  PROVE  Cardinality(FirstOf(c, Len(chains[c]))) = Len(chains[c])
<1> DEFINE l == Len(chains[c])
           f == [x \in 1 .. l |-> chains[c][x]]
           F == FirstOf(c, l)
<1>1. l \in Nat
  BY DEF TypeOK
<1>2. \A x, y \in 1 .. l : chains[c][x] = chains[c][y] => x = y
  BY DEF ChainsDisjoint
<1>3. F = {chains[c][x] : x \in 1 .. l}
  BY DEF FirstOf
<1> HIDE DEF l, F
<1>4. f \in Bijection(1 .. l, F)
  <2>1. f \in [1 .. l -> F]
    BY <1>3
  <2>2. \A x, y \in 1 .. l : f[x] = f[y] => x = y
    BY <1>2
  <2>3. \A e \in F : \E x \in 1 .. l : f[x] = e
    BY <1>3
  <2> HIDE DEF f
  <2>4. f \in Injection(1 .. l, F)
    BY <2>1, <2>2 DEF Injection, IsInjective
  <2>5. f \in Surjection(1 .. l, F)
    BY <2>1, <2>3 DEF Surjection
  <2> QED
    BY <2>4, <2>5 DEF Bijection
<1>5. ExistsBijection(1 .. l, F)
  BY <1>4 DEF ExistsBijection
<1>6. IsFiniteSet(1 .. l) /\ Cardinality(1 .. l) = l
  <2>1. Cardinality(1 .. l) = IF 1 > l THEN 0 ELSE l - 1 + 1
    BY <1>1, FS_Interval
  <2> QED
    BY <1>1, <2>1, FS_Interval
<1>7. Cardinality(F) = l
  BY <1>5, <1>6, FS_Bijection
<1> QED
  BY <1>7 DEF F, l

-----------------------------------------------------------------------------
(* The layout keeps the invariant *)

\* The layout starts behind the chain of the entry block; nothing has moved,
\* and there is an iteration for every chain.
LEMMA FindEntryStep ==
  ASSUME IInv, PlaceInv, FindEntryChain
  PROVE  PlaceInv'
<1>1. TypeOK /\ ChainsDisjoint /\ EntryHeadsChain /\ Entry \in Block
  <2>1. TypeOK /\ ChainsDisjoint /\ EntryHeadsChain
    BY Zenon DEF IInv, ChainsPartition
  <2>2. WellFormed(fn)
    BY <2>1, Zenon DEF TypeOK
  <2>3. Entry \in Block
    BY <2>2 DEF WellFormed, Block, Entry
  <2> QED
    BY <2>1, <2>3, Zenon
<1>2. /\ pc = "merge" /\ pc' = "choose" /\ chains' = chains /\ Block' = Block /\ i' = 1
      /\ moved' = 0
  BY DEF FindEntryChain, mergeVars, input, Block, PlaceInv, Layout
<1>3. PICK c \in Block : /\ chains[c] # << >> /\ chains[c][1] = Entry
                         /\ chainIndex' = c /\ visitedChains' = {c} /\ curr' = Last(chains[c])
  BY DEF FindEntryChain
<1>4. c = Entry /\ Entry \in Filled
  <2>1. Entry \in Filled /\ c \in Filled
    BY <1>1, <1>3 DEF Filled, EntryHeadsChain
  <2>2. 1 \in 1 .. Len(chains[c]) /\ 1 \in 1 .. Len(chains[Entry])
    BY <1>1, <2>1, FilledChain
  <2> QED
    BY <1>1, <1>3, <2>1, <2>2 DEF ChainsDisjoint, EntryHeadsChain
<1>5. Filled' = Filled
  BY <1>2 DEF Filled
<1>6. EnoughRounds'
  <2>1. Unplaced' = Filled \ {Entry} /\ Rounds' = Filled
    <3>1. \A r \in Filled : 1 <= r
      BY DEF Filled, Block
    <3> QED
      BY <1>2, <1>3, <1>4, <1>5, <3>1 DEF Unplaced, Rounds
  <2>2. IsFiniteSet(Filled) /\ Cardinality(Filled) \in Nat
    BY <1>1, BlocksFinite DEF Filled
  <2>3. Cardinality(Filled \ {Entry}) = Cardinality(Filled) - 1
    BY <1>4, <2>2, FS_RemoveElement
  <2>4. Cardinality(Filled \ {Entry}) < Cardinality(Filled)
    BY <2>2, <2>3
  <2> QED
    BY <2>1, <2>4 DEF EnoughRounds
<1>7. ChainsPlaced'
  <2>1. PlacedChains' = {}
    BY <1>3, <1>4 DEF PlacedChains
  <2>2. MovedBlocks' = {}
    BY <1>2, <2>1 DEF MovedBlocks, Moved
  <2>3. moved' = Cardinality(MovedBlocks')
    BY <1>2, <2>2, FS_EmptySet
  <2> QED
    BY <1>3, <1>4, <1>5, <2>1, <2>3 DEF ChainsPlaced
<1>8. AtCurr'
  BY <1>2, <1>3 DEF AtCurr
<1> QED
  BY <1>2, <1>6, <1>7, <1>8 DEF PlaceInv, PlacingChain

\* Choosing a chain moves no block yet.
LEMMA ChooseStep ==
  ASSUME IInv, PlaceInv, ChooseChain
  PROVE  PlaceInv'
<1>1. TypeOK
  BY DEF IInv
<1>2. /\ pc = "choose" /\ pc' = "move" /\ chains' = chains /\ Block' = Block /\ j' = 1
      /\ i' = i /\ visitedChains' = visitedChains /\ chainIndex' = chainIndex
      /\ curr' = curr /\ pos' = pos /\ moved' = moved
  BY DEF ChooseChain, mergeVars, input, Block
<1>3. EnoughRounds /\ ChainsPlaced /\ AtCurr
  BY <1>2 DEF PlaceInv, Layout
<1>4. Filled' = Filled /\ PlacedChains' = PlacedChains /\ Candidates' = Candidates
  BY <1>2 DEF Filled, PlacedChains, Candidates
<1>5. newChain' \in Candidates /\ i \in Filled
  <2>1. PICK c \in Block : NextChain(c) /\ newChain' = c
    BY DEF ChooseChain
  <2>2. c # None
    BY <1>1 DEF Block, None, TypeOK, WellFormed
  <2>3. newChain' \in Candidates
    BY <2>1, <2>2 DEF NextChain, Linked
  <2>4. i \in Filled
    BY <1>1 DEF ChooseChain, Filled, Block, TypeOK
  <2> QED
    BY <2>3, <2>4
<1>6. EnoughRounds'
  BY <1>2, <1>3, <1>4 DEF EnoughRounds, Unplaced, Rounds
<1>7. ChainsPlaced'
  <2>1. \A b : Moved(b)' <=> Moved(b)
    BY <1>2, <1>4 DEF Moved, FirstOf
  <2>2. MovedBlocks' = MovedBlocks
    BY <1>2, <2>1 DEF MovedBlocks
  <2> QED
    BY <1>2, <1>3, <1>4, <2>2 DEF ChainsPlaced, InOnePiece
<1>8. AtCurr'
  BY <1>2, <1>3 DEF AtCurr
<1>9. PlacingChain'
  <2>1. newChain' \in Filled
    BY <1>5 DEF Candidates, Filled
  <2>2. Len(chains[newChain']) \in Nat
    BY <1>1, <2>1, FilledChain
  <2>3. InOnePiece(newChain, j - 1)'
    BY <1>2 DEF InOnePiece
  <2> QED
    BY <1>2, <1>4, <1>5, <2>2, <2>3 DEF PlacingChain
<1> QED
  BY <1>2, <1>6, <1>7, <1>8, <1>9 DEF PlaceInv, Layout

\* An iteration that places nothing either has an empty chain or refuses the
\* one chain that is left.
LEMMA SkipStep ==
  ASSUME IInv, PlaceInv, SkipIteration
  PROVE  PlaceInv'
<1>1. TypeOK /\ i \in Nat \ {0} /\ fn.n \in Nat
  BY DEF IInv, TypeOK, WellFormed
<1>2. /\ pc = "choose" /\ pc' = "choose" /\ chains' = chains /\ Block' = Block
      /\ i' = i + 1 /\ visitedChains' = visitedChains /\ chainIndex' = chainIndex
      /\ curr' = curr /\ pos' = pos /\ moved' = moved
  BY DEF SkipIteration, mergeVars, input, Block
<1>3. EnoughRounds /\ ChainsPlaced /\ AtCurr
  BY <1>2 DEF PlaceInv, Layout
<1>4. Filled' = Filled /\ PlacedChains' = PlacedChains /\ Unplaced' = Unplaced
  BY <1>2 DEF Filled, PlacedChains, Unplaced
<1>5. Filled \subseteq Block /\ Block \subseteq Nat
  BY DEF Filled, Block
<1>6. Rounds' = Rounds \ {i}
  <2>1. \A r \in Filled : i + 1 <= r <=> i <= r /\ r # i
    BY <1>1, <1>5
  <2> QED
    BY <1>2, <1>4, <2>1 DEF Rounds
<1>7. EnoughRounds'
  <2>1. CASE chains[i] = << >>
    <3>1. i \notin Filled
      BY <2>1 DEF Filled
    <3>2. Rounds' = Rounds
      BY <1>6, <3>1 DEF Rounds
    <3>3. \A u \in Block : u < i => u < i + 1
      BY <1>1, <1>5
    <3> QED
      BY <1>2, <1>3, <1>4, <3>2, <3>3 DEF EnoughRounds
  <2>2. CASE chains[i] # << >>
    <3>1. i \in Filled
      BY <1>1, <2>2 DEF SkipIteration, Filled, Block
    <3>2. Candidates = {}
      <4>1. None \notin Block
        BY DEF Block, None
      <4> QED
        BY <2>2, <4>1 DEF SkipIteration, NextChain, Linked, Candidates
    <3>3. Unplaced \subseteq {i}
      BY <3>2 DEF Unplaced, Filled, Candidates
    <3>4. CASE Unplaced = {}
      BY <1>4, <3>4 DEF EnoughRounds
    <3>5. CASE Unplaced = {i}
      <4>1. ~ \E u \in Block : Unplaced = {u} /\ u < i
        <5> SUFFICES ASSUME NEW u \in Block, Unplaced = {u}, u < i
                     PROVE  FALSE
          OBVIOUS
        <5>1. u = i
          BY <3>5
        <5> QED
          BY <1>1, <5>1
      <4>2. Cardinality(Unplaced) < Cardinality(Rounds)
        BY <1>3, <3>5, <4>1 DEF EnoughRounds
      <4>3. Cardinality(Unplaced) = 1
        BY <3>5, FS_Singleton
      <4>4. IsFiniteSet(Rounds) /\ Cardinality(Rounds) \in Nat
        BY <1>1, <1>5, BlocksFinite DEF Rounds
      <4>5. i \in Rounds
        BY <1>1, <3>1 DEF Rounds
      <4>6. Cardinality(Rounds \ {i}) = Cardinality(Rounds) - 1
        BY <4>4, <4>5, FS_RemoveElement
      <4>7. Cardinality(Rounds \ {i}) # 0
        BY <4>2, <4>3, <4>4, <4>6
      <4>8. Rounds \ {i} # {}
        BY <4>7, FS_EmptySet
      <4>9. i < i + 1 /\ i \in Block
        BY <1>1, <1>5, <3>1
      <4> QED
        BY <1>2, <1>4, <3>5, <1>6, <4>8, <4>9 DEF EnoughRounds
    <3> QED
      BY <3>3, <3>4, <3>5
  <2> QED
    BY <2>1, <2>2
<1>8. ChainsPlaced'
  <2>1. \A b : Moved(b)' <=> Moved(b)
    BY <1>2, <1>4 DEF Moved, FirstOf
  <2>2. MovedBlocks' = MovedBlocks
    BY <1>2, <2>1 DEF MovedBlocks
  <2> QED
    BY <1>2, <1>3, <1>4, <2>2 DEF ChainsPlaced, InOnePiece
<1>9. AtCurr'
  BY <1>2, <1>3 DEF AtCurr
<1> QED
  BY <1>2, <1>7, <1>8, <1>9 DEF PlaceInv, PlacingChain

\* A block goes behind the one that was placed last: no chain that has been
\* placed is torn apart, and the block was not counted before.
LEMMA MoveStep ==
  ASSUME IInv, PlaceInv, MoveBlock
  PROVE  PlaceInv'
<1> DEFINE b == chains[newChain][j]
<1>1. TypeOK /\ ChainsDisjoint /\ IsPermutation(pos, fn.n) /\ fn.n \in Nat \ {0} /\ j \in Nat \ {0}
  BY DEF IInv, ChainsPartition, LayoutValid, TypeOK, WellFormed
<1>2. /\ pc = "move" /\ pc' = "move" /\ chains' = chains /\ Block' = Block /\ j' = j + 1
      /\ i' = i /\ visitedChains' = visitedChains /\ chainIndex' = chainIndex
      /\ newChain' = newChain /\ curr' = b /\ pos' = MoveAfter(pos, b, curr)
      /\ moved' = moved + 1
  BY DEF MoveBlock, mergeVars, input, Block
<1>3. EnoughRounds /\ ChainsPlaced /\ AtCurr /\ PlacingChain
  BY <1>2 DEF PlaceInv, Layout
<1>4. Filled' = Filled /\ PlacedChains' = PlacedChains /\ Candidates' = Candidates
  BY <1>2 DEF Filled, PlacedChains, Candidates
<1>5. /\ newChain \in Filled /\ newChain \notin visitedChains
      /\ visitedChains \subseteq Filled /\ chainIndex \in visitedChains
  BY <1>2, <1>3 DEF PlacingChain, ChainsPlaced, Candidates, Filled
<1>6. j \in 1 .. Len(chains[newChain]) /\ Len(chains[newChain]) \in Nat
  BY <1>1, <1>5, FilledChain DEF MoveBlock
<1>7. b \in Block
  BY <1>1, <1>5, <1>6, FilledChain
<1>8. PICK c0 \in Filled, x0 \in Nat :
        /\ x0 \in 1 .. Len(chains[c0]) /\ curr = chains[c0][x0]
        /\ \/ c0 = chainIndex /\ x0 = Len(chains[c0])
           \/ c0 = newChain /\ x0 = j - 1
  <2>1. CASE j = 1
    <3>1. curr = Last(chains[chainIndex]) /\ chainIndex \in Filled
      BY <1>2, <1>3, <1>5, <2>1 DEF AtCurr
    <3>2. /\ Len(chains[chainIndex]) \in 1 .. Len(chains[chainIndex])
          /\ curr = chains[chainIndex][Len(chains[chainIndex])]
      BY <1>1, <3>1, FilledChain
    <3> QED
      BY <3>1, <3>2
  <2>2. CASE j > 1
    <3>1. curr = chains[newChain][j - 1]
      BY <1>2, <1>3, <2>2 DEF AtCurr
    <3>2. j - 1 \in 1 .. Len(chains[newChain])
      BY <1>6, <2>2
    <3> QED
      BY <1>5, <3>1, <3>2
  <2> QED
    BY <1>1, <2>1, <2>2
<1>9. \A c, d \in Filled : \A x \in 1 .. Len(chains[c]), y \in 1 .. Len(chains[d]) :
        chains[c][x] = chains[d][y] => c = d /\ x = y
  BY <1>1 DEF ChainsDisjoint, Filled
<1>10. curr \in Block /\ b # curr
  <2>1. curr \in Block
    BY <1>1, <1>8, FilledChain
  <2>2. ASSUME b = curr
        PROVE  FALSE
    <3>1. newChain = c0 /\ j = x0
      BY <1>5, <1>6, <1>8, <1>9, <2>2
    <3> QED
      BY <1>1, <1>5, <1>8, <3>1
  <2> QED
    BY <2>1, <2>2
<1> HIDE DEF b
\* Neighbours that are placed and not behind curr stay neighbours.
<1>11. ASSUME NEW c \in Filled, NEW x \in 1 .. Len(chains[c]) - 1,
              Follows(pos, chains[c][x], chains[c][x + 1]),
              c = newChain => x + 1 < j, c # newChain => c \in visitedChains
       PROVE  Follows(pos', chains[c][x], chains[c][x + 1])
  <2>1. Len(chains[c]) \in Nat /\ x \in 1 .. Len(chains[c]) /\ x + 1 \in 1 .. Len(chains[c])
    BY <1>1, FilledChain
  <2>2. chains[c][x] \in Block /\ chains[c][x + 1] \in Block
    BY <1>1, <2>1, FilledChain
  <2>3. b # chains[c][x] /\ b # chains[c][x + 1]
    <3>1. CASE c = newChain
      <4>1. x # j /\ x + 1 # j
        BY <1>11, <2>1, <3>1
      <4> QED
        BY <1>5, <1>6, <1>9, <2>1, <3>1, <4>1 DEF b
    <3>2. CASE c # newChain
      BY <1>5, <1>6, <1>9, <2>1, <3>2 DEF b
    <3> QED
      BY <3>1, <3>2
  <2>4. curr # chains[c][x]
    <3> SUFFICES ASSUME curr = chains[c][x]
                 PROVE  FALSE
      OBVIOUS
    <3>1. c = c0 /\ x = x0
      <4>1. chains[c][x] = chains[c0][x0] /\ x0 \in 1 .. Len(chains[c0])
        BY <1>8
      <4> QED
        BY <1>9, <2>1, <4>1
    <3>2. CASE c0 = chainIndex /\ x0 = Len(chains[c0])
      BY <2>1, <3>1, <3>2
    <3>3. CASE c0 = newChain /\ x0 = j - 1
      <4>1. x + 1 < j /\ x = j - 1
        BY <1>11, <3>1, <3>3
      <4> QED
        BY <1>1, <2>1, <4>1
    <3> QED
      BY <1>8, <3>2, <3>3
  <2>5. Follows(MoveAfter(pos, b, curr), chains[c][x], chains[c][x + 1])
    BY <1>1, <1>7, <1>10, <1>11, <2>2, <2>3, <2>4, MoveKeepsFollows DEF Block
  <2> QED
    BY <1>2, <2>5
<1>12. \A c \in PlacedChains : InOnePiece(c, Len(chains[c]))'
  <2> SUFFICES ASSUME NEW c \in PlacedChains, NEW x \in 1 .. Len(chains[c]) - 1
               PROVE  Follows(pos', chains[c][x], chains[c][x + 1])
    BY <1>2 DEF InOnePiece
  <2>1. c \in Filled /\ c \in visitedChains /\ c # newChain
    BY <1>5 DEF PlacedChains
  <2>2. Follows(pos, chains[c][x], chains[c][x + 1])
    BY <1>3 DEF ChainsPlaced, InOnePiece
  <2> QED
    BY <1>11, <2>1, <2>2
<1>13. InOnePiece(newChain, j - 1)'
  <2> SUFFICES ASSUME NEW x \in 1 .. (j + 1) - 1 - 1
               PROVE  Follows(pos', chains[newChain][x], chains[newChain][x + 1])
    BY <1>2 DEF InOnePiece
  <2>1. CASE x < j - 1
    <3>1. x \in 1 .. (j - 1) - 1 /\ x \in 1 .. Len(chains[newChain]) - 1 /\ x + 1 < j
      BY <1>6, <2>1
    <3>2. Follows(pos, chains[newChain][x], chains[newChain][x + 1])
      BY <1>2, <1>3, <3>1 DEF PlacingChain, InOnePiece
    <3> QED
      BY <1>5, <1>11, <3>1, <3>2
  <2>2. CASE x = j - 1
    <3>1. chains[newChain][x + 1] = b
      BY <1>1, <2>2 DEF b
    <3>2. curr = chains[newChain][x]
      BY <1>1, <1>2, <1>3, <2>2 DEF AtCurr
    <3>3. Follows(MoveAfter(pos, b, curr), curr, b)
      BY <1>1, <1>7, <1>10, MoveJoins DEF Block
    <3> QED
      BY <1>2, <3>1, <3>2, <3>3
  <2> QED
    BY <1>1, <2>1, <2>2
<1>14. moved' = Cardinality(MovedBlocks')
  <2>1. FirstOf(newChain, (j + 1) - 1) = FirstOf(newChain, j - 1) \cup {b}
    <3>1. j - 1 \in Nat /\ (j - 1) + 1 = j /\ (j + 1) - 1 = j
      BY <1>1
    <3>2. FirstOf(newChain, (j - 1) + 1)
            = FirstOf(newChain, j - 1) \cup {chains[newChain][(j - 1) + 1]}
      BY <3>1, FirstOfNext
    <3> QED
      BY <3>1, <3>2 DEF b
  <2>2. \A a : Moved(a)' <=> Moved(a) \/ a = b
    BY <1>2, <1>4, <2>1 DEF Moved, FirstOf
  <2>3. MovedBlocks' = MovedBlocks \cup {b}
    BY <1>2, <1>7, <2>2 DEF MovedBlocks
  <2>4. b \notin MovedBlocks
    <3>1. ASSUME NEW c \in PlacedChains, b \in FirstOf(c, Len(chains[c]))
          PROVE  FALSE
      <4>1. c \in Filled /\ c # newChain
        BY <1>5 DEF PlacedChains
      <4>2. PICK x \in 1 .. Len(chains[c]) : chains[c][x] = b
        BY <3>1 DEF FirstOf
      <4> QED
        BY <1>5, <1>6, <1>9, <4>1, <4>2 DEF b
    <3>2. ASSUME b \in FirstOf(newChain, j - 1)
          PROVE  FALSE
      <4>1. PICK x \in 1 .. j - 1 : chains[newChain][x] = b
        BY <3>2 DEF FirstOf
      <4>2. x \in 1 .. Len(chains[newChain]) /\ x # j
        BY <1>6
      <4> QED
        BY <1>5, <1>6, <1>9, <4>1, <4>2 DEF b
    <3> QED
      BY <3>1, <3>2 DEF MovedBlocks, Moved
  <2>5. MovedBlocks \in SUBSET Block
    BY DEF MovedBlocks
  <2>6. IsFiniteSet(MovedBlocks)
    BY <1>1, <2>5, BlocksFinite
  <2>7. Cardinality(MovedBlocks \cup {b}) = Cardinality(MovedBlocks) + 1
    BY <2>4, <2>6, FS_AddElement
  <2> QED
    BY <1>2, <1>3, <2>3, <2>7 DEF ChainsPlaced
<1>15. EnoughRounds'
  BY <1>2, <1>3, <1>4 DEF EnoughRounds, Unplaced, Rounds
<1>16. ChainsPlaced'
  BY <1>2, <1>3, <1>4, <1>12, <1>14 DEF ChainsPlaced
<1>17. AtCurr'
  <2>1. j' # 1 /\ j' - 1 = j
    BY <1>1, <1>2
  <2> QED
    BY <1>2, <2>1 DEF AtCurr, b
<1>18. PlacingChain'
  <2>1. j' <= Len(chains[newChain]) + 1
    BY <1>2, <1>6
  <2> QED
    BY <1>2, <1>3, <1>4, <1>13, <2>1 DEF PlacingChain
<1> QED
  BY <1>2, <1>15, <1>16, <1>17, <1>18 DEF PlaceInv, Layout

\* A placed chain uses up one iteration.
LEMMA EndStep ==
  ASSUME IInv, PlaceInv, EndChain
  PROVE  PlaceInv'
<1>1. TypeOK /\ EntryHeadsChain /\ LayoutInv /\ i \in Nat \ {0} /\ j \in Nat \ {0}
  BY DEF IInv, TypeOK
<1>2. /\ pc = "move" /\ pc' = "choose" /\ chains' = chains /\ Block' = Block /\ i' = i + 1
      /\ visitedChains' = visitedChains \cup {newChain} /\ chainIndex' = newChain
      /\ curr' = curr /\ pos' = pos /\ moved' = moved
  BY DEF EndChain, mergeVars, input, Block
<1>3. EnoughRounds /\ ChainsPlaced /\ AtCurr /\ PlacingChain
  BY <1>2 DEF PlaceInv, Layout
<1>4. Filled' = Filled /\ Filled \subseteq Nat
  <2>1. Filled' = Filled
    BY <1>2 DEF Filled
  <2> QED
    BY <2>1 DEF Filled, Block
<1>5. /\ newChain \in Filled /\ newChain \notin visitedChains /\ newChain # i /\ i \in Filled
      /\ newChain # Entry
  BY <1>1, <1>2, <1>3 DEF PlacingChain, Candidates, Filled, LayoutInv
<1>6. Len(chains[newChain]) \in Nat \ {0} /\ j = Len(chains[newChain]) + 1
  <2>1. Len(chains[newChain]) \in Nat \ {0}
    BY <1>1, <1>5, FilledChain
  <2>2. j > Len(chains[newChain]) /\ j <= Len(chains[newChain]) + 1
    BY <1>2, <1>3 DEF EndChain, PlacingChain
  <2> QED
    BY <1>1, <2>1, <2>2
<1>7. j - 1 = Len(chains[newChain]) /\ j > 1
  BY <1>6
<1>8. EnoughRounds'
  <2>1. Unplaced' = Unplaced \ {newChain} /\ newChain \in Unplaced
    BY <1>2, <1>4, <1>5 DEF Unplaced
  <2>2. Rounds' = Rounds \ {i} /\ i \in Rounds
    <3>1. \A r \in Filled : i + 1 <= r <=> i <= r /\ r # i
      BY <1>1, <1>4
    <3>2. Rounds' = {r \in Filled : i + 1 <= r}
      BY <1>2, <1>4 DEF Rounds
    <3>3. i <= i
      BY <1>1
    <3> QED
      BY <1>5, <3>1, <3>2, <3>3 DEF Rounds
  <2>3. CASE Cardinality(Unplaced) < Cardinality(Rounds)
    <3>1. Unplaced \in SUBSET Block /\ Rounds \in SUBSET Block
      BY DEF Unplaced, Rounds, Filled
    <3>2. IsFiniteSet(Unplaced) /\ IsFiniteSet(Rounds)
          /\ Cardinality(Unplaced) \in Nat /\ Cardinality(Rounds) \in Nat
      BY <1>1, <3>1, BlocksFinite
    <3>3. /\ Cardinality(Unplaced \ {newChain}) = Cardinality(Unplaced) - 1
          /\ Cardinality(Rounds \ {i}) = Cardinality(Rounds) - 1
      BY <2>1, <2>2, <3>2, FS_RemoveElement
    <3>4. Cardinality(Unplaced') < Cardinality(Rounds')
      BY <2>1, <2>2, <2>3, <3>2, <3>3
    <3> QED
      BY <3>4 DEF EnoughRounds
  <2>4. CASE \E u \in Block : Unplaced = {u}
    <3>1. Unplaced' = {}
      BY <2>1, <2>4
    <3> QED
      BY <3>1 DEF EnoughRounds
  <2> QED
    BY <1>3, <2>1, <2>3, <2>4 DEF EnoughRounds
<1>9. PlacedChains' = PlacedChains \cup {newChain}
  BY <1>2, <1>5 DEF PlacedChains
<1>10. ChainsPlaced'
  <2>1. \A a : Moved(a)' <=> Moved(a)
    BY <1>2, <1>7, <1>9 DEF Moved, FirstOf
  <2>2. MovedBlocks' = MovedBlocks
    BY <1>2, <2>1 DEF MovedBlocks
  <2>3. InOnePiece(newChain, Len(chains[newChain]))
    BY <1>2, <1>3, <1>7 DEF PlacingChain
  <2>4. \A c \in PlacedChains' : InOnePiece(c, Len(chains[c]))'
    BY <1>2, <1>3, <1>9, <2>3 DEF ChainsPlaced, InOnePiece
  <2> QED
    BY <1>2, <1>3, <1>4, <1>5, <2>2, <2>4 DEF ChainsPlaced
<1>11. AtCurr'
  <2>1. curr = chains[newChain][Len(chains[newChain])]
    BY <1>2, <1>3, <1>7 DEF AtCurr
  <2>2. Last(chains[newChain]) = chains[newChain][Len(chains[newChain])]
    BY <1>1, <1>5, FilledChain
  <2> QED
    BY <1>2, <2>1, <2>2 DEF AtCurr
<1> QED
  BY <1>2, <1>8, <1>10, <1>11 DEF PlaceInv, PlacingChain, Layout

\* A step that changes nothing the invariant speaks of, the last one included
LEMMA LayoutKept ==
  ASSUME PlaceInv, UNCHANGED <<fn, chains, placeVars>>,
         pc' = pc \/ (pc = "choose" /\ pc' = "return" /\ i > fn.n)
  PROVE  PlaceInv'
<1>1. /\ chains' = chains /\ Block' = Block /\ i' = i /\ j' = j /\ newChain' = newChain
      /\ visitedChains' = visitedChains /\ chainIndex' = chainIndex
      /\ curr' = curr /\ pos' = pos /\ moved' = moved /\ fn' = fn
  BY DEF placeVars, Block
<1>2. /\ pc' \in Layout <=> pc \in Layout
      /\ pc' = "move" <=> pc = "move"
      /\ pc' = "choose" => pc = "choose"
      /\ pc' = "return" => i > fn.n
  BY DEF PlaceInv, Layout
<1>3. Filled' = Filled /\ PlacedChains' = PlacedChains /\ Candidates' = Candidates
  BY <1>1 DEF Filled, PlacedChains, Candidates
<1>4. EnoughRounds' <=> EnoughRounds
  BY <1>1, <1>3 DEF EnoughRounds, Unplaced, Rounds
<1>5. ChainsPlaced' <=> ChainsPlaced
  <2>1. \A b : Moved(b)' <=> Moved(b)
    BY <1>1, <1>2, <1>3 DEF Moved, FirstOf
  <2>2. MovedBlocks' = MovedBlocks
    BY <1>1, <2>1 DEF MovedBlocks
  <2> QED
    BY <1>1, <1>3, <2>2 DEF ChainsPlaced, InOnePiece
<1>6. AtCurr => AtCurr'
  BY <1>1, <1>2 DEF AtCurr
<1>7. PlacingChain' <=> PlacingChain
  BY <1>1, <1>2, <1>3 DEF PlacingChain, InOnePiece
<1> QED
  BY <1>1, <1>2, <1>4, <1>5, <1>6, <1>7 DEF PlaceInv

\* Every step of the pass keeps the invariant.
LEMMA NextPlaceInv == IInv /\ PlaceInv /\ [Next]_vars => PlaceInv'
<1> SUFFICES ASSUME IInv, PlaceInv, [Next]_vars
             PROVE  PlaceInv'
  OBVIOUS
<1>1. CASE FindEntryChain
  BY <1>1, FindEntryStep
<1>2. CASE ChooseChain
  BY <1>2, ChooseStep
<1>3. CASE SkipIteration
  BY <1>3, SkipStep
<1>4. CASE MoveBlock
  BY <1>4, MoveStep
<1>5. CASE EndChain
  BY <1>5, EndStep
<1>6. CASE Return
  <2>1. UNCHANGED <<fn, chains, placeVars>>
    BY <1>6 DEF Return, input, mergeVars
  <2> QED
    BY <1>6, <2>1, LayoutKept DEF Return
<1>7. CASE UNCHANGED vars
  <2>1. UNCHANGED <<fn, chains, placeVars>> /\ pc' = pc
    BY <1>7 DEF vars, input, mergeVars
  <2> QED
    BY <2>1, LayoutKept
<1>8. CASE moved' = moved /\ {pc, pc'} \cap Layout = {}
  BY <1>8 DEF PlaceInv, Layout
<1>9. PopBlock \/ WalkSuccessor \/ EndSuccessors \/ EndWalk \/ AssertFails =>
        moved' = moved /\ {pc, pc'} \cap Layout = {}
  BY DEF PopBlock, WalkSuccessor, EndSuccessors, EndWalk, AssertFails, placeVars, Layout
<1>10. BeginAppend \/ NextArc \/ AppendBlock \/ EndAppend =>
        moved' = moved /\ {pc, pc'} \cap Layout = {}
  BY DEF BeginAppend, NextArc, AppendBlock, EndAppend, placeVars, Layout
<1> QED
  BY <1>1, <1>2, <1>3, <1>4, <1>5, <1>6, <1>7, <1>8, <1>9, <1>10 DEF Next, Terminated

-----------------------------------------------------------------------------
(* The theorems *)

\* At every step of the layout there are iterations left for the chains that
\* are not placed, and those that are placed are in one piece.
THEOREM PlaceInvHolds == Spec => []PlaceInv
<1>1. Init => PlaceInv
  BY DEF Init, PlaceInv, Layout
<1>2. IInv /\ PlaceInv /\ [Next]_vars => PlaceInv'
  BY NextPlaceInv
<1> QED
  BY <1>1, <1>2, InvariantHolds, PTL DEF Spec

\* When no iteration is left, no chain is.
LEMMA NoneUnplaced ==
  ASSUME TypeOK, PlaceInv, pc = "return"
  PROVE  visitedChains = Filled
<1>1. EnoughRounds /\ ChainsPlaced /\ i > fn.n
  BY DEF PlaceInv, Layout
<1>2. Rounds = {}
  <2>1. i \in Nat /\ fn.n \in Nat
    BY DEF TypeOK, WellFormed
  <2>2. \A r \in Filled : ~(i <= r)
    <3>1. \A r \in Block : ~(i <= r)
      BY <1>1, <2>1 DEF Block
    <3> QED
      BY <3>1 DEF Filled
  <2> QED
    BY <2>2 DEF Rounds
<1>3. Unplaced = {}
  <2>1. Unplaced \in SUBSET Block
    BY DEF Unplaced, Filled
  <2>2. Cardinality(Unplaced) \in Nat
    BY <2>1, BlocksFinite
  <2>3. Cardinality(Rounds) = 0
    BY <1>2, FS_EmptySet
  <2>4. ~(Cardinality(Unplaced) < Cardinality(Rounds))
    BY <2>2, <2>3
  <2> QED
    BY <1>1, <1>2, <2>4 DEF EnoughRounds
<1> QED
  BY <1>1, <1>3 DEF Unplaced, ChainsPlaced

\* When the pass returns it has placed every chain, although an iteration
\* never places the chain of its own index, and NumMovedBlocks counts every
\* block outside the entry chain once: for every function and profile.
THEOREM EveryChainPlaced == Spec => []AllChainsPlaced
<1>1. IInv /\ PlaceInv => AllChainsPlaced
  <2> SUFFICES ASSUME IInv, PlaceInv, pc = "return"
               PROVE  /\ visitedChains = {c \in Block : chains[c] # << >>}
                      /\ moved = fn.n - Len(chains[Entry])
    BY DEF AllChainsPlaced
  <2>1. TypeOK /\ ChainsDisjoint /\ ChainsCover /\ Entry \in Block
    BY DEF IInv, ChainsPartition, TypeOK, WellFormed, Block, Entry
  <2>2. visitedChains = Filled
    BY <2>1, NoneUnplaced
  <2>3. ChainsPlaced
    BY DEF PlaceInv, Layout
  <2> DEFINE E == FirstOf(Entry, Len(chains[Entry]))
  <2>4. E \subseteq Block
    BY <2>1, <2>2, <2>3, FilledChain DEF FirstOf, ChainsPlaced
  <2>5. MovedBlocks = Block \ E
    <3>1. ASSUME NEW b \in Block, Moved(b)
          PROVE  b \notin E
      <4>1. PICK c \in PlacedChains : b \in FirstOf(c, Len(chains[c]))
        BY <3>1 DEF Moved
      <4>2. c \in Block /\ c # Entry
        BY <2>2, <4>1 DEF PlacedChains, Filled
      <4>3. PICK x \in 1 .. Len(chains[c]) : chains[c][x] = b
        BY <4>1 DEF FirstOf
      <4>4. \A y \in 1 .. Len(chains[Entry]) : chains[Entry][y] # b
        BY <2>1, <4>2, <4>3 DEF ChainsDisjoint
      <4> QED
        BY <4>4 DEF FirstOf
    <3>2. ASSUME NEW b \in Block, b \notin E
          PROVE  Moved(b)
      <4>1. PICK c \in Block : \E x \in 1 .. Len(chains[c]) : chains[c][x] = b
        BY <2>1 DEF ChainsCover
      <4>2. b \in FirstOf(c, Len(chains[c]))
        BY <4>1 DEF FirstOf
      <4>3. c # Entry
        BY <3>2, <4>2
      <4>4. chains[c] # << >>
        BY <4>1
      <4>5. c \in PlacedChains
        BY <2>2, <4>3, <4>4 DEF PlacedChains, Filled
      <4> QED
        BY <4>2, <4>5 DEF Moved
    <3> HIDE DEF E
    <3> QED
      BY <3>1, <3>2 DEF MovedBlocks
  <2>6. Cardinality(E) = Len(chains[Entry])
    BY <2>1, ChainCounted
  <2> HIDE DEF E
  <2>7. IsFiniteSet(Block) /\ Cardinality(Block) = fn.n
    BY <2>1, BlocksFinite
  <2>8. Cardinality(Block \ E) = Cardinality(Block) - Cardinality(Block \cap E)
    BY <2>7, FS_Difference
  <2>9. Block \cap E = E
    BY <2>4
  <2>10. moved = fn.n - Len(chains[Entry])
    BY <2>3, <2>5, <2>6, <2>7, <2>8, <2>9 DEF ChainsPlaced
  <2> QED
    BY <2>2, <2>10 DEF Filled
<1> QED
  BY <1>1, PlaceInvHolds, InvariantHolds, PTL

\* When the pass returns, the blocks of every chain but the entry chain follow
\* one another in chain order: moves that came later tore no chain apart.
THEOREM ChainsInOnePiece == Spec => []ChainsContiguous
<1>1. IInv /\ PlaceInv => ChainsContiguous
  <2> SUFFICES ASSUME IInv, PlaceInv, pc = "return",
                      NEW c \in Block \ {Entry}, NEW x \in 1 .. Len(chains[c]) - 1
               PROVE  pos[chains[c][x + 1]] = pos[chains[c][x]] + 1
    BY DEF ChainsContiguous
  <2>1. TypeOK
    BY DEF IInv
  <2>2. visitedChains = Filled
    BY <2>1, NoneUnplaced
  <2>3. chains[c] # << >>
    OBVIOUS
  <2>4. c \in PlacedChains
    BY <2>2, <2>3 DEF PlacedChains, Filled
  <2> QED
    BY <2>4 DEF PlaceInv, Layout, ChainsPlaced, InOnePiece, Follows
<1> QED
  BY <1>1, PlaceInvHolds, InvariantHolds, PTL
=============================================================================
